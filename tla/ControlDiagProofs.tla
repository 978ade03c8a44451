------------------------- MODULE ControlDiagProofs -------------------------
(***************************************************************************)
(* Theorems about the diagnostics of the Control ECU, for every number of  *)
(* requests, FIFO and queue size and every set of requests.  An iteration  *)
(* of the receive task is a chain of calls on one record, so each call has *)
(* a lemma of its own: given a sound record it leaves a sound one.         *)
(*                                                                         *)
(* Of the link only what a call puts on the bus and confirms matters: that *)
(* of an outcome is one of six kinds (Outcome).  Of the frames in the FIFO *)
(* the response that each of them leaves open matters: a function op over  *)
(* their positions (Stream), which every call extends at the end and the   *)
(* bus shortens at the front.                                              *)
(***************************************************************************)
EXTENDS ControlDiag, TLAPS

TxFields == {"state", "msg", "offset", "seq", "blockSize", "blockCount", "stMin", "timer", "lastCf",
             "waitCount"}
StateFields == {"link", "server", "fifo", "cycle", "accepted", "pendingBy", "resets", "givenUp",
                "restarted"}

IsSeq(s) == \E S : s \in Seq(S)

\* msg is the response to some request, Of(msg) the number of that request.
IsResponse(msg) == \E id \in Nat, n \in Nat \ {0} : msg = ResponseTo(id, n)
Of(msg) == msg[1][1]

\* The First Frame is out and the last Consecutive Frame is not.
Mid(tx) == tx.state \in {"WAIT_FC", "SEND_CF"}

\* The tester asks for no blocks and no STmin.
TxOK(tx) ==
    /\ DOMAIN tx = TxFields
    /\ tx.state \in {"IDLE", "SEND_FIRST", "WAIT_FC", "SEND_CF"}
    /\ tx.blockSize = 0 /\ tx.stMin = 0
    /\ tx.state /= "IDLE" => IsResponse(tx.msg)
    /\ Mid(tx) => tx.offset \in Nat /\ tx.offset < Len(tx.msg)

\* Every request is a single frame: nothing is ever being received.
LinkOK(l) ==
    /\ DOMAIN l = {"tx", "rx", "fcPending"}
    /\ TxOK(l.tx)
    /\ l.rx = IdleRx /\ l.fcPending = NoFc

Server == [session : {"default", "extended"}, age : Nat, pendingReset : {"none", "hard", "soft"}]

\* A frame of a response to request id.
IsPart(f, pci, id) == f.pci = pci /\ IdOf(f) = id

\* What a call that finds the sender's side as tx makes of it, with room for
\* that many frames: it stays, gets FF or SF or CFs out, or gives up.
Outcome(tx, o, room) ==
    LET id == Of(tx.msg)
        after == o.link.tx
    IN  /\ LinkOK(o.link)
        /\ IsSeq(o.out) /\ Len(o.out) <= room
        /\ \/ /\ o.out = <<>> /\ o.conf = <<>>
              /\ Mid(after) <=> Mid(tx)
              /\ Mid(tx) => after.msg = tx.msg
           \/ /\ ~Mid(tx) /\ Mid(after) /\ after.msg = tx.msg
              /\ o.conf = <<>>
              /\ \E f : o.out = <<f>> /\ IsPart(f, "FF", id)
           \/ /\ ~Mid(tx) /\ ~Mid(after)
              /\ o.conf = <<"OK">>
              /\ \E f : o.out = <<f>> /\ IsPart(f, "SF", id) /\ IsLast(f)
           \/ /\ Mid(tx) /\ Mid(after) /\ after.msg = tx.msg
              /\ o.conf = <<>>
              /\ \A k \in DOMAIN o.out : IsPart(o.out[k], "CF", id)
           \/ /\ Mid(tx) /\ ~Mid(after)
              /\ o.conf = <<"OK">>
              /\ \A k \in DOMAIN o.out : IsPart(o.out[k], "CF", id)
              /\ o.out /= <<>> /\ IsLast(o.out[Len(o.out)])
           \/ /\ o.out = <<>> /\ ~Mid(after)
              /\ \E e : o.conf = <<e>> /\ e /= "OK"

LEMMA Sizes == /\ CanDl \in Nat /\ CanDl >= 3
               /\ SfMax \in Nat /\ FfData \in Nat /\ CfMax \in Nat
               /\ SfMax = FfData + 1 /\ CfMax = SfMax /\ FfData >= 1
BY SizeAssumption DEF SfMax, FfData, CfMax

LEMMA EmptySeq == IsSeq(<<>>)
<1>1. <<>> \in Seq({})
  OBVIOUS
<1> QED
  BY <1>1 DEF IsSeq

LEMMA SingleSeq == ASSUME NEW x PROVE IsSeq(<<x>>) /\ Len(<<x>>) = 1 /\ <<x>>[1] = x
<1>1. <<x>> \in Seq({x})
  OBVIOUS
<1> QED
  BY <1>1 DEF IsSeq

LEMMA Conf == ASSUME NEW e, e /= "OK"
              PROVE  <<e>> /= <<"OK">> /\ <<e>> /= <<>> /\ <<"OK">> /= <<>>
OBVIOUS

-----------------------------------------------------------------------------
(* Responses and their frames.                                             *)

LEMMA ResponseBytes ==
    ASSUME NEW msg, IsResponse(msg)
    PROVE  /\ IsSeq(msg) /\ Len(msg) \in Nat \ {0} /\ DOMAIN msg = 1 .. Len(msg)
           /\ Of(msg) \in Nat
           /\ \A k \in 1 .. Len(msg) :
                 msg[k] = <<Of(msg), k, Len(msg)>> /\ msg[k] /= Pad
<1>1. PICK id \in Nat, n \in Nat \ {0} : msg = ResponseTo(id, n)
  BY DEF IsResponse
<1> DEFINE Byte == Nat \X Nat \X Nat
<1>2. \A k \in 1 .. n : <<id, k, n>> \in Byte
  BY <1>1
<1>3. msg = [k \in 1 .. n |-> <<id, k, n>>]
  BY <1>1 DEF ResponseTo
<1>4. msg \in Seq(Byte) /\ Len(msg) = n
  <2> HIDE DEF Byte
  <2> QED
    BY <1>1, <1>2, <1>3
<1>5. \A k \in 1 .. n : msg[k] = <<id, k, n>>
  BY <1>3
<1>6. Of(msg) = id
  <2>1. msg[1] = <<id, 1, n>>
    BY <1>1, <1>5
  <2> QED
    BY <2>1 DEF Of
<1>7. \A k \in 1 .. n : msg[k] /= Pad
  BY <1>2, <1>5, PadAssumption
<1> QED
  BY <1>1, <1>3, <1>4, <1>5, <1>6, <1>7 DEF IsSeq

LEMMA PaddedBytes ==
    ASSUME NEW bytes, IsSeq(bytes), NEW n \in Nat
    PROVE  /\ IsSeq(Padded(bytes, n)) /\ Len(Padded(bytes, n)) = n
           /\ \A k \in 1 .. n : k <= Len(bytes) => Padded(bytes, n)[k] = bytes[k]
<1>1. PICK S : bytes \in Seq(S)
  BY DEF IsSeq
<1> DEFINE T == S \cup {Pad}
           p == Padded(bytes, n)
<1>2. p = [k \in 1 .. n |-> IF k <= Len(bytes) THEN bytes[k] ELSE Pad]
  BY DEF Padded
<1>3. \A k \in 1 .. n : (IF k <= Len(bytes) THEN bytes[k] ELSE Pad) \in T
  BY <1>1
<1>4. p \in Seq(T) /\ Len(p) = n
  <2> HIDE DEF T, p
  <2> QED
    BY <1>2, <1>3
<1> QED
  BY <1>2, <1>4 DEF IsSeq

LEMMA SingleFrameOf ==
    ASSUME NEW msg, IsResponse(msg), Len(msg) <= SfMax
    PROVE  IsPart(SingleFrame(msg), "SF", Of(msg)) /\ IsLast(SingleFrame(msg))
<1> DEFINE f == SingleFrame(msg)
           n == Len(msg)
<1>1. f.pci = "SF" /\ f.data = Padded(msg, SfMax)
  BY DEF SingleFrame
<1>2. /\ IsSeq(msg) /\ n \in Nat \ {0} /\ n <= SfMax
      /\ \A k \in 1 .. n : msg[k] = <<Of(msg), k, n>> /\ msg[k] /= Pad
  BY ResponseBytes
<1>3. Len(f.data) = SfMax /\ f.data[1] = msg[1] /\ f.data[n] = msg[n]
  BY <1>1, <1>2, PaddedBytes, Sizes, SMTT(30)
<1>4. msg[1] = <<Of(msg), 1, n>> /\ msg[n] = <<Of(msg), n, n>> /\ msg[n] /= Pad
  BY <1>2
<1> HIDE DEF f
<1>5. IdOf(f) = Of(msg)
  BY <1>3, <1>4 DEF IdOf
<1>6. IsLast(f)
  <2>1. n \in 1 .. Len(f.data)
    BY <1>2, <1>3, Sizes
  <2>2. f.data[n][2] = f.data[n][3]
    BY <1>3, <1>4
  <2> QED
    BY <1>3, <1>4, <2>1, <2>2 DEF IsLast
<1> QED
  BY <1>1, <1>5, <1>6 DEF IsPart, f

LEMMA FirstFrameOf ==
    ASSUME NEW msg, IsResponse(msg)
    PROVE  IsPart(FirstFrame(msg), "FF", Of(msg))
<1> DEFINE f == FirstFrame(msg)
<1>1. f.pci = "FF" /\ f.data = SubSeq(msg, 1, FfData)
  BY DEF FirstFrame
<1>2. IsSeq(msg) /\ 1 \in 1 .. Len(msg) /\ msg[1] = <<Of(msg), 1, Len(msg)>>
  BY ResponseBytes
<1>3. f.data[1] = msg[1]
  <2>1. f.data = [k \in 1 .. FfData |-> msg[1 + k - 1]]
    BY <1>1, Sizes
  <2> QED
    BY <2>1, Sizes
<1>4. IdOf(f) = Of(msg)
  BY <1>2, <1>3 DEF IdOf
<1> HIDE DEF f
<1> QED
  BY <1>1, <1>4 DEF IsPart, f

LEMMA Quotient ==
    ASSUME NEW a \in Nat, NEW c \in Nat \ {0}
    PROVE  a \div c \in Nat /\ c * (a \div c) <= a /\ a < c * (a \div c) + c
<1>1. a \div c \in Nat /\ a % c \in 0 .. c - 1
  OBVIOUS
<1>2. a = c * (a \div c) + (a % c)
  OBVIOUS
<1>3. c * (a \div c) \in Nat
  BY <1>1
<1> QED
  BY <1>1, <1>2, <1>3

LEMMA Product ==
    ASSUME NEW k \in Nat, NEW n \in Nat, k <= n, NEW c \in Nat
    PROVE  c * k \in Nat /\ c * n \in Nat /\ c * k <= c * n /\ k * c = c * k /\ c * (k + 1) = c * k + c
<1>1. \E d \in Nat : n = k + d
  <2>1. n - k \in Nat /\ n = k + (n - k)
    OBVIOUS
  <2> QED
    BY <2>1
<1>2. PICK d \in Nat : n = k + d
  BY <1>1
<1>3. c * n = c * k + c * d /\ c * d \in Nat /\ c * k \in Nat
  BY <1>2
<1> QED
  BY <1>3

\* The frames that are left bring the bytes that are left, each at least one.
LEMMA CfsLeftBounds ==
    ASSUME NEW tx, TxOK(tx), Mid(tx)
    PROVE  /\ CfsLeft(tx) \in Nat
           /\ \A k \in Nat : 1 <= k /\ k <= CfsLeft(tx) =>
                 /\ (k - 1) * CfMax \in Nat
                 /\ tx.offset + (k - 1) * CfMax < Len(tx.msg)
                 /\ k * CfMax = (k - 1) * CfMax + CfMax
<1> DEFINE left == Len(tx.msg) - tx.offset
           q == CfsLeft(tx)
           c == CfMax
<1>1. /\ left \in Nat \ {0} /\ tx.offset \in Nat /\ Len(tx.msg) \in Nat
      /\ c \in Nat \ {0}
  <2>1. IsResponse(tx.msg)
    BY DEF TxOK, Mid
  <2>2. Len(tx.msg) \in Nat
    BY <2>1, ResponseBytes
  <2> QED
    BY <2>2, Sizes DEF TxOK
<1>2. q = (left + c - 1) \div c
  BY DEF CfsLeft
<1> HIDE DEF c, q
<1>3. q \in Nat /\ c * q <= left + c - 1
  <2> DEFINE a == left + c - 1
  <2>1. a \in Nat
    BY <1>1
  <2> HIDE DEF a
  <2>2. a \div c \in Nat /\ c * (a \div c) <= a
    BY <1>1, <2>1, Quotient
  <2> QED
    BY <1>2, <2>2 DEF a
<1>4. ASSUME NEW k \in Nat, 1 <= k, k <= q
      PROVE  /\ (k - 1) * c \in Nat
             /\ tx.offset + (k - 1) * c < Len(tx.msg)
             /\ k * c = (k - 1) * c + c
  <2> DEFINE j == k - 1
  <2>1. j \in Nat /\ k = j + 1
    BY <1>4
  <2> HIDE DEF j
  <2>2. c * j \in Nat /\ j * c = c * j /\ c * (j + 1) = c * j + c
    BY <1>1, <2>1, Product
  <2>3. c * k <= c * q /\ k * c = c * k /\ c * q \in Nat
    BY <1>1, <1>3, <1>4, Product
  <2> DEFINE x == c * j
             z == c * q
  <2>4. x \in Nat /\ z \in Nat /\ x + c <= z /\ z <= left + c - 1 /\ j * c = x /\ k * c = x + c
    BY <1>3, <2>1, <2>2, <2>3
  <2> HIDE DEF x, z
  <2>5. tx.offset + x < Len(tx.msg)
    BY <1>1, <2>4, SMTT(30)
  <2> QED
    BY <2>4, <2>5 DEF j
<1> QED
  BY <1>3, <1>4 DEF c, q

LEMMA ChunkBytes ==
    ASSUME NEW msg, IsResponse(msg), NEW first \in Nat, first < Len(msg),
           NEW f, f.data = Padded(SubSeq(msg, first + 1, Least(Len(msg), first + CfMax)), CfMax)
    PROVE  /\ IdOf(f) = Of(msg)
           /\ first + CfMax >= Len(msg) => IsLast(f)
<1> DEFINE n == Len(msg)
           last == Least(n, first + CfMax)
           chunk == SubSeq(msg, first + 1, last)
           m == last - first
<1>1. /\ IsSeq(msg) /\ n \in Nat \ {0}
      /\ \A k \in 1 .. n : msg[k] = <<Of(msg), k, n>> /\ msg[k] /= Pad
  BY ResponseBytes
<1>2. last \in Nat /\ first < last /\ last <= n /\ m \in 1 .. CfMax
      /\ (first + CfMax >= n => last = n)
  <2>1. n \in Nat /\ first < n /\ CfMax \in Nat \ {0}
    BY <1>1, Sizes
  <2> HIDE DEF n
  <2> QED
    BY <2>1 DEF Least
<1>3. IsSeq(chunk) /\ Len(chunk) = m /\ \A k \in 1 .. m : chunk[k] = msg[first + k]
  <2>1. PICK S : msg \in Seq(S)
    BY <1>1 DEF IsSeq
  <2> HIDE DEF last
  <2>2. chunk \in Seq(S) /\ Len(chunk) = m /\ \A k \in 1 .. m : chunk[k] = msg[first + k]
    BY <1>1, <1>2, <2>1
  <2> QED
    BY <2>2 DEF IsSeq
<1> HIDE DEF last, chunk, m
<1>4. /\ IsSeq(f.data) /\ Len(f.data) = CfMax
      /\ \A k \in 1 .. m : f.data[k] = chunk[k]
  <2>1. f.data = Padded(chunk, CfMax)
    BY DEF chunk, last
  <2>2. CfMax \in Nat
    BY Sizes
  <2>3. IsSeq(f.data) /\ Len(f.data) = CfMax
    BY <1>3, <2>1, <2>2, PaddedBytes
  <2>4. \A k \in 1 .. CfMax : k <= m => f.data[k] = chunk[k]
    BY <1>3, <2>1, <2>2, PaddedBytes, ZenonT(30)
  <2>5. \A k \in 1 .. m : k \in 1 .. CfMax /\ k <= m
    BY <1>2, <2>2
  <2> QED
    BY <2>3, <2>4, <2>5
<1>5. \A k \in 1 .. m : f.data[k] = <<Of(msg), first + k, n>> /\ f.data[k] /= Pad
  <2> SUFFICES ASSUME NEW k \in 1 .. m
               PROVE  f.data[k] = <<Of(msg), first + k, n>> /\ f.data[k] /= Pad
    OBVIOUS
  <2>1. first + k \in 1 .. n
    BY <1>1, <1>2 DEF m
  <2>2. f.data[k] = msg[first + k]
    BY <1>3, <1>4
  <2> QED
    BY <1>1, <2>1, <2>2
<1>6. IdOf(f) = Of(msg)
  BY <1>2, <1>5 DEF IdOf
<1>7. ASSUME first + CfMax >= n PROVE IsLast(f)
  <2>1. m \in 1 .. Len(f.data) /\ first + m = n
    BY <1>1, <1>2, <1>4, <1>7 DEF m
  <2>2. f.data[m] /= Pad /\ f.data[m][2] = f.data[m][3]
    BY <1>2, <1>5, <2>1, SMTT(30)
  <2> QED
    BY <2>1, <2>2 DEF IsLast
<1> QED
  BY <1>6, <1>7

-----------------------------------------------------------------------------
(* The sender's side of the link.                                          *)

LEMMA IdleOK == TxOK(IdleTx) /\ ~Mid(IdleTx) /\ LinkOK(InitialLink) /\ IdleTx.state = "IDLE"
BY DEF IdleTx, TxOK, TxFields, Mid, LinkOK, InitialLink

LEMMA UnchangedOutcome ==
    ASSUME NEW l, LinkOK(l), NEW room \in Nat
    PROVE  Outcome(l.tx, Unchanged(l), room)
<1> DEFINE o == Unchanged(l)
<1>1. o.link = l /\ o.out = <<>> /\ o.conf = <<>>
  BY DEF Unchanged
<1>2. Len(o.out) <= room
  BY <1>1
<1> HIDE DEF o
<1> QED
  BY <1>1, <1>2, EmptySeq DEF Outcome, o

LEMMA FinishLink ==
    ASSUME NEW l, LinkOK(l), NEW result
    PROVE  LET o == TxFinish(l, result)
           IN  /\ DOMAIN o = {"link", "out", "ind", "conf"}
               /\ LinkOK(o.link) /\ o.link.tx = IdleTx
               /\ o.out = <<>> /\ o.ind = <<>> /\ o.conf = <<result>>
<1> DEFINE m == [l EXCEPT !.tx = IdleTx]
           o == TxFinish(l, result)
<1>1. m.tx = IdleTx /\ LinkOK(m)
  BY IdleOK DEF LinkOK
<1>2. /\ DOMAIN o = {"link", "out", "ind", "conf"}
      /\ o.link = m /\ o.conf = <<result>> /\ o.out = <<>> /\ o.ind = <<>>
  BY DEF TxFinish, Unchanged
<1> HIDE DEF m, o
<1> QED
  BY <1>1, <1>2 DEF o

LEMMA GivesUp ==
    ASSUME NEW l, LinkOK(l), NEW result, result /= "OK", NEW room \in Nat
    PROVE  Outcome(l.tx, TxFinish(l, result), room)
<1> DEFINE o == TxFinish(l, result)
<1>1. LinkOK(o.link) /\ o.link.tx = IdleTx /\ o.out = <<>> /\ o.conf = <<result>>
  BY FinishLink
<1> HIDE DEF o
<1>2. IsSeq(o.out) /\ Len(o.out) <= room
  BY <1>1, EmptySeq
<1>3. ~Mid(o.link.tx)
  BY <1>1, IdleOK
<1> QED
  BY <1>1, <1>2, <1>3 DEF Outcome, o

LEMMA FirstOutcome ==
    ASSUME NEW l, LinkOK(l), l.tx.state = "SEND_FIRST", NEW room \in Nat
    PROVE  Outcome(l.tx, TxSendFirst(l, room > 0), room)
<1> DEFINE msg == l.tx.msg
           o == TxSendFirst(l, room > 0)
<1>1. IsResponse(msg) /\ Len(msg) \in Nat \ {0} /\ ~Mid(l.tx) /\ TxOK(l.tx)
  BY ResponseBytes DEF LinkOK, TxOK, Mid
<1>2. CASE ~(room > 0)
  BY <1>2, UnchangedOutcome DEF TxSendFirst
<1>3. CASE room > 0 /\ Len(msg) <= SfMax
  <2> DEFINE p == TxFinish(l, "OK")
             f == SingleFrame(msg)
  <2>1. o = [p EXCEPT !.out = <<f>>]
    BY <1>3 DEF TxSendFirst
  <2>2. /\ DOMAIN p = {"link", "out", "ind", "conf"}
        /\ LinkOK(p.link) /\ p.link.tx = IdleTx /\ p.conf = <<"OK">>
    BY FinishLink
  <2> HIDE DEF p
  <2>3. o.link = p.link /\ o.conf = <<"OK">> /\ o.out = <<f>>
    BY <2>1, <2>2
  <2>4. IsPart(f, "SF", Of(msg)) /\ IsLast(f)
    BY <1>1, <1>3, SingleFrameOf
  <2> HIDE DEF f, o
  <2>5. IsSeq(o.out) /\ Len(o.out) <= room
    BY <1>3, <2>3, SingleSeq
  <2>6. ~Mid(o.link.tx)
    BY <2>2, <2>3, IdleOK
  <2> QED
    BY <1>1, <2>2, <2>3, <2>4, <2>5, <2>6 DEF Outcome, o
<1>4. CASE room > 0 /\ ~(Len(msg) <= SfMax)
  <2> DEFINE m == [l EXCEPT !.tx.offset = FfData, !.tx.seq = 1, !.tx.waitCount = 0,
                            !.tx.state = "WAIT_FC", !.tx.timer = 0]
             f == FirstFrame(msg)
  <2>1. o.link = m /\ o.conf = <<>> /\ o.out = <<f>>
    BY <1>4 DEF TxSendFirst, Unchanged
  <2>2. /\ DOMAIN m = {"tx", "rx", "fcPending"} /\ m.rx = l.rx /\ m.fcPending = l.fcPending
        /\ DOMAIN m.tx = TxFields /\ m.tx.state = "WAIT_FC" /\ m.tx.offset = FfData
        /\ m.tx.msg = msg /\ m.tx.blockSize = l.tx.blockSize /\ m.tx.stMin = l.tx.stMin
    <3>1. DOMAIN l = {"tx", "rx", "fcPending"} /\ DOMAIN l.tx = TxFields
      BY DEF LinkOK, TxOK
    <3> QED
      BY <3>1, ZenonT(30) DEF TxFields
  <2>3. IsPart(f, "FF", Of(msg))
    BY <1>1, FirstFrameOf
  <2> HIDE DEF m, f, o
  <2>4. TxOK(m.tx) /\ Mid(m.tx)
    BY <1>1, <1>4, <2>2, Sizes DEF TxOK, Mid
  <2>5. LinkOK(m)
    BY <2>2, <2>4 DEF LinkOK
  <2>6. IsSeq(o.out) /\ Len(o.out) <= room
    BY <1>4, <2>1, SingleSeq
  <2> QED
    BY <1>1, <2>1, <2>2, <2>3, <2>4, <2>5, <2>6 DEF Outcome, o
<1> QED
  BY <1>2, <1>3, <1>4

LEMMA CfsNowBounds ==
    ASSUME NEW tx, TxOK(tx), Mid(tx), NEW room \in Nat
    PROVE  CfsNow(tx, room) \in Nat /\ CfsNow(tx, room) <= CfsLeft(tx) /\ CfsNow(tx, room) <= room
<1>1. CfsLeft(tx) \in Nat
  BY CfsLeftBounds
<1>2. CfsNow(tx, room) = Least(Least(CfsLeft(tx), CfsLeft(tx)), Least(CfsLeft(tx), room))
  BY DEF CfsNow, TxOK
<1> QED
  BY <1>1, <1>2 DEF Least

\* The Consecutive Frames of one call: parts of the response, the last of them
\* its end when the bytes that were left are out.
LEMMA CfFrames ==
    ASSUME NEW tx, TxOK(tx), Mid(tx), NEW n \in Nat, n <= CfsLeft(tx),
           NEW frames,
           frames = [k \in 1 .. n |-> ConsecutiveFrame((tx.seq + k - 1) % SeqMod, CfChunk(tx, k))]
    PROVE  /\ IsSeq(frames) /\ Len(frames) = n
           /\ \A k \in DOMAIN frames : IsPart(frames[k], "CF", Of(tx.msg))
           /\ tx.offset + n * CfMax >= Len(tx.msg) =>
                 frames /= <<>> /\ IsLast(frames[Len(frames)])
<1> DEFINE msg == tx.msg
           Cf(k) == ConsecutiveFrame((tx.seq + k - 1) % SeqMod, CfChunk(tx, k))
           S == {Cf(k) : k \in 1 .. n}
<1>1. frames = [k \in 1 .. n |-> Cf(k)]
  OBVIOUS
<1>2. /\ IsResponse(msg) /\ Len(msg) \in Nat \ {0} /\ tx.offset \in Nat /\ tx.offset < Len(msg)
      /\ CfMax \in Nat \ {0}
  BY ResponseBytes, Sizes DEF TxOK, Mid
<1>3. ASSUME NEW k \in 1 .. n
      PROVE  /\ IsPart(Cf(k), "CF", Of(msg))
             /\ tx.offset + k * CfMax >= Len(msg) => IsLast(Cf(k))
  <2> DEFINE first == tx.offset + (k - 1) * CfMax
             f == Cf(k)
             next == tx.offset + k * CfMax
  <2>1. first \in Nat /\ first < Len(msg) /\ next = first + CfMax
    <3>1. /\ (k - 1) * CfMax \in Nat
          /\ tx.offset + (k - 1) * CfMax < Len(msg)
          /\ k * CfMax = (k - 1) * CfMax + CfMax
      BY CfsLeftBounds
    <3> DEFINE x == (k - 1) * CfMax
    <3>2. x \in Nat /\ first = tx.offset + x /\ first < Len(msg) /\ next = tx.offset + (x + CfMax)
      BY <3>1
    <3> HIDE DEF x, first, next
    <3> QED
      BY <1>2, <3>2, SMTT(30)
  <2>2. f.pci = "CF" /\ f.data = Padded(SubSeq(msg, first + 1, Least(Len(msg), next)), CfMax)
    BY DEF ConsecutiveFrame, CfChunk
  <2> HIDE DEF first, next, f, Cf
  <2>3. f.data = Padded(SubSeq(msg, first + 1, Least(Len(msg), first + CfMax)), CfMax)
    BY <2>1, <2>2
  <2> HIDE DEF msg
  <2>4. IdOf(f) = Of(msg) /\ (first + CfMax >= Len(msg) => IsLast(f))
    BY <1>2, <2>1, <2>3, ChunkBytes
  <2> QED
    BY <2>1, <2>2, <2>4 DEF IsPart, f, next
<1> HIDE DEF Cf
<1>4. IsSeq(frames) /\ Len(frames) = n /\ DOMAIN frames = 1 .. n /\ \A k \in 1 .. n : frames[k] = Cf(k)
  <2>1. frames \in Seq(S) /\ Len(frames) = n /\ DOMAIN frames = 1 .. n
    BY <1>1, SMTT(30)
  <2> HIDE DEF S
  <2> QED
    BY <1>1, <2>1 DEF IsSeq
<1>5. \A k \in DOMAIN frames : IsPart(frames[k], "CF", Of(msg))
  BY <1>3, <1>4
<1>6. ASSUME tx.offset + n * CfMax >= Len(msg)
      PROVE  frames /= <<>> /\ IsLast(frames[Len(frames)])
  <2>1. n /= 0
    <3> SUFFICES ASSUME n = 0 PROVE FALSE
      OBVIOUS
    <3>1. tx.offset + 0 * CfMax >= Len(msg) /\ 0 * CfMax = 0
      BY <1>2, <1>6
    <3> QED
      BY <1>2, <3>1
  <2>2. IsLast(Cf(n))
    BY <1>3, <1>6, <2>1
  <2>3. frames[Len(frames)] = Cf(n) /\ frames /= <<>>
    BY <1>4, <2>1
  <2> QED
    BY <2>2, <2>3
<1> QED
  BY <1>4, <1>5, <1>6

LEMMA CfsOutcome ==
    ASSUME NEW l, LinkOK(l), l.tx.state = "SEND_CF", NEW room \in Nat
    PROVE  Outcome(l.tx, TxSendConsecutiveFrames(l, room), room)
<1> DEFINE tx == l.tx
           n  == CfsNow(tx, room)
           frames == [k \in 1 .. n |-> ConsecutiveFrame((tx.seq + k - 1) % SeqMod, CfChunk(tx, k))]
           next == [tx EXCEPT !.offset = Least(Len(tx.msg), @ + n * CfMax),
                              !.seq = (@ + n) % SeqMod,
                              !.lastCf = IF n = 0 THEN @ ELSE 0,
                              !.blockCount = IF tx.blockSize = 0 THEN @ ELSE @ + n]
           blockDone == tx.blockSize /= 0 /\ n > 0 /\ next.blockCount >= tx.blockSize
           waiting == [next EXCEPT !.state = "WAIT_FC", !.timer = 0]
           o == TxSendConsecutiveFrames(l, room)
           p == TxFinish(l, "OK")
           m == [l EXCEPT !.tx = next]
<1>1. /\ TxOK(tx) /\ Mid(tx) /\ n \in Nat /\ n <= CfsLeft(tx) /\ n <= room
  BY CfsNowBounds DEF LinkOK, Mid
<1>2. /\ IsResponse(tx.msg) /\ Len(tx.msg) \in Nat \ {0} /\ tx.offset \in Nat
      /\ tx.offset < Len(tx.msg) /\ DOMAIN tx = TxFields /\ tx.blockSize = 0 /\ tx.stMin = 0
  BY <1>1, ResponseBytes DEF TxOK, Mid
<1>3. n * CfMax \in Nat
  <2> HIDE DEF n
  <2> QED
    BY <1>1, Sizes, Product
<1>4. o = [(CASE next.offset >= Len(tx.msg) -> p
             [] next.offset < Len(tx.msg) /\ blockDone -> Unchanged([l EXCEPT !.tx = waiting])
             [] OTHER -> Unchanged(m)) EXCEPT !.out = frames]
  BY DEF TxSendConsecutiveFrames
<1>5. ~blockDone
  BY <1>2
<1>6. /\ DOMAIN next = TxFields /\ next.state = "SEND_CF" /\ next.msg = tx.msg
      /\ next.offset = Least(Len(tx.msg), tx.offset + n * CfMax)
      /\ next.blockSize = 0 /\ next.stMin = 0
  <2> HIDE DEF n
  <2> QED
    BY <1>1, <1>2 DEF TxFields
<1>7. /\ next.offset \in Nat /\ next.offset <= Len(tx.msg)
      /\ next.offset >= Len(tx.msg) => tx.offset + n * CfMax >= Len(tx.msg)
  <2> DEFINE d == n * CfMax
  <2>1. d \in Nat /\ next.offset = Least(Len(tx.msg), tx.offset + d)
    BY <1>3, <1>6
  <2> HIDE DEF d, next
  <2>2. /\ next.offset \in Nat /\ next.offset <= Len(tx.msg)
        /\ next.offset >= Len(tx.msg) => tx.offset + d >= Len(tx.msg)
    BY <1>2, <2>1 DEF Least
  <2> QED
    BY <2>2 DEF d
<1>8. /\ IsSeq(frames) /\ Len(frames) = n
      /\ \A k \in DOMAIN frames : IsPart(frames[k], "CF", Of(tx.msg))
      /\ tx.offset + n * CfMax >= Len(tx.msg) => frames /= <<>> /\ IsLast(frames[Len(frames)])
  <2> HIDE DEF n
  <2> QED
    BY <1>1, CfFrames
<1> HIDE DEF frames, blockDone, waiting
<1>9. CASE next.offset >= Len(tx.msg)
  <2> HIDE DEF next, n
  <2>1. o = [p EXCEPT !.out = frames]
    <3>1. ~(next.offset < Len(tx.msg))
      BY <1>2, <1>7, <1>9
    <3> HIDE DEF p, m, o
    <3> QED
      BY <1>4, <1>9, <3>1
  <2>2. /\ DOMAIN p = {"link", "out", "ind", "conf"}
        /\ LinkOK(p.link) /\ p.link.tx = IdleTx /\ p.conf = <<"OK">>
    BY FinishLink
  <2> HIDE DEF p, o
  <2>3. o.link = p.link /\ o.conf = <<"OK">> /\ o.out = frames
    BY <2>1, <2>2
  <2>4. ~Mid(o.link.tx)
    BY <2>2, <2>3, IdleOK
  <2>5. IsSeq(o.out) /\ Len(o.out) <= room
    BY <1>1, <1>8, <2>3
  <2> QED
    BY <1>1, <1>7, <1>8, <1>9, <2>2, <2>3, <2>4, <2>5 DEF Outcome, o
<1>10. CASE ~(next.offset >= Len(tx.msg))
  <2>1. o = [Unchanged(m) EXCEPT !.out = frames]
    <3> HIDE DEF next, p, m, o
    <3> QED
      BY <1>4, <1>5, <1>10
  <2>2. o.link = m /\ o.conf = <<>> /\ o.out = frames
    <3> HIDE DEF m, o
    <3> QED
      BY <2>1 DEF Unchanged
  <2>3. TxOK(next) /\ Mid(next)
    <3> HIDE DEF next, n
    <3> QED
      BY <1>2, <1>6, <1>7, <1>10 DEF TxOK, Mid
  <2>4. LinkOK(m) /\ m.tx = next
    <3> HIDE DEF next
    <3> QED
      BY <2>3 DEF LinkOK
  <2> HIDE DEF next, n, m, o
  <2>5. IsSeq(o.out) /\ Len(o.out) <= room
    BY <1>1, <1>8, <2>2
  <2>6. LinkOK(o.link) /\ Mid(o.link.tx) /\ o.link.tx.msg = tx.msg
    BY <1>6, <2>2, <2>3, <2>4
  <2> QED
    BY <1>1, <1>8, <2>2, <2>5, <2>6 DEF Outcome, o
<1> QED
  BY <1>9, <1>10

LEMMA SenderOutcome ==
    ASSUME NEW l, LinkOK(l), NEW room \in Nat
    PROVE  Outcome(l.tx, MainSender(l, room), room)
<1>1. "ERR_TIMEOUT_BS" /= "OK"
  OBVIOUS
<1>2. CASE l.tx.state = "SEND_FIRST"
  BY <1>1, <1>2, FirstOutcome, GivesUp DEF MainSender
<1>3. CASE l.tx.state = "WAIT_FC"
  BY <1>1, <1>3, UnchangedOutcome, GivesUp DEF MainSender
<1>4. CASE l.tx.state = "SEND_CF"
  BY <1>4, CfsOutcome DEF MainSender
<1>5. CASE l.tx.state = "IDLE"
  BY <1>5, UnchangedOutcome DEF MainSender
<1> QED
  BY <1>2, <1>3, <1>4, <1>5 DEF LinkOK, TxOK

LEMMA AfterNothing == ASSUME NEW s, IsSeq(s) PROVE <<>> \o s = s
<1>1. PICK S : s \in Seq(S)
  BY DEF IsSeq
<1>2. <<>> \in Seq(S)
  OBVIOUS
<1>3. /\ Len(<<>> \o s) = Len(s) /\ <<>> \o s \in Seq(S)
      /\ \A k \in 1 .. Len(s) : (<<>> \o s)[k] = s[k]
  BY <1>1, <1>2
<1> DEFINE t == <<>> \o s
<1>4. t = [k \in 1 .. Len(s) |-> t[k]] /\ s = [k \in 1 .. Len(s) |-> s[k]]
  BY <1>1, <1>3
<1> HIDE DEF t
<1> QED
  BY <1>3, <1>4 DEF t

LEMMA ThenOutcome ==
    ASSUME NEW tx, NEW l, NEW p, NEW room \in Nat, Outcome(tx, p, room)
    PROVE  Outcome(tx, Then(Unchanged(l), p), room)
<1> DEFINE o == Then(Unchanged(l), p)
<1>1. IsSeq(p.out)
  BY DEF Outcome
<1>2. IsSeq(p.conf)
  <2>1. p.conf = <<>> \/ \E e : p.conf = <<e>>
    BY DEF Outcome
  <2> QED
    BY <2>1, EmptySeq, SingleSeq
<1>3. o.link = p.link /\ o.out = p.out /\ o.conf = p.conf
  BY <1>1, <1>2, AfterNothing DEF Then, Unchanged
<1> HIDE DEF o
<1> QED
  BY <1>3 DEF Outcome, o

LEMMA MainOutcome ==
    ASSUME NEW l, LinkOK(l), NEW room \in Nat
    PROVE  Outcome(l.tx, MainFunction(l, Cfg, room, room), room)
<1>1. MainReceiver(l, Cfg, room) = Unchanged(l)
  <2>1. l.rx.state = "IDLE" /\ l.fcPending = NoFc
    BY DEF LinkOK, IdleRx
  <2>2. Unchanged(l).link.rx.state /= "RECEIVING"
    BY <2>1 DEF Unchanged
  <2> QED
    BY <2>1, <2>2 DEF MainReceiver
<1>2. Unchanged(l).link = l
  BY DEF Unchanged
<1>3. MainFunction(l, Cfg, room, room) = Then(Unchanged(l), MainSender(l, room))
  BY <1>1, <1>2 DEF MainFunction
<1> QED
  BY <1>3, SenderOutcome, ThenOutcome

LEMMA FlowControlOutcome ==
    ASSUME NEW l, LinkOK(l), NEW room \in Nat
    PROVE  Outcome(l.tx, RxFrame(l, Cfg, TesterFc, room), room)
<1> DEFINE f == TesterFc
<1>1. f.pci = "FC" /\ f.dlc = CanDl /\ f.status = "CTS" /\ f.bs = 0 /\ f.stMin = 0
  BY DEF TesterFc
<1> HIDE DEF f
<1>2. RxFrame(l, Cfg, f, room) = TxOnFlowControl(l, f, room)
  BY <1>1, Sizes DEF RxFrame
<1>3. CASE l.tx.state /= "WAIT_FC"
  <2>1. TxOnFlowControl(l, f, room) = Unchanged(l)
    BY <1>3 DEF TxOnFlowControl
  <2> QED
    BY <1>2, <2>1, UnchangedOutcome DEF f
<1>4. CASE l.tx.state = "WAIT_FC"
  <2> DEFINE st == DecodeStMin(f.stMin)
             m == [l EXCEPT !.tx.blockSize = f.bs, !.tx.blockCount = 0, !.tx.waitCount = 0,
                            !.tx.stMin = st, !.tx.lastCf = st + 1, !.tx.timer = 0,
                            !.tx.state = "SEND_CF"]
             o == TxSendConsecutiveFrames(m, room)
  <2>1. TxOnFlowControl(l, f, room) = o
    BY <1>1, <1>4, Sizes DEF TxOnFlowControl
  <2>2. st = 0
    BY <1>1 DEF DecodeStMin
  <2> HIDE DEF st
  <2>3. /\ DOMAIN m = {"tx", "rx", "fcPending"} /\ m.rx = l.rx /\ m.fcPending = l.fcPending
        /\ DOMAIN m.tx = TxFields /\ m.tx.state = "SEND_CF" /\ m.tx.offset = l.tx.offset
        /\ m.tx.msg = l.tx.msg /\ m.tx.blockSize = 0 /\ m.tx.stMin = 0
    <3> DEFINE tx == [l.tx EXCEPT !.blockSize = f.bs, !.blockCount = 0, !.waitCount = 0,
                                  !.stMin = st, !.lastCf = st + 1, !.timer = 0, !.state = "SEND_CF"]
    <3>1. DOMAIN l = {"tx", "rx", "fcPending"} /\ DOMAIN l.tx = TxFields
      BY DEF LinkOK, TxOK
    <3>2. /\ DOMAIN tx = TxFields /\ tx.state = "SEND_CF" /\ tx.offset = l.tx.offset
          /\ tx.msg = l.tx.msg /\ tx.blockSize = f.bs /\ tx.stMin = st
      BY <3>1 DEF TxFields
    <3>3. m = [l EXCEPT !.tx = tx]
      BY <3>1, ZenonT(30)
    <3> HIDE DEF tx, m
    <3>4. /\ DOMAIN m = {"tx", "rx", "fcPending"} /\ m.tx = tx /\ m.rx = l.rx
          /\ m.fcPending = l.fcPending
      BY <3>1, <3>3
    <3> QED
      BY <1>1, <2>2, <3>2, <3>4
  <2> HIDE DEF m, o
  <2>4. TxOK(m.tx) /\ Mid(m.tx) /\ Mid(l.tx)
    BY <1>4, <2>3 DEF LinkOK, TxOK, Mid
  <2>5. LinkOK(m)
    BY <2>3, <2>4 DEF LinkOK
  <2>6. Outcome(m.tx, o, room)
    BY <2>3, <2>5, CfsOutcome DEF o
  <2>7. Outcome(l.tx, o, room)
    BY <2>3, <2>4, <2>6 DEF Outcome
  <2> QED
    BY <1>2, <2>1, <2>7 DEF f
<1> QED
  BY <1>3, <1>4

\* A transmission that begins.
Starting(msg) == [IdleTx EXCEPT !.msg = msg, !.state = "SEND_FIRST"]

LEMMA TransmitOutcome ==
    ASSUME NEW l, LinkOK(l), NEW msg, IsResponse(msg), NEW room \in Nat
    PROVE  Outcome(Starting(msg), Transmit(l, msg, room), room)
<1> DEFINE m == [l EXCEPT !.tx = Starting(msg)]
<1>1. TxOK(Starting(msg)) /\ Starting(msg).state = "SEND_FIRST"
  BY DEF Starting, IdleTx, TxOK, TxFields, Mid
<1>2. LinkOK(m) /\ m.tx = Starting(msg)
  BY <1>1 DEF LinkOK
<1>3. Transmit(l, msg, room) = TxSendFirst(m, room > 0)
  BY DEF Transmit, Starting
<1> HIDE DEF m
<1> QED
  BY <1>1, <1>2, <1>3, FirstOutcome

\* A single frame is delivered at once, or ignored if it is cut short.
LEMMA RequestReceived ==
    ASSUME NEW l, LinkOK(l), NEW r, NEW functional, NEW dlc \in {1, CanDl}, NEW room
    PROVE  LET f == RequestFrame(r, functional, dlc)
               o == RxFrame(l, Cfg, f, room)
           IN  IF IsWhole(f)
               THEN /\ LinkOK(o.link) /\ o.link.tx = l.tx
                    /\ o.ind /= <<>> /\ o.ind[1].data[1] = r
               ELSE o = Unchanged(l)
<1> DEFINE f == RequestFrame(r, functional, dlc)
           m == [l EXCEPT !.rx.data = SubSeq(f.data, 1, f.length), !.rx.length = f.length]
           fin == RxFinish(m, "OK")
           o == RxFrame(l, Cfg, f, room)
<1>1. f.pci = "SF" /\ f.dlc = dlc /\ f.length = 1 /\ f.data = Padded(<<r>>, SfMax)
  BY DEF RequestFrame
<1>2. Padded(<<r>>, SfMax)[1] = r /\ IsSeq(Padded(<<r>>, SfMax)) /\ Len(Padded(<<r>>, SfMax)) = SfMax
  <2> DEFINE b == <<r>>
  <2>1. IsSeq(b) /\ Len(b) = 1 /\ b[1] = r
    BY SingleSeq
  <2> HIDE DEF b
  <2>2. /\ IsSeq(Padded(b, SfMax)) /\ Len(Padded(b, SfMax)) = SfMax
        /\ \A k \in 1 .. SfMax : k <= Len(b) => Padded(b, SfMax)[k] = b[k]
    BY <2>1, PaddedBytes, Sizes
  <2>3. Padded(b, SfMax)[1] = r
    BY <2>1, <2>2, Sizes
  <2> QED
    BY <2>2, <2>3 DEF b
<1> HIDE DEF f
<1>3. f.data[1] = r /\ IsSeq(f.data) /\ Len(f.data) = SfMax
  BY <1>1, <1>2
<1>4. o = RxOnSingleFrame(l, Cfg, f)
  BY <1>1, Sizes DEF RxFrame
<1>5. RxInterrupt(l) = Unchanged(l) /\ Unchanged(l).link = l
  BY DEF RxInterrupt, LinkOK, IdleRx, Unchanged
<1>6. o = IF IsWhole(f) THEN Then(Unchanged(l), fin) ELSE Unchanged(l)
  <2>1. IsWhole(f) <=> ~(f.length = 0 \/ f.length > SfMax \/ f.length > f.dlc - 1 \/ f.length > Cfg.rxSize)
    BY <1>1, Sizes, CfgAssumption DEF IsWhole
  <2> QED
    BY <1>4, <1>5, <2>1 DEF RxOnSingleFrame
<1>7. fin.link.tx = l.tx /\ LinkOK(fin.link) /\ fin.ind = <<[result |-> "OK", data |-> SubSeq(m.rx.data, 1, m.rx.length)]>>
  <2>1. /\ DOMAIN m = {"tx", "rx", "fcPending"} /\ m.tx = l.tx /\ m.fcPending = l.fcPending
    BY DEF LinkOK
  <2> HIDE DEF m
  <2> DEFINE k == [m EXCEPT !.rx = IdleRx]
  <2>2. LinkOK(k) /\ k.tx = l.tx
    BY <2>1 DEF LinkOK
  <2>3. fin.link = k /\ fin.ind = <<[result |-> "OK", data |-> SubSeq(m.rx.data, 1, m.rx.length)]>>
    BY DEF RxFinish, Unchanged
  <2> HIDE DEF k, fin
  <2> QED
    BY <2>2, <2>3
<1>8. m.rx.data = SubSeq(f.data, 1, 1) /\ m.rx.length = 1
  BY <1>1 DEF LinkOK, IdleRx
<1>9. SubSeq(SubSeq(f.data, 1, 1), 1, 1)[1] = r
  <2>1. PICK S : f.data \in Seq(S)
    BY <1>3 DEF IsSeq
  <2> DEFINE d == f.data
  <2>2. d \in Seq(S) /\ Len(d) >= 1 /\ d[1] = r
    BY <1>3, <2>1, Sizes
  <2> HIDE DEF d
  <2>3. SubSeq(d, 1, 1) \in Seq(S) /\ Len(SubSeq(d, 1, 1)) = 1 /\ SubSeq(d, 1, 1)[1] = r
    BY <2>2
  <2> QED
    BY <2>3 DEF d
<1> HIDE DEF m, fin
<1>10. CASE IsWhole(f)
  <2> DEFINE i == [result |-> "OK", data |-> SubSeq(m.rx.data, 1, m.rx.length)]
  <2>1. i.data[1] = r
    BY <1>8, <1>9
  <2>2. fin.ind = <<i>>
    BY <1>7
  <2> HIDE DEF i, o
  <2>3. o.link = fin.link /\ o.ind = <<>> \o fin.ind
    BY <1>6, <1>10 DEF Then, Unchanged
  <2>4. o.ind = <<i>>
    BY <2>2, <2>3, AfterNothing, SingleSeq
  <2>5. o.ind /= <<>> /\ o.ind[1].data[1] = r
    BY <2>1, <2>4
  <2> QED
    BY <1>7, <1>10, <2>3, <2>5 DEF f, o
<1> QED
  BY <1>6, <1>10 DEF f

-----------------------------------------------------------------------------
(* The server.                                                             *)

\* What a service of state u returns; only an accepted 0x11 makes a reset
\* pending, only a 0x10 changes the session.
Served(u, s) ==
    /\ s.server \in Server /\ s.length \in Nat
    /\ s.server.pendingReset = u.pendingReset
    /\ s.server.age = u.age /\ s.server.session = u.session

LEMMA PositiveOK ==
    ASSUME NEW u \in Server, NEW n, NEW suppress
    PROVE  /\ Served(u, Positive(u, n, suppress))
           /\ Positive(u, n, suppress).nrc = 0 /\ Positive(u, n, suppress).server = u
BY ServerAssumption DEF Served, Positive

LEMMA RefuseOK ==
    ASSUME NEW u \in Server, NEW nrc
    PROVE  Served(u, Refuse(u, nrc)) /\ Refuse(u, nrc).nrc = nrc
BY DEF Served, Refuse

LEMMA SessionOK ==
    ASSUME NEW u \in Server, NEW r
    PROVE  LET s == SessionControl(u, r)
           IN  /\ s.server \in Server /\ s.length \in Nat
               /\ s.server.pendingReset = u.pendingReset /\ s.server.age = u.age
               /\ s.server.session \in {u.session, "extended"} \/ r.sub = 1
<1> DEFINE v == [u EXCEPT !.session = IF r.sub = 1 THEN "default" ELSE "extended"]
           p == Positive(v, 6, r.suppress)
<1>1. /\ v \in Server /\ v.pendingReset = u.pendingReset /\ v.age = u.age
      /\ v.session = "extended" \/ r.sub = 1
  BY DEF Server
<1> HIDE DEF v
<1>2. Served(v, p)
  BY <1>1, PositiveOK
<1> HIDE DEF p
<1>3. SessionControl(u, r) \in {Refuse(u, INCORRECT_LENGTH), Refuse(u, SUBFUNCTION), p}
  BY DEF SessionControl, p, v
<1>4. Served(u, Refuse(u, INCORRECT_LENGTH)) /\ Served(u, Refuse(u, SUBFUNCTION))
  BY RefuseOK
<1> QED
  BY <1>1, <1>2, <1>3, <1>4 DEF Served

LEMMA EcuResetOK ==
    ASSUME NEW u \in Server, NEW r
    PROVE  LET s == EcuReset(u, r)
           IN  \/ Served(u, s)
               \/ /\ s.nrc = 0 /\ s.server \in Server /\ s.length \in Nat
                  /\ s.server.age = u.age /\ s.server.session = u.session
<1> DEFINE v == [u EXCEPT !.pendingReset = IF r.sub = 1 THEN "hard" ELSE "soft"]
           p == Positive(v, 2, r.suppress)
<1>1. v \in Server /\ v.age = u.age /\ v.session = u.session
  BY DEF Server
<1> HIDE DEF v
<1>2. /\ p.nrc = 0 /\ p.server \in Server /\ p.length \in Nat
      /\ p.server.age = u.age /\ p.server.session = u.session
  BY <1>1, PositiveOK DEF Served
<1> HIDE DEF p
<1>3. EcuReset(u, r) \in {Refuse(u, INCORRECT_LENGTH), Refuse(u, SUBFUNCTION),
                          Refuse(u, SUBFUNC_IN_SESSION), p}
  BY DEF EcuReset, p, v
<1> QED
  BY <1>2, <1>3, RefuseOK

LEMMA OtherServicesOK ==
    ASSUME NEW u \in Server, NEW r
    PROVE  /\ Served(u, ClearDtc(u, r)) /\ Served(u, ReadDtc(u, r))
           /\ Served(u, ReadDid(u, r)) /\ Served(u, TesterPresent(u, r))
<1>1. Served(u, ClearDtc(u, r))
  BY PositiveOK, RefuseOK DEF ClearDtc
<1>2. Served(u, ReadDtc(u, r))
  <2> DEFINE maxRecords == IF RespMax <= 3 THEN 0 ELSE (RespMax - 3) \div 4
             listed == IF r.listed <= maxRecords THEN r.listed ELSE maxRecords
             n == 3 + 4 * listed
             tooMany == r.matching > maxRecords
  <2>1. ReadDtc(u, r) =
            CASE r.length < 2 -> Refuse(u, INCORRECT_LENGTH)
              [] r.length >= 2 /\ r.sub \notin {1, 2} -> Refuse(u, SUBFUNCTION)
              [] r.length >= 2 /\ r.sub \in {1, 2} /\ r.length /= 3 -> Refuse(u, INCORRECT_LENGTH)
              [] r.length = 3 /\ r.sub = 1 -> Positive(u, 6, FALSE)
              [] r.length = 3 /\ r.sub = 2 /\ tooMany -> Refuse(u, RESPONSE_TOO_LONG)
              [] OTHER -> Positive(u, n, FALSE)
    BY DEF ReadDtc
  <2> HIDE DEF n, tooMany
  <2>2. ReadDtc(u, r) \in {Refuse(u, INCORRECT_LENGTH), Refuse(u, SUBFUNCTION),
                           Refuse(u, RESPONSE_TOO_LONG), Positive(u, 6, FALSE),
                           Positive(u, n, FALSE)}
    BY <2>1
  <2>3. Served(u, Positive(u, 6, FALSE)) /\ Served(u, Positive(u, n, FALSE))
    BY PositiveOK, Zenon
  <2> QED
    BY <2>2, <2>3, RefuseOK
<1>3. Served(u, ReadDid(u, r))
  <2>1. ReadDid(u, r) \in {Refuse(u, INCORRECT_LENGTH), Refuse(u, RESPONSE_TOO_LONG),
                           Refuse(u, OUT_OF_RANGE), Positive(u, DidBytes(KnownDids(r)), FALSE)}
    BY DEF ReadDid
  <2>2. Served(u, Positive(u, DidBytes(KnownDids(r)), FALSE))
    BY PositiveOK, Zenon
  <2> QED
    BY <2>1, <2>2, RefuseOK
<1>4. Served(u, TesterPresent(u, r))
  BY PositiveOK, RefuseOK DEF TesterPresent
<1> QED
  BY <1>1, <1>2, <1>3, <1>4

\* Uds_ProcessRequest.
LEMMA ProcessRequestOK ==
    ASSUME NEW u \in Server, NEW r, NEW functional \in BOOLEAN
    PROVE  LET p == ProcessRequest(u, r, functional)
           IN  /\ p.server \in Server /\ p.length \in Nat
               /\ p.server.pendingReset = u.pendingReset \/ (r.sid = 17 /\ p.nrc = 0)
               /\ p.server.age = 0
               /\ p.server.session \in {u.session, "extended"} \/ (r.sid = 16 /\ r.sub = 1)
<1> DEFINE v == [u EXCEPT !.age = 0]
           s == Dispatch(u, r)
           p == ProcessRequest(u, r, functional)
<1>1. v \in Server /\ v.pendingReset = u.pendingReset /\ v.age = 0 /\ v.session = u.session
  BY DEF Server
<1>2. \/ s \in {ClearDtc(v, r), ReadDtc(v, r), ReadDid(v, r), TesterPresent(v, r), Refuse(v, SERVICE)}
      \/ r.sid = 16 /\ s = SessionControl(v, r)
      \/ r.sid = 17 /\ s = EcuReset(v, r)
  <2> HIDE DEF v
  <2>1. s = CASE r.sid = 16 -> SessionControl(v, r)
              [] r.sid = 17 -> EcuReset(v, r)
              [] r.sid = 20 -> ClearDtc(v, r)
              [] r.sid = 25 -> ReadDtc(v, r)
              [] r.sid = 34 -> ReadDid(v, r)
              [] r.sid = 62 -> TesterPresent(v, r)
              [] OTHER -> Refuse(v, SERVICE)
    BY DEF Dispatch, v
  <2> HIDE DEF s
  <2> QED
    BY <2>1
<1> HIDE DEF v, s
<1>3. /\ s.server \in Server /\ s.length \in Nat /\ s.server.age = v.age
      /\ s.server.pendingReset = v.pendingReset \/ (r.sid = 17 /\ s.nrc = 0)
      /\ s.server.session \in {v.session, "extended"} \/ (r.sid = 16 /\ r.sub = 1)
  <2>1. CASE r.sid = 16 /\ s = SessionControl(v, r)
    BY <1>1, <2>1, SessionOK
  <2>2. CASE r.sid = 17 /\ s = EcuReset(v, r)
    BY <1>1, <2>2, EcuResetOK DEF Served
  <2>3. CASE s \in {ClearDtc(v, r), ReadDtc(v, r), ReadDid(v, r), TesterPresent(v, r), Refuse(v, SERVICE)}
    BY <1>1, <2>3, OtherServicesOK, RefuseOK DEF Served
  <2> QED
    BY <1>2, <2>1, <2>2, <2>3
<1>4. /\ p.server = s.server /\ p.nrc = s.nrc
      /\ p.length \in {0, 3, s.length}
  BY DEF ProcessRequest, s
<1> HIDE DEF p
<1> QED
  BY <1>1, <1>3, <1>4 DEF p

LEMMA ServerMainOK ==
    ASSUME NEW u \in Server
    PROVE  /\ ServerMain(u) \in Server /\ ServerMain(u).pendingReset = u.pendingReset
           /\ ServerMain(u).session = "extended" => ServerMain(u).age < S3
           /\ ServerMain(u).age = u.age
           /\ ServerMain(u).session = u.session \/ u.age >= S3
BY ServerAssumption DEF ServerMain, Server

LEMMA ServerResetOK ==
    ASSUME NEW u \in Server
    PROVE  /\ ServerReset(u) \in Server /\ ServerReset(u).pendingReset = "none"
           /\ ServerAged(u) \in Server /\ ServerAged(u).pendingReset = u.pendingReset
<1>1. ServerReset(u) \in Server /\ ServerReset(u).pendingReset = "none"
  BY DEF ServerReset, Server
<1>2. ServerAged(u) \in Server /\ ServerAged(u).pendingReset = u.pendingReset
  <2> DEFINE age == IF u.age < S3 THEN u.age + 1 ELSE u.age
  <2>1. age \in Nat
    BY DEF Server
  <2>2. ServerAged(u) = [u EXCEPT !.age = age]
    BY DEF ServerAged
  <2> HIDE DEF age
  <2> QED
    BY <2>1, <2>2 DEF Server
<1> QED
  BY <1>1, <1>2

LEMMA InitialServerOK == InitialServer \in Server /\ InitialServer.pendingReset = "none"
                         /\ InitialServer.session = "default"
BY DEF InitialServer, Server

-----------------------------------------------------------------------------
(* The frames in the FIFO.                                                 *)

\* The responses that are complete, or given up (D), once the first k frames
\* of f are on the bus; 0 stands for no response.
Done(f, k, D) == D \cup {0} \cup {IdOf(f[j]) : j \in {i \in 1 .. k : Completes(f[i])}}

\* op[k] is the response that the first k frames of f leave open, o before
\* them; every frame may follow those before it.
Stream(f, D, o, op) ==
    /\ op[0] = o
    /\ \A k \in 1 .. Len(f) :
          /\ op[k] = OpenAfter(f[k], op[k - 1])
          /\ f[k].pci = "CF" => IdOf(f[k]) = op[k - 1]
          /\ f[k].pci \in {"SF", "FF"} => op[k - 1] \in Done(f, k - 1, D)

\* Frames f leave the response r open.
Leaves(f, D, o, r) == \E op : Stream(f, D, o, op) /\ op[Len(f)] = r

\* The frames end with those of the response that is being sent.
StreamOK(f, D, o, tx) ==
    \E op : /\ Stream(f, D, o, op)
            /\ IF Mid(tx) THEN op[Len(f)] = Of(tx.msg) ELSE op[Len(f)] \in Done(f, Len(f), D)

LEMMA Concatenated ==
    ASSUME NEW s, IsSeq(s), NEW t, IsSeq(t)
    PROVE  /\ IsSeq(s \o t) /\ Len(s) \in Nat /\ Len(t) \in Nat
           /\ DOMAIN s = 1 .. Len(s) /\ DOMAIN t = 1 .. Len(t)
           /\ Len(s \o t) = Len(s) + Len(t)
           /\ \A k \in 1 .. Len(s) : (s \o t)[k] = s[k]
           /\ \A k \in 1 .. Len(t) : (s \o t)[Len(s) + k] = t[k]
<1>1. PICK S : s \in Seq(S)
  BY DEF IsSeq
<1>2. PICK T : t \in Seq(T)
  BY DEF IsSeq
<1> DEFINE U == S \cup T
<1>3. s \in Seq(U) /\ t \in Seq(U)
  BY <1>1, <1>2
<1> HIDE DEF U
<1>4. s \o t \in Seq(U)
  BY <1>3
<1> QED
  BY <1>3, <1>4 DEF IsSeq

LEMMA DoneGrows ==
    ASSUME NEW f, IsSeq(f), NEW g, IsSeq(g), NEW D, NEW E, D \subseteq E,
           NEW k \in 0 .. Len(f), NEW m \in Nat, k <= m
    PROVE  Done(f, k, D) \subseteq Done(f \o g, m, E)
<1> DEFINE h == f \o g
<1>1. \A i \in 1 .. k : i \in 1 .. m /\ h[i] = f[i]
  BY Concatenated
<1> HIDE DEF h
<1> QED
  BY <1>1 DEF Done, h

\* Frames g may follow f; q tells what they leave open.
Follows(g, f, E, q) ==
    \A k \in 1 .. Len(g) :
       /\ q[k] = OpenAfter(g[k], q[k - 1])
       /\ g[k].pci = "CF" => IdOf(g[k]) = q[k - 1]
       /\ g[k].pci \in {"SF", "FF"} => q[k - 1] \in Done(f \o g, Len(f) + k - 1, E)

LEMMA StreamExtends ==
    ASSUME NEW f, IsSeq(f), NEW g, IsSeq(g), NEW D, NEW E, D \subseteq E,
           NEW o, NEW op, Stream(f, D, o, op),
           NEW q, q[0] = op[Len(f)], Follows(g, f, E, q)
    PROVE  Leaves(f \o g, E, o, q[Len(g)])
<1> DEFINE h == f \o g
           n == Len(f)
           ext == [k \in 0 .. Len(h) |-> IF k <= n THEN op[k] ELSE q[k - n]]
<1>1. /\ n \in Nat /\ Len(g) \in Nat /\ Len(h) = n + Len(g)
      /\ \A k \in 1 .. n : h[k] = f[k]
      /\ \A k \in 1 .. Len(g) : h[n + k] = g[k]
  BY Concatenated
<1>2. /\ \A k \in 0 .. n : ext[k] = op[k]
      /\ \A k \in 0 .. Len(g) : ext[n + k] = q[k]
  <2>1. q[0] = op[n]
    OBVIOUS
  <2> HIDE DEF h, n
  <2>2. ASSUME NEW k \in 0 .. n PROVE ext[k] = op[k]
    BY <1>1
  <2>3. ASSUME NEW k \in 0 .. Len(g) PROVE ext[n + k] = q[k]
    <3>1. n + k \in 0 .. Len(h) /\ (n + k) - n = k /\ (n + k <= n <=> k = 0)
      BY <1>1
    <3>2. ext[n + k] = IF n + k <= n THEN op[n + k] ELSE q[(n + k) - n]
      BY <3>1
    <3>3. CASE k = 0
      BY <1>1, <2>1, <2>2, <3>3
    <3>4. CASE k /= 0
      BY <3>1, <3>2, <3>4
    <3> QED
      BY <3>3, <3>4
  <2> QED
    BY <2>2, <2>3
<1> HIDE DEF h, n, ext
<1>3. ASSUME NEW k \in 1 .. Len(h)
      PROVE  /\ ext[k] = OpenAfter(h[k], ext[k - 1])
             /\ h[k].pci = "CF" => IdOf(h[k]) = ext[k - 1]
             /\ h[k].pci \in {"SF", "FF"} => ext[k - 1] \in Done(h, k - 1, E)
  <2>1. CASE k <= n
    <3>1. k \in 1 .. n /\ k \in 0 .. n /\ k - 1 \in 0 .. n
      BY <1>1, <2>1
    <3>3. h[k] = f[k] /\ ext[k] = op[k] /\ ext[k - 1] = op[k - 1]
      BY <1>1, <1>2, <3>1
    <3>2. Done(f, k - 1, D) \subseteq Done(h, k - 1, E)
      BY <1>1, <2>1, DoneGrows DEF h, n
    <3> QED
      BY <3>1, <3>2, <3>3 DEF Stream, n
  <2>2. CASE ~(k <= n)
    <3> DEFINE j == k - n
    <3>1. j \in 1 .. Len(g) /\ k = n + j /\ k - 1 = n + (j - 1) /\ j - 1 \in 0 .. Len(g)
      BY <1>1, <2>2
    <3> HIDE DEF j
    <3>2. h[k] = g[j] /\ ext[k] = q[j] /\ ext[k - 1] = q[j - 1] /\ n + j - 1 = k - 1
      BY <1>1, <1>2, <3>1
    <3> QED
      BY <3>1, <3>2 DEF Follows, h, n
  <2> QED
    BY <2>1, <2>2
<1>4. ext[0] = o /\ ext[Len(h)] = q[Len(g)]
  BY <1>1, <1>2 DEF Stream
<1>5. Stream(h, E, o, ext)
  BY <1>3, <1>4 DEF Stream
<1> QED
  BY <1>4, <1>5 DEF Leaves, h

\* Frames that leave open what is open: Consecutive Frames of that response
\* and status frames.
LEMMA StreamContinues ==
    ASSUME NEW f, IsSeq(f), NEW g, IsSeq(g), NEW D, NEW E, D \subseteq E,
           NEW o, NEW op, Stream(f, D, o, op), NEW r, r = op[Len(f)],
           \A k \in DOMAIN g : IsPart(g[k], "CF", r) \/ g[k].pci = "STATUS"
    PROVE  Leaves(f \o g, E, o, r)
<1> DEFINE q == [k \in 0 .. Len(g) |-> r]
<1>1. Len(g) \in Nat /\ DOMAIN g = 1 .. Len(g)
  BY Concatenated
<1>2. q[0] = r /\ q[Len(g)] = r /\ \A k \in 1 .. Len(g) : q[k] = r /\ q[k - 1] = r
  BY <1>1
<1> HIDE DEF q
<1>3. Follows(g, f, E, q)
  <2> SUFFICES ASSUME NEW k \in 1 .. Len(g)
               PROVE  /\ q[k] = OpenAfter(g[k], q[k - 1])
                      /\ g[k].pci = "CF" => IdOf(g[k]) = q[k - 1]
                      /\ g[k].pci \notin {"SF", "FF"}
    BY DEF Follows
  <2>1. IsPart(g[k], "CF", r) \/ g[k].pci = "STATUS"
    BY <1>1
  <2> QED
    BY <1>2, <2>1 DEF IsPart, OpenAfter
<1>4. Leaves(f \o g, E, o, q[Len(g)])
  BY <1>2, <1>3, StreamExtends
<1> QED
  BY <1>2, <1>4

LEMMA StreamBegins ==
    ASSUME NEW f, IsSeq(f), NEW x, x.pci \in {"SF", "FF"}, NEW D, NEW o, NEW op, Stream(f, D, o, op),
           op[Len(f)] \in Done(f, Len(f), D)
    PROVE  Leaves(f \o <<x>>, D, o, OpenAfter(x, op[Len(f)]))
<1> DEFINE g == <<x>>
           r == op[Len(f)]
           q == [k \in 0 .. 1 |-> IF k = 0 THEN r ELSE OpenAfter(x, r)]
<1>1. IsSeq(g) /\ Len(g) = 1 /\ g[1] = x
  BY SingleSeq
<1>2. q[0] = r /\ q[1] = OpenAfter(x, r)
  OBVIOUS
<1>3. Len(f) \in Nat
  BY <1>1, Concatenated
<1> HIDE DEF g, q
<1>4. Done(f, Len(f), D) \subseteq Done(f \o g, Len(f), D)
  BY <1>1, <1>3, DoneGrows
<1>5. Follows(g, f, D, q)
  <2> SUFFICES ASSUME NEW k \in 1 .. Len(g)
               PROVE  /\ q[k] = OpenAfter(g[k], q[k - 1])
                      /\ g[k].pci = "CF" => IdOf(g[k]) = q[k - 1]
                      /\ q[k - 1] \in Done(f \o g, Len(f) + k - 1, D)
    BY DEF Follows
  <2>1. k = 1 /\ k - 1 = 0 /\ Len(f) + k - 1 = Len(f)
    BY <1>1, <1>3
  <2>2. g[k] = x /\ x.pci /= "CF"
    BY <1>1, <2>1
  <2> QED
    BY <1>2, <1>4, <2>1, <2>2
<1>6. Leaves(f \o g, D, o, q[Len(g)])
  <2>1. D \subseteq D
    OBVIOUS
  <2> QED
    BY <1>1, <1>2, <1>5, <2>1, StreamExtends
<1> QED
  BY <1>1, <1>2, <1>6 DEF g

\* The stream after a call on the link with outcome p.
LEMMA StreamAfter ==
    ASSUME NEW f, IsSeq(f), NEW D, NEW o, NEW tx, NEW p, NEW room \in Nat,
           StreamOK(f, D, o, tx), Outcome(tx, p, room)
    PROVE  StreamOK(f \o p.out,
                    IF p.conf /= <<>> /\ p.conf /= <<"OK">> THEN D \cup {Of(tx.msg)} ELSE D,
                    o, p.link.tx)
<1> DEFINE g == p.out
           id == Of(tx.msg)
           after == p.link.tx
           n == Len(f)
<1>1. PICK op : /\ Stream(f, D, o, op)
                /\ IF Mid(tx) THEN op[n] = id ELSE op[n] \in Done(f, n, D)
  BY DEF StreamOK
<1>2. IsSeq(g) /\ n \in Nat /\ n \in 0 .. n /\ D \subseteq D
  BY Concatenated, EmptySeq DEF Outcome
<1>3. /\ Len(g) \in Nat /\ DOMAIN g = 1 .. Len(g)
      /\ Len(f \o g) = n + Len(g) /\ n + Len(g) \in Nat /\ n <= n + Len(g)
      /\ \A k \in 1 .. Len(g) : (f \o g)[n + k] = g[k]
  <2> HIDE DEF g
  <2>1. /\ Len(f) \in Nat /\ Len(g) \in Nat /\ DOMAIN g = 1 .. Len(g)
        /\ Len(f \o g) = Len(f) + Len(g)
        /\ \A k \in 1 .. Len(g) : (f \o g)[Len(f) + k] = g[k]
    BY <1>2, Concatenated
  <2> QED
    BY <2>1
<1>4. CASE /\ g = <<>> /\ p.conf = <<>>
           /\ Mid(after) <=> Mid(tx)
           /\ Mid(tx) => after.msg = tx.msg
  <2>1. \A k \in DOMAIN g : IsPart(g[k], "CF", op[n]) \/ g[k].pci = "STATUS"
    BY <1>4
  <2>2. Leaves(f \o g, D, o, op[n])
    BY <1>1, <1>2, <2>1, StreamContinues
  <2>3. Done(f, n, D) \subseteq Done(f \o g, Len(f \o g), D)
    BY <1>2, <1>3, DoneGrows
  <2> QED
    BY <1>1, <1>4, <2>2, <2>3 DEF StreamOK, Leaves
<1>5. CASE /\ ~Mid(tx) /\ Mid(after) /\ after.msg = tx.msg
           /\ p.conf = <<>>
           /\ \E x : g = <<x>> /\ IsPart(x, "FF", id)
  <2>1. PICK x : g = <<x>> /\ IsPart(x, "FF", id)
    BY <1>5
  <2>2. x.pci \in {"SF", "FF"} /\ OpenAfter(x, op[n]) = id
    BY <2>1 DEF IsPart, OpenAfter
  <2>3. Leaves(f \o g, D, o, id)
    BY <1>1, <1>5, <2>1, <2>2, StreamBegins
  <2> QED
    BY <1>5, <2>3 DEF StreamOK, Leaves
<1>6. CASE /\ ~Mid(tx) /\ ~Mid(after)
           /\ p.conf = <<"OK">>
           /\ \E x : g = <<x>> /\ IsPart(x, "SF", id) /\ IsLast(x)
  <2>1. PICK x : g = <<x>> /\ IsPart(x, "SF", id)
    BY <1>6
  <2>2. x.pci \in {"SF", "FF"} /\ OpenAfter(x, op[n]) = 0
    BY <2>1 DEF IsPart, OpenAfter
  <2>3. Leaves(f \o g, D, o, 0)
    BY <1>1, <1>6, <2>1, <2>2, StreamBegins
  <2>4. 0 \in Done(f \o g, Len(f \o g), D)
    BY DEF Done
  <2> QED
    BY <1>6, <2>3, <2>4 DEF StreamOK, Leaves
<1>7. CASE /\ Mid(tx) /\ Mid(after) /\ after.msg = tx.msg
           /\ p.conf = <<>>
           /\ \A k \in DOMAIN g : IsPart(g[k], "CF", id)
  <2>1. Leaves(f \o g, D, o, id)
    BY <1>1, <1>2, <1>7, StreamContinues
  <2> QED
    BY <1>7, <2>1 DEF StreamOK, Leaves
<1>8. CASE /\ Mid(tx) /\ ~Mid(after)
           /\ p.conf = <<"OK">>
           /\ \A k \in DOMAIN g : IsPart(g[k], "CF", id)
           /\ g /= <<>> /\ IsLast(g[Len(g)])
  <2>1. Leaves(f \o g, D, o, id)
    BY <1>1, <1>2, <1>8, StreamContinues
  <2>2. Len(g) \in 1 .. Len(g)
    BY <1>2, <1>3, <1>8 DEF IsSeq
  <2> DEFINE h == f \o g
             j == n + Len(g)
  <2>3. h[j] = g[Len(g)] /\ j \in 1 .. Len(h)
    BY <1>2, <1>3, <2>2
  <2>4. Completes(h[j]) /\ IdOf(h[j]) = id
    BY <1>3, <1>8, <2>2, <2>3 DEF Completes, IsPart
  <2> HIDE DEF h, j
  <2>5. id \in Done(h, Len(h), D)
    BY <2>3, <2>4 DEF Done
  <2> QED
    BY <1>8, <2>1, <2>5 DEF StreamOK, Leaves, h
<1>9. CASE /\ g = <<>> /\ ~Mid(after)
           /\ \E e : p.conf = <<e>> /\ e /= "OK"
  <2> DEFINE E == D \cup {id}
  <2>1. \A k \in DOMAIN g : IsPart(g[k], "CF", op[n]) \/ g[k].pci = "STATUS"
    BY <1>9
  <2>2. D \subseteq E /\ id \in E
    OBVIOUS
  <2> HIDE DEF E
  <2>3. Leaves(f \o g, E, o, op[n])
    BY <1>1, <1>2, <2>1, <2>2, StreamContinues
  <2>4. Done(f, n, D) \subseteq Done(f \o g, Len(f \o g), E)
    BY <1>2, <1>3, <2>2, DoneGrows
  <2>5. E \subseteq Done(f \o g, Len(f \o g), E)
    BY DEF Done
  <2>6. op[n] \in Done(f \o g, Len(f \o g), E)
    BY <1>1, <2>2, <2>4, <2>5
  <2>7. StreamOK(f \o g, E, o, after)
    BY <1>9, <2>3, <2>6 DEF StreamOK, Leaves
  <2>8. p.conf /= <<>> /\ p.conf /= <<"OK">>
    BY <1>9, Conf
  <2> QED
    BY <2>7, <2>8 DEF E
<1>10. <<"OK">> /= <<>>
  OBVIOUS
<1> QED
  BY <1>4, <1>5, <1>6, <1>7, <1>8, <1>9, <1>10 DEF Outcome

-----------------------------------------------------------------------------
(* Resets.                                                                 *)

\* Of accepted requests only, each once; the pending one has not run.
ResetsOK(a, ran, pending, by) ==
    /\ a \subseteq Nat
    /\ IsSeq(ran)
    /\ \A k \in DOMAIN ran : ran[k].by \in a
    /\ \A j, k \in DOMAIN ran : ran[j].by = ran[k].by => j = k
    /\ pending /= "none" => by \in a /\ \A k \in DOMAIN ran : ran[k].by /= by

LEMMA ResetRuns ==
    ASSUME NEW a, NEW ran, NEW pending, NEW by, ResetsOK(a, ran, pending, by), pending /= "none",
           NEW entry, entry.by = by, NEW next
    PROVE  ResetsOK(a, Append(ran, entry), "none", next)
<1>1. PICK S : ran \in Seq(S)
  BY DEF ResetsOK, IsSeq
<1> DEFINE T == S \cup {entry}
           r == Append(ran, entry)
<1>2. r \in Seq(T) /\ DOMAIN r = 1 .. Len(ran) + 1 /\ DOMAIN ran = 1 .. Len(ran) /\ Len(ran) \in Nat
  BY <1>1
<1>3. r[Len(ran) + 1] = entry /\ \A k \in 1 .. Len(ran) : r[k] = ran[k]
  BY <1>1
<1> HIDE DEF r
<1>4. \A k \in DOMAIN r : r[k].by \in a
  BY <1>2, <1>3 DEF ResetsOK
<1>5. \A j, k \in DOMAIN r : r[j].by = r[k].by => j = k
  BY <1>2, <1>3 DEF ResetsOK
<1> QED
  BY <1>2, <1>4, <1>5 DEF ResetsOK, IsSeq, r

LEMMA ResetAccepted ==
    ASSUME NEW a, NEW ran, NEW pending, NEW by, ResetsOK(a, ran, pending, by),
           NEW id \in Nat, id \notin a, NEW next
    PROVE  ResetsOK(a \cup {id}, ran, next, id)
BY DEF ResetsOK

-----------------------------------------------------------------------------
(* One iteration of the receive task.                                      *)

\* What a call in the iteration needs of the record, but for the link.
StateOK(s) ==
    /\ DOMAIN s = StateFields
    /\ s.server \in Server
    /\ ResetsOK(s.accepted, s.resets, s.server.pendingReset, s.pendingBy)
    /\ IsSeq(s.fifo) /\ Len(s.fifo) <= FifoDepth

\* A restart leaves everything as after power-on.
Restarted(s) == s.server = InitialServer /\ s.link = InitialLink /\ s.fifo = <<>>

Sound(s) ==
    /\ StateOK(s) /\ LinkOK(s.link)
    /\ s.restarted \in BOOLEAN
    /\ s.restarted => Restarted(s)
    /\ ~s.restarted => StreamOK(s.fifo, onBus \cup s.givenUp, open, s.link.tx)

LEMMA RoomOK ==
    ASSUME NEW s, StateOK(s) PROVE Room(s) \in Nat /\ Len(s.fifo) + Room(s) = FifoDepth
<1>1. Len(s.fifo) \in Nat
  BY EmptySeq, Concatenated DEF StateOK
<1> QED
  BY <1>1, QueueAssumption DEF Room, StateOK

LEMMA ResetOK ==
    ASSUME NEW s, Sound(s), ~s.restarted, s.server.pendingReset /= "none", NEW by
    PROVE  Sound(Reset(s, by)) /\ Reset(s, by).accepted = s.accepted
<1> DEFINE entry == [by |-> s.pendingBy, confirmed |-> by, onBus |-> s.pendingBy \in onBus]
           done == [s EXCEPT !.resets = Append(@, entry), !.pendingBy = 0]
           soft == [done EXCEPT !.server = ServerReset(s.server), !.cycle = @ + 1]
           hard == [done EXCEPT !.server = InitialServer, !.link = InitialLink, !.fifo = <<>>,
                                !.cycle = 0, !.restarted = TRUE]
           ran == Append(s.resets, entry)
<1>1. entry.by = s.pendingBy
  OBVIOUS
<1> HIDE DEF entry
<1>2. ResetsOK(s.accepted, ran, "none", 0)
  BY <1>1, ResetRuns DEF Sound, StateOK
<1> HIDE DEF ran
<1>3. /\ DOMAIN done = StateFields /\ done.server = s.server /\ done.accepted = s.accepted
      /\ done.resets = ran /\ done.fifo = s.fifo /\ done.link = s.link
      /\ done.restarted = s.restarted /\ done.givenUp = s.givenUp /\ done.pendingBy = 0
  BY DEF Sound, StateOK, StateFields, ran
<1> HIDE DEF done
<1>4. CASE s.server.pendingReset = "soft"
  <2>1. /\ DOMAIN soft = StateFields /\ soft.server = ServerReset(s.server)
        /\ soft.accepted = s.accepted /\ soft.resets = ran /\ soft.fifo = s.fifo
        /\ soft.link = s.link /\ soft.restarted = s.restarted /\ soft.givenUp = s.givenUp
        /\ soft.pendingBy = 0
    BY <1>3 DEF StateFields
  <2>2. Reset(s, by) = soft
    BY <1>4 DEF Reset, done, entry
  <2> HIDE DEF soft
  <2>3. soft.server \in Server /\ soft.server.pendingReset = "none"
    BY <2>1, ServerResetOK DEF Sound, StateOK
  <2>4. StateOK(soft)
    BY <1>2, <2>1, <2>3 DEF Sound, StateOK
  <2> QED
    BY <2>1, <2>2, <2>4 DEF Sound
<1>5. CASE s.server.pendingReset /= "soft"
  <2>1. /\ DOMAIN hard = StateFields /\ hard.server = InitialServer
        /\ hard.accepted = s.accepted /\ hard.resets = ran /\ hard.fifo = <<>>
        /\ hard.link = InitialLink /\ hard.restarted = TRUE /\ hard.pendingBy = 0
    BY <1>3 DEF StateFields
  <2>2. Reset(s, by) = hard
    BY <1>5 DEF Reset, done, entry
  <2> HIDE DEF hard
  <2>3. IsSeq(<<>>) /\ Len(<<>>) <= FifoDepth
    BY EmptySeq, QueueAssumption
  <2>4. StateOK(hard)
    BY <1>2, <2>1, <2>3, InitialServerOK DEF StateOK
  <2> QED
    BY <2>1, <2>2, <2>4, IdleOK DEF Sound, Restarted
<1> QED
  BY <1>4, <1>5

\* tx is the sender's side that the call found.
LEMMA AfterLinkOK ==
    ASSUME NEW s, StateOK(s), ~s.restarted, s.restarted \in BOOLEAN,
           NEW tx, s.link.tx.msg = tx.msg, NEW o, Outcome(tx, o, Room(s)),
           StreamOK(s.fifo, onBus \cup s.givenUp, open, tx)
    PROVE  Sound(AfterLink(s, o)) /\ AfterLink(s, o).accepted = s.accepted
<1> DEFINE id == Of(tx.msg)
           failed == o.conf /= <<>> /\ o.conf /= <<"OK">>
           given == IF failed THEN s.givenUp \cup {id} ELSE s.givenUp
           queued == [s EXCEPT !.link = o.link, !.fifo = @ \o o.out, !.givenUp = given]
<1>1. s.link.tx.msg[1][1] = id
  BY DEF Of
<1>2. AfterLink(s, o) = IF o.conf = <<"OK">> /\ s.server.pendingReset /= "none"
                        THEN Reset(queued, id) ELSE queued
  BY <1>1 DEF AfterLink
<1>3. IsSeq(o.out) /\ Len(o.out) <= Room(s) /\ LinkOK(o.link)
  BY DEF Outcome
<1>4. IsSeq(s.fifo \o o.out) /\ Len(s.fifo \o o.out) <= FifoDepth
  <2>1. Room(s) \in Nat /\ Len(s.fifo) + Room(s) = FifoDepth
    BY RoomOK
  <2>2. /\ IsSeq(s.fifo \o o.out) /\ Len(s.fifo) \in Nat /\ Len(o.out) \in Nat
        /\ Len(s.fifo \o o.out) = Len(s.fifo) + Len(o.out)
    BY <1>3, Concatenated DEF StateOK
  <2> DEFINE f == s.fifo \o o.out
  <2>3. Len(f) = Len(s.fifo) + Len(o.out)
    BY <2>2
  <2> HIDE DEF f
  <2> DEFINE a == Len(s.fifo)
             b == Len(o.out)
             c == Len(f)
             r == Room(s)
  <2>4. c <= FifoDepth
    <3>1. a \in Nat /\ b \in Nat /\ r \in Nat /\ b <= r /\ a + r = FifoDepth /\ c = a + b
      BY <1>3, <2>1, <2>2, <2>3
    <3> HIDE DEF a, b, c, r
    <3> QED
      BY <3>1
  <2> QED
    BY <2>2, <2>4 DEF f
<1>5. onBus \cup given = IF failed THEN (onBus \cup s.givenUp) \cup {id} ELSE onBus \cup s.givenUp
  OBVIOUS
<1>6. StreamOK(s.fifo \o o.out, onBus \cup given, open, o.link.tx)
  <2>1. Room(s) \in Nat
    BY RoomOK
  <2>2. StreamOK(s.fifo \o o.out,
                 IF failed THEN (onBus \cup s.givenUp) \cup {id} ELSE onBus \cup s.givenUp,
                 open, o.link.tx)
    BY <2>1, StreamAfter DEF StateOK
  <2> QED
    BY <1>5, <2>2
<1> HIDE DEF given, failed
<1>7. /\ DOMAIN queued = StateFields /\ queued.server = s.server /\ queued.accepted = s.accepted
      /\ queued.resets = s.resets /\ queued.pendingBy = s.pendingBy
      /\ queued.restarted = s.restarted /\ queued.link = o.link
      /\ queued.fifo = s.fifo \o o.out /\ queued.givenUp = given
  BY DEF StateOK, StateFields
<1> HIDE DEF queued
<1>8. StateOK(queued)
  BY <1>4, <1>7 DEF StateOK
<1>9. Sound(queued)
  BY <1>3, <1>6, <1>7, <1>8 DEF Sound
<1>10. CASE o.conf = <<"OK">> /\ s.server.pendingReset /= "none"
  <2>1. Sound(Reset(queued, id)) /\ Reset(queued, id).accepted = queued.accepted
    BY <1>7, <1>9, <1>10, ResetOK
  <2> QED
    BY <1>2, <1>7, <1>10, <2>1
<1>11. CASE ~(o.conf = <<"OK">> /\ s.server.pendingReset /= "none")
  BY <1>2, <1>7, <1>9, <1>11
<1> QED
  BY <1>10, <1>11

LEMMA RespondToOK ==
    ASSUME NEW s, Sound(s), ~s.restarted, NEW r, r.id \in Nat, r.id \notin s.accepted,
           NEW functional \in BOOLEAN
    PROVE  LET t == RespondTo(s, r, functional)
           IN  Sound(t) /\ t.accepted \subseteq s.accepted \cup {r.id}
<1> DEFINE p == ProcessRequest(s.server, r, functional)
           response == ResponseTo(r.id, p.length)
           isReset == r.sid = 17 /\ p.nrc = 0
           accepts == IF isReset THEN s.accepted \cup {r.id} ELSE s.accepted
           by == IF isReset THEN r.id ELSE s.pendingBy
           served == [s EXCEPT !.server = p.server, !.accepted = accepts, !.pendingBy = by]
           begun == [served EXCEPT !.link.tx.msg = response]
           o == Transmit(s.link, response, Room(s))
<1>1. /\ p.server \in Server /\ p.length \in Nat
      /\ p.server.pendingReset = s.server.pendingReset \/ isReset
  BY ProcessRequestOK DEF Sound, StateOK
<1>2. RespondTo(s, r, functional)
        = IF CanTransmit(s.link, Cfg, response) THEN AfterLink(begun, o) ELSE served
  BY DEF RespondTo
<1> HIDE DEF p
<1>3. ResetsOK(accepts, s.resets, p.server.pendingReset, by)
  <2>1. ResetsOK(s.accepted, s.resets, s.server.pendingReset, s.pendingBy)
    BY DEF Sound, StateOK
  <2>2. CASE isReset
    <3>1. accepts = s.accepted \cup {r.id} /\ by = r.id
      BY <2>2
    <3> HIDE DEF accepts, by, isReset
    <3> QED
      BY <2>1, <3>1, ResetAccepted
  <2>3. CASE ~isReset
    BY <1>1, <2>1, <2>3
  <2> QED
    BY <2>2, <2>3
<1>4. accepts \subseteq s.accepted \cup {r.id}
  OBVIOUS
<1> HIDE DEF accepts, by, isReset
<1>5. /\ DOMAIN served = StateFields /\ served.server = p.server /\ served.accepted = accepts
      /\ served.resets = s.resets /\ served.pendingBy = by
      /\ served.restarted = s.restarted /\ served.link = s.link
      /\ served.fifo = s.fifo /\ served.givenUp = s.givenUp
  BY DEF Sound, StateOK, StateFields
<1> HIDE DEF served, begun, o, response
<1>6. StateOK(served)
  BY <1>1, <1>3, <1>5 DEF Sound, StateOK
<1>7. Sound(served)
  BY <1>5, <1>6 DEF Sound
<1>8. CASE ~CanTransmit(s.link, Cfg, response)
  BY <1>2, <1>4, <1>5, <1>7, <1>8
<1>9. CASE CanTransmit(s.link, Cfg, response)
  <2>1. IsResponse(response)
    <3>1. Len(response) = p.length
      BY <1>1 DEF ResponseTo, response
    <3>2. Len(response) /= 0
      BY <1>9 DEF CanTransmit
    <3> QED
      BY <1>1, <3>1, <3>2 DEF IsResponse, response
  <2> DEFINE tx == Starting(response)
  <2>2. tx.msg = response /\ ~Mid(tx)
    BY DEF Starting, IdleTx, Mid
  <2> HIDE DEF tx
  <2>3. /\ DOMAIN begun = StateFields /\ begun.server = served.server
        /\ begun.accepted = served.accepted /\ begun.resets = served.resets
        /\ begun.pendingBy = served.pendingBy /\ begun.restarted = s.restarted
        /\ begun.fifo = s.fifo /\ begun.givenUp = s.givenUp
        /\ begun.link = [s.link EXCEPT !.tx.msg = response]
    BY <1>5 DEF StateFields, begun
  <2>4. begun.link.tx.msg = tx.msg
    <3>1. DOMAIN s.link = {"tx", "rx", "fcPending"} /\ DOMAIN s.link.tx = TxFields
      BY DEF Sound, LinkOK, TxOK
    <3> QED
      BY <2>2, <2>3, <3>1 DEF TxFields
  <2>5. StateOK(begun) /\ Room(begun) = Room(s)
    BY <1>5, <1>6, <2>3 DEF StateOK, Room
  <2>6. Outcome(tx, o, Room(begun))
    <3>1. LinkOK(s.link) /\ Room(s) \in Nat
      BY RoomOK DEF Sound
    <3> QED
      BY <2>1, <2>5, <3>1, TransmitOutcome DEF tx, o
  <2>7. StreamOK(begun.fifo, onBus \cup begun.givenUp, open, tx)
    <3>1. StreamOK(s.fifo, onBus \cup s.givenUp, open, s.link.tx)
      BY DEF Sound
    <3>2. ~Mid(s.link.tx)
      BY <1>9 DEF CanTransmit, Mid
    <3> QED
      BY <2>2, <2>3, <3>1, <3>2 DEF StreamOK
  <2>8. Sound(AfterLink(begun, o)) /\ AfterLink(begun, o).accepted = begun.accepted
    <3>1. ~begun.restarted /\ begun.restarted \in BOOLEAN
      BY <2>3 DEF Sound
    <3> QED
      BY <2>4, <2>5, <2>6, <2>7, <3>1, AfterLinkOK
  <2> QED
    BY <1>2, <1>4, <1>5, <1>9, <2>3, <2>8
<1> QED
  BY <1>8, <1>9

\* A frame of the tester: a request with its number, or the Flow Control.
IsRequest(f) ==
    \E r : r.id \in Nat /\ \E functional \in BOOLEAN, dlc \in {1, CanDl} :
                              f = RequestFrame(r, functional, dlc)
Number(f) == f.data[1].id

LEMMA RequestFields ==
    ASSUME NEW r, NEW functional, NEW dlc
    PROVE  LET f == RequestFrame(r, functional, dlc)
           IN  f.pci = "SF" /\ f.functional = functional /\ f.data[1] = r
<1> DEFINE f == RequestFrame(r, functional, dlc)
           b == <<r>>
<1>1. f.pci = "SF" /\ f.functional = functional /\ f.data = Padded(b, SfMax)
  BY DEF RequestFrame
<1>2. IsSeq(b) /\ Len(b) = 1 /\ b[1] = r
  BY SingleSeq
<1> HIDE DEF b, f
<1>3. Padded(b, SfMax)[1] = b[1]
  <2>1. \A k \in 1 .. SfMax : k <= Len(b) => Padded(b, SfMax)[k] = b[k]
    BY <1>2, PaddedBytes, Sizes
  <2> QED
    BY <1>2, <2>1, Sizes
<1> QED
  BY <1>1, <1>2, <1>3 DEF f

LEMMA LinkCallOK ==
    ASSUME NEW s, Sound(s), ~s.restarted, NEW o, Outcome(s.link.tx, o, Room(s))
    PROVE  Sound(AfterLink(s, o)) /\ AfterLink(s, o).accepted = s.accepted
<1>1. /\ StateOK(s) /\ s.restarted \in BOOLEAN
      /\ StreamOK(s.fifo, onBus \cup s.givenUp, open, s.link.tx)
  BY DEF Sound
<1> QED
  BY <1>1, AfterLinkOK

LEMMA OnRequestOK ==
    ASSUME NEW s, Sound(s), ~s.restarted, NEW f, IsRequest(f), Number(f) \notin s.accepted
    PROVE  Sound(OnFrame(s, f)) /\ OnFrame(s, f).accepted \subseteq s.accepted \cup {Number(f)}
<1>1. PICK r : r.id \in Nat /\ \E functional \in BOOLEAN, dlc \in {1, CanDl} :
                                   f = RequestFrame(r, functional, dlc)
  BY DEF IsRequest
<1>2. PICK functional \in BOOLEAN, dlc \in {1, CanDl} : f = RequestFrame(r, functional, dlc)
  BY <1>1
<1>3. f.pci = "SF" /\ f.functional = functional /\ f.data[1] = r /\ Number(f) = r.id
  BY <1>2, RequestFields DEF Number
<1> DEFINE o == RxFrame(s.link, Cfg, f, Room(s))
           heard == [s EXCEPT !.link = o.link]
<1>4. LinkOK(s.link) /\ Room(s) \in Nat
  BY RoomOK DEF Sound
<1>5. IF IsWhole(f)
      THEN LinkOK(o.link) /\ o.link.tx = s.link.tx /\ o.ind /= <<>> /\ o.ind[1].data[1] = r
      ELSE o = Unchanged(s.link)
  BY <1>2, <1>4, RequestReceived
<1>6. OnFrame(s, f) = IF functional
                      THEN IF IsWhole(f) THEN RespondTo(s, f.data[1], TRUE) ELSE s
                      ELSE IF o.ind /= <<>> THEN RespondTo(heard, o.ind[1].data[1], FALSE)
                      ELSE AfterLink(s, o)
  <2> HIDE DEF o
  <2>1. OnFrame(s, f) = CASE f.functional /\ IsWhole(f) -> RespondTo(s, f.data[1], TRUE)
                          [] f.functional /\ ~IsWhole(f) -> s
                          [] ~f.functional /\ f.pci = "SF" /\ o.ind /= <<>> ->
                                RespondTo(heard, o.ind[1].data[1], FALSE)
                          [] OTHER -> AfterLink(s, o)
    BY DEF OnFrame, o
  <2> QED
    BY <1>3, <2>1
<1> HIDE DEF o
<1>10. CASE functional /\ ~IsWhole(f)
  BY <1>6, <1>10
<1>7. CASE functional /\ IsWhole(f)
  <2>1. LET t == RespondTo(s, r, TRUE)
        IN  Sound(t) /\ t.accepted \subseteq s.accepted \cup {r.id}
    BY <1>1, <1>2, <1>3, RespondToOK, ZenonT(30)
  <2> QED
    BY <1>3, <1>6, <1>7, <2>1
<1>8. CASE ~functional /\ o.ind /= <<>>
  <2>1. LinkOK(o.link) /\ o.link.tx = s.link.tx /\ o.ind[1].data[1] = r
    BY <1>5, <1>8 DEF Unchanged
  <2>2. /\ DOMAIN heard = StateFields /\ heard.server = s.server /\ heard.accepted = s.accepted
        /\ heard.resets = s.resets /\ heard.pendingBy = s.pendingBy
        /\ heard.restarted = s.restarted /\ heard.link = o.link
        /\ heard.fifo = s.fifo /\ heard.givenUp = s.givenUp
    BY DEF Sound, StateOK, StateFields
  <2> HIDE DEF heard
  <2>3. Sound(heard)
    BY <2>1, <2>2 DEF Sound, StateOK
  <2>4. LET t == RespondTo(heard, r, FALSE)
        IN  Sound(t) /\ t.accepted \subseteq heard.accepted \cup {r.id}
    <3>1. ~heard.restarted /\ r.id \notin heard.accepted /\ FALSE \in BOOLEAN
      BY <1>3, <2>2
    <3> QED
      BY <1>1, <1>2, <2>3, <3>1, RespondToOK, Zenon
  <2> QED
    BY <1>3, <1>6, <1>8, <2>1, <2>2, <2>4
<1>9. CASE ~functional /\ ~(o.ind /= <<>>)
  <2>1. o = Unchanged(s.link)
    BY <1>5, <1>9
  <2>2. Outcome(s.link.tx, o, Room(s))
    BY <1>4, <2>1, UnchangedOutcome
  <2> QED
    BY <1>6, <1>9, <2>2, LinkCallOK
<1> QED
  BY <1>7, <1>8, <1>9, <1>10

LEMMA OnFlowControlOK ==
    ASSUME NEW s, Sound(s), ~s.restarted
    PROVE  Sound(OnFrame(s, TesterFc)) /\ OnFrame(s, TesterFc).accepted = s.accepted
<1> DEFINE o == RxFrame(s.link, Cfg, TesterFc, Room(s))
<1>1. Outcome(s.link.tx, o, Room(s))
  BY RoomOK, FlowControlOutcome DEF Sound
<1> HIDE DEF o
<1>2. TesterFc.pci = "FC" /\ TesterFc.functional = FALSE
  BY DEF TesterFc
<1>3. OnFrame(s, TesterFc) = AfterLink(s, o)
  BY <1>2 DEF OnFrame, o
<1> QED
  BY <1>1, <1>3, LinkCallOK

LEMMA DiagMainOK ==
    ASSUME NEW s, Sound(s), ~s.restarted
    PROVE  LET t == DiagMain(s)
           IN  /\ Sound(t) /\ t.accepted = s.accepted
               /\ t.server.session = "extended" => t.server.age < S3
<1> DEFINE o == MainFunction(s.link, Cfg, Room(s), Room(s))
           polled == AfterLink(s, o)
           t == DiagMain(s)
           kept == [polled EXCEPT !.server = ServerMain(@)]
<1>1. Outcome(s.link.tx, o, Room(s))
  BY RoomOK, MainOutcome DEF Sound
<1> HIDE DEF o
<1>2. Sound(polled) /\ polled.accepted = s.accepted
  BY <1>1, LinkCallOK
<1>3. t = IF polled.restarted THEN polled ELSE kept
  BY DEF DiagMain, o
<1> HIDE DEF polled, t
<1>4. CASE polled.restarted
  BY <1>2, <1>3, <1>4, InitialServerOK DEF Sound, Restarted, t
<1>5. CASE ~polled.restarted
  <2>1. /\ DOMAIN kept = StateFields /\ kept.server = ServerMain(polled.server)
        /\ kept.accepted = polled.accepted /\ kept.resets = polled.resets
        /\ kept.pendingBy = polled.pendingBy /\ kept.restarted = polled.restarted
        /\ kept.link = polled.link /\ kept.fifo = polled.fifo /\ kept.givenUp = polled.givenUp
    BY <1>2 DEF Sound, StateOK, StateFields
  <2> HIDE DEF kept
  <2>2. /\ kept.server \in Server /\ kept.server.pendingReset = polled.server.pendingReset
        /\ kept.server.session = "extended" => kept.server.age < S3
    BY <1>2, <2>1, ServerMainOK DEF Sound, StateOK
  <2>3. StateOK(kept)
    BY <1>2, <2>1, <2>2 DEF Sound, StateOK
  <2>4. Sound(kept)
    BY <1>2, <1>5, <2>1, <2>3 DEF Sound
  <2> QED
    BY <1>2, <1>3, <1>5, <2>1, <2>2, <2>4 DEF t
<1> QED
  BY <1>4, <1>5

-----------------------------------------------------------------------------
(* The session.  The age of the last request and the session change in an   *)
(* iteration by that request, by a reset or by S3 alone.                    *)

Resettable(s) == DOMAIN s = StateFields /\ s.server \in Server /\ IsSeq(s.resets)

RanReset(s, t) == Len(t.resets) = Len(s.resets) + 1

\* A call that serves no request leads from s to t.
Lasts(s, t) ==
    /\ Resettable(t)
    /\ ~t.restarted => t.server.age = s.server.age
    /\ \/ RanReset(s, t)
       \/ /\ t.resets = s.resets /\ t.restarted = s.restarted
          /\ t.server.session = s.server.session

\* A call that serves the request r does.
Serves(s, t, r) ==
    /\ Resettable(t)
    /\ ~t.restarted => t.server.age = 0
    /\ \/ RanReset(s, t)
       \/ /\ t.resets = s.resets /\ t.restarted = s.restarted
          /\ t.server.session \in {s.server.session, "extended"} \/ (r.sid = 16 /\ r.sub = 1)

LEMMA SoundResettable == ASSUME NEW s, Sound(s) PROVE Resettable(s)
BY DEF Sound, StateOK, ResetsOK, Resettable

LEMMA ResetLasts ==
    ASSUME NEW s, Resettable(s), NEW by
    PROVE  LET t == Reset(s, by)
           IN  /\ Resettable(t) /\ RanReset(s, t)
               /\ ~t.restarted => t.server.age = s.server.age
<1> DEFINE entry == [by |-> s.pendingBy, confirmed |-> by, onBus |-> s.pendingBy \in onBus]
           ran == Append(s.resets, entry)
           done == [s EXCEPT !.resets = ran, !.pendingBy = 0]
           soft == [done EXCEPT !.server = ServerReset(s.server), !.cycle = @ + 1]
           hard == [done EXCEPT !.server = InitialServer, !.link = InitialLink, !.fifo = <<>>,
                                !.cycle = 0, !.restarted = TRUE]
<1>1. IsSeq(ran) /\ Len(ran) = Len(s.resets) + 1
  <2> HIDE DEF entry
  <2>1. PICK S : s.resets \in Seq(S)
    BY DEF Resettable, IsSeq
  <2> DEFINE T == S \cup {entry}
  <2>2. s.resets \in Seq(T) /\ entry \in T
    BY <2>1
  <2> HIDE DEF T
  <2>3. ran \in Seq(T) /\ Len(ran) = Len(s.resets) + 1
    BY <2>2
  <2> QED
    BY <2>3 DEF IsSeq
<1>2. Reset(s, by) = IF s.server.pendingReset = "soft" THEN soft ELSE hard
  BY DEF Reset
<1> HIDE DEF ran, entry
<1>3. DOMAIN done = StateFields /\ done.resets = ran
  BY DEF Resettable, StateFields
<1> HIDE DEF done
<1>4. /\ DOMAIN soft = StateFields /\ soft.resets = ran /\ soft.server = ServerReset(s.server)
      /\ DOMAIN hard = StateFields /\ hard.resets = ran /\ hard.server = InitialServer
      /\ hard.restarted = TRUE
  BY <1>3 DEF StateFields
<1> HIDE DEF soft, hard
<1>5. ServerReset(s.server).age = s.server.age
  BY DEF ServerReset, Resettable, Server
<1>6. Resettable(soft) /\ RanReset(s, soft) /\ soft.server.age = s.server.age
  BY <1>1, <1>4, <1>5, ServerResetOK DEF Resettable, RanReset
<1>7. Resettable(hard) /\ RanReset(s, hard) /\ hard.restarted
  BY <1>1, <1>4, InitialServerOK DEF Resettable, RanReset
<1> QED
  BY <1>2, <1>6, <1>7

LEMMA AfterLinkLasts ==
    ASSUME NEW s, Resettable(s), NEW o
    PROVE  Lasts(s, AfterLink(s, o))
<1> DEFINE failed == o.conf /= <<>> /\ o.conf /= <<"OK">>
           given == IF failed THEN s.givenUp \cup {s.link.tx.msg[1][1]} ELSE s.givenUp
           queued == [s EXCEPT !.link = o.link, !.fifo = @ \o o.out, !.givenUp = given]
           id == s.link.tx.msg[1][1]
<1>1. AfterLink(s, o) = IF o.conf = <<"OK">> /\ s.server.pendingReset /= "none"
                        THEN Reset(queued, id) ELSE queued
  BY DEF AfterLink
<1> HIDE DEF given, id
<1>2. /\ DOMAIN queued = StateFields /\ queued.server = s.server /\ queued.resets = s.resets
      /\ queued.restarted = s.restarted
  BY DEF Resettable, StateFields
<1> HIDE DEF queued
<1>3. Resettable(queued)
  BY <1>2 DEF Resettable
<1>4. Lasts(s, queued)
  BY <1>2, <1>3 DEF Lasts
<1>5. Lasts(s, Reset(queued, id))
  BY <1>2, <1>3, ResetLasts DEF Lasts, RanReset
<1> QED
  BY <1>1, <1>4, <1>5

LEMMA RespondToServes ==
    ASSUME NEW s, Resettable(s), NEW r, NEW functional \in BOOLEAN
    PROVE  Serves(s, RespondTo(s, r, functional), r)
<1> DEFINE p == ProcessRequest(s.server, r, functional)
           response == ResponseTo(r.id, p.length)
           isReset == r.sid = 17 /\ p.nrc = 0
           accepts == IF isReset THEN s.accepted \cup {r.id} ELSE s.accepted
           by == IF isReset THEN r.id ELSE s.pendingBy
           served == [s EXCEPT !.server = p.server, !.accepted = accepts, !.pendingBy = by]
           begun == [served EXCEPT !.link.tx.msg = response]
           o == Transmit(s.link, response, Room(s))
<1>1. /\ p.server \in Server /\ p.server.age = 0
      /\ p.server.session \in {s.server.session, "extended"} \/ (r.sid = 16 /\ r.sub = 1)
  BY ProcessRequestOK DEF Resettable
<1>2. RespondTo(s, r, functional)
        = IF CanTransmit(s.link, Cfg, response) THEN AfterLink(begun, o) ELSE served
  BY DEF RespondTo
<1> HIDE DEF p, accepts, by, response, o
<1>3. /\ DOMAIN served = StateFields /\ served.server = p.server /\ served.resets = s.resets
      /\ served.restarted = s.restarted
  BY DEF Resettable, StateFields
<1>4. /\ DOMAIN begun = StateFields /\ begun.server = p.server /\ begun.resets = s.resets
      /\ begun.restarted = s.restarted
  <2> HIDE DEF served
  <2> QED
    BY <1>3 DEF StateFields
<1> HIDE DEF served, begun
<1>5. Resettable(served) /\ Resettable(begun)
  BY <1>1, <1>3, <1>4 DEF Resettable
<1>6. Serves(s, served, r)
  BY <1>1, <1>3, <1>5 DEF Serves
<1>7. Lasts(begun, AfterLink(begun, o))
  BY <1>5, AfterLinkLasts
<1>8. Serves(s, AfterLink(begun, o), r)
  BY <1>1, <1>4, <1>7 DEF Lasts, Serves, RanReset
<1> QED
  BY <1>2, <1>6, <1>8

\* What the iteration does first, with a frame of the tester ...
LEMMA OnFrameSession ==
    ASSUME NEW s, Sound(s), NEW f, f = TesterFc \/ IsRequest(f)
    PROVE  IF IsWhole(f) THEN Serves(s, OnFrame(s, f), f.data[1]) ELSE Lasts(s, OnFrame(s, f))
<1> DEFINE o == RxFrame(s.link, Cfg, f, Room(s))
           heard == [s EXCEPT !.link = o.link]
<1>1. Resettable(s) /\ LinkOK(s.link)
  BY SoundResettable DEF Sound
<1>2. OnFrame(s, f) = CASE f.functional /\ IsWhole(f) -> RespondTo(s, f.data[1], TRUE)
                        [] f.functional /\ ~IsWhole(f) -> s
                        [] ~f.functional /\ f.pci = "SF" /\ o.ind /= <<>> ->
                              RespondTo(heard, o.ind[1].data[1], FALSE)
                        [] OTHER -> AfterLink(s, o)
  BY DEF OnFrame
<1>3. Lasts(s, s) /\ Lasts(s, AfterLink(s, o))
  BY <1>1, AfterLinkLasts DEF Lasts
<1>4. CASE f = TesterFc
  <2>1. f.pci = "FC" /\ f.functional = FALSE
    BY <1>4 DEF TesterFc
  <2>2. ~IsWhole(f)
    BY <2>1 DEF IsWhole
  <2> HIDE DEF o, heard
  <2> QED
    BY <1>2, <1>3, <2>1, <2>2
<1>5. CASE IsRequest(f)
  <2>1. PICK r : r.id \in Nat /\ \E functional \in BOOLEAN, dlc \in {1, CanDl} :
                                     f = RequestFrame(r, functional, dlc)
    BY <1>5 DEF IsRequest
  <2>2. PICK functional \in BOOLEAN, dlc \in {1, CanDl} : f = RequestFrame(r, functional, dlc)
    BY <2>1
  <2>3. f.pci = "SF" /\ f.functional = functional /\ f.data[1] = r
    BY <2>2, RequestFields
  <2>4. IF IsWhole(f) THEN o.ind /= <<>> /\ o.ind[1].data[1] = r ELSE o = Unchanged(s.link)
    BY <1>1, <2>2, RequestReceived
  <2> HIDE DEF o
  <2>5. Resettable(heard) /\ heard.server = s.server /\ heard.resets = s.resets
        /\ heard.restarted = s.restarted
    BY <1>1 DEF Resettable, StateFields
  <2> HIDE DEF heard
  <2>6. Serves(s, RespondTo(s, r, TRUE), r) /\ Serves(heard, RespondTo(heard, r, FALSE), r)
    BY <1>1, <2>5, RespondToServes
  <2>7. Serves(s, RespondTo(heard, r, FALSE), r)
    BY <2>5, <2>6 DEF Serves, RanReset
  <2>8. CASE IsWhole(f)
    BY <1>2, <2>3, <2>4, <2>6, <2>7, <2>8
  <2>9. CASE ~IsWhole(f)
    <3>1. o.ind = <<>>
      BY <2>4, <2>9 DEF Unchanged
    <3> QED
      BY <1>2, <1>3, <2>3, <2>9, <3>1
  <2> QED
    BY <2>8, <2>9
<1> QED
  BY <1>4, <1>5

\* ... and last.
LEMMA DiagMainSession ==
    ASSUME NEW s, Sound(s)
    PROVE  LET t == DiagMain(s)
           IN  /\ ~t.restarted => t.server.age = s.server.age
               /\ \/ RanReset(s, t)
                  \/ /\ t.resets = s.resets /\ t.restarted = s.restarted
                     /\ t.server.session = s.server.session \/ s.server.age >= S3
<1> DEFINE o == MainFunction(s.link, Cfg, Room(s), Room(s))
           polled == AfterLink(s, o)
           t == DiagMain(s)
           kept == [polled EXCEPT !.server = ServerMain(@)]
<1>1. t = IF polled.restarted THEN polled ELSE kept
  BY DEF DiagMain
<1>2. Lasts(s, polled)
  BY SoundResettable, AfterLinkLasts
<1> HIDE DEF polled, t
<1>3. /\ kept.server = ServerMain(polled.server) /\ kept.resets = polled.resets
      /\ kept.restarted = polled.restarted
  BY <1>2 DEF Lasts, Resettable, StateFields
<1> HIDE DEF kept
<1>4. /\ ServerMain(polled.server).age = polled.server.age
      /\ ServerMain(polled.server).session = polled.server.session \/ polled.server.age >= S3
  BY <1>2, ServerMainOK DEF Lasts, Resettable
<1>5. CASE polled.restarted
  BY <1>1, <1>2, <1>5 DEF Lasts, t
<1>6. CASE ~polled.restarted
  BY <1>1, <1>2, <1>3, <1>4, <1>6 DEF Lasts, RanReset, t
<1> QED
  BY <1>5, <1>6

-----------------------------------------------------------------------------
(* The queue.                                                              *)

\* The requests in the queue are newer than the accepted ones, the later the
\* newer; n have been sent.
QueueOK(q, a, n) ==
    /\ IsSeq(q) /\ n \in Nat
    /\ \A x \in a : x \in Nat /\ x <= n
    /\ \A k \in DOMAIN q :
          \/ q[k] = TesterFc
          \/ /\ IsRequest(q[k]) /\ Number(q[k]) \in Nat /\ Number(q[k]) <= n
             /\ \A x \in a : x < Number(q[k])
    /\ \A j, k \in DOMAIN q :
          j < k /\ q[j] /= TesterFc /\ q[k] /= TesterFc => Number(q[j]) < Number(q[k])

LEMMA RequestNumber ==
    ASSUME NEW f, IsRequest(f) PROVE Number(f) \in Nat /\ f /= TesterFc
<1>1. PICK r : r.id \in Nat /\ \E functional \in BOOLEAN, dlc \in {1, CanDl} :
                                   f = RequestFrame(r, functional, dlc)
  BY DEF IsRequest
<1>2. PICK functional \in BOOLEAN, dlc \in {1, CanDl} : f = RequestFrame(r, functional, dlc)
  BY <1>1
<1>3. f.pci = "SF" /\ f.data[1] = r
  BY <1>2, RequestFields
<1>4. TesterFc.pci = "FC"
  BY DEF TesterFc
<1> QED
  BY <1>1, <1>2, <1>3, <1>4 DEF Number

LEMMA RequestIs ==
    ASSUME NEW r, r.id \in Nat, NEW functional \in BOOLEAN, NEW dlc \in {1, CanDl}
    PROVE  LET f == RequestFrame(r, functional, dlc) IN IsRequest(f) /\ Number(f) = r.id
<1> DEFINE f == RequestFrame(r, functional, dlc)
<1>1. IsRequest(f)
  BY Zenon DEF IsRequest
<1>2. f.data[1] = r
  BY RequestFields
<1> QED
  BY <1>1, <1>2 DEF Number

LEMMA Taken ==
    ASSUME NEW q, IsSeq(q), q /= <<>>
    PROVE  /\ IsSeq(Tail(q)) /\ Len(q) \in Nat \ {0} /\ DOMAIN q = 1 .. Len(q)
           /\ Len(Tail(q)) = Len(q) - 1 /\ DOMAIN Tail(q) = 1 .. Len(q) - 1
           /\ Head(q) = q[1] /\ \A k \in 1 .. Len(q) - 1 : Tail(q)[k] = q[k + 1]
<1>1. PICK S : q \in Seq(S)
  BY DEF IsSeq
<1>2. Tail(q) \in Seq(S)
  BY <1>1
<1> QED
  BY <1>1, <1>2 DEF IsSeq

LEMMA Added ==
    ASSUME NEW q, IsSeq(q), NEW f
    PROVE  /\ IsSeq(Append(q, f)) /\ Len(q) \in Nat /\ DOMAIN q = 1 .. Len(q)
           /\ Len(Append(q, f)) = Len(q) + 1 /\ DOMAIN Append(q, f) = 1 .. Len(q) + 1
           /\ Append(q, f)[Len(q) + 1] = f
           /\ \A k \in 1 .. Len(q) : Append(q, f)[k] = q[k]
<1>1. PICK S : q \in Seq(S)
  BY DEF IsSeq
<1> DEFINE T == S \cup {f}
<1>2. q \in Seq(T) /\ f \in T
  BY <1>1
<1> HIDE DEF T
<1>3. Append(q, f) \in Seq(T)
  BY <1>2
<1> QED
  BY <1>2, <1>3 DEF IsSeq

LEMMA QueueTaken ==
    ASSUME NEW q, NEW a, NEW n, QueueOK(q, a, n), q /= <<>>,
           NEW b, b \subseteq a \cup (IF Head(q) = TesterFc THEN {} ELSE {Number(Head(q))})
    PROVE  QueueOK(Tail(q), b, n)
<1> DEFINE t == Tail(q)
<1>1. /\ IsSeq(t) /\ Len(q) \in Nat \ {0} /\ DOMAIN q = 1 .. Len(q)
      /\ Head(q) = q[1]
      /\ DOMAIN t = 1 .. Len(q) - 1 /\ \A k \in 1 .. Len(q) - 1 : t[k] = q[k + 1]
  BY Taken DEF QueueOK
<1> HIDE DEF t
<1>2. \A x \in b : x \in a \/ (q[1] /= TesterFc /\ x = Number(q[1]))
  BY <1>1
<1>3. ASSUME NEW x \in b PROVE x \in Nat /\ x <= n
  <2>1. 1 \in DOMAIN q
    BY <1>1
  <2> QED
    BY <1>2, <2>1 DEF QueueOK
<1>4. ASSUME NEW k \in DOMAIN t
      PROVE  \/ t[k] = TesterFc
             \/ /\ IsRequest(t[k]) /\ Number(t[k]) \in Nat /\ Number(t[k]) <= n
                /\ \A x \in b : x < Number(t[k])
  <2>1. 1 \in DOMAIN q /\ k + 1 \in DOMAIN q /\ 1 < k + 1 /\ t[k] = q[k + 1]
    BY <1>1
  <2> QED
    BY <1>2, <2>1 DEF QueueOK
<1>5. ASSUME NEW j \in DOMAIN t, NEW k \in DOMAIN t, j < k, t[j] /= TesterFc, t[k] /= TesterFc
      PROVE  Number(t[j]) < Number(t[k])
  <2>1. /\ j + 1 \in DOMAIN q /\ k + 1 \in DOMAIN q /\ j + 1 < k + 1
        /\ t[j] = q[j + 1] /\ t[k] = q[k + 1]
    BY <1>1, <1>5
  <2> QED
    BY <1>5, <2>1 DEF QueueOK
<1> QED
  BY <1>1, <1>3, <1>4, <1>5 DEF QueueOK, t

LEMMA QueueAdded ==
    ASSUME NEW q, NEW a, NEW n, QueueOK(q, a, n), NEW m \in Nat, n <= m,
           NEW f, f = TesterFc \/ (IsRequest(f) /\ Number(f) = m /\ n < m)
    PROVE  QueueOK(q, a, m) /\ QueueOK(Append(q, f), a, m)
<1> DEFINE t == Append(q, f)
<1>1. /\ IsSeq(q) /\ IsSeq(t) /\ Len(q) \in Nat /\ DOMAIN q = 1 .. Len(q)
      /\ DOMAIN t = 1 .. Len(q) + 1 /\ t[Len(q) + 1] = f
      /\ \A k \in 1 .. Len(q) : t[k] = q[k]
  BY Added DEF QueueOK
<1> HIDE DEF t
<1>2. n \in Nat /\ \A x \in a : x \in Nat /\ x <= n
  BY DEF QueueOK
<1>3. ASSUME NEW k \in DOMAIN q
      PROVE  \/ q[k] = TesterFc
             \/ /\ IsRequest(q[k]) /\ Number(q[k]) \in Nat /\ Number(q[k]) <= n
                /\ \A x \in a : x < Number(q[k])
  BY DEF QueueOK
<1>4. QueueOK(q, a, m)
  BY <1>2, <1>3 DEF QueueOK
<1>5. ASSUME NEW k \in DOMAIN t
      PROVE  \/ t[k] = TesterFc
             \/ /\ IsRequest(t[k]) /\ Number(t[k]) \in Nat /\ Number(t[k]) <= m
                /\ \A x \in a : x < Number(t[k])
  BY <1>1, <1>2, <1>3
<1>6. ASSUME NEW j \in DOMAIN t, NEW k \in DOMAIN t, j < k, t[j] /= TesterFc, t[k] /= TesterFc
      PROVE  Number(t[j]) < Number(t[k])
  <2>1. j \in DOMAIN q /\ t[j] = q[j]
    BY <1>1, <1>6
  <2>2. CASE k \in DOMAIN q
    <3>1. t[k] = q[k]
      BY <1>1, <2>2
    <3> QED
      BY <1>6, <2>1, <2>2, <3>1 DEF QueueOK
  <2>3. CASE k \notin DOMAIN q
    <3>1. t[k] = f
      BY <1>1, <2>3
    <3> QED
      BY <1>2, <1>3, <1>6, <2>1, <3>1
  <2> QED
    BY <2>2, <2>3
<1> QED
  BY <1>1, <1>2, <1>4, <1>5, <1>6 DEF QueueOK, t

-----------------------------------------------------------------------------
(* The inductive invariant.                                                *)

IInv ==
    /\ LinkOK(link) /\ server \in Server
    /\ ResetsOK(accepted, resets, server.pendingReset, pendingBy)
    /\ IsSeq(fifo) /\ Len(fifo) <= FifoDepth
    /\ StreamOK(fifo, onBus \cup givenUp, open, link.tx)
    /\ QueueOK(queue, accepted, sent)
    /\ server.age = silence /\ silence \in 0 .. S3

LEMMA SoundState == ASSUME IInv PROVE /\ Sound(State) /\ ~State.restarted /\ State.accepted = accepted
                                         /\ State.server = server /\ State.resets = resets
<1> DEFINE s == State
<1>1. /\ DOMAIN s = StateFields /\ s.server = server /\ s.accepted = accepted
      /\ s.resets = resets /\ s.pendingBy = pendingBy /\ s.restarted = FALSE
      /\ s.link = link /\ s.fifo = fifo /\ s.givenUp = givenUp
  BY DEF State, StateFields
<1> HIDE DEF s
<1> QED
  BY <1>1 DEF Sound, StateOK, IInv, s

LEMMA EmptyStream == ASSUME NEW D, NEW tx, ~Mid(tx) PROVE StreamOK(<<>>, D, 0, tx)
<1> DEFINE op == [k \in {0} |-> 0]
<1>1. op[0] = 0
  OBVIOUS
<1> HIDE DEF op
<1>2. Stream(<<>>, D, 0, op) /\ op[Len(<<>>)] = 0
  BY <1>1 DEF Stream
<1>3. 0 \in Done(<<>>, Len(<<>>), D)
  BY DEF Done
<1> QED
  BY <1>2, <1>3 DEF StreamOK

LEMMA InitIInv == ASSUME Init PROVE IInv
<1>1. LinkOK(link) /\ ~Mid(link.tx)
  BY IdleOK DEF Init, InitialLink
<1>2. IsSeq(fifo) /\ Len(fifo) <= FifoDepth
  BY EmptySeq, QueueAssumption DEF Init
<1>3. ResetsOK(accepted, resets, server.pendingReset, pendingBy)
  BY EmptySeq, InitialServerOK DEF Init, ResetsOK
<1>4. StreamOK(fifo, onBus \cup givenUp, open, link.tx)
  BY <1>1, EmptyStream DEF Init
<1>5. QueueOK(queue, accepted, sent)
  BY EmptySeq DEF Init, QueueOK
<1>6. server.age = silence /\ silence \in 0 .. S3
  BY ServerAssumption DEF Init, InitialServer
<1> QED
  BY <1>1, <1>2, <1>3, <1>4, <1>5, <1>6, InitialServerOK DEF Init, IInv

\* The iteration ends in a sound record.
LEMMA BecomesOK ==
    ASSUME IInv, NEW s, Sound(s), NEW rest, NEW quiet \in 0 .. S3, Becomes(s, rest, quiet),
           QueueOK(rest, s.accepted, sent), ~s.restarted => s.server.age = quiet
    PROVE  IInv'
<1>1. /\ link' = s.link /\ server' = s.server /\ fifo' = s.fifo /\ accepted' = s.accepted
      /\ pendingBy' = s.pendingBy /\ resets' = s.resets /\ givenUp' = s.givenUp
      /\ sent' = sent /\ onBus' = onBus
      /\ queue' = IF s.restarted THEN <<>> ELSE rest
      /\ open' = IF s.restarted THEN 0 ELSE open
      /\ silence' = IF s.restarted THEN 0 ELSE quiet
  BY DEF Becomes
<1>2. /\ LinkOK(link') /\ server' \in Server
      /\ ResetsOK(accepted', resets', server'.pendingReset, pendingBy')
      /\ IsSeq(fifo') /\ Len(fifo') <= FifoDepth
  BY <1>1 DEF Sound, StateOK
<1>3. QueueOK(<<>>, s.accepted, sent)
  BY EmptySeq DEF QueueOK
<1>4. QueueOK(queue', accepted', sent')
  BY <1>1, <1>3
<1>5. StreamOK(fifo', onBus' \cup givenUp', open', link'.tx)
  <2>1. CASE s.restarted
    BY <1>1, <2>1, EmptyStream, IdleOK DEF Sound, Restarted, InitialLink
  <2>2. CASE ~s.restarted
    BY <1>1, <2>2 DEF Sound
  <2> QED
    BY <2>1, <2>2
<1>6. server'.age = silence' /\ silence' \in 0 .. S3
  <2>1. CASE s.restarted
    BY <1>1, <2>1, ServerAssumption DEF Sound, Restarted, InitialServer
  <2>2. CASE ~s.restarted
    BY <1>1, <2>2
  <2> QED
    BY <2>1, <2>2
<1> QED
  BY <1>2, <1>4, <1>5, <1>6 DEF IInv

\* What S3Respected says of an iteration.
SessionKept ==
    /\ server'.session = "extended" => silence' < S3
    /\ server.session = "extended" /\ server'.session = "default" =>
          silence' = S3 \/ resets' /= resets \/ AsksDefault

LEMMA FrameStep ==
    ASSUME IInv, ComRxFrame
    PROVE  IInv' /\ SessionKept
<1> DEFINE f == Head(queue)
           s == OnFrame(State, f)
           t == IF s.restarted THEN s ELSE DiagMain(s)
           new == IF f = TesterFc THEN {} ELSE {Number(f)}
           quiet == IF IsWhole(f) THEN 0 ELSE silence
<1>1. queue /= <<>> /\ Becomes(t, Tail(queue), quiet)
  BY DEF ComRxFrame
<1>2. /\ Sound(State) /\ ~State.restarted /\ State.accepted = accepted
      /\ State.server = server /\ State.resets = resets
  BY SoundState
<1>3. /\ f = TesterFc \/ (IsRequest(f) /\ Number(f) \in Nat /\ \A x \in accepted : x < Number(f))
      /\ QueueOK(queue, accepted, sent)
  <2>1. 1 \in DOMAIN queue /\ f = queue[1]
    BY <1>1, Taken DEF IInv, QueueOK
  <2> QED
    BY <2>1 DEF IInv, QueueOK
<1> HIDE DEF f
<1>4. Sound(s) /\ s.accepted \subseteq accepted \cup new
  <2>1. CASE f = TesterFc
    BY <1>2, <2>1, OnFlowControlOK
  <2>2. CASE f /= TesterFc
    <3>1. \A x \in accepted : x \in Nat
      BY <1>3 DEF QueueOK
    <3>2. Number(f) \notin accepted
      BY <1>3, <2>2, <3>1
    <3> QED
      BY <1>2, <1>3, <2>2, <3>2, OnRequestOK
  <2> QED
    BY <2>1, <2>2
<1> HIDE DEF s
<1>5. /\ Sound(t) /\ t.accepted = s.accepted
      /\ t.server.session = "extended" => t.server.age < S3
  <2>1. CASE s.restarted
    BY <1>4, <2>1, InitialServerOK DEF Sound, Restarted
  <2>2. CASE ~s.restarted
    BY <1>4, <2>2, DiagMainOK
  <2> QED
    BY <2>1, <2>2
<1>6. QueueOK(Tail(queue), t.accepted, sent)
  BY <1>1, <1>3, <1>4, <1>5, QueueTaken DEF f
<1>7. quiet \in 0 .. S3 /\ server.age = silence
  BY ServerAssumption DEF IInv
<1>8. /\ ~s.restarted => s.server.age = quiet
      /\ \/ RanReset(State, s)
         \/ /\ s.resets = resets /\ ~s.restarted
            /\ s.server.session \in {server.session, "extended"} \/ AsksDefault
  <2>1. IF IsWhole(f) THEN Serves(State, s, f.data[1]) ELSE Lasts(State, s)
    BY <1>2, <1>3, OnFrameSession DEF s
  <2>2. CASE IsWhole(f)
    BY <1>1, <1>2, <2>1, <2>2 DEF Serves, AsksDefault, f
  <2>3. CASE ~IsWhole(f)
    BY <1>2, <1>7, <2>1, <2>3 DEF Lasts
  <2> QED
    BY <2>2, <2>3
<1>9. /\ ~t.restarted => t.server.age = quiet
      /\ \/ Len(t.resets) > Len(resets)
         \/ /\ ~t.restarted
            /\ t.server.session \in {server.session, "extended"} \/ AsksDefault \/ quiet >= S3
  <2>0. Len(resets) \in Nat
    BY EmptySeq, Concatenated DEF IInv, ResetsOK
  <2>1. CASE s.restarted
    <3>1. t = s /\ RanReset(State, s)
      BY <1>8, <2>1
    <3> HIDE DEF t
    <3> QED
      BY <1>2, <2>0, <2>1, <3>1 DEF RanReset
  <2>2. CASE ~s.restarted
    <3>1. t = DiagMain(s)
      BY <2>2
    <3>2. /\ ~t.restarted => t.server.age = s.server.age
          /\ \/ RanReset(s, t)
             \/ /\ t.resets = s.resets /\ t.restarted = s.restarted
                /\ t.server.session = s.server.session \/ s.server.age >= S3
      BY <1>4, <3>1, DiagMainSession
    <3> HIDE DEF t
    <3>3. CASE RanReset(State, s)
      BY <1>2, <1>8, <2>0, <2>2, <3>2, <3>3 DEF RanReset
    <3>4. CASE ~RanReset(State, s)
      BY <1>8, <2>0, <2>2, <3>2, <3>4 DEF RanReset
    <3> QED
      BY <3>3, <3>4
  <2> QED
    BY <2>1, <2>2
<1> HIDE DEF t
<1>10. IInv'
  BY <1>1, <1>5, <1>6, <1>7, <1>9, BecomesOK
<1>11. /\ server' = t.server /\ resets' = t.resets
       /\ silence' = IF t.restarted THEN 0 ELSE quiet
  BY <1>1 DEF Becomes
<1>12. SessionKept
  <2>1. server'.session = "extended" => silence' < S3
    BY <1>5, <1>10, <1>11 DEF IInv
  <2>2. ASSUME server.session = "extended", server'.session = "default"
        PROVE  silence' = S3 \/ resets' /= resets \/ AsksDefault
    <3>1. CASE Len(t.resets) > Len(resets)
      <4>1. Len(resets) \in Nat
        BY EmptySeq, Concatenated DEF IInv, ResetsOK
      <4> QED
        BY <1>11, <3>1, <4>1
    <3>2. CASE ~(Len(t.resets) > Len(resets))
      <4>1. ~t.restarted /\ (AsksDefault \/ quiet >= S3)
        BY <1>9, <1>11, <2>2, <3>2
      <4>2. quiet >= S3 => quiet = S3
        BY <1>7, ServerAssumption
      <4> QED
        BY <1>11, <4>1, <4>2
    <3> QED
      BY <3>1, <3>2
  <2> QED
    BY <2>1, <2>2 DEF SessionKept
<1> QED
  BY <1>10, <1>12

LEMMA TimeoutStep ==
    ASSUME IInv, ComRxTimeout
    PROVE  IInv' /\ SessionKept
<1> DEFINE t == DiagMain(State)
<1>1. queue = <<>> /\ Becomes(t, <<>>, silence)
  BY DEF ComRxTimeout
<1>2. /\ Sound(t) /\ t.accepted = accepted
      /\ t.server.session = "extended" => t.server.age < S3
  BY SoundState, DiagMainOK
<1>3. /\ ~t.restarted => t.server.age = silence
      /\ \/ Len(t.resets) = Len(resets) + 1
         \/ ~t.restarted /\ (t.server.session = server.session \/ silence >= S3)
  BY SoundState, DiagMainSession DEF RanReset, IInv
<1> HIDE DEF t
<1>4. QueueOK(<<>>, t.accepted, sent) /\ silence \in 0 .. S3 /\ Len(resets) \in Nat
  <2>1. Len(resets) \in Nat
    BY EmptySeq, Concatenated DEF IInv, ResetsOK
  <2> QED
    BY <1>1, <1>2, <2>1 DEF IInv
<1>5. IInv'
  BY <1>1, <1>2, <1>3, <1>4, BecomesOK
<1>6. /\ server' = t.server /\ resets' = t.resets
      /\ silence' = IF t.restarted THEN 0 ELSE silence
  BY <1>1 DEF Becomes
<1>7. SessionKept
  <2>1. server'.session = "extended" => silence' < S3
    BY <1>2, <1>5, <1>6 DEF IInv
  <2>2. ASSUME server.session = "extended", server'.session = "default"
        PROVE  silence' = S3 \/ resets' /= resets
    <3>1. silence >= S3 => silence = S3
      BY <1>4, ServerAssumption
    <3>2. Len(t.resets) = Len(resets) + 1 => t.resets /= resets
      BY <1>4
    <3> QED
      BY <1>3, <1>6, <2>2, <3>1, <3>2
  <2> QED
    BY <2>1, <2>2 DEF SessionKept
<1> QED
  BY <1>5, <1>7

LEMMA StatusStep == ASSUME IInv, MonitorStatus PROVE IInv'
<1> DEFINE x == [pci |-> "STATUS"]
           g == <<x>>
           D == onBus \cup givenUp
<1>1. /\ Len(fifo) < FifoDepth /\ fifo' = Append(fifo, x)
      /\ UNCHANGED <<link, server, queue, sent, accepted, pendingBy, onBus, resets, open, silence,
                     givenUp>>
  BY DEF MonitorStatus
<1>2. x.pci = "STATUS"
  OBVIOUS
<1> HIDE DEF x
<1>3. IsSeq(fifo') /\ Len(fifo') = Len(fifo) + 1 /\ Len(fifo) \in Nat
  BY <1>1, Added DEF IInv
<1>4. fifo' = fifo \o g
  <2>1. PICK S : fifo \in Seq(S)
    BY DEF IInv, IsSeq
  <2> DEFINE T == S \cup {x}
  <2>2. fifo \in Seq(T) /\ x \in T
    BY <2>1
  <2> HIDE DEF T
  <2> QED
    BY <1>1, <2>2
<1>5. IsSeq(g) /\ Len(g) = 1 /\ g[1] = x
  BY SingleSeq
<1> HIDE DEF g, D
<1>6. StreamOK(fifo', D, open, link.tx)
  <2>1. PICK op : /\ Stream(fifo, D, open, op)
                  /\ IF Mid(link.tx) THEN op[Len(fifo)] = Of(link.tx.msg)
                     ELSE op[Len(fifo)] \in Done(fifo, Len(fifo), D)
    BY DEF IInv, StreamOK, D
  <2>2. \A k \in DOMAIN g : IsPart(g[k], "CF", op[Len(fifo)]) \/ g[k].pci = "STATUS"
    <3>1. DOMAIN g = 1 .. 1
      BY <1>5, Concatenated
    <3> QED
      BY <1>2, <1>5, <3>1
  <2>3. D \subseteq D /\ IsSeq(fifo)
    BY DEF IInv
  <2>4. Leaves(fifo \o g, D, open, op[Len(fifo)])
    BY <1>5, <2>1, <2>2, <2>3, StreamContinues
  <2>5. Done(fifo, Len(fifo), D) \subseteq Done(fifo \o g, Len(fifo \o g), D)
    <3>1. Len(fifo) \in 0 .. Len(fifo) /\ Len(fifo \o g) \in Nat /\ Len(fifo) <= Len(fifo \o g)
      BY <1>3, <1>4
    <3> QED
      BY <1>5, <2>3, <3>1, DoneGrows
  <2> QED
    BY <1>4, <2>1, <2>4, <2>5 DEF StreamOK, Leaves
<1>7. Len(fifo') <= FifoDepth
  BY <1>1, <1>3, QueueAssumption
<1> QED
  BY <1>1, <1>3, <1>6, <1>7 DEF IInv, D

LEMMA BusStep == ASSUME IInv, BusSend PROVE IInv'
<1> DEFINE f == fifo
           x == Head(fifo)
           t == Tail(fifo)
           D == onBus \cup givenUp
           E == onBus' \cup givenUp
<1>1. /\ fifo /= <<>> /\ fifo' = t
      /\ onBus' = IF Completes(x) THEN onBus \cup {IdOf(x)} ELSE onBus
      /\ open' = OpenAfter(x, open)
      /\ UNCHANGED <<link, server, queue, sent, accepted, pendingBy, resets, silence, givenUp>>
  BY DEF BusSend
<1>2. /\ IsSeq(f) /\ IsSeq(t) /\ Len(f) \in Nat \ {0}
      /\ Len(t) = Len(f) - 1 /\ x = f[1] /\ \A k \in 1 .. Len(t) : t[k] = f[k + 1]
  BY <1>1, Taken DEF IInv
<1>3. PICK op : /\ Stream(f, D, open, op)
                /\ IF Mid(link.tx) THEN op[Len(f)] = Of(link.tx.msg)
                   ELSE op[Len(f)] \in Done(f, Len(f), D)
  BY DEF IInv, StreamOK
<1>4. D \subseteq E /\ (Completes(f[1]) => IdOf(f[1]) \in E)
  BY <1>1, <1>2
<1>5. open' = OpenAfter(f[1], open)
  BY <1>1, <1>2
<1> HIDE DEF f, x, t, D, E
<1>6. \A k \in 0 .. Len(t) : Done(f, k + 1, D) \subseteq Done(t, k, E)
  <2> SUFFICES ASSUME NEW k \in 0 .. Len(t), NEW y \in Done(f, k + 1, D)
               PROVE  y \in Done(t, k, E)
    OBVIOUS
  <2>1. CASE y \in D \cup {0}
    BY <1>4, <2>1 DEF Done
  <2>2. CASE y \notin D \cup {0}
    <3>1. PICK j \in 1 .. k + 1 : Completes(f[j]) /\ y = IdOf(f[j])
      BY <2>2 DEF Done
    <3>2. CASE j = 1
      BY <1>4, <3>1, <3>2 DEF Done
    <3>3. CASE j /= 1
      <4> DEFINE i == j - 1
      <4>1. i \in 1 .. k /\ i \in 1 .. Len(t) /\ i + 1 = j
        BY <1>2, <3>1, <3>3
      <4> HIDE DEF i
      <4>2. t[i] = f[j]
        BY <1>2, <4>1
      <4> QED
        BY <3>1, <4>1, <4>2 DEF Done
    <3> QED
      BY <3>2, <3>3
  <2> QED
    BY <2>1, <2>2
<1> DEFINE q == [k \in 0 .. Len(t) |-> op[k + 1]]
<1>7. \A k \in 0 .. Len(t) : q[k] = op[k + 1]
  OBVIOUS
<1> HIDE DEF q
<1>8. q[0] = open' /\ q[Len(t)] = op[Len(f)]
  <2>1. 0 \in 0 .. Len(t) /\ Len(t) \in 0 .. Len(t) /\ Len(t) + 1 = Len(f) /\ 1 \in 1 .. Len(f)
    BY <1>2
  <2>2. op[1] = OpenAfter(f[1], op[1 - 1]) /\ op[0] = open
    BY <1>3, <2>1 DEF Stream
  <2>3. q[0] = op[0 + 1] /\ q[Len(t)] = op[Len(t) + 1]
    BY <1>7, <2>1
  <2>4. 1 - 1 = 0 /\ 0 + 1 = 1
    OBVIOUS
  <2> QED
    BY <1>5, <2>1, <2>2, <2>3, <2>4
<1>9. ASSUME NEW k \in 1 .. Len(t)
      PROVE  /\ q[k] = OpenAfter(t[k], q[k - 1])
             /\ t[k].pci = "CF" => IdOf(t[k]) = q[k - 1]
             /\ t[k].pci \in {"SF", "FF"} => q[k - 1] \in Done(t, k - 1, E)
  <2>1. /\ k \in 0 .. Len(t) /\ k - 1 \in 0 .. Len(t) /\ (k - 1) + 1 = k
        /\ k + 1 \in 1 .. Len(f) /\ (k + 1) - 1 = k
    BY <1>2
  <2>2. t[k] = f[k + 1] /\ q[k] = op[k + 1] /\ q[k - 1] = op[k]
    BY <1>2, <1>7, <2>1
  <2>3. /\ op[k + 1] = OpenAfter(f[k + 1], op[k])
        /\ f[k + 1].pci = "CF" => IdOf(f[k + 1]) = op[k]
        /\ f[k + 1].pci \in {"SF", "FF"} => op[k] \in Done(f, k, D)
    <3>1. /\ op[k + 1] = OpenAfter(f[k + 1], op[(k + 1) - 1])
          /\ f[k + 1].pci = "CF" => IdOf(f[k + 1]) = op[(k + 1) - 1]
          /\ f[k + 1].pci \in {"SF", "FF"} => op[(k + 1) - 1] \in Done(f, (k + 1) - 1, D)
      BY <1>3, <2>1 DEF Stream
    <3> QED
      BY <2>1, <3>1
  <2>4. Done(f, k, D) \subseteq Done(t, k - 1, E)
    <3>1. Done(f, (k - 1) + 1, D) \subseteq Done(t, k - 1, E)
      BY <1>6, <2>1
    <3> QED
      BY <2>1, <3>1
  <2> QED
    BY <2>2, <2>3, <2>4
<1>10. Stream(t, E, open', q)
  BY <1>8, <1>9 DEF Stream
<1>11. Done(f, Len(f), D) \subseteq Done(t, Len(t), E)
  <2>1. Len(t) \in 0 .. Len(t) /\ Len(t) + 1 = Len(f)
    BY <1>2
  <2>2. Done(f, Len(t) + 1, D) \subseteq Done(t, Len(t), E)
    BY <1>6, <2>1
  <2> QED
    BY <2>1, <2>2
<1>12. StreamOK(t, E, open', link.tx)
  BY <1>3, <1>8, <1>10, <1>11 DEF StreamOK
<1>13. IsSeq(fifo') /\ Len(fifo') <= FifoDepth
  <2>1. Len(f) <= FifoDepth
    BY DEF IInv, f
  <2> QED
    BY <1>1, <1>2, <2>1, QueueAssumption
<1> QED
  BY <1>1, <1>12, <1>13 DEF IInv, E

LEMMA TesterStep ==
    ASSUME IInv,
           (\E r \in Requests, functional \in BOOLEAN, dlc \in {1, CanDl} :
               TesterRequest(r, functional, dlc))
              \/ TesterFlowControl
    PROVE  IInv'
<1>1. UNCHANGED <<link, server, fifo, accepted, pendingBy, onBus, resets, silence, open, givenUp>>
  BY DEF TesterRequest, TesterFlowControl, OnCanRx
<1>2. QueueOK(queue, accepted, sent) /\ sent \in Nat
  BY DEF IInv, QueueOK
<1>3. QueueOK(queue', accepted, sent')
  <2>1. CASE TesterFlowControl
    <3>1. /\ queue' = queue \/ queue' = Append(queue, TesterFc)
          /\ sent' = sent
      BY <2>1 DEF TesterFlowControl, OnCanRx
    <3>2. QueueOK(Append(queue, TesterFc), accepted, sent)
      BY <1>2, QueueAdded
    <3> QED
      BY <1>2, <3>1, <3>2
  <2>2. ASSUME NEW r \in Requests, NEW functional \in BOOLEAN, NEW dlc \in {1, CanDl},
               TesterRequest(r, functional, dlc)
        PROVE  QueueOK(queue', accepted, sent')
    <3> DEFINE request == Numbered(r, sent + 1)
               f == RequestFrame(request, functional, dlc)
    <3>1. (queue' = queue \/ queue' = Append(queue, f)) /\ sent' = sent + 1
      BY <2>2 DEF TesterRequest, OnCanRx
    <3>2. request.id = sent + 1
      BY DEF Numbered
    <3> HIDE DEF request
    <3>3. request.id \in Nat
      BY <1>2, <3>2
    <3>4. IsRequest(f) /\ Number(f) = sent + 1
      BY <3>2, <3>3, RequestIs, Zenon
    <3> HIDE DEF f
    <3>5. sent + 1 \in Nat /\ sent <= sent + 1 /\ sent < sent + 1
      BY <1>2
    <3>6. QueueOK(queue, accepted, sent + 1) /\ QueueOK(Append(queue, f), accepted, sent + 1)
      BY <1>2, <3>4, <3>5, QueueAdded
    <3> QED
      BY <3>1, <3>6
  <2> QED
    BY <2>1, <2>2
<1> QED
  BY <1>1, <1>3 DEF IInv

LEMMA TickStep == ASSUME IInv, Tick PROVE IInv'
<1>1. /\ link' = Aged(link) /\ server' = ServerAged(server)
      /\ UNCHANGED <<fifo, queue, sent, accepted, pendingBy, onBus, resets, open, givenUp>>
  BY DEF Tick
<1>2. server' \in Server /\ server'.pendingReset = server.pendingReset
  BY <1>1, ServerResetOK DEF IInv
<1>9. server'.age = silence' /\ silence' \in 0 .. S3
  <2>1. server'.age = (IF server.age < S3 THEN server.age + 1 ELSE server.age)
        /\ silence' = (IF silence < S3 THEN silence + 1 ELSE silence)
    BY DEF Tick, ServerAged, IInv, Server
  <2> QED
    BY <2>1, ServerAssumption DEF IInv
<1> DEFINE l == link
           a == IF l.tx.state \in {"SEND_FIRST", "WAIT_FC"} THEN Least(NBs, l.tx.timer + 1)
                ELSE l.tx.timer
           b == IF l.tx.state = "SEND_CF" THEN Least(l.tx.stMin + 1, l.tx.lastCf + 1)
                ELSE l.tx.lastCf
           c == IF l.rx.state = "RECEIVING" THEN Least(NCr, l.rx.timer + 1) ELSE l.rx.timer
           tx == [l.tx EXCEPT !.timer = a, !.lastCf = b]
           rx == [l.rx EXCEPT !.timer = c]
<1>3. Aged(l) = [l EXCEPT !.tx = tx, !.rx = rx]
  <2>1. DOMAIN l = {"tx", "rx", "fcPending"} /\ DOMAIN l.tx = TxFields
    BY DEF IInv, LinkOK, TxOK
  <2> QED
    BY <2>1 DEF Aged
<1>4. rx = IdleRx
  BY DEF IInv, LinkOK, IdleRx
<1>5. /\ DOMAIN tx = TxFields /\ tx.state = l.tx.state /\ tx.msg = l.tx.msg
      /\ tx.offset = l.tx.offset /\ tx.blockSize = l.tx.blockSize /\ tx.stMin = l.tx.stMin
  <2> HIDE DEF a, b
  <2> QED
    BY DEF IInv, LinkOK, TxOK, TxFields
<1> HIDE DEF tx, rx
<1>6. TxOK(tx) /\ (Mid(tx) <=> Mid(l.tx))
  BY <1>5 DEF IInv, LinkOK, TxOK, Mid
<1>7. LinkOK(link') /\ link'.tx = tx
  BY <1>1, <1>3, <1>4, <1>6 DEF IInv, LinkOK
<1>8. StreamOK(fifo', onBus' \cup givenUp', open', link'.tx)
  BY <1>1, <1>5, <1>6, <1>7 DEF IInv, StreamOK
<1> QED
  BY <1>1, <1>2, <1>7, <1>8, <1>9 DEF IInv

LEMMA NextIInv == ASSUME IInv, [Next]_vars PROVE IInv'
<1>1. CASE Next
  BY <1>1, FrameStep, TimeoutStep, StatusStep, BusStep, TesterStep, TickStep DEF Next
<1>2. CASE UNCHANGED vars
  BY <1>2 DEF vars, IInv
<1> QED
  BY <1>1, <1>2

\* The inductive invariant holds in every reachable state.
THEOREM Invariance == Spec => []IInv
<1>1. Init => IInv
  BY InitIInv
<1>2. IInv /\ [Next]_vars => IInv'
  BY NextIInv
<1> QED
  BY <1>1, <1>2, PTL DEF Spec

-----------------------------------------------------------------------------
(* The properties.                                                         *)

\* Each accepted 0x11 request resets the ECU at most once and nothing else
\* does, although a pending reset is run by whichever response is confirmed
\* (OnEcuResponseSent) and responses are dropped while another is being sent.
THEOREM ResetAtMostOnceCorrect == Spec => []ResetAtMostOnce
<1>1. IInv => ResetAtMostOnce
  BY DEF IInv, ResetsOK, ResetAtMostOnce
<1> QED
  BY <1>1, Invariance, PTL

\* The frames of responses leave the FIFO whole and one response after the
\* other, for every number and mixture of physical and functional requests.
THEOREM ResponsesWholeCorrect == Spec => []ResponsesWhole
<1>1. ASSUME IInv, fifo /= <<>>
      PROVE  LET f == Head(fifo)
             IN  /\ f.pci = "CF" => IdOf(f) = open
                 /\ f.pci \in {"SF", "FF"} => open = 0 \/ open \in onBus \cup givenUp
  <2> DEFINE D == onBus \cup givenUp
  <2>1. PICK op : Stream(fifo, D, open, op)
    BY <1>1 DEF IInv, StreamOK
  <2>2. 1 \in 1 .. Len(fifo) /\ Head(fifo) = fifo[1] /\ 1 - 1 = 0
    BY <1>1, Taken DEF IInv
  <2>3. /\ fifo[1].pci = "CF" => IdOf(fifo[1]) = op[0]
        /\ fifo[1].pci \in {"SF", "FF"} => op[0] \in Done(fifo, 0, D)
        /\ op[0] = open
    BY <2>1, <2>2 DEF Stream
  <2>4. Done(fifo, 0, D) = D \cup {0}
    BY DEF Done
  <2> QED
    BY <2>2, <2>3, <2>4
<1>2. IInv => ResponsesWhole
  BY <1>1 DEF ResponsesWhole
<1> QED
  BY <1>2, Invariance, PTL

\* S3 is neither late nor early, for every mixture of requests: an iteration of the
\* receive task, which polls S3 last, leaves no extended session open when no request
\* has come for S3, and closes none before unless asked to or reset.
THEOREM S3Correct == Spec => S3Respected
<1>1. IInv /\ [Next]_vars => [ComRx => SessionKept]_vars
  BY FrameStep, TimeoutStep DEF ComRx
<1>2. IInv /\ [Next]_vars =>
        [ComRx =>
           /\ server'.session = "extended" => silence' < S3
           /\ server.session = "extended" /\ server'.session = "default" =>
                 silence' = S3 \/ resets' /= resets \/ AsksDefault]_vars
  BY <1>1 DEF SessionKept
<1> QED
  BY <1>2, Invariance, PTL DEF Spec, S3Respected
=============================================================================
