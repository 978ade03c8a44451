--------------------------- MODULE IsoTpLinkProofs ---------------------------
(***************************************************************************)
(* Theorems about one ISO-TP link (IsoTpLink), for every frame size,       *)
(* modulus, buffer and block size and every set of frames.  The entry      *)
(* points of isotp.c are operators, so each has a lemma of its own: given  *)
(* a well-formed link it leaves a well-formed link, touches one side only, *)
(* makes exactly the callbacks that the sides' change from or to IDLE      *)
(* calls for, and sends no more CFs than the peer allows.                  *)
(***************************************************************************)
EXTENDS IsoTpLink, FiniteSetTheorems, TLAPS

TxFields == {"state", "msg", "offset", "seq", "blockSize", "blockCount", "stMin", "timer", "lastCf",
             "waitCount"}
RxFields == {"state", "length", "offset", "data", "seq", "blockCount", "timer"}

\* The sequence number of the CF at offset, which a number k of CFs precedes.
Numbered(seq, offset) ==
    \E k \in Nat : offset = FfData + k * CfMax /\ seq = (k + 1) % SeqMod

TxOK(tx) ==
    /\ DOMAIN tx = TxFields
    /\ tx.state \in {"IDLE", "SEND_FIRST", "WAIT_FC", "SEND_CF"}
    /\ tx.msg \in Seq({Pad}) /\ Len(tx.msg) <= Cfg.txSize /\ Len(tx.msg) <= MaxMessage
    /\ {tx.offset, tx.blockSize, tx.blockCount} \subseteq Nat
    /\ tx.state = "SEND_FIRST" => tx.msg /= <<>>
    /\ tx.state \in {"WAIT_FC", "SEND_CF"} =>
          FfData <= tx.offset /\ tx.offset < Len(tx.msg) /\ Numbered(tx.seq, tx.offset)
    /\ tx.state = "SEND_CF" => tx.blockSize = 0 \/ tx.blockCount < tx.blockSize

RxOK(rx) ==
    /\ DOMAIN rx = RxFields
    /\ rx.state \in {"IDLE", "RECEIVING"}
    /\ rx.data \in Seq({Pad}) /\ rx.length \in Nat /\ rx.offset \in Nat
    /\ rx.state = "RECEIVING" =>
          /\ FfData <= rx.offset /\ rx.offset < rx.length /\ rx.length <= Cfg.rxSize
          /\ Len(rx.data) = rx.offset /\ Numbered(rx.seq, rx.offset)

LinkOK(l) == DOMAIN l = {"tx", "rx", "fcPending"} /\ TxOK(l.tx) /\ RxOK(l.rx)

Busy(side) == IF side.state = "IDLE" THEN 0 ELSE 1

\* A callback was called n times, with the arguments s.
Calls(s, n) == \E S : s \in Seq(S) /\ Len(s) = n

LEMMA CallsLen == ASSUME NEW s, NEW n, Calls(s, n) PROVE Len(s) = n /\ n \in Nat
BY DEF Calls

LEMMA NoCall == Calls(<<>>, 0)
<1>1. <<>> \in Seq({}) /\ Len(<<>>) = 0
  OBVIOUS
<1> QED
  BY <1>1 DEF Calls

LEMMA OneCall == ASSUME NEW x PROVE Calls(<<x>>, 1)
<1>1. <<x>> \in Seq({x}) /\ Len(<<x>>) = 1
  OBVIOUS
<1> QED
  BY <1>1 DEF Calls

LEMMA CallsThen ==
    ASSUME NEW s, NEW t, NEW m, NEW n, Calls(s, m), Calls(t, n)
    PROVE  Calls(s \o t, m + n)
<1>1. PICK S : s \in Seq(S) /\ Len(s) = m
  BY DEF Calls
<1>2. PICK T : t \in Seq(T) /\ Len(t) = n
  BY DEF Calls
<1> DEFINE U == S \cup T
<1>3. s \in Seq(U) /\ t \in Seq(U)
  BY <1>1, <1>2
<1> HIDE DEF U
<1>4. s \o t \in Seq(U) /\ Len(s \o t) = m + n
  BY <1>1, <1>2, <1>3
<1> QED
  BY <1>4 DEF Calls

\* n of the frames are CFs.
CfsOf(frames, n) == (\E S : frames \in Seq(S)) /\ n \in Nat /\ CfsIn(frames) = n

\* c CFs are enough for what the sender may send before the next Flow Control.
Credited(l, c) ==
    /\ c \in Nat
    /\ l.tx.state = "SEND_CF" =>
          IF l.tx.blockSize = 0 THEN Len(l.tx.msg) - l.tx.offset <= c
          ELSE c = l.tx.blockSize - l.tx.blockCount

IsOutcome(o) == DOMAIN o = {"link", "out", "ind", "conf"}

\* A call of the sender's side that may send c CFs, and one of the receiver's
\* that begins n receptions.
Sends(l, o, c) ==
    /\ IsOutcome(o) /\ LinkOK(o.link)
    /\ \E n \in Nat : CfsOf(o.out, n) /\ Credited(o.link, c - n)
    /\ o.link.rx = l.rx /\ o.ind = <<>>
    /\ Calls(o.conf, Busy(l.tx) - Busy(o.link.tx))

Receives(l, o, n) ==
    /\ IsOutcome(o) /\ LinkOK(o.link)
    /\ o.link.tx = l.tx /\ o.conf = <<>> /\ CfsOf(o.out, 0)
    /\ Calls(o.ind, Busy(l.rx) + n - Busy(o.link.rx))

LEMMA Sizes == /\ CanDl \in Nat /\ CanDl >= 3
               /\ SfMax \in Nat /\ FfData \in Nat /\ CfMax \in Nat
               /\ SfMax = FfData + 1 /\ CfMax = SfMax /\ FfData >= 1
               /\ SeqMod \in Nat /\ SeqMod >= 2
               /\ Cfg.blockSize \in Nat /\ Cfg.rxSize \in Nat /\ Cfg.txSize \in Nat
BY SizeAssumption, CfgAssumption DEF SfMax, FfData, CfMax

-----------------------------------------------------------------------------
(* The CFs among the frames of a call.                                     *)

LEMMA NoCf == CfsOf(<<>>, 0)
<1>1. <<>> \in Seq({})
  OBVIOUS
<1>2. {k \in DOMAIN <<>> : <<>>[k].pci = "CF"} = {}
  OBVIOUS
<1> QED
  BY <1>1, <1>2, FS_EmptySet DEF CfsOf, CfsIn

LEMMA OtherFrame == ASSUME NEW f, f.pci /= "CF" PROVE CfsOf(<<f>>, 0)
<1> DEFINE s == <<f>>
<1>1. s \in Seq({f}) /\ DOMAIN s = {1} /\ s[1] = f
  OBVIOUS
<1> HIDE DEF s
<1>2. {k \in DOMAIN s : s[k].pci = "CF"} = {}
  BY <1>1
<1>3. CfsOf(s, 0)
  BY <1>1, <1>2, FS_EmptySet DEF CfsOf, CfsIn
<1> QED
  BY <1>3 DEF s

LEMMA OnlyCfs ==
    ASSUME NEW S, NEW s \in Seq(S), NEW n \in Nat, Len(s) = n,
           \A k \in 1 .. n : s[k].pci = "CF"
    PROVE  CfsOf(s, n)
<1>1. {k \in DOMAIN s : s[k].pci = "CF"} = 1 .. n
  OBVIOUS
<1>2. Cardinality(1 .. n) = n
  BY FS_Interval
<1> QED
  BY <1>1, <1>2 DEF CfsOf, CfsIn

LEMMA NoCfsThen ==
    ASSUME NEW s, NEW t, NEW n, CfsOf(s, 0), CfsOf(t, n)
    PROVE  CfsOf(s \o t, n)
<1> DEFINE Marked(u) == {k \in DOMAIN u : u[k].pci = "CF"}
           r == s \o t
<1>1. PICK S : s \in Seq(S)
  BY DEF CfsOf
<1>2. PICK T : t \in Seq(T)
  BY DEF CfsOf
<1>3. s \in Seq(S \cup T) /\ t \in Seq(S \cup T)
  BY <1>1, <1>2
<1> DEFINE U == S \cup T
<1> HIDE DEF U
<1>4. /\ r \in Seq(U) /\ DOMAIN r = 1 .. Len(s) + Len(t)
      /\ \A k \in 1 .. Len(s) : r[k] = s[k]
      /\ \A k \in 1 .. Len(t) : r[Len(s) + k] = t[k]
      /\ DOMAIN s = 1 .. Len(s) /\ DOMAIN t = 1 .. Len(t) /\ Len(s) \in Nat /\ Len(t) \in Nat
  BY <1>3 DEF U
<1> HIDE DEF r
<1>5. IsFiniteSet(Marked(s)) /\ IsFiniteSet(Marked(t))
  <2>1. IsFiniteSet(1 .. Len(s)) /\ IsFiniteSet(1 .. Len(t))
    BY <1>4, FS_Interval
  <2> QED
    BY <1>4, <2>1, FS_Subset
<1>6. Marked(s) = {}
  BY <1>5, FS_EmptySet DEF CfsOf, CfsIn
<1>7. ExistsBijection(Marked(t), Marked(r))
  <2> DEFINE shift == [k \in Marked(t) |-> Len(s) + k]
  <2>1. \A k \in Marked(t) : Len(s) + k \in Marked(r)
    BY <1>4
  <2>2. \A j \in Marked(r) : \E k \in Marked(t) : Len(s) + k = j
    <3> TAKE j \in Marked(r)
    <3>1. ~(j \in 1 .. Len(s))
      BY <1>4, <1>6
    <3>2. j - Len(s) \in 1 .. Len(t) /\ Len(s) + (j - Len(s)) = j
      BY <1>4, <3>1
    <3>3. j - Len(s) \in Marked(t)
      BY <1>4, <3>2
    <3> QED
      BY <3>2, <3>3
  <2>3. \A j, k \in Marked(t) : Len(s) + j = Len(s) + k => j = k
    BY <1>4
  <2> HIDE DEF Marked
  <2>4. shift \in [Marked(t) -> Marked(r)]
    BY <2>1
  <2>5. shift \in Bijection(Marked(t), Marked(r))
    BY <2>2, <2>3, <2>4 DEF Bijection, Injection, Surjection, IsInjective
  <2> QED
    BY <2>5 DEF ExistsBijection
<1>8. Cardinality(Marked(r)) = Cardinality(Marked(t))
  BY <1>5, <1>7, FS_Bijection
<1> QED
  BY <1>4, <1>8 DEF CfsOf, CfsIn, r

LEMMA Ceiling ==
    ASSUME NEW a \in Nat \ {0}, NEW c \in Nat \ {0}
    PROVE  (a + c - 1) \div c <= a
OBVIOUS
-----------------------------------------------------------------------------
(* Sequence numbers.                                                       *)

LEMMA Quotient == ASSUME NEW a \in Nat, NEW n \in Nat \ {0} PROVE a \div n \in Nat
OBVIOUS

LEMMA Product == ASSUME NEW a \in Nat, NEW n \in Nat PROVE a * n \in Nat
OBVIOUS

LEMMA Remainder ==
    ASSUME NEW q \in Nat, NEW m \in Nat \ {0}, NEW r \in 0 .. m - 1, NEW a \in Nat, a = m * q + r
    PROVE  a % m = r
OBVIOUS

LEMMA Divided ==
    ASSUME NEW a \in Nat, NEW m \in Nat \ {0}
    PROVE  \E q \in Nat, r \in 0 .. m - 1 : a = m * q + r
<1>1. a \div m \in Nat /\ a % m \in 0 .. m - 1
  OBVIOUS
<1>2. a = m * (a \div m) + (a % m)
  OBVIOUS
<1> QED
  BY <1>1, <1>2

LEMMA RemainderOfSum ==
    ASSUME NEW a \in Nat, NEW n \in Nat, NEW m \in Nat \ {0}
    PROVE  ((a % m) + n) % m = (a + n) % m
<1>1. PICK q \in Nat, r \in 0 .. m - 1 : a = m * q + r
  BY Divided
<1>2. a % m = r
  BY <1>1, Remainder
<1>3. PICK p \in Nat, s \in 0 .. m - 1 : r + n = m * p + s
  <2>1. r + n \in Nat
    OBVIOUS
  <2> QED
    BY <2>1, Divided
<1>4. a + n = m * (q + p) + s
  <2>1. m * (q + p) = m * q + m * p
    OBVIOUS
  <2>2. m * q \in Nat /\ m * p \in Nat
    OBVIOUS
  <2> QED
    BY <1>1, <1>3, <2>1, <2>2
<1>5. (a + n) % m = s
  <2> DEFINE x == a + n
             y == q + p
  <2>1. x \in Nat /\ y \in Nat /\ x = m * y + s
    BY <1>4
  <2> HIDE DEF x, y
  <2>2. x % m = s
    BY <2>1, Remainder
  <2> QED
    BY <2>2 DEF x
<1>6. (r + n) % m = s
  <2> DEFINE x == r + n
  <2>1. x \in Nat /\ x = m * p + s
    BY <1>3
  <2> HIDE DEF x
  <2>2. x % m = s
    BY <2>1, Remainder
  <2> QED
    BY <2>2 DEF x
<1> QED
  BY <1>2, <1>5, <1>6

LEMMA MultipleBack ==
    ASSUME NEW k \in Nat, NEW c \in Nat \ {0}, NEW f \in Nat
    PROVE  (f + k * c - f) \div c = k
<1>1. k * c \in Nat
  OBVIOUS
<1>2. f + k * c - f = k * c
  BY <1>1
<1>3. (k * c) \div c = k
  OBVIOUS
<1> QED
  BY <1>2, <1>3

LEMMA NumberedFirst == Numbered(1, FfData)
<1>1. FfData = FfData + 0 * CfMax
  BY Sizes
<1>2. 1 = (0 + 1) % SeqMod
  BY Sizes
<1> QED
  BY <1>1, <1>2 DEF Numbered

LEMMA NumberedNext ==
    ASSUME NEW seq, NEW offset, NEW n \in Nat, Numbered(seq, offset)
    PROVE  Numbered((seq + n) % SeqMod, offset + n * CfMax)
<1>1. PICK k \in Nat : offset = FfData + k * CfMax /\ seq = (k + 1) % SeqMod
  BY DEF Numbered
<1>2. offset + n * CfMax = FfData + (k + n) * CfMax
  <2>1. CfMax \in Nat /\ FfData \in Nat
    BY Sizes
  <2>2. k * CfMax \in Nat /\ n * CfMax \in Nat /\ (k + n) * CfMax = k * CfMax + n * CfMax
    BY <2>1
  <2> QED
    BY <1>1, <2>1, <2>2
<1>3. (seq + n) % SeqMod = ((k + n) + 1) % SeqMod
  <2>1. (((k + 1) % SeqMod) + n) % SeqMod = ((k + 1) + n) % SeqMod
    BY RemainderOfSum, Sizes
  <2>2. (k + 1) + n = (k + n) + 1
    OBVIOUS
  <2> QED
    BY <1>1, <2>1, <2>2
<1>4. k + n \in Nat
  OBVIOUS
<1> QED
  BY <1>2, <1>3, <1>4 DEF Numbered

LEMMA NumberedIs ==
    ASSUME NEW seq, NEW offset, Numbered(seq, offset)
    PROVE  seq = SeqOf(offset)
<1>1. PICK k \in Nat : offset = FfData + k * CfMax /\ seq = (k + 1) % SeqMod
  BY DEF Numbered
<1>2. (offset - FfData) \div CfMax = k
  BY <1>1, MultipleBack, Sizes
<1> QED
  BY <1>1, <1>2 DEF SeqOf
-----------------------------------------------------------------------------
(* The outcomes of the entry points.                                       *)

LEMMA BusyIs == ASSUME NEW side PROVE Busy(side) \in {0, 1}
BY DEF Busy

LEMMA IdleOK == TxOK(IdleTx) /\ RxOK(IdleRx) /\ Busy(IdleTx) = 0 /\ Busy(IdleRx) = 0
BY Sizes, SizeAssumption DEF TxOK, RxOK, IdleTx, IdleRx, TxFields, RxFields, Busy

LEMMA UnchangedOK ==
    ASSUME NEW l, LinkOK(l)
    PROVE  /\ \A c : Credited(l, c) => Sends(l, Unchanged(l), c)
           /\ Receives(l, Unchanged(l), 0) /\ Unchanged(l).link = l
<1> DEFINE o == Unchanged(l)
<1>1. /\ IsOutcome(o) /\ o.link = l /\ o.out = <<>> /\ o.ind = <<>> /\ o.conf = <<>>
      /\ Busy(l.tx) - Busy(l.tx) = 0 /\ Busy(l.rx) + 0 - Busy(l.rx) = 0
  BY DEF Unchanged, IsOutcome, Busy
<1> HIDE DEF o
<1>2. ASSUME NEW c, Credited(l, c) PROVE Sends(l, o, c)
  <2>1. Credited(o.link, c - 0)
    BY <1>1, <1>2 DEF Credited
  <2> QED
    BY <1>1, <2>1, NoCall, NoCf DEF Sends
<1>3. Receives(l, o, 0)
  BY <1>1, NoCall, NoCf DEF Receives
<1> QED
  BY <1>1, <1>2, <1>3 DEF o

LEMMA TxFinishOK ==
    ASSUME NEW l, LinkOK(l), l.tx.state /= "IDLE", NEW result, NEW c \in Nat
    PROVE  Sends(l, TxFinish(l, result), c)
<1> DEFINE m == [l EXCEPT !.tx = IdleTx]
           o == TxFinish(l, result)
<1>1. m.tx = IdleTx /\ m.rx = l.rx /\ LinkOK(m)
  BY IdleOK DEF LinkOK
<1>2. IsOutcome(o) /\ o.link = m /\ o.conf = <<result>> /\ o.ind = <<>> /\ o.out = <<>>
  BY DEF TxFinish, Unchanged, IsOutcome
<1>3. Credited(m, c - 0)
  BY <1>1 DEF Credited, IdleTx
<1>4. Busy(l.tx) - Busy(m.tx) = 1
  BY <1>1, IdleOK DEF Busy
<1> HIDE DEF m, o
<1> QED
  BY <1>1, <1>2, <1>3, <1>4, OneCall, NoCf DEF Sends, o
-----------------------------------------------------------------------------
(* The sender.                                                             *)

LEMMA TxSendFirstOK ==
    ASSUME NEW l, LinkOK(l), l.tx.state = "SEND_FIRST", NEW accepted \in BOOLEAN, NEW c \in Nat
    PROVE  Sends(l, TxSendFirst(l, accepted), c)
<1> DEFINE msg == l.tx.msg
<1>1. CASE ~accepted
  <2>1. Credited(l, c)
    BY DEF Credited
  <2> QED
    BY <1>1, <2>1, UnchangedOK DEF TxSendFirst
<1>2. CASE accepted /\ Len(msg) <= SfMax
  <2>1. Sends(l, TxFinish(l, "OK"), c)
    BY TxFinishOK
  <2>2. TxSendFirst(l, accepted) = [TxFinish(l, "OK") EXCEPT !.out = <<SingleFrame(msg)>>]
    BY <1>2 DEF TxSendFirst
  <2> DEFINE p == TxFinish(l, "OK")
             o == TxSendFirst(l, accepted)
  <2>3. /\ IsOutcome(o) /\ o.link = p.link /\ o.ind = p.ind /\ o.conf = p.conf
        /\ o.out = <<SingleFrame(msg)>>
    BY <2>1, <2>2 DEF Sends, IsOutcome
  <2>4. Credited(p.link, c - 0)
    BY DEF TxFinish, Unchanged, LinkOK, Credited, IdleTx
  <2>5. CfsOf(<<SingleFrame(msg)>>, 0)
    BY OtherFrame DEF SingleFrame
  <2> HIDE DEF p, o
  <2> QED
    BY <2>1, <2>3, <2>4, <2>5 DEF Sends, p, o
<1>3. CASE accepted /\ ~(Len(msg) <= SfMax)
  <2> DEFINE m == [l EXCEPT !.tx.offset = FfData, !.tx.seq = 1, !.tx.waitCount = 0,
                            !.tx.state = "WAIT_FC", !.tx.timer = 0]
             o == TxSendFirst(l, accepted)
  <2>1. /\ IsOutcome(o) /\ o.link = m /\ o.ind = <<>> /\ o.conf = <<>>
        /\ o.out = <<FirstFrame(msg)>>
    BY <1>3 DEF TxSendFirst, Unchanged, IsOutcome
  <2>2. /\ DOMAIN m = {"tx", "rx", "fcPending"} /\ m.rx = l.rx /\ DOMAIN m.tx = TxFields
        /\ m.tx.state = "WAIT_FC" /\ m.tx.offset = FfData /\ m.tx.seq = 1 /\ m.tx.msg = msg
        /\ m.tx.blockSize = l.tx.blockSize /\ m.tx.blockCount = l.tx.blockCount
    <3>1. DOMAIN l = {"tx", "rx", "fcPending"} /\ DOMAIN l.tx = TxFields
      BY DEF LinkOK, TxOK
    <3> QED
      BY <3>1 DEF TxFields
  <2>3. LinkOK(m)
    BY <1>3, <2>2, Sizes, NumberedFirst, SMTT(30) DEF LinkOK, TxOK
  <2>4. Credited(m, c - 0)
    BY <2>2 DEF Credited
  <2>5. CfsOf(<<FirstFrame(msg)>>, 0)
    BY OtherFrame DEF FirstFrame
  <2>6. Busy(l.tx) - Busy(m.tx) = 0
    BY <2>2 DEF Busy
  <2> HIDE DEF m, o
  <2> QED
    BY <2>1, <2>2, <2>3, <2>4, <2>5, <2>6, NoCall DEF Sends, o
<1> QED
  BY <1>1, <1>2, <1>3

LEMMA CfsNowBounds ==
    ASSUME NEW tx, TxOK(tx), tx.state = "SEND_CF", NEW room \in Nat
    PROVE  /\ CfsNow(tx, room) \in Nat
           /\ CfsNow(tx, room) <= Len(tx.msg) - tx.offset
           /\ tx.blockSize /= 0 => CfsNow(tx, room) <= tx.blockSize - tx.blockCount
<1>1. CfsLeft(tx) \in Nat /\ CfsLeft(tx) <= Len(tx.msg) - tx.offset
  <2> DEFINE a == Len(tx.msg) - tx.offset + CfMax - 1
  <2>1. a \in Nat
    BY Sizes DEF TxOK
  <2>2. CfMax \in Nat \ {0}
    BY Sizes
  <2>3. CfsLeft(tx) = a \div CfMax
    BY DEF CfsLeft
  <2> DEFINE left == Len(tx.msg) - tx.offset
  <2>4. left \in Nat \ {0} /\ a = left + CfMax - 1
    BY Sizes DEF TxOK
  <2> HIDE DEF a, left
  <2>5. CfsLeft(tx) <= left
    BY <2>2, <2>3, <2>4, Ceiling
  <2> QED
    BY <2>1, <2>2, <2>3, <2>5, Quotient DEF left
<1>2. ASSUME NEW a \in Nat, NEW b \in Nat PROVE Least(a, b) \in Nat /\ Least(a, b) <= a /\ Least(a, b) <= b
  BY DEF Least
<1> DEFINE paced == IF tx.stMin = 0 THEN CfsLeft(tx)
                    ELSE IF tx.lastCf > tx.stMin THEN 1 ELSE 0
           block == IF tx.blockSize = 0 THEN CfsLeft(tx) ELSE tx.blockSize - tx.blockCount
<1>3. paced \in Nat
  BY <1>1
<1>4. block \in Nat
  BY <1>1 DEF TxOK
<1>5. CfsNow(tx, room) = Least(Least(paced, block), Least(CfsLeft(tx), room))
  BY DEF CfsNow
<1> HIDE DEF paced
<1> HIDE DEF block
<1>6. CfsNow(tx, room) \in Nat /\ CfsNow(tx, room) <= block /\ CfsNow(tx, room) <= CfsLeft(tx)
  <2> DEFINE a == Least(paced, block)
             b == Least(CfsLeft(tx), room)
  <2>1. a \in Nat /\ a <= block
    BY <1>2, <1>3, <1>4
  <2>2. b \in Nat /\ b <= CfsLeft(tx)
    BY <1>1, <1>2
  <2>3. CfsNow(tx, room) = Least(a, b)
    BY <1>5
  <2> HIDE DEF a, b
  <2>4. Least(a, b) \in Nat /\ Least(a, b) <= a /\ Least(a, b) <= b
    BY <1>2, <2>1, <2>2
  <2> QED
    BY <1>1, <1>4, <2>1, <2>2, <2>3, <2>4
<1>7. CfsNow(tx, room) <= Len(tx.msg) - tx.offset
  BY <1>1, <1>6 DEF TxOK
<1> QED
  BY <1>6, <1>7 DEF block

LEMMA TxSendConsecutiveFramesOK ==
    ASSUME NEW l, LinkOK(l), l.tx.state = "SEND_CF", NEW room \in Nat, NEW c, Credited(l, c)
    PROVE  Sends(l, TxSendConsecutiveFrames(l, room), c)
<1> DEFINE tx == l.tx
           n  == CfsNow(tx, room)
           frames == [k \in 1 .. n |-> ConsecutiveFrame((tx.seq + k - 1) % SeqMod, CfChunk(tx, k))]
           sent == [tx EXCEPT !.offset = Least(Len(tx.msg), @ + n * CfMax),
                              !.seq = (@ + n) % SeqMod,
                              !.lastCf = IF n = 0 THEN @ ELSE 0,
                              !.blockCount = IF tx.blockSize = 0 THEN @ ELSE @ + n]
           blockDone == tx.blockSize /= 0 /\ n > 0 /\ sent.blockCount >= tx.blockSize
           waiting == [sent EXCEPT !.state = "WAIT_FC", !.timer = 0]
           o == TxSendConsecutiveFrames(l, room)
<1>1. /\ TxOK(tx) /\ n \in Nat /\ n <= Len(tx.msg) - tx.offset
      /\ tx.blockSize /= 0 => n <= tx.blockSize - tx.blockCount
  BY CfsNowBounds DEF LinkOK
<1>2. n * CfMax \in Nat
  <2> HIDE DEF n
  <2> QED
    BY <1>1, Sizes, Product
<1>3. /\ DOMAIN sent = TxFields /\ sent.state = "SEND_CF" /\ sent.msg = tx.msg
      /\ sent.offset = Least(Len(tx.msg), tx.offset + n * CfMax)
      /\ sent.seq = (tx.seq + n) % SeqMod
      /\ sent.blockSize = tx.blockSize
      /\ sent.blockCount = IF tx.blockSize = 0 THEN tx.blockCount ELSE tx.blockCount + n
  <2> HIDE DEF n
  <2> QED
    BY <1>1 DEF TxOK, TxFields
<1>4. /\ sent.offset \in Nat /\ FfData <= sent.offset
      /\ sent.blockCount \in Nat
      /\ sent.offset < Len(tx.msg) => Numbered(sent.seq, sent.offset)
  <2> HIDE DEF n, sent
  <2> DEFINE d == n * CfMax
  <2>1. d \in Nat /\ sent.offset = Least(Len(tx.msg), tx.offset + d)
    BY <1>2, <1>3
  <2>2. Numbered((tx.seq + n) % SeqMod, tx.offset + d)
    BY <1>1, NumberedNext DEF TxOK
  <2> HIDE DEF d
  <2>3. tx.offset \in Nat /\ FfData <= tx.offset /\ tx.blockCount \in Nat /\ tx.offset < Len(tx.msg)
        /\ Len(tx.msg) \in Nat
    BY <1>1 DEF TxOK
  <2>4. sent.offset \in {Len(tx.msg), tx.offset + d} /\ FfData <= sent.offset
    BY <2>1, <2>3, Sizes DEF Least
  <2>5. sent.offset \in Nat /\ sent.blockCount \in Nat
    BY <1>1, <1>3, <2>1, <2>3, <2>4
  <2>6. sent.offset < Len(tx.msg) => sent.offset = tx.offset + d
    BY <2>3, <2>4
  <2> QED
    BY <1>3, <2>2, <2>4, <2>5, <2>6
<1>5. o = [(CASE sent.offset >= Len(tx.msg) -> TxFinish(l, "OK")
             [] sent.offset < Len(tx.msg) /\ blockDone -> Unchanged([l EXCEPT !.tx = waiting])
             [] OTHER -> Unchanged([l EXCEPT !.tx = sent])) EXCEPT !.out = frames]
  BY DEF TxSendConsecutiveFrames
<1>10. CfsOf(frames, n)
  <2> DEFINE Cf(k) == ConsecutiveFrame((tx.seq + k - 1) % SeqMod, CfChunk(tx, k))
             S == {Cf(k) : k \in 1 .. n}
  <2>1. frames = [k \in 1 .. n |-> Cf(k)]
    OBVIOUS
  <2>2. \A k \in 1 .. n : Cf(k).pci = "CF"
    BY DEF ConsecutiveFrame
  <2> HIDE DEF frames, n, Cf
  <2>3. frames \in Seq(S) /\ Len(frames) = n
    BY <1>1, <2>1
  <2>4. \A k \in 1 .. n : frames[k].pci = "CF"
    BY <2>1, <2>2
  <2> HIDE DEF S
  <2> QED
    BY <1>1, <2>3, <2>4, OnlyCfs
<1>11. c - n \in Nat
  <2> HIDE DEF n
  <2> QED
    BY <1>1 DEF Credited, TxOK
<1> HIDE DEF frames
<1>6. CASE sent.offset >= Len(tx.msg)
  <2>1. o = [TxFinish(l, "OK") EXCEPT !.out = frames]
    <3>1. ~(sent.offset < Len(tx.msg))
      BY <1>1, <1>4, <1>6 DEF TxOK
    <3> HIDE DEF sent, blockDone, waiting
    <3> QED
      BY <1>5, <1>6, <3>1
  <2>2. Sends(l, TxFinish(l, "OK"), 0)
    BY TxFinishOK
  <2> DEFINE p == TxFinish(l, "OK")
  <2>3. /\ IsOutcome(o) /\ o.link = p.link /\ o.ind = p.ind /\ o.conf = p.conf
        /\ o.out = frames
    BY <2>1, <2>2 DEF Sends, IsOutcome
  <2>4. Credited(p.link, c - n)
    <3>1. p.link.tx.state = "IDLE"
      BY DEF TxFinish, Unchanged, LinkOK, IdleTx
    <3> HIDE DEF p, n
    <3> QED
      BY <1>11, <3>1 DEF Credited
  <2> HIDE DEF p, o, n
  <2> QED
    BY <1>1, <1>10, <2>2, <2>3, <2>4 DEF Sends, p, o
<1>7. ASSUME NEW after, TxOK(after), after.state /= "IDLE",
             o = [Unchanged([l EXCEPT !.tx = after]) EXCEPT !.out = frames],
             after.state = "SEND_CF" =>
                IF after.blockSize = 0 THEN Len(after.msg) - after.offset <= c - n
                ELSE c - n = after.blockSize - after.blockCount
      PROVE  Sends(l, o, c)
  <2> DEFINE m == [l EXCEPT !.tx = after]
  <2>1. LinkOK(m) /\ m.tx = after /\ m.rx = l.rx
    BY <1>7 DEF LinkOK
  <2>2. IsOutcome(o) /\ o.link = m /\ o.ind = <<>> /\ o.conf = <<>> /\ o.out = frames
    BY <1>7 DEF Unchanged, IsOutcome
  <2>4. Credited(m, c - n)
    <3> HIDE DEF m, n
    <3> QED
      BY <1>7, <1>11, <2>1 DEF Credited
  <2>3. Busy(l.tx) - Busy(o.link.tx) = 0
    <3> HIDE DEF m
    <3> QED
      BY <1>7, <2>1, <2>2 DEF Busy
  <2> HIDE DEF m, n, o
  <2> QED
    BY <1>1, <1>10, <2>1, <2>2, <2>3, <2>4, NoCall DEF Sends, o
<1>8. CASE sent.offset < Len(tx.msg) /\ blockDone
  <2>1. o = [Unchanged([l EXCEPT !.tx = waiting]) EXCEPT !.out = frames]
    <3>1. ~(sent.offset >= Len(tx.msg))
      BY <1>1, <1>4, <1>8 DEF TxOK
    <3> HIDE DEF sent, blockDone, waiting
    <3> QED
      BY <1>5, <1>8, <3>1
  <2>2. /\ DOMAIN waiting = TxFields /\ waiting.state = "WAIT_FC" /\ waiting.msg = tx.msg
        /\ waiting.offset = sent.offset /\ waiting.seq = sent.seq /\ waiting.blockSize = tx.blockSize
        /\ waiting.blockCount = sent.blockCount
    <3> HIDE DEF sent
    <3> QED
      BY <1>3 DEF TxFields
  <2>3. TxOK(waiting) /\ waiting.state /= "IDLE"
    <3> HIDE DEF sent, waiting
    <3> QED
      BY <1>1, <1>4, <1>8, <2>2 DEF TxOK
  <2> HIDE DEF sent
  <2> QED
    BY <1>7, <2>1, <2>2, <2>3
<1>9. CASE sent.offset < Len(tx.msg) /\ ~blockDone
  <2>1. o = [Unchanged([l EXCEPT !.tx = sent]) EXCEPT !.out = frames]
    <3>1. ~(sent.offset >= Len(tx.msg))
      BY <1>1, <1>4, <1>9 DEF TxOK
    <3> HIDE DEF sent, blockDone, waiting
    <3> QED
      BY <1>5, <1>9, <3>1
  <2>2. tx.blockSize = 0 \/ sent.blockCount < tx.blockSize
    <3>1. tx.blockSize = 0 \/ n = 0 \/ ~(sent.blockCount >= tx.blockSize)
      <4> HIDE DEF n, sent
      <4> QED
        BY <1>1, <1>9
    <3> HIDE DEF n, sent
    <3> QED
      BY <1>1, <1>3, <1>4, <3>1 DEF TxOK
  <2>3. TxOK(sent) /\ sent.state /= "IDLE"
    <3> HIDE DEF sent
    <3> QED
      BY <1>1, <1>3, <1>4, <1>9, <2>2 DEF TxOK
  <2>4. IF sent.blockSize = 0 THEN Len(sent.msg) - sent.offset <= c - n
        ELSE c - n = sent.blockSize - sent.blockCount
    <3> DEFINE d == n * CfMax
    <3>1. d \in Nat /\ n <= d
      <4> HIDE DEF n
      <4> QED
        BY <1>1, Sizes
    <3>2. sent.offset = tx.offset + d
      <4>1. sent.offset = Least(Len(tx.msg), tx.offset + d)
        BY <1>3
      <4> HIDE DEF sent, d
      <4> QED
        BY <1>1, <1>9, <3>1, <4>1 DEF TxOK, Least
    <3> HIDE DEF n, sent, d
    <3> QED
      <4>1. CASE tx.blockSize = 0
        <5>1. Len(tx.msg) - tx.offset <= c /\ c \in Nat
          BY <4>1 DEF Credited
        <5>2. Len(tx.msg) - (tx.offset + d) <= c - n
          BY <1>1, <3>1, <5>1, SMTT(30) DEF TxOK
        <5> QED
          BY <1>3, <3>2, <4>1, <5>2
      <4>2. CASE tx.blockSize /= 0
        <5>1. c = tx.blockSize - tx.blockCount
          BY <4>2 DEF Credited
        <5>2. c - n = tx.blockSize - (tx.blockCount + n)
          BY <1>1, <5>1 DEF TxOK
        <5> QED
          BY <1>3, <4>2, <5>2
      <4> QED
        BY <4>1, <4>2
  <2> HIDE DEF sent, n
  <2> QED
    BY <1>7, <2>1, <2>3, <2>4 DEF n
<1> QED
  <2>1. sent.offset >= Len(tx.msg) \/ sent.offset < Len(tx.msg)
    <3> HIDE DEF sent
    <3> QED
      BY <1>1, <1>4 DEF TxOK
  <2> HIDE DEF sent, blockDone
  <2> QED
    BY <1>6, <1>8, <1>9, <2>1

LEMMA TxOnFlowControlOK ==
    ASSUME NEW l, LinkOK(l), NEW f, f.bs \in Nat, f.dlc \in Nat, NEW room \in Nat,
           NEW c, Credited(l, c), NEW d,
           d = IF f.dlc >= 3 /\ f.status = "CTS" /\ l.tx.state = "WAIT_FC"
               THEN IF f.bs = 0 THEN MaxMessage ELSE f.bs
               ELSE c
    PROVE  Sends(l, TxOnFlowControl(l, f, room), d)
<1> DEFINE o == TxOnFlowControl(l, f, room)
<1>1. CASE l.tx.state /= "WAIT_FC" \/ f.dlc < 3
  <2>1. o = Unchanged(l)
    BY <1>1 DEF TxOnFlowControl
  <2>2. d = c
    BY <1>1
  <2> QED
    BY <2>1, <2>2, UnchangedOK
<1>2. CASE ~(l.tx.state /= "WAIT_FC" \/ f.dlc < 3) /\ f.status = "CTS" /\ f.dlc >= 3
  <2> DEFINE st == DecodeStMin(f.stMin)
             m == [l EXCEPT !.tx.blockSize = f.bs, !.tx.blockCount = 0, !.tx.waitCount = 0,
                            !.tx.stMin = st, !.tx.lastCf = st + 1, !.tx.timer = 0,
                            !.tx.state = "SEND_CF"]
  <2>1. o = TxSendConsecutiveFrames(m, room)
    BY <1>2 DEF TxOnFlowControl
  <2> HIDE DEF st
  <2>2. /\ DOMAIN m = {"tx", "rx", "fcPending"} /\ m.rx = l.rx /\ DOMAIN m.tx = TxFields
        /\ m.tx.state = "SEND_CF" /\ m.tx.offset = l.tx.offset /\ m.tx.msg = l.tx.msg
        /\ m.tx.seq = l.tx.seq
        /\ m.tx.blockSize = f.bs /\ m.tx.blockCount = 0
    <3> DEFINE tx == [l.tx EXCEPT !.blockSize = f.bs, !.blockCount = 0, !.waitCount = 0,
                                  !.stMin = st, !.lastCf = st + 1, !.timer = 0, !.state = "SEND_CF"]
    <3>1. DOMAIN l = {"tx", "rx", "fcPending"} /\ DOMAIN l.tx = TxFields
      BY DEF LinkOK, TxOK
    <3>2. m = [l EXCEPT !.tx = tx]
      BY <3>1, ZenonT(30) DEF TxFields
    <3>3. /\ DOMAIN tx = TxFields /\ tx.state = "SEND_CF" /\ tx.offset = l.tx.offset
          /\ tx.msg = l.tx.msg /\ tx.seq = l.tx.seq /\ tx.blockSize = f.bs /\ tx.blockCount = 0
      BY <3>1 DEF TxFields
    <3> HIDE DEF tx
    <3>4. DOMAIN m = {"tx", "rx", "fcPending"} /\ m.rx = l.rx /\ m.tx = tx
      BY <3>1, <3>2
    <3> QED
      BY <3>3, <3>4
  <2> HIDE DEF m
  <2>3. LinkOK(m)
    BY <1>2, <2>2 DEF LinkOK, TxOK
  <2>6. Credited(m, d)
    BY <1>2, <2>2, <2>3, SizeAssumption DEF Credited, LinkOK, TxOK
  <2>4. Sends(m, o, d)
    BY <2>1, <2>2, <2>3, <2>6, TxSendConsecutiveFramesOK
  <2>5. Busy(m.tx) = Busy(l.tx)
    BY <1>2, <2>2 DEF Busy
  <2> QED
    BY <2>2, <2>4, <2>5 DEF Sends
<1>3. CASE ~(l.tx.state /= "WAIT_FC" \/ f.dlc < 3) /\ ~(f.status = "CTS" /\ f.dlc >= 3)
  <2>1. l.tx.state /= "IDLE" /\ d = c /\ c \in Nat
    BY <1>3 DEF Credited
  <2>2. Sends(l, TxOnWait(l), d)
    <3>1. CASE l.tx.waitCount + 1 > MaxWft
      BY <2>1, <3>1, TxFinishOK DEF TxOnWait
    <3>2. CASE ~(l.tx.waitCount + 1 > MaxWft)
      <4> DEFINE m == [l EXCEPT !.tx.waitCount = @ + 1, !.tx.timer = 0]
      <4>1. TxOnWait(l) = Unchanged(m)
        BY <3>2 DEF TxOnWait
      <4>2. /\ DOMAIN m = {"tx", "rx", "fcPending"} /\ m.rx = l.rx /\ DOMAIN m.tx = TxFields
            /\ m.tx.state = l.tx.state /\ m.tx.offset = l.tx.offset /\ m.tx.msg = l.tx.msg
        /\ m.tx.seq = l.tx.seq
            /\ m.tx.blockSize = l.tx.blockSize /\ m.tx.blockCount = l.tx.blockCount
        BY DEF LinkOK, TxOK, TxFields
      <4> HIDE DEF m
      <4>3. LinkOK(m)
        BY <4>2 DEF LinkOK, TxOK
      <4>4. Credited(m, c)
        BY <1>3, <2>1, <4>2 DEF Credited
      <4>5. Sends(m, Unchanged(m), d) /\ Busy(m.tx) = Busy(l.tx)
        BY <2>1, <4>2, <4>3, <4>4, UnchangedOK DEF Busy
      <4> QED
        BY <4>1, <4>2, <4>5 DEF Sends
    <3> QED
      BY <3>1, <3>2
  <2>3. Sends(l, TxFinish(l, "ERR_OVERFLOW"), d) /\ Sends(l, TxFinish(l, "ERR_INVALID_FS"), d)
    BY <2>1, TxFinishOK
  <2>4. o \in {TxOnWait(l), TxFinish(l, "ERR_OVERFLOW"), TxFinish(l, "ERR_INVALID_FS")}
    BY <1>3 DEF TxOnFlowControl
  <2> QED
    BY <2>2, <2>3, <2>4
<1> QED
  BY <1>1, <1>2, <1>3

LEMMA MainSenderOK ==
    ASSUME NEW l, LinkOK(l), NEW room \in Nat, NEW c, Credited(l, c)
    PROVE  Sends(l, MainSender(l, room), c)
<1>0. c \in Nat
  BY DEF Credited
<1>1. CASE l.tx.state = "SEND_FIRST"
  <2>1. (room > 0) \in BOOLEAN
    OBVIOUS
  <2>2. Sends(l, TxFinish(l, "ERR_TIMEOUT_BS"), c) /\ Sends(l, TxSendFirst(l, room > 0), c)
    BY <1>0, <1>1, <2>1, TxFinishOK, TxSendFirstOK
  <2> QED
    BY <1>1, <2>2 DEF MainSender
<1>2. CASE l.tx.state = "WAIT_FC"
  BY <1>0, <1>2, TxFinishOK, UnchangedOK DEF MainSender
<1>3. CASE l.tx.state = "SEND_CF"
  BY <1>3, TxSendConsecutiveFramesOK DEF MainSender
<1>4. CASE l.tx.state \notin {"SEND_FIRST", "WAIT_FC", "SEND_CF"}
  BY <1>4, UnchangedOK DEF MainSender
<1> QED
  BY <1>1, <1>2, <1>3, <1>4

LEMMA TransmitOK ==
    ASSUME NEW l, LinkOK(l), NEW msg \in Seq({Pad}), CanTransmit(l, Cfg, msg), NEW room \in Nat
    PROVE  /\ LinkOK(Transmit(l, msg, room).link)
           /\ Transmit(l, msg, room).link.rx = l.rx
           /\ Transmit(l, msg, room).ind = <<>>
           /\ Calls(Transmit(l, msg, room).conf, Busy(l.tx) + 1 - Busy(Transmit(l, msg, room).link.tx))
           /\ \E n \in Nat : /\ CfsOf(Transmit(l, msg, room).out, n)
                            /\ Credited(Transmit(l, msg, room).link, 0 - n)
<1> DEFINE tx == [IdleTx EXCEPT !.msg = msg, !.state = "SEND_FIRST"]
           m  == [l EXCEPT !.tx = tx]
           o  == Transmit(l, msg, room)
<1>1. TxOK(tx) /\ tx.state = "SEND_FIRST"
  <2>1. /\ DOMAIN tx = TxFields /\ tx.state = "SEND_FIRST" /\ tx.msg = msg
        /\ tx.offset = 0 /\ tx.blockSize = 0 /\ tx.blockCount = 0
    BY DEF IdleTx, TxFields
  <2>2. msg /= <<>> /\ Len(msg) <= Cfg.txSize /\ Len(msg) <= MaxMessage
    BY DEF CanTransmit
  <2> HIDE DEF tx
  <2> QED
    BY <2>1, <2>2 DEF TxOK
<1>2. LinkOK(m) /\ m.tx = tx /\ m.rx = l.rx
  <2> HIDE DEF tx
  <2> QED
    BY <1>1 DEF LinkOK
<1>3. o = TxSendFirst(m, room > 0)
  BY DEF Transmit
<1> HIDE DEF m, tx, o
<1>4. Sends(m, o, 0)
  <2>1. (room > 0) \in BOOLEAN
    OBVIOUS
  <2> QED
    BY <1>1, <1>2, <1>3, <2>1, TxSendFirstOK
<1>5. Busy(m.tx) = Busy(l.tx) + 1
  BY <1>1, <1>2 DEF Busy, CanTransmit
<1>6. Busy(m.tx) - Busy(o.link.tx) = Busy(l.tx) + 1 - Busy(o.link.tx)
  BY <1>5, BusyIs
<1>7. /\ LinkOK(o.link) /\ o.link.rx = l.rx /\ o.ind = <<>>
      /\ \E n \in Nat : CfsOf(o.out, n) /\ Credited(o.link, 0 - n)
  BY <1>2, <1>4 DEF Sends
<1>8. Calls(o.conf, Busy(l.tx) + 1 - Busy(o.link.tx))
  BY <1>4, <1>6 DEF Sends
<1> QED
  BY <1>7, <1>8 DEF o
-----------------------------------------------------------------------------
(* The receiver.                                                           *)

\* An outcome that leaves the receiver alone, and one that ends its reception.
Quiet(l, o) ==
    /\ IsOutcome(o) /\ LinkOK(o.link)
    /\ o.link.tx = l.tx /\ o.link.rx = l.rx /\ o.conf = <<>> /\ o.ind = <<>>
    /\ CfsOf(o.out, 0)

Ends(l, o) ==
    /\ IsOutcome(o) /\ LinkOK(o.link)
    /\ o.link.tx = l.tx /\ o.link.rx = IdleRx /\ o.conf = <<>> /\ Calls(o.ind, 1)
    /\ CfsOf(o.out, 0)

LEMMA RxFinishOK ==
    ASSUME NEW l, DOMAIN l = {"tx", "rx", "fcPending"}, TxOK(l.tx), NEW result
    PROVE  Ends(l, RxFinish(l, result))
<1> DEFINE m == [l EXCEPT !.rx = IdleRx]
           x == [result |-> result,
                 data |-> SubSeq(l.rx.data, 1, IF result = "OK" THEN l.rx.length ELSE l.rx.offset)]
           o == RxFinish(l, result)
<1>1. o = [Unchanged(m) EXCEPT !.ind = <<x>>]
  BY DEF RxFinish
<1> HIDE DEF x
<1>2. m.rx = IdleRx /\ m.tx = l.tx /\ LinkOK(m)
  BY IdleOK DEF LinkOK
<1> HIDE DEF m
<1>3. IsOutcome(o) /\ o.link = m /\ o.conf = <<>> /\ o.ind = <<x>> /\ o.out = <<>>
  BY <1>1 DEF Unchanged, IsOutcome
<1> QED
  BY <1>2, <1>3, OneCall, NoCf DEF Ends

LEMMA RxSendFlowControlOK ==
    ASSUME NEW l, LinkOK(l), NEW status, NEW accepted
    PROVE  Quiet(l, RxSendFlowControl(l, Cfg, status, accepted))
<1>1. ASSUME NEW pending, NEW out, NEW o, CfsOf(out, 0),
             o = [Unchanged([l EXCEPT !.fcPending = pending]) EXCEPT !.out = out]
      PROVE  Quiet(l, o)
  <2> DEFINE m == [l EXCEPT !.fcPending = pending]
  <2>1. LinkOK(m) /\ m.tx = l.tx /\ m.rx = l.rx
    BY DEF LinkOK
  <2> HIDE DEF m
  <2>2. IsOutcome(o) /\ o.link = m /\ o.conf = <<>> /\ o.ind = <<>> /\ o.out = out
    BY <1>1 DEF Unchanged, IsOutcome, m
  <2> QED
    BY <1>1, <2>1, <2>2 DEF Quiet
<1>2. CASE accepted
  <2>1. CfsOf(<<FlowControl(status, Cfg)>>, 0)
    BY OtherFrame DEF FlowControl
  <2> QED
    BY <1>1, <1>2, <2>1 DEF RxSendFlowControl
<1>3. CASE ~accepted
  <2>1. Unchanged([l EXCEPT !.fcPending = status])
        = [Unchanged([l EXCEPT !.fcPending = status]) EXCEPT !.out = <<>>]
    BY DEF Unchanged
  <2> QED
    BY <1>1, <1>3, <2>1, NoCf DEF RxSendFlowControl
<1> QED
  BY <1>2, <1>3

\* The reports of one outcome and then of another.
LEMMA ThenOK ==
    ASSUME NEW o, NEW p, IsOutcome(o), IsOutcome(p)
    PROVE  /\ IsOutcome(Then(o, p)) /\ Then(o, p).link = p.link
           /\ Then(o, p).ind = o.ind \o p.ind /\ Then(o, p).conf = o.conf \o p.conf
           /\ Then(o, p).out = o.out \o p.out
BY DEF Then, IsOutcome

LEMMA NoneThen == <<>> \o <<>> = <<>>
OBVIOUS

\* Two outcomes of the receiver, one after the other.
LEMMA ReceiverThen ==
    ASSUME NEW o, NEW p, IsOutcome(o), IsOutcome(p), o.conf = <<>>, p.conf = <<>>,
           CfsOf(o.out, 0), CfsOf(p.out, 0)
    PROVE  /\ IsOutcome(Then(o, p)) /\ Then(o, p).link = p.link
           /\ Then(o, p).conf = <<>> /\ Then(o, p).ind = o.ind \o p.ind
           /\ CfsOf(Then(o, p).out, 0)
<1> DEFINE r == Then(o, p)
<1>1. /\ IsOutcome(r) /\ r.link = p.link
      /\ r.ind = o.ind \o p.ind /\ r.conf = o.conf \o p.conf /\ r.out = o.out \o p.out
  BY ThenOK, Zenon
<1>2. o.conf \o p.conf = <<>>
  BY NoneThen
<1>3. CfsOf(o.out \o p.out, 0)
  BY NoCfsThen
<1> HIDE DEF r
<1>4. /\ IsOutcome(r) /\ r.link = p.link /\ r.conf = <<>> /\ r.ind = o.ind \o p.ind
      /\ CfsOf(r.out, 0)
  BY <1>1, <1>2, <1>3
<1> QED
  BY <1>4 DEF r

LEMMA RxInterruptOK ==
    ASSUME NEW l, LinkOK(l)
    PROVE  /\ IsOutcome(RxInterrupt(l)) /\ LinkOK(RxInterrupt(l).link)
           /\ RxInterrupt(l).link.tx = l.tx /\ RxInterrupt(l).link.rx.state = "IDLE"
           /\ RxInterrupt(l).conf = <<>> /\ Calls(RxInterrupt(l).ind, Busy(l.rx))
           /\ CfsOf(RxInterrupt(l).out, 0)
<1>1. CASE l.rx.state = "RECEIVING"
  <2>1. Ends(l, RxInterrupt(l))
    BY <1>1, RxFinishOK DEF RxInterrupt, LinkOK
  <2> QED
    BY <1>1, <2>1 DEF Ends, Busy, IdleRx
<1>2. CASE l.rx.state = "IDLE"
  BY <1>2, NoCall, NoCf DEF RxInterrupt, Unchanged, IsOutcome, Busy
<1> QED
  BY <1>1, <1>2 DEF LinkOK, RxOK

LEMMA RxOnSingleFrameOK ==
    ASSUME NEW l, LinkOK(l), NEW f, f.dlc \in 1 .. CanDl, f.length \in Nat, NEW n,
           n = IF f.length \in 1 .. Least(Least(SfMax, f.dlc - 1), Cfg.rxSize) THEN 1 ELSE 0
    PROVE  Receives(l, RxOnSingleFrame(l, Cfg, f), n)
<1> DEFINE refused == \/ f.length = 0 \/ f.length > SfMax
                      \/ f.length > f.dlc - 1 \/ f.length > Cfg.rxSize
           o == RxInterrupt(l)
           m == [o.link EXCEPT !.rx.data = SubSeq(f.data, 1, f.length), !.rx.length = f.length]
           p == RxFinish(m, "OK")
           r == RxOnSingleFrame(l, Cfg, f)
<1>1. n = IF refused THEN 0 ELSE 1
  BY Sizes DEF Least
<1>2. CASE refused
  <2>1. r = Unchanged(l)
    BY <1>2 DEF RxOnSingleFrame
  <2> HIDE DEF refused
  <2> QED
    BY <1>1, <1>2, <2>1, UnchangedOK
<1>3. CASE ~refused
  <2>1. r = Then(o, p)
    BY <1>3 DEF RxOnSingleFrame
  <2>2. DOMAIN m = {"tx", "rx", "fcPending"} /\ m.tx = l.tx /\ TxOK(l.tx)
    <3> HIDE DEF o
    <3> QED
      BY RxInterruptOK DEF LinkOK, o
  <2> HIDE DEF m
  <2>3. Ends(m, p)
    BY <2>2, RxFinishOK
  <2> HIDE DEF p
  <2>4. /\ IsOutcome(r) /\ r.link = p.link /\ r.conf = <<>> /\ r.ind = o.ind \o p.ind
        /\ CfsOf(r.out, 0)
    <3>1. /\ IsOutcome(o) /\ o.conf = <<>> /\ IsOutcome(p) /\ p.conf = <<>>
          /\ CfsOf(o.out, 0) /\ CfsOf(p.out, 0)
      BY <2>3, RxInterruptOK DEF Ends
    <3> HIDE DEF o, r
    <3> QED
      BY <2>1, <3>1, ReceiverThen, Zenon
  <2>5. Calls(r.ind, Busy(l.rx) + 1)
    BY <2>3, <2>4, RxInterruptOK, CallsThen DEF Ends
  <2>6. Busy(l.rx) + 1 - Busy(r.link.rx) = Busy(l.rx) + 1
    BY <2>3, <2>4, IdleOK, BusyIs DEF Ends
  <2>7. Receives(l, r, 1)
    BY <2>2, <2>3, <2>4, <2>5, <2>6 DEF Receives, Ends
  <2> HIDE DEF refused, r
  <2>8. n = 1
    BY <1>1, <1>3
  <2> QED
    BY <2>7, <2>8 DEF r
<1> QED
  BY <1>2, <1>3

LEMMA RxBegunOK ==
    ASSUME NEW f, f.length \in Nat, f.length > SfMax, f.length <= Cfg.rxSize,
           f.data \in Seq({Pad}), Len(f.data) = FfData
    PROVE  RxOK(RxBegun(f)) /\ RxBegun(f).state = "RECEIVING"
<1> DEFINE rx == RxBegun(f)
<1>1. /\ DOMAIN rx = RxFields /\ rx.state = "RECEIVING" /\ rx.length = f.length
      /\ rx.offset = FfData /\ rx.data = f.data /\ rx.seq = 1
  BY DEF RxBegun, IdleRx, RxFields
<1> HIDE DEF rx
<1>2. RxOK(rx)
  BY <1>1, Sizes, NumberedFirst DEF RxOK
<1> QED
  BY <1>1, <1>2 DEF rx

LEMMA RxOnFirstFrameOK ==
    ASSUME NEW l, LinkOK(l), NEW f, f.dlc \in 1 .. CanDl, f.length \in Nat,
           f.data \in Seq({Pad}), Len(f.data) = FfData, NEW accepted, NEW begun,
           begun = IF f.dlc = CanDl /\ f.length > SfMax /\ f.length <= Cfg.rxSize THEN 1 ELSE 0
    PROVE  Receives(l, RxOnFirstFrame(l, Cfg, f, accepted), begun)
<1> DEFINE o == RxInterrupt(l)
           r == RxOnFirstFrame(l, Cfg, f, accepted)
<1>1. ASSUME NEW m, LinkOK(m), m.tx = l.tx, NEW status, NEW n \in Nat, Busy(m.rx) = n,
             r = Then(o, RxSendFlowControl(m, Cfg, status, accepted))
      PROVE  Receives(l, r, n)
  <2> DEFINE p == RxSendFlowControl(m, Cfg, status, accepted)
  <2>1. Quiet(m, p)
    BY <1>1, RxSendFlowControlOK
  <2> HIDE DEF p
  <2>2. /\ IsOutcome(r) /\ r.link = p.link /\ r.conf = <<>> /\ r.ind = o.ind \o p.ind
        /\ CfsOf(r.out, 0)
    <3>1. /\ IsOutcome(o) /\ o.conf = <<>> /\ IsOutcome(p) /\ p.conf = <<>>
          /\ CfsOf(o.out, 0) /\ CfsOf(p.out, 0)
      BY <2>1, RxInterruptOK DEF Quiet
    <3>2. r = Then(o, p)
      BY <1>1 DEF p
    <3> HIDE DEF o, r
    <3> QED
      BY <3>1, <3>2, ReceiverThen, ZenonT(60)
  <2>3. Calls(r.ind, Busy(l.rx) + 0)
    <3>1. Calls(o.ind, Busy(l.rx)) /\ Calls(p.ind, 0)
      BY <2>1, RxInterruptOK, NoCall DEF Quiet
    <3> HIDE DEF o, r
    <3> QED
      BY <2>2, <3>1, CallsThen, Zenon
  <2>4. Busy(l.rx) + n - Busy(r.link.rx) = Busy(l.rx) + 0
    BY <1>1, <2>1, <2>2, BusyIs DEF Quiet
  <2> QED
    BY <1>1, <2>1, <2>2, <2>3, <2>4 DEF Receives, Quiet
<1>2. CASE f.dlc < CanDl \/ f.length <= SfMax
  <2>1. r = Unchanged(l)
    BY <1>2, Sizes DEF RxOnFirstFrame
  <2>2. begun = 0
    BY <1>2, Sizes
  <2> QED
    BY <2>1, <2>2, UnchangedOK
<1>3. CASE ~(f.dlc < CanDl \/ f.length <= SfMax) /\ f.length > Cfg.rxSize
  <2>1. r = Then(o, RxSendFlowControl(o.link, Cfg, "OVFLW", accepted))
    BY <1>3, Sizes, SMTT(30) DEF RxOnFirstFrame
  <2>2. LinkOK(o.link) /\ o.link.tx = l.tx /\ Busy(o.link.rx) = 0
    BY RxInterruptOK DEF Busy
  <2>3. Receives(l, r, 0)
    <3> HIDE DEF o, r
    <3> QED
      BY <1>1, <2>1, <2>2
  <2>4. begun = 0
    BY <1>3, Sizes
  <2> QED
    BY <2>3, <2>4
<1>4. CASE ~(f.dlc < CanDl \/ f.length <= SfMax) /\ ~(f.length > Cfg.rxSize)
  <2> DEFINE m == [o.link EXCEPT !.rx = RxBegun(f)]
  <2>1. r = Then(o, RxSendFlowControl(m, Cfg, "CTS", accepted))
    BY <1>4 DEF RxOnFirstFrame
  <2>2. RxOK(RxBegun(f)) /\ Busy(RxBegun(f)) = 1
    BY <1>4, RxBegunOK, Sizes DEF Busy
  <2>3. LinkOK(m) /\ m.tx = l.tx /\ Busy(m.rx) = 1
    <3> HIDE DEF o
    <3> QED
      BY <2>2, RxInterruptOK DEF LinkOK, o
  <2>4. Receives(l, r, 1)
    <3> HIDE DEF o, r, m
    <3> QED
      BY <1>1, <2>1, <2>3
  <2>5. begun = 1
    BY <1>4, Sizes
  <2> QED
    BY <2>4, <2>5
<1> QED
  BY <1>2, <1>3, <1>4

LEMMA Appended ==
    ASSUME NEW d \in Seq({Pad}), NEW e \in Seq({Pad}), NEW c \in Nat, c <= Len(e)
    PROVE  d \o SubSeq(e, 1, c) \in Seq({Pad}) /\ Len(d \o SubSeq(e, 1, c)) = Len(d) + c
<1> DEFINE b == SubSeq(e, 1, c)
<1>1. b \in Seq({Pad}) /\ Len(b) = c
  OBVIOUS
<1> HIDE DEF b
<1> QED
  BY <1>1 DEF b

\* A CF leaves fewer bytes missing, and none only at the end of the message.
LEMMA RxTakenOK ==
    ASSUME NEW rx, RxOK(rx), rx.state = "RECEIVING", NEW f,
           f.data \in Seq({Pad}), Len(f.data) = CfMax
    PROVE  /\ DOMAIN RxTaken(rx, f) = RxFields /\ RxTaken(rx, f).state = "RECEIVING"
           /\ ~(RxTaken(rx, f).offset >= rx.length) => RxOK(RxTaken(rx, f))
<1> DEFINE c == CfChunkExpected(rx)
           got == RxTaken(rx, f)
           d == rx.data \o SubSeq(f.data, 1, c)
<1>1. c \in Nat /\ c <= CfMax
  BY Sizes DEF CfChunkExpected, Least, RxOK
<1> HIDE DEF c
<1>2. d \in Seq({Pad}) /\ Len(d) = rx.offset + c
  <2>1. rx.data \in Seq({Pad}) /\ Len(rx.data) = rx.offset /\ c <= Len(f.data)
    BY <1>1 DEF RxOK
  <2> QED
    BY <1>1, <2>1, Appended, ZenonT(30)
<1> HIDE DEF d
<1>3. got = [rx EXCEPT !.data = d, !.offset = @ + c, !.seq = (@ + 1) % SeqMod, !.timer = 0]
  BY DEF RxTaken, c, d
<1>4. /\ DOMAIN got = RxFields /\ got.state = "RECEIVING" /\ got.length = rx.length
      /\ got.offset = rx.offset + c /\ got.data = d /\ got.seq = (rx.seq + 1) % SeqMod
  BY <1>3 DEF RxOK, RxFields
<1> HIDE DEF got
<1>5. ASSUME ~(got.offset >= rx.length) PROVE Numbered(got.seq, got.offset)
  <2>1. c = CfMax
    BY <1>4, <1>5, Sizes DEF c, CfChunkExpected, Least, RxOK
  <2>2. rx.offset + 1 * CfMax = rx.offset + CfMax
    BY Sizes DEF RxOK
  <2>3. Numbered((rx.seq + 1) % SeqMod, rx.offset + 1 * CfMax)
    BY NumberedNext DEF RxOK
  <2> QED
    BY <1>4, <2>1, <2>2, <2>3
<1>6. ~(got.offset >= rx.length) => RxOK(got)
  BY <1>1, <1>2, <1>4, <1>5, Sizes, SMTT(30) DEF RxOK
<1> QED
  BY <1>4, <1>6 DEF got

LEMMA RxOnConsecutiveFrameOK ==
    ASSUME NEW l, LinkOK(l), NEW f, f.dlc \in 1 .. CanDl,
           f.data \in Seq({Pad}), Len(f.data) = CfMax, NEW accepted
    PROVE  Receives(l, RxOnConsecutiveFrame(l, Cfg, f, accepted), 0)
<1> DEFINE rx    == l.rx
           got   == RxTaken(rx, f)
           count == rx.blockCount + 1
           r == RxOnConsecutiveFrame(l, Cfg, f, accepted)
<1>1. CASE rx.state /= "RECEIVING"
  <2>1. r = Unchanged(l)
    BY <1>1 DEF RxOnConsecutiveFrame
  <2> QED
    BY <2>1, UnchangedOK
<1>2. CASE rx.state = "RECEIVING"
  <2>1. ASSUME NEW m, DOMAIN m = {"tx", "rx", "fcPending"}, m.tx = l.tx, NEW result,
               r = RxFinish(m, result)
        PROVE  Receives(l, r, 0)
    <3>1. Ends(m, r)
      BY <2>1, RxFinishOK DEF LinkOK
    <3>2. Busy(l.rx) + 0 - Busy(r.link.rx) = 1
      BY <1>2, <3>1, IdleOK DEF Ends, Busy
    <3> HIDE DEF r
    <3> QED
      BY <2>1, <3>1, <3>2 DEF Ends, Receives
  <2>2. ASSUME NEW m, LinkOK(m), m.tx = l.tx, m.rx.state = "RECEIVING", NEW status, Quiet(m, r)
        PROVE  Receives(l, r, 0)
    <3>1. Busy(l.rx) + 0 - Busy(r.link.rx) = 0
      BY <1>2, <2>2 DEF Quiet, Busy
    <3> HIDE DEF r
    <3> QED
      BY <2>2, <3>1, NoCall DEF Quiet, Receives
  <2>3. CASE ~NextCf(rx, f)
    <3>1. r = RxFinish(l, "ERR_WRONG_SN")
      BY <1>2, <2>3 DEF RxOnConsecutiveFrame
    <3> QED
      BY <2>1, <3>1 DEF LinkOK
  <2>4. CASE NextCf(rx, f) /\ CfChunkExpected(rx) > f.dlc - 1
    <3>1. r = Unchanged(l)
      BY <1>2, <2>4 DEF RxOnConsecutiveFrame
    <3> QED
      BY <3>1, UnchangedOK
  <2>5. CASE NextCf(rx, f) /\ ~(CfChunkExpected(rx) > f.dlc - 1)
    <3>1. r = IF got.offset >= rx.length THEN RxFinish([l EXCEPT !.rx = got], "OK")
              ELSE IF Cfg.blockSize = 0 THEN Unchanged([l EXCEPT !.rx = got])
              ELSE IF count < Cfg.blockSize
                   THEN Unchanged([l EXCEPT !.rx = [got EXCEPT !.blockCount = count]])
                   ELSE RxSendFlowControl([l EXCEPT !.rx = [got EXCEPT !.blockCount = 0]],
                                          Cfg, "CTS", accepted)
      BY <1>2, <2>5 DEF RxOnConsecutiveFrame
    <3>2. /\ DOMAIN got = RxFields /\ got.state = "RECEIVING"
          /\ ~(got.offset >= rx.length) => RxOK(got)
      BY <1>2, RxTakenOK DEF LinkOK
    <3> HIDE DEF got, count, r
    <3>3. CASE got.offset >= rx.length
      <4> DEFINE m == [l EXCEPT !.rx = got]
      <4>1. DOMAIN m = {"tx", "rx", "fcPending"} /\ m.tx = l.tx
        BY DEF LinkOK
      <4>2. r = RxFinish(m, "OK")
        BY <3>1, <3>3
      <4> HIDE DEF m
      <4> QED
        BY <2>1, <4>1, <4>2 DEF r
    <3>4. CASE ~(got.offset >= rx.length)
      <4>1. ASSUME NEW n, NEW m, m = [l EXCEPT !.rx = [got EXCEPT !.blockCount = n]]
            PROVE  LinkOK(m) /\ m.tx = l.tx /\ m.rx.state = "RECEIVING"
        <5> DEFINE after == [got EXCEPT !.blockCount = n]
        <5>1. /\ DOMAIN after = RxFields /\ after.state = got.state /\ after.length = got.length
              /\ after.offset = got.offset /\ after.data = got.data
              /\ after.seq = got.seq
          BY <3>2 DEF RxFields
        <5> HIDE DEF after
        <5>2. RxOK(after)
          BY <3>2, <3>4, <5>1 DEF RxOK
        <5>3. m = [l EXCEPT !.rx = after]
          BY <4>1 DEF after
        <5> QED
          BY <3>2, <5>1, <5>2, <5>3 DEF LinkOK
      <4>3. ASSUME NEW m, LinkOK(m), m.tx = l.tx, m.rx.state = "RECEIVING",
                   r = Unchanged(m) \/ r = RxSendFlowControl(m, Cfg, "CTS", accepted)
            PROVE  Receives(l, r, 0)
        <5>1. Quiet(m, Unchanged(m)) /\ Quiet(m, RxSendFlowControl(m, Cfg, "CTS", accepted))
          BY <4>3, RxSendFlowControlOK, NoCf DEF Quiet, Unchanged, IsOutcome
        <5>2. Quiet(m, r)
          BY <4>3, <5>1
        <5> QED
          BY <2>2, <4>3, <5>2 DEF r
      <4>4. CASE Cfg.blockSize = 0
        <5> DEFINE m == [l EXCEPT !.rx = got]
        <5>1. r = Unchanged(m)
          BY <3>1, <3>4, <4>4
        <5>2. LinkOK(m) /\ m.tx = l.tx /\ m.rx.state = "RECEIVING"
          BY <3>2, <3>4 DEF LinkOK
        <5> HIDE DEF m
        <5> QED
          BY <4>3, <5>1, <5>2 DEF r
      <4>5. CASE Cfg.blockSize /= 0 /\ count < Cfg.blockSize
        <5> DEFINE m == [l EXCEPT !.rx = [got EXCEPT !.blockCount = count]]
        <5>1. r = Unchanged(m)
          BY <3>1, <3>4, <4>5
        <5>2. LinkOK(m) /\ m.tx = l.tx /\ m.rx.state = "RECEIVING"
          BY <4>1
        <5> HIDE DEF m
        <5> QED
          BY <4>3, <5>1, <5>2 DEF r
      <4>6. CASE Cfg.blockSize /= 0 /\ ~(count < Cfg.blockSize)
        <5> DEFINE m == [l EXCEPT !.rx = [got EXCEPT !.blockCount = 0]]
        <5>1. r = RxSendFlowControl(m, Cfg, "CTS", accepted)
          BY <3>1, <3>4, <4>6
        <5>2. LinkOK(m) /\ m.tx = l.tx /\ m.rx.state = "RECEIVING"
          BY <4>1
        <5> HIDE DEF m
        <5> QED
          BY <4>3, <5>1, <5>2 DEF r
      <4> QED
        BY <4>4, <4>5, <4>6
    <3> QED
      BY <3>3, <3>4
  <2> QED
    BY <2>3, <2>4, <2>5
<1> QED
  BY <1>1, <1>2
-----------------------------------------------------------------------------
(* The invariant.                                                          *)

\* Of every reachable state: a link that is well formed, and one callback owed
\* for each side that is not idle.
LinkInv ==
    /\ LinkOK(link)
    /\ unconfirmed = Busy(link.tx)
    /\ unreported = Busy(link.rx)
    /\ Credited(link, credit)

LEMMA InvImplies == LinkInv => InBuffers /\ SeqFollowsOffset /\ CallbacksOnce /\ WithinCredit
<1>1. LinkInv => InBuffers /\ CallbacksOnce
  BY DEF LinkInv, LinkOK, TxOK, RxOK, Busy, InBuffers, CallbacksOnce
<1>2. LinkInv => SeqFollowsOffset
  BY NumberedIs DEF LinkInv, LinkOK, TxOK, RxOK, SeqFollowsOffset
<1>3. LinkInv => WithinCredit
  BY DEF LinkInv, Credited, WithinCredit
<1> QED
  BY <1>1, <1>2, <1>3

LEMMA InvHoldsAtFirst == Init => LinkInv
<1>1. /\ DOMAIN InitialLink = {"tx", "rx", "fcPending"}
      /\ InitialLink.tx = IdleTx /\ InitialLink.rx = IdleRx
  BY DEF InitialLink
<1> QED
  BY <1>1, IdleOK DEF Init, LinkInv, LinkOK, Credited, IdleTx

\* A call whose reports account for what it begins and ends.
LEMMA PerformOK ==
    ASSUME LinkInv, NEW o, LinkOK(o.link), NEW tx \in {0, 1}, NEW rx \in {0, 1}, NEW c, NEW n,
           CfsOf(o.out, n), Credited(o.link, c - n),
           Calls(o.conf, Busy(link.tx) + tx - Busy(o.link.tx)),
           Calls(o.ind, Busy(link.rx) + rx - Busy(o.link.rx)),
           Perform(o, tx, rx, c)
    PROVE  LinkInv'
<1>1. /\ Len(o.conf) = Busy(link.tx) + tx - Busy(o.link.tx)
      /\ Len(o.ind) = Busy(link.rx) + rx - Busy(o.link.rx)
  BY CallsLen
<1>2. link' = o.link
  BY DEF Perform
<1>3. LinkOK(link)' /\ Busy(link.tx)' = Busy(o.link.tx) /\ Busy(link.rx)' = Busy(o.link.rx)
  BY <1>2 DEF LinkOK, TxOK, RxOK, Busy
<1>4. /\ unconfirmed' = Busy(link.tx) + tx - Len(o.conf)
      /\ unreported' = Busy(link.rx) + rx - Len(o.ind)
  BY DEF Perform, LinkInv
<1>5. unconfirmed' = Busy(o.link.tx) /\ unreported' = Busy(o.link.rx)
  <2>1. ASSUME NEW a \in {0, 1}, NEW b \in {0, 1}, NEW t \in {0, 1}
        PROVE  a + t - (a + t - b) = b
    OBVIOUS
  <2>2. /\ Busy(link.tx) \in {0, 1} /\ Busy(o.link.tx) \in {0, 1}
        /\ Busy(link.rx) \in {0, 1} /\ Busy(o.link.rx) \in {0, 1}
    BY BusyIs, Zenon
  <2>3. /\ Busy(link.tx) + tx - (Busy(link.tx) + tx - Busy(o.link.tx)) = Busy(o.link.tx)
        /\ Busy(link.rx) + rx - (Busy(link.rx) + rx - Busy(o.link.rx)) = Busy(o.link.rx)
    BY <2>1, <2>2, Zenon
  <2> QED
    BY <1>1, <1>4, <2>3, Zenon
<1>6. credit' = c - n
  BY DEF Perform, CfsOf
<1>7. Credited(link, credit)'
  BY <1>2, <1>6 DEF Credited
<1> QED
  BY <1>3, <1>5, <1>7 DEF LinkInv

LEMMA MessageOK == ASSUME NEW n \in Nat PROVE Message(n) \in Seq({Pad})
BY DEF Message

LEMMA AppTransmitOK ==
    ASSUME LinkInv, NEW n \in Lengths, AppTransmit(n)
    PROVE  LinkInv'
<1>1. PICK room \in 0 .. 1 : Perform(Transmit(link, Message(n), room), 1, 0, 0)
  BY DEF AppTransmit
<1> DEFINE o == Transmit(link, Message(n), room)
<1>2. /\ LinkOK(o.link) /\ o.link.rx = link.rx /\ o.ind = <<>>
      /\ Calls(o.conf, Busy(link.tx) + 1 - Busy(o.link.tx))
      /\ \E m \in Nat : CfsOf(o.out, m) /\ Credited(o.link, 0 - m)
  <2> DEFINE msg == Message(n)
  <2>1. LinkOK(link) /\ msg \in Seq({Pad}) /\ CanTransmit(link, Cfg, msg) /\ room \in Nat
    BY MessageOK, BoundsAssumption, SMTT(30) DEF LinkInv, AppTransmit
  <2> HIDE DEF msg
  <2>2. o = Transmit(link, msg, room)
    BY DEF msg
  <2> HIDE DEF o
  <2> QED
    BY <2>1, <2>2, TransmitOK
<1> HIDE DEF o
<1>3. Busy(link.rx) + 0 - Busy(o.link.rx) = 0
  BY <1>2, BusyIs
<1>4. Calls(o.ind, Busy(link.rx) + 0 - Busy(o.link.rx))
  BY <1>2, <1>3, NoCall
<1> QED
  BY <1>1, <1>2, <1>4, PerformOK DEF o

\* Calls of the sender's and of the receiver's side account for themselves.
LEMMA SendsOK ==
    ASSUME LinkInv, NEW o, NEW c, Sends(link, o, c), Perform(o, 0, 0, c)
    PROVE  LinkInv'
<1>1. /\ Busy(link.tx) + 0 - Busy(o.link.tx) = Busy(link.tx) - Busy(o.link.tx)
      /\ Busy(link.rx) + 0 - Busy(o.link.rx) = 0
  BY BusyIs DEF Sends
<1>2. /\ Calls(o.conf, Busy(link.tx) + 0 - Busy(o.link.tx))
      /\ Calls(o.ind, Busy(link.rx) + 0 - Busy(o.link.rx))
  BY <1>1, NoCall DEF Sends
<1> QED
  BY <1>2, PerformOK DEF Sends

LEMMA ReceivesOK ==
    ASSUME LinkInv, NEW o, NEW n \in {0, 1}, Receives(link, o, n), Perform(o, 0, n, credit)
    PROVE  LinkInv'
<1>1. Busy(link.tx) + 0 - Busy(o.link.tx) = 0
  BY BusyIs DEF Receives
<1>2. Calls(o.conf, Busy(link.tx) + 0 - Busy(o.link.tx))
  BY <1>1, NoCall DEF Receives
<1>3. CfsOf(o.out, 0) /\ Credited(o.link, credit - 0)
  BY DEF Receives, LinkInv, Credited
<1> QED
  BY <1>2, <1>3, PerformOK DEF Receives

LEMMA BusFrameOK ==
    ASSUME LinkInv, NEW f \in Frames, BusFrame(f)
    PROVE  LinkInv'
<1> DEFINE begun == IF Begins(f) THEN 1 ELSE 0
           c == IF Allows(f) THEN (IF f.bs = 0 THEN MaxMessage ELSE f.bs) ELSE credit
<1>1. PICK room \in 0 .. MaxRoom : Perform(RxFrame(link, Cfg, f, room), 0, begun, c)
  BY DEF BusFrame
<1> DEFINE o == RxFrame(link, Cfg, f, room)
<1>2. /\ LinkOK(link) /\ room \in Nat /\ f.dlc \in Nat /\ begun \in {0, 1}
      /\ Credited(link, credit)
  BY FramesAssumption, BoundsAssumption DEF LinkInv
<1>3. \/ Receives(link, o, begun) /\ c = credit
      \/ Sends(link, o, c) /\ begun = 0
  <2>1. CASE f.dlc = 0 \/ f.dlc > CanDl
    <3>1. o = Unchanged(link)
      BY <1>2, <2>1, Sizes DEF RxFrame
    <3>2. begun = 0
      BY <1>2, <2>1, Sizes DEF Begins, Least
    <3>3. c = credit
      BY <1>2, <2>1, Sizes DEF Allows
    <3> HIDE DEF o, begun, c
    <3> QED
      BY <1>2, <3>1, <3>2, <3>3, UnchangedOK
  <2>2. CASE f.dlc \in 1 .. CanDl /\ f.pci = "SF"
    <3>1. o = RxOnSingleFrame(link, Cfg, f)
      BY <1>2, <2>2, Sizes DEF RxFrame
    <3>2. begun = IF f.length \in 1 .. Least(Least(SfMax, f.dlc - 1), Cfg.rxSize) THEN 1 ELSE 0
      BY <2>2, Sizes DEF Begins
    <3>3. f.length \in Nat
      BY <2>2, FramesAssumption
    <3>4. c = credit
      BY <2>2 DEF Allows
    <3> HIDE DEF o, begun, c
    <3> QED
      BY <1>2, <2>2, <3>1, <3>2, <3>3, <3>4, RxOnSingleFrameOK
  <2>3. CASE f.dlc \in 1 .. CanDl /\ f.pci = "FF"
    <3>1. o = RxOnFirstFrame(link, Cfg, f, room > 0)
      BY <1>2, <2>3, Sizes DEF RxFrame
    <3>2. begun = IF f.dlc = CanDl /\ f.length > SfMax /\ f.length <= Cfg.rxSize THEN 1 ELSE 0
      BY <2>3 DEF Begins
    <3>3. f.length \in Nat /\ f.data \in Seq({Pad}) /\ Len(f.data) = FfData
      BY <2>3, FramesAssumption
    <3>4. c = credit
      BY <2>3 DEF Allows
    <3> HIDE DEF o, begun, c
    <3> QED
      BY <1>2, <2>3, <3>1, <3>2, <3>3, <3>4, RxOnFirstFrameOK
  <2>4. CASE f.dlc \in 1 .. CanDl /\ f.pci = "CF"
    <3>1. o = RxOnConsecutiveFrame(link, Cfg, f, room > 0)
      BY <1>2, <2>4, Sizes DEF RxFrame
    <3>2. begun = 0
      BY <2>4 DEF Begins
    <3>3. f.data \in Seq({Pad}) /\ Len(f.data) = CfMax
      BY <2>4, FramesAssumption
    <3>4. c = credit
      BY <2>4 DEF Allows
    <3> HIDE DEF o, begun, c
    <3> QED
      BY <1>2, <2>4, <3>1, <3>2, <3>3, <3>4, RxOnConsecutiveFrameOK
  <2>5. CASE f.dlc \in 1 .. CanDl /\ f.pci = "FC"
    <3>1. o = TxOnFlowControl(link, f, room)
      BY <1>2, <2>5, Sizes DEF RxFrame
    <3>2. begun = 0
      BY <2>5 DEF Begins
    <3>3. f.bs \in Nat
      BY <2>5, FramesAssumption
    <3>4. c = IF f.dlc >= 3 /\ f.status = "CTS" /\ link.tx.state = "WAIT_FC"
              THEN IF f.bs = 0 THEN MaxMessage ELSE f.bs
              ELSE credit
      BY <1>2, <2>5, Sizes DEF Allows
    <3> HIDE DEF o, begun, c
    <3> QED
      BY <1>2, <2>5, <3>1, <3>2, <3>3, <3>4, TxOnFlowControlOK
  <2>6. CASE f.dlc \in 1 .. CanDl /\ f.pci \notin {"SF", "FF", "CF", "FC"}
    <3>1. o = Unchanged(link)
      BY <1>2, <2>6, Sizes DEF RxFrame
    <3>2. begun = 0
      BY <2>6 DEF Begins
    <3>3. c = credit
      BY <2>6 DEF Allows
    <3> HIDE DEF o, begun, c
    <3> QED
      BY <1>2, <3>1, <3>2, <3>3, UnchangedOK
  <2>7. f.dlc \in 1 .. CanDl \/ f.dlc = 0 \/ f.dlc > CanDl
    BY <1>2, Sizes
  <2> HIDE DEF o, begun, c
  <2> QED
    BY <2>1, <2>2, <2>3, <2>4, <2>5, <2>6, <2>7
<1> HIDE DEF o, begun, c
<1>4. Perform(o, 0, begun, c)
  BY <1>1 DEF o
<1> QED
  BY <1>2, <1>3, <1>4, SendsOK, ReceivesOK

LEMMA MainReceiverOK ==
    ASSUME NEW l, LinkOK(l), NEW fcRoom
    PROVE  Receives(l, MainReceiver(l, Cfg, fcRoom), 0)
<1> DEFINE o == IF l.fcPending = NoFc THEN Unchanged(l)
                ELSE RxSendFlowControl(l, Cfg, l.fcPending, fcRoom > 0)
           p == RxFinish(o.link, "ERR_TIMEOUT_CR")
           r == MainReceiver(l, Cfg, fcRoom)
<1>1. r = IF o.link.rx.state = "RECEIVING" /\ o.link.rx.timer >= NCr THEN Then(o, p) ELSE o
  BY DEF MainReceiver
<1>2. Quiet(l, o)
  <2>1. Quiet(l, Unchanged(l))
    BY NoCf DEF Quiet, Unchanged, IsOutcome
  <2> QED
    BY <2>1, RxSendFlowControlOK
<1> HIDE DEF o, r
<1>3. CASE ~(o.link.rx.state = "RECEIVING" /\ o.link.rx.timer >= NCr)
  <2>1. r = o
    BY <1>1, <1>3
  <2>2. Busy(l.rx) + 0 - Busy(o.link.rx) = 0
    BY <1>2, BusyIs DEF Quiet
  <2> QED
    BY <1>2, <2>1, <2>2, NoCall DEF Quiet, Receives, r
<1>4. CASE o.link.rx.state = "RECEIVING" /\ o.link.rx.timer >= NCr
  <2>1. r = Then(o, p)
    BY <1>1, <1>4
  <2>2. Ends(o.link, p)
    BY <1>2, RxFinishOK DEF Quiet, LinkOK
  <2> HIDE DEF p
  <2>3. /\ IsOutcome(r) /\ r.link = p.link /\ r.conf = <<>> /\ r.ind = o.ind \o p.ind
        /\ CfsOf(r.out, 0)
    <3>1. /\ IsOutcome(o) /\ o.conf = <<>> /\ IsOutcome(p) /\ p.conf = <<>>
          /\ CfsOf(o.out, 0) /\ CfsOf(p.out, 0)
      BY <1>2, <2>2 DEF Quiet, Ends
    <3> QED
      BY <2>1, <3>1, ReceiverThen, Zenon
  <2>4. Calls(r.ind, 0 + 1)
    BY <1>2, <2>2, <2>3, NoCall, CallsThen DEF Quiet, Ends
  <2>5. Busy(l.rx) + 0 - Busy(r.link.rx) = 0 + 1
    BY <1>2, <1>4, <2>2, <2>3, IdleOK DEF Quiet, Ends, Busy
  <2> QED
    BY <1>2, <2>2, <2>3, <2>4, <2>5 DEF Quiet, Ends, Receives, r
<1> QED
  BY <1>3, <1>4

LEMMA PollOK ==
    ASSUME LinkInv, NEW fcRoom \in 0 .. 1, NEW room \in 0 .. MaxRoom, Poll(fcRoom, room)
    PROVE  LinkInv'
<1> DEFINE o == MainReceiver(link, Cfg, fcRoom)
           p == MainSender(o.link, room)
           r == MainFunction(link, Cfg, fcRoom, room)
<1>1. r = Then(o, p) /\ room \in Nat
  BY BoundsAssumption DEF MainFunction
<1>2. Receives(link, o, 0)
  BY MainReceiverOK DEF LinkInv
<1> HIDE DEF o, r
<1>3. Sends(o.link, p, credit)
  <2>1. Credited(o.link, credit)
    BY <1>2 DEF Receives, LinkInv, Credited
  <2> QED
    BY <1>1, <1>2, <2>1, MainSenderOK DEF Receives
<1> HIDE DEF p
<1>4. /\ IsOutcome(r) /\ r.link = p.link /\ r.conf = o.conf \o p.conf /\ r.ind = o.ind \o p.ind
      /\ r.out = o.out \o p.out
  BY <1>1, <1>2, <1>3, ThenOK DEF Receives, Sends
<1>5. Calls(r.conf, 0 + (Busy(link.tx) - Busy(r.link.tx)))
  BY <1>2, <1>3, <1>4, NoCall, CallsThen DEF Receives, Sends
<1>6. Calls(r.ind, Busy(link.rx) + 0 - Busy(r.link.rx) + 0)
  BY <1>2, <1>3, <1>4, NoCall, CallsThen DEF Receives, Sends
<1>7. /\ 0 + (Busy(link.tx) - Busy(r.link.tx)) = Busy(link.tx) + 0 - Busy(r.link.tx)
      /\ Busy(link.rx) + 0 - Busy(r.link.rx) + 0 = Busy(link.rx) + 0 - Busy(r.link.rx)
  BY BusyIs
<1>8. /\ Calls(r.conf, Busy(link.tx) + 0 - Busy(r.link.tx))
      /\ Calls(r.ind, Busy(link.rx) + 0 - Busy(r.link.rx))
  BY <1>5, <1>6, <1>7
<1>9. LinkOK(r.link)
  BY <1>3, <1>4 DEF Sends
<1>10. Perform(r, 0, 0, credit)
  BY DEF Poll, r
<1>11. PICK n \in Nat : CfsOf(p.out, n) /\ Credited(p.link, credit - n)
  BY <1>3 DEF Sends
<1>12. CfsOf(r.out, n) /\ Credited(r.link, credit - n)
  BY <1>2, <1>4, <1>11, NoCfsThen DEF Receives
<1> QED
  BY <1>8, <1>9, <1>10, <1>12, PerformOK

LEMMA TickOK == ASSUME LinkInv, Tick PROVE LinkInv'
<1> DEFINE l == link
           a == IF l.tx.state \in {"SEND_FIRST", "WAIT_FC"} THEN Least(NBs, l.tx.timer + 1)
                ELSE l.tx.timer
           b == IF l.tx.state = "SEND_CF" THEN Least(l.tx.stMin + 1, l.tx.lastCf + 1)
                ELSE l.tx.lastCf
           c == IF l.rx.state = "RECEIVING" THEN Least(NCr, l.rx.timer + 1) ELSE l.rx.timer
           m == [l EXCEPT !.tx.timer = a, !.tx.lastCf = b, !.rx.timer = c]
<1>1. link' = m
  BY DEF Tick, Aged, LinkInv, LinkOK, TxOK, TxFields
<1> HIDE DEF a, b, c
<1>2. /\ DOMAIN m = {"tx", "rx", "fcPending"} /\ DOMAIN m.tx = TxFields /\ DOMAIN m.rx = RxFields
      /\ m.tx.state = l.tx.state /\ m.tx.msg = l.tx.msg /\ m.tx.offset = l.tx.offset
      /\ m.tx.seq = l.tx.seq
      /\ m.tx.blockSize = l.tx.blockSize /\ m.tx.blockCount = l.tx.blockCount
      /\ m.rx.state = l.rx.state /\ m.rx.length = l.rx.length /\ m.rx.offset = l.rx.offset
      /\ m.rx.data = l.rx.data /\ m.rx.seq = l.rx.seq
  BY DEF LinkInv, LinkOK, TxOK, RxOK, TxFields, RxFields
<1> HIDE DEF m
<1>3. LinkOK(m) /\ Busy(m.tx) = Busy(link.tx) /\ Busy(m.rx) = Busy(link.rx)
  BY <1>2 DEF LinkInv, LinkOK, TxOK, RxOK, Busy
<1>4. LinkOK(link)' /\ Busy(link.tx)' = Busy(m.tx) /\ Busy(link.rx)' = Busy(m.rx)
  BY <1>1, <1>3 DEF LinkOK, TxOK, RxOK, Busy
<1>5. Credited(link, credit)'
  BY <1>1, <1>2 DEF Tick, LinkInv, Credited
<1> QED
  BY <1>3, <1>4, <1>5 DEF LinkInv, Tick

LEMMA InvPreserved == ASSUME LinkInv, [Next]_vars PROVE LinkInv'
<1>1. ASSUME NEW n \in Lengths, AppTransmit(n) PROVE LinkInv'
  BY <1>1, AppTransmitOK
<1>2. ASSUME NEW f \in Frames, BusFrame(f) PROVE LinkInv'
  BY <1>2, BusFrameOK
<1>3. ASSUME NEW fcRoom \in 0 .. 1, NEW room \in 0 .. MaxRoom, Poll(fcRoom, room)
      PROVE  LinkInv'
  BY <1>3, PollOK
<1>4. CASE Tick
  BY <1>4, TickOK
<1>5. CASE UNCHANGED vars
  BY <1>5 DEF vars, LinkInv, LinkOK, TxOK, RxOK, Busy, Credited
<1> QED
  BY <1>1, <1>2, <1>3, <1>4, <1>5 DEF Next

-----------------------------------------------------------------------------
(* The theorems.                                                           *)

\* For every frame the bus can deliver, of every length and sequence number,
\* every buffer size and block size: no memcpy of isotp.c leaves rxBuffer or
\* txBuffer, and no block that is being sent is used up.
THEOREM InBuffersCorrect == Spec => []InBuffers
<1>1. LinkInv /\ [Next]_vars => LinkInv'
  BY InvPreserved
<1> QED
  BY <1>1, InvHoldsAtFirst, InvImplies, PTL DEF Spec

\* The sequence number is that of the next CF of the message, in both directions,
\* for every frame size and modulus: retries and lost frames do not shift it.
THEOREM SeqFollowsOffsetCorrect == Spec => []SeqFollowsOffset
<1>1. LinkInv /\ [Next]_vars => LinkInv'
  BY InvPreserved
<1> QED
  BY <1>1, InvHoldsAtFirst, InvImplies, PTL DEF Spec

\* The sender stays within what the last Flow Control allowed, for every block
\* size and room of the driver, however often it is interrupted.
THEOREM WithinCreditCorrect == Spec => []WithinCredit
<1>1. LinkInv /\ [Next]_vars => LinkInv'
  BY InvPreserved
<1> QED
  BY <1>1, InvHoldsAtFirst, InvImplies, PTL DEF Spec

\* txConfirmation once for each transmission accepted and rxIndication once for
\* each message begun, whatever frames come and however busy the driver is.
THEOREM CallbacksOnceCorrect == Spec => []CallbacksOnce
<1>1. LinkInv /\ [Next]_vars => LinkInv'
  BY InvPreserved
<1> QED
  BY <1>1, InvHoldsAtFirst, InvImplies, PTL DEF Spec
=============================================================================
