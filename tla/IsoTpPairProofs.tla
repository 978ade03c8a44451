-------------------------- MODULE IsoTpPairProofs --------------------------
(***************************************************************************)
(* The integrity of messages over two links, for every frame and buffer    *)
(* size, block size, STmin, length of the messages, depth of the queues    *)
(* and delay: as long as the bus has lost nothing, what a side is given is *)
(* what its peer sent, in order, each message at most once, whatever the   *)
(* timeouts, refusals of the drivers and interrupted transfers do.         *)
(*                                                                         *)
(* Where a transfer stands is a Position: messages begun, and bytes of the *)
(* last one that are out.  Every frame moves the position (Fits); the      *)
(* frames on their way to a side lead from the position its receiver has   *)
(* reached to that of the peer's sender (Moves).                           *)
(*                                                                         *)
(* The last parts are about blocks: whatever is lost, a receiver gets no   *)
(* frame beyond the block it allowed, when frames and polls are faster     *)
(* than time.                                                              *)
(***************************************************************************)
EXTENDS IsoTpPair, TLAPS, FiniteSetTheorems

TxFields == {"state", "msg", "offset", "seq", "blockSize", "blockCount", "stMin", "timer", "lastCf",
             "waitCount"}
RxFields == {"state", "length", "offset", "data", "seq", "blockCount", "timer"}

IsSeq(s) == \E S : s \in Seq(S)

\* The First Frame is out and the last Consecutive Frame is not.
Mid(tx) == tx.state \in {"WAIT_FC", "SEND_CF"}

TxOK(tx) ==
    /\ DOMAIN tx = TxFields
    /\ tx.state \in {"IDLE", "SEND_FIRST", "WAIT_FC", "SEND_CF"}
    /\ tx.blockSize \in Nat /\ tx.blockCount \in Nat
    /\ tx.state = "SEND_CF" => tx.blockSize = 0 \/ tx.blockCount < tx.blockSize

LinkOK(l) ==
    /\ DOMAIN l = {"tx", "rx", "fcPending"}
    /\ TxOK(l.tx)
    /\ DOMAIN l.rx = RxFields /\ l.rx.state \in {"IDLE", "RECEIVING"}

Ascending(S) == \A i, j \in 1 .. Len(S) : i < j => IdOf(S[i]) < IdOf(S[j])

\* Messages a side has sent.
Messages(S) ==
    /\ IsSeq(S) /\ Ascending(S)
    /\ \A i \in 1 .. Len(S) : IsSeq(S[i]) /\ Len(S[i]) > 0

\* Messages begun, and bytes of the last one that are out.
Position == [begun : Nat, out : Nat]

IsFc(f) == f.pci = "FC" /\ f.dlc = CanDl /\ f.bs \in Nat

\* Frame f of the messages S leads from the position a to b.
Fits(f, S, a, b) ==
    \/ IsFc(f) /\ b = a
    \/ /\ f = SingleFrame(S[b.begun]) /\ Len(S[b.begun]) <= SfMax
       /\ a.begun < b.begun /\ b.begun <= Len(S)
       /\ b.out = Len(S[b.begun])
    \/ /\ f = FirstFrame(S[b.begun]) /\ Len(S[b.begun]) > SfMax
       /\ a.begun < b.begun /\ b.begun <= Len(S)
       /\ b.out = FfData
    \/ /\ f.pci = "CF" /\ f.dlc = CanDl
       /\ f.data = Padded(SubSeq(S[a.begun], a.out + 1, b.out), CfMax)
       /\ a.begun \in 1 .. Len(S) /\ b.begun = a.begun
       /\ a.out < Len(S[a.begun]) /\ b.out = Least(Len(S[a.begun]), a.out + CfMax)

\* The frames q lead from a to b, over the positions at.
Over(q, S, at) ==
    \A k \in 1 .. Len(q) :
        at[k - 1] \in Position /\ at[k] \in Position /\ Fits(q[k], S, at[k - 1], at[k])

Moves(q, S, a, b) ==
    /\ IsSeq(q) /\ a \in Position /\ b \in Position
    /\ \E at : at[0] = a /\ at[Len(q)] = b /\ Over(q, S, at)

\* The sender that has sent S has got as far as a.
At(tx, S, a) ==
    /\ a.begun <= Len(S)
    /\ Mid(tx) =>
          /\ Len(S) > 0 /\ a.begun = Len(S) /\ tx.msg = S[Len(S)]
          /\ a.out = tx.offset /\ tx.offset < Len(tx.msg)
    /\ tx.state = "SEND_FIRST" => a.begun < Len(S) /\ tx.msg = S[Len(S)]

\* D are messages of S, all before the n-th.
Before(D, S, n) == \A k \in 1 .. Len(D) : \E i \in 1 .. Len(S) : D[k] = S[i] /\ i < n

\* The receiver has got as far as a and has delivered D, without the message it is
\* receiving.  A Single Frame that is too long for it is ignored, and a reception
\* that it should have interrupted goes on: nothing will come for it.
Got(rx, S, a, D) ==
    /\ IsSeq(D) /\ Ascending(D)
    /\ Before(D, S, IF rx.state = "RECEIVING" THEN a.begun ELSE a.begun + 1)
    /\ rx.state = "RECEIVING" /\ a.begun \in 1 .. Len(S) /\ a.out < Len(S[a.begun]) =>
          /\ rx.length = Len(S[a.begun]) /\ rx.offset = a.out
          /\ rx.data = SubSeq(S[a.begun], 1, a.out)

LEMMA Sizes == /\ CanDl \in Nat /\ CanDl >= 3
               /\ SfMax \in Nat /\ FfData \in Nat /\ CfMax \in Nat \ {0}
               /\ SfMax = FfData + 1 /\ CfMax = SfMax /\ FfData >= 1 /\ CfMax = CanDl - 1
BY SizeAssumption DEF SfMax, FfData, CfMax

-----------------------------------------------------------------------------
(* Sequences.                                                              *)

LEMMA NoElement == IsSeq(<<>>) /\ Len(<<>>) = 0
<1>1. <<>> \in Seq({})
  OBVIOUS
<1> QED
  BY <1>1 DEF IsSeq

LEMMA OneElement == ASSUME NEW x PROVE IsSeq(<<x>>) /\ Len(<<x>>) = 1 /\ <<x>>[1] = x
<1>1. <<x>> \in Seq({x})
  OBVIOUS
<1> QED
  BY <1>1 DEF IsSeq

LEMMA Indices == ASSUME NEW s, IsSeq(s) PROVE Len(s) \in Nat /\ DOMAIN s = 1 .. Len(s)
<1>1. PICK S : s \in Seq(S)
  BY DEF IsSeq
<1> QED
  BY <1>1

LEMMA Concatenated ==
    ASSUME NEW s, IsSeq(s), NEW t, IsSeq(t)
    PROVE  /\ IsSeq(s \o t)
           /\ Len(s \o t) = Len(s) + Len(t)
           /\ \A k \in 1 .. Len(s) : (s \o t)[k] = s[k]
           /\ \A k \in 1 .. Len(t) : (s \o t)[Len(s) + k] = t[k]
<1>1. PICK S : s \in Seq(S)
  BY DEF IsSeq
<1>2. PICK T : t \in Seq(T)
  BY DEF IsSeq
<1> DEFINE U == S \cup T
<1>3. s \in Seq(U) /\ t \in Seq(U)
  BY <1>1, <1>2
<1> HIDE DEF U
<1>4. s \o t \in Seq(U)
  BY <1>3
<1> QED
  BY <1>3, <1>4 DEF IsSeq

LEMMA SameSeq ==
    ASSUME NEW s, IsSeq(s), NEW t, IsSeq(t), Len(s) = Len(t), \A k \in 1 .. Len(s) : s[k] = t[k]
    PROVE  s = t
<1>1. PICK S : s \in Seq(S)
  BY DEF IsSeq
<1>2. PICK T : t \in Seq(T)
  BY DEF IsSeq
<1>3. s = [k \in 1 .. Len(s) |-> s[k]] /\ t = [k \in 1 .. Len(t) |-> t[k]]
  BY <1>1, <1>2
<1> QED
  BY <1>3

LEMMA WithNothing == ASSUME NEW s, IsSeq(s) PROVE <<>> \o s = s /\ s \o <<>> = s
<1> DEFINE t == <<>> \o s
           u == s \o <<>>
<1>1. Len(s) \in Nat
  BY Indices
<1>2. IsSeq(t) /\ Len(t) = 0 + Len(s) /\ \A k \in 1 .. Len(s) : t[0 + k] = s[k]
  BY NoElement, Concatenated
<1>3. IsSeq(u) /\ Len(u) = Len(s) + 0 /\ \A k \in 1 .. Len(s) : u[k] = s[k]
  BY NoElement, Concatenated
<1> HIDE DEF t, u
<1>4. t = s
  <2>1. Len(t) = Len(s) /\ \A k \in 1 .. Len(t) : t[k] = s[k]
    BY <1>1, <1>2
  <2> QED
    BY <1>2, <2>1, SameSeq
<1>5. u = s
  <2>1. Len(u) = Len(s) /\ \A k \in 1 .. Len(u) : u[k] = s[k]
    BY <1>1, <1>3
  <2> QED
    BY <1>3, <2>1, SameSeq
<1> QED
  BY <1>4, <1>5 DEF t, u

LEMMA TwoElements == ASSUME NEW x, NEW y PROVE <<x>> \o <<y>> = <<x, y>>
<1> DEFINE s == <<x>>
           t == <<y>>
           u == s \o t
           v == <<x, y>>
<1>1. IsSeq(s) /\ Len(s) = 1 /\ s[1] = x
  BY OneElement
<1>2. IsSeq(t) /\ Len(t) = 1 /\ t[1] = y
  BY OneElement
<1>3. IsSeq(v) /\ Len(v) = 2 /\ v[1] = x /\ v[2] = y
  <2>1. v \in Seq({x, y})
    OBVIOUS
  <2> QED
    BY <2>1 DEF IsSeq
<1> HIDE DEF s, t, v
<1>4. /\ IsSeq(u) /\ Len(u) = Len(s) + Len(t)
      /\ \A k \in 1 .. Len(s) : u[k] = s[k]
      /\ \A k \in 1 .. Len(t) : u[Len(s) + k] = t[k]
  <2>1. IsSeq(s)
    BY <1>1
  <2>2. IsSeq(t)
    BY <1>2
  <2> QED
    BY <2>1, <2>2, Concatenated
<1> HIDE DEF u
<1>5. Len(u) = 2 /\ u[1] = x /\ u[2] = y
  <2>1. 1 \in 1 .. Len(s) /\ 1 \in 1 .. Len(t)
    BY <1>1, <1>2
  <2>2. u[1] = s[1] /\ u[Len(s) + 1] = t[1]
    BY <1>4, <2>1
  <2> QED
    BY <1>1, <1>2, <1>4, <2>2
<1>6. u = v
  <2>1. Len(u) = Len(v) /\ \A k \in 1 .. Len(u) : k = 1 \/ k = 2
    BY <1>3, <1>5
  <2>2. \A k \in 1 .. Len(u) : u[k] = v[k]
    BY <1>3, <1>5, <2>1
  <2> QED
    BY <1>3, <1>4, <2>1, <2>2, SameSeq
<1> QED
  BY <1>6 DEF s, t, u, v

LEMMA Rest ==
    ASSUME NEW s, IsSeq(s), s /= <<>>
    PROVE  /\ IsSeq(Tail(s)) /\ Len(s) \in Nat \ {0} /\ Len(Tail(s)) = Len(s) - 1
           /\ Head(s) = s[1]
           /\ \A k \in 1 .. Len(s) - 1 : Tail(s)[k] = s[k + 1]
<1>1. PICK S : s \in Seq(S)
  BY DEF IsSeq
<1>2. Tail(s) \in Seq(S)
  BY <1>1
<1> QED
  BY <1>1, <1>2 DEF IsSeq

LEMMA Appended ==
    ASSUME NEW s, IsSeq(s), NEW x
    PROVE  /\ IsSeq(Append(s, x)) /\ Len(Append(s, x)) = Len(s) + 1
           /\ \A k \in 1 .. Len(s) : Append(s, x)[k] = s[k]
           /\ Append(s, x)[Len(s) + 1] = x
<1>1. PICK S : s \in Seq(S)
  BY DEF IsSeq
<1> DEFINE T == S \cup {x}
<1>2. s \in Seq(T) /\ x \in T
  BY <1>1
<1> HIDE DEF T
<1>3. Append(s, x) \in Seq(T)
  BY <1>2
<1> QED
  BY <1>2, <1>3 DEF IsSeq

-----------------------------------------------------------------------------
(* Moves.                                                                  *)

LEMMA NoMove == ASSUME NEW S, NEW a \in Position PROVE Moves(<<>>, S, a, a)
<1> DEFINE at == [k \in {0} |-> a]
<1>1. at[0] = a
  OBVIOUS
<1> HIDE DEF at
<1> QED
  BY <1>1, NoElement DEF Moves, Over

LEMMA OneMove ==
    ASSUME NEW S, NEW a \in Position, NEW b \in Position, NEW f, Fits(f, S, a, b)
    PROVE  Moves(<<f>>, S, a, b)
<1> DEFINE at == [k \in 0 .. 1 |-> IF k = 0 THEN a ELSE b]
           q == <<f>>
<1>1. at[0] = a /\ at[1] = b
  OBVIOUS
<1>2. IsSeq(q) /\ Len(q) = 1 /\ q[1] = f
  BY OneElement
<1> HIDE DEF at, q
<1>3. Over(q, S, at)
  <2> SUFFICES ASSUME NEW k \in 1 .. Len(q)
               PROVE  /\ at[k - 1] \in Position /\ at[k] \in Position
                      /\ Fits(q[k], S, at[k - 1], at[k])
    BY DEF Over
  <2>1. k = 1 /\ k - 1 = 0
    BY <1>2
  <2> QED
    BY <1>1, <1>2, <2>1
<1> QED
  BY <1>1, <1>2, <1>3 DEF Moves, q

\* One sequence of frames after another.
LEMMA MovesOn ==
    ASSUME NEW S, NEW a, NEW b, NEW c, NEW q, NEW r, Moves(q, S, a, b), Moves(r, S, b, c)
    PROVE  Moves(q \o r, S, a, c)
<1>1. PICK at : at[0] = a /\ at[Len(q)] = b /\ Over(q, S, at)
  BY DEF Moves
<1>2. PICK to : to[0] = b /\ to[Len(r)] = c /\ Over(r, S, to)
  BY DEF Moves
<1> DEFINE n == Len(q)
           m == Len(r)
           h == q \o r
           over == [k \in 0 .. n + m |-> IF k <= n THEN at[k] ELSE to[k - n]]
<1>3. /\ IsSeq(q) /\ IsSeq(r) /\ IsSeq(h) /\ n \in Nat /\ m \in Nat /\ Len(h) = n + m
      /\ \A k \in 1 .. n : h[k] = q[k]
      /\ \A k \in 1 .. m : h[n + k] = r[k]
  BY Concatenated, Indices DEF Moves
<1> HIDE DEF n, m, h
<1>4. \A k \in 0 .. n : over[k] = at[k]
  BY <1>3
<1>5. \A k \in 0 .. m : over[n + k] = to[k]
  <2> SUFFICES ASSUME NEW k \in 0 .. m PROVE over[n + k] = to[k]
    OBVIOUS
  <2>1. CASE k = 0
    <3>1. n + k = n /\ n \in 0 .. n
      BY <1>3, <2>1
    <3> QED
      BY <1>1, <1>2, <1>4, <2>1, <3>1 DEF n
  <2>2. CASE k /= 0
    <3>1. n + k \in 0 .. n + m /\ (n + k) - n = k /\ ~(n + k <= n)
      BY <1>3, <2>2
    <3> QED
      BY <3>1
  <2> QED
    BY <2>1, <2>2
<1> HIDE DEF over
<1>6. Over(h, S, over)
  <2> SUFFICES ASSUME NEW k \in 1 .. Len(h)
               PROVE  /\ over[k - 1] \in Position /\ over[k] \in Position
                      /\ Fits(h[k], S, over[k - 1], over[k])
    BY DEF Over
  <2>1. CASE k <= n
    <3>1. k \in 1 .. n /\ k \in 0 .. n /\ k - 1 \in 0 .. n
      BY <1>3, <2>1
    <3>2. h[k] = q[k] /\ over[k] = at[k] /\ over[k - 1] = at[k - 1]
      BY <1>3, <1>4, <3>1
    <3> QED
      BY <1>1, <3>1, <3>2 DEF Over, n
  <2>2. CASE ~(k <= n)
    <3> DEFINE j == k - n
    <3>1. j \in 1 .. m /\ k = n + j /\ k - 1 = n + (j - 1) /\ j - 1 \in 0 .. m /\ j \in 0 .. m
      BY <1>3, <2>2
    <3> HIDE DEF j
    <3>2. h[k] = r[j] /\ over[k] = to[j] /\ over[k - 1] = to[j - 1]
      BY <1>3, <1>5, <3>1
    <3> QED
      BY <1>2, <3>1, <3>2 DEF Over, m
  <2> QED
    BY <2>1, <2>2
<1>7. over[0] = a /\ over[n + m] = c
  <2>1. 0 \in 0 .. n /\ m \in 0 .. m
    BY <1>3
  <2> QED
    BY <1>1, <1>2, <1>4, <1>5, <2>1 DEF m
<1>8. a \in Position /\ c \in Position
  BY DEF Moves
<1> QED
  BY <1>3, <1>6, <1>7, <1>8 DEF Moves, h

\* The first frame, and the others.
LEMMA FirstMove ==
    ASSUME NEW S, NEW a, NEW c, NEW q, Moves(q, S, a, c), q /= <<>>
    PROVE  \E b \in Position : Fits(Head(q), S, a, b) /\ Moves(Tail(q), S, b, c)
<1>1. PICK at : at[0] = a /\ at[Len(q)] = c /\ Over(q, S, at)
  BY DEF Moves
<1> DEFINE n == Len(q)
           t == Tail(q)
           later == [k \in 0 .. n - 1 |-> at[k + 1]]
<1>2. /\ IsSeq(t) /\ n \in Nat \ {0} /\ Len(t) = n - 1 /\ Head(q) = q[1]
      /\ \A k \in 1 .. n - 1 : t[k] = q[k + 1]
  BY Rest DEF Moves
<1> HIDE DEF n, t
<1>3. \A k \in 1 .. n : at[k - 1] \in Position /\ at[k] \in Position /\ Fits(q[k], S, at[k - 1], at[k])
  BY <1>1 DEF Over, n
<1>4. at[1] \in Position /\ Fits(q[1], S, a, at[1])
  <2>1. 1 \in 1 .. n /\ 1 - 1 = 0
    BY <1>2
  <2> QED
    BY <1>1, <1>3, <2>1
<1>5. \A k \in 0 .. n - 1 : later[k] = at[k + 1]
  OBVIOUS
<1> HIDE DEF later
<1>6. Over(t, S, later)
  <2> SUFFICES ASSUME NEW k \in 1 .. n - 1
               PROVE  /\ later[k - 1] \in Position /\ later[k] \in Position
                      /\ Fits(t[k], S, later[k - 1], later[k])
    BY <1>2 DEF Over
  <2>1. k + 1 \in 1 .. n /\ (k + 1) - 1 = k /\ k \in 0 .. n - 1 /\ k - 1 \in 0 .. n - 1
        /\ (k - 1) + 1 = k
    BY <1>2
  <2>2. later[k] = at[k + 1] /\ later[k - 1] = at[k] /\ t[k] = q[k + 1]
    BY <1>2, <1>5, <2>1
  <2> QED
    BY <1>3, <2>1, <2>2
<1>7. later[0] = at[1] /\ later[n - 1] = c
  <2>1. 0 \in 0 .. n - 1 /\ 0 + 1 = 1 /\ n - 1 \in 0 .. n - 1 /\ (n - 1) + 1 = n
    BY <1>2
  <2> QED
    BY <1>1, <1>5, <2>1 DEF n
<1>8. c \in Position
  BY DEF Moves
<1>9. Moves(t, S, at[1], c)
  BY <1>2, <1>4, <1>6, <1>7, <1>8 DEF Moves
<1> QED
  BY <1>2, <1>4, <1>9 DEF t

\* Flow Controls move nothing.
LEMMA FcsMove ==
    ASSUME NEW S, NEW a \in Position, NEW q, IsSeq(q), \A k \in 1 .. Len(q) : IsFc(q[k])
    PROVE  Moves(q, S, a, a)
<1> DEFINE at == [k \in 0 .. Len(q) |-> a]
<1>1. Len(q) \in Nat
  BY Indices
<1>2. \A k \in 0 .. Len(q) : at[k] = a
  OBVIOUS
<1>3. at[0] = a /\ at[Len(q)] = a
  <2>1. 0 \in 0 .. Len(q) /\ Len(q) \in 0 .. Len(q)
    BY <1>1
  <2> QED
    BY <1>2, <2>1
<1> HIDE DEF at
<1>4. Over(q, S, at)
  <2> SUFFICES ASSUME NEW k \in 1 .. Len(q)
               PROVE  /\ at[k - 1] \in Position /\ at[k] \in Position
                      /\ Fits(q[k], S, at[k - 1], at[k])
    BY DEF Over
  <2>1. k \in 0 .. Len(q) /\ k - 1 \in 0 .. Len(q)
    BY <1>1
  <2> QED
    BY <1>2, <2>1 DEF Fits
<1> QED
  BY <1>3, <1>4 DEF Moves

\* Further messages leave the moves as they are.
LEMMA StillFits ==
    ASSUME NEW S, IsSeq(S), NEW m, NEW a \in Position, NEW b \in Position, NEW f, Fits(f, S, a, b)
    PROVE  Fits(f, Append(S, m), a, b)
<1> DEFINE T == Append(S, m)
<1>1. Len(S) \in Nat /\ Len(T) = Len(S) + 1 /\ \A i \in 1 .. Len(S) : T[i] = S[i]
  BY Appended, Indices
<1> HIDE DEF T
<1>2. a.begun \in Nat /\ b.begun \in Nat
  BY DEF Position
<1>3. CASE IsFc(f) /\ b = a
  BY <1>3 DEF Fits, T
<1>4. CASE a.begun < b.begun /\ b.begun <= Len(S)
  <2>1. b.begun \in 1 .. Len(S) /\ b.begun <= Len(T)
    BY <1>1, <1>2, <1>4
  <2>2. T[b.begun] = S[b.begun] /\ ~(a.begun = b.begun)
    BY <1>1, <1>2, <1>4, <2>1
  <2> QED
    BY <1>4, <2>1, <2>2 DEF Fits, T
<1>5. CASE a.begun \in 1 .. Len(S) /\ b.begun = a.begun
  <2>1. a.begun \in 1 .. Len(T) /\ T[a.begun] = S[a.begun] /\ ~(a.begun < b.begun)
    BY <1>1, <1>5
  <2> QED
    BY <1>5, <2>1 DEF Fits, T
<1> QED
  BY <1>3, <1>4, <1>5 DEF Fits

LEMMA StillMoves ==
    ASSUME NEW S, IsSeq(S), NEW m, NEW a, NEW b, NEW q, Moves(q, S, a, b)
    PROVE  Moves(q, Append(S, m), a, b)
<1>1. PICK at : at[0] = a /\ at[Len(q)] = b /\ Over(q, S, at)
  BY DEF Moves
<1>2. Over(q, Append(S, m), at)
  BY <1>1, StillFits DEF Over
<1> QED
  BY <1>1, <1>2 DEF Moves

-----------------------------------------------------------------------------
(* The sender's side of a link.                                            *)

\* What the call with outcome o makes of the sender of the link l, who has sent
\* S and got as far as a.
Sends(S, a, l, o) ==
    /\ LinkOK(o.link) /\ o.link.rx = l.rx
    /\ o.ind = <<>>
    /\ \E b \in Position : Moves(o.out, S, a, b) /\ At(o.link.tx, S, b)

LEMMA Quotient ==
    ASSUME NEW x \in Nat, NEW c \in Nat \ {0}
    PROVE  x \div c \in Nat /\ c * (x \div c) <= x
<1>1. x \div c \in Nat /\ x % c \in 0 .. c - 1
  OBVIOUS
<1>2. x = c * (x \div c) + (x % c)
  OBVIOUS
<1>3. c * (x \div c) \in Nat
  BY <1>1
<1> QED
  BY <1>1, <1>2, <1>3

LEMMA Product ==
    ASSUME NEW k \in Nat, NEW n \in Nat, k <= n, NEW c \in Nat
    PROVE  /\ k * c \in Nat /\ c * k = k * c
           /\ c * n \in Nat /\ k * c <= c * n
           /\ (k + 1) * c = k * c + c
<1>1. n - k \in Nat /\ n = k + (n - k)
  OBVIOUS
<1>2. PICK d \in Nat : n = k + d
  BY <1>1
<1>3. c * n = c * k + c * d /\ c * d \in Nat /\ c * k \in Nat
  BY <1>2
<1> QED
  BY <1>3

\* The frames that are left bring the bytes that are left, each at least one.
LEMMA CfsLeftBounds ==
    ASSUME NEW tx, tx.offset \in Nat, Len(tx.msg) \in Nat, tx.offset < Len(tx.msg)
    PROVE  /\ CfsLeft(tx) \in Nat
           /\ \A j \in Nat : j < CfsLeft(tx) =>
                 /\ j * CfMax \in Nat
                 /\ tx.offset + j * CfMax < Len(tx.msg)
                 /\ (j + 1) * CfMax = j * CfMax + CfMax
<1> DEFINE left == Len(tx.msg) - tx.offset
           q == CfsLeft(tx)
           c == CfMax
           x == left + c - 1
<1>1. left \in Nat \ {0} /\ c \in Nat \ {0} /\ x \in Nat /\ Len(tx.msg) = tx.offset + left
  BY Sizes
<1>2. q = x \div c
  BY DEF CfsLeft
<1> HIDE DEF c, q, x, left
<1>3. q \in Nat /\ c * q <= x
  BY <1>1, <1>2, Quotient
<1>4. ASSUME NEW j \in Nat, j < q
      PROVE  /\ j * c \in Nat
             /\ tx.offset + j * c < Len(tx.msg)
             /\ (j + 1) * c = j * c + c
  <2>1. j + 1 \in Nat /\ j + 1 <= q
    BY <1>3, <1>4
  <2>2. j * c \in Nat /\ (j + 1) * c = j * c + c
    BY <1>1, Product
  <2>3. c * q \in Nat /\ (j + 1) * c <= c * q
    BY <1>1, <1>3, <2>1, Product
  <2> DEFINE y == j * c
             z == c * q
  <2>4. y \in Nat /\ z \in Nat /\ y + c <= z /\ z <= x
    BY <1>3, <2>2, <2>3
  <2> HIDE DEF y, z
  <2>5. tx.offset + y < Len(tx.msg)
    BY <1>1, <2>4 DEF x
  <2> QED
    BY <2>2, <2>5 DEF y
<1> QED
  BY <1>3, <1>4 DEF c, q

LEMMA CfsNowBounds ==
    ASSUME NEW tx, TxOK(tx), tx.state = "SEND_CF", CfsLeft(tx) \in Nat, NEW room \in Nat
    PROVE  CfsNow(tx, room) \in Nat /\ CfsNow(tx, room) <= CfsLeft(tx)
           /\ (tx.blockSize /= 0 => tx.blockCount + CfsNow(tx, room) <= tx.blockSize)
<1> DEFINE left == CfsLeft(tx)
           paced == IF tx.stMin = 0 THEN left ELSE IF tx.lastCf > tx.stMin THEN 1 ELSE 0
           block == IF tx.blockSize = 0 THEN left ELSE tx.blockSize - tx.blockCount
           n == CfsNow(tx, room)
<1>1. n = Least(Least(paced, block), Least(left, room))
  BY DEF CfsNow
<1>2. tx.blockSize \in Nat /\ tx.blockCount \in Nat /\ (tx.blockSize = 0 \/ tx.blockCount < tx.blockSize)
  BY DEF TxOK
<1>3. paced \in Nat /\ left \in Nat
  <2>1. paced \in {left, 0, 1}
    OBVIOUS
  <2> QED
    BY <2>1
<1> HIDE DEF left, paced, n
<1>4. block \in Nat /\ (tx.blockSize /= 0 => tx.blockCount + block = tx.blockSize)
  BY <1>2, <1>3
<1> HIDE DEF block
<1>5. n \in Nat /\ n <= left /\ n <= block
  BY <1>1, <1>3, <1>4 DEF Least
<1> QED
  BY <1>2, <1>4, <1>5 DEF left, n

\* The Consecutive Frames of one call lead as far as their bytes.
LEMMA CfsMove ==
    ASSUME NEW S, NEW tx, Mid(tx), NEW a \in Position, At(tx, S, a), Len(S) \in Nat,
           Len(tx.msg) \in Nat,
           NEW n \in Nat, n <= CfsLeft(tx), NEW frames,
           frames = [k \in 1 .. n |-> ConsecutiveFrame((tx.seq + k - 1) % SeqMod, CfChunk(tx, k))],
           NEW b, b = [begun |-> a.begun, out |-> Least(Len(tx.msg), tx.offset + n * CfMax)]
    PROVE  b \in Position /\ Moves(frames, S, a, b)
<1> DEFINE msg == tx.msg
           len == Len(tx.msg)
           from == tx.offset
           Cf(k) == ConsecutiveFrame((tx.seq + k - 1) % SeqMod, CfChunk(tx, k))
           at == [k \in 0 .. n |-> [begun |-> a.begun, out |-> Least(len, from + k * CfMax)]]
           F == {Cf(k) : k \in 1 .. n}
<1>1. /\ from \in Nat /\ len \in Nat /\ from < len /\ a.begun \in Nat
      /\ a = [begun |-> a.begun, out |-> from]
      /\ a.begun \in 1 .. Len(S) /\ msg = S[a.begun]
  BY DEF At, Position
<1>2. ASSUME NEW j \in Nat, j < n
      PROVE  /\ j * CfMax \in Nat /\ from + j * CfMax < len
             /\ (j + 1) * CfMax = j * CfMax + CfMax
  <2>1. j < CfsLeft(tx)
    <3>1. CfsLeft(tx) \in Nat
      BY <1>1, CfsLeftBounds
    <3> QED
      BY <1>2, <3>1
  <2> QED
    BY <1>1, <2>1, CfsLeftBounds
<1>3. ASSUME NEW k \in 0 .. n
      PROVE  k * CfMax \in Nat /\ Least(len, from + k * CfMax) \in Nat
  <2>1. k * CfMax \in Nat
    BY Sizes, Product
  <2> DEFINE y == k * CfMax
  <2>2. y \in Nat
    BY <2>1
  <2> HIDE DEF y
  <2>3. Least(len, from + y) \in Nat
    BY <1>1, <2>2 DEF Least
  <2> QED
    BY <2>1, <2>3 DEF y
<1> HIDE DEF len, from, msg
<1>4. \A k \in 0 .. n : /\ at[k] \in Position /\ at[k].begun = a.begun
                        /\ at[k].out = Least(len, from + k * CfMax)
  BY <1>1, <1>3 DEF Position
<1>5. at[0] = a /\ at[n] = b
  <2>1. 0 \in 0 .. n /\ n \in 0 .. n
    OBVIOUS
  <2>2. 0 * CfMax = 0
    BY Sizes
  <2>3. Least(len, from + 0 * CfMax) = from
    BY <1>1, <2>2 DEF Least
  <2>4. at[0] = [begun |-> a.begun, out |-> from]
    BY <2>1, <2>3
  <2> QED
    BY <1>1, <2>1, <2>4 DEF len, from
<1> HIDE DEF at, Cf
<1>6. IsSeq(frames) /\ Len(frames) = n /\ \A k \in 1 .. n : frames[k] = Cf(k)
  <2>1. frames = [k \in 1 .. n |-> Cf(k)]
    BY DEF Cf
  <2>2. \A k \in 1 .. n : Cf(k) \in F
    OBVIOUS
  <2> HIDE DEF F
  <2>3. frames \in Seq(F) /\ Len(frames) = n
    BY <2>1, <2>2
  <2> QED
    BY <2>1, <2>3 DEF IsSeq
<1>7. Over(frames, S, at)
  <2> SUFFICES ASSUME NEW k \in 1 .. n
               PROVE  /\ at[k - 1] \in Position /\ at[k] \in Position
                      /\ Fits(Cf(k), S, at[k - 1], at[k])
    BY <1>6 DEF Over
  <2> DEFINE j == k - 1
             f == Cf(k)
             first == from + j * CfMax
             last == Least(len, from + k * CfMax)
  <2>1. j \in Nat /\ j < n /\ k = j + 1 /\ j \in 0 .. n /\ k \in 0 .. n
    OBVIOUS
  <2>2. at[j] \in Position /\ at[k] \in Position /\ at[j].begun = a.begun /\ at[k].begun = a.begun
        /\ at[k].out = last /\ at[j].out = Least(len, from + j * CfMax)
    BY <1>4, <2>1
  <2>3. f.pci = "CF" /\ f.dlc = CanDl
        /\ f.data = Padded(SubSeq(msg, first + 1, last), CfMax)
    BY DEF Cf, ConsecutiveFrame, CfChunk, msg, len, from
  <2> HIDE DEF j, f
  <2>4. first < len /\ first \in Nat /\ at[j].out = first /\ last = Least(len, first + CfMax)
    <3>1. j * CfMax \in Nat /\ from + j * CfMax < len /\ k * CfMax = j * CfMax + CfMax
      BY <1>2, <2>1
    <3> DEFINE y == j * CfMax
    <3>2. y \in Nat /\ from + y < len /\ k * CfMax = y + CfMax /\ CfMax \in Nat
      BY <3>1, Sizes
    <3> HIDE DEF y
    <3>3. Least(len, from + y) = from + y /\ from + y \in Nat /\ from + (y + CfMax) = (from + y) + CfMax
      BY <1>1, <3>2, SMTT(30) DEF Least
    <3> QED
      BY <2>2, <3>2, <3>3 DEF y
  <2> HIDE DEF first, last
  <2>5. Fits(f, S, at[j], at[k])
    BY <1>1, <2>2, <2>3, <2>4 DEF Fits, len, msg
  <2> QED
    BY <2>2, <2>5 DEF j, f
<1>8. b \in Position
  <2>1. n \in 0 .. n
    OBVIOUS
  <2> QED
    BY <1>4, <1>5, <2>1
<1> QED
  BY <1>5, <1>6, <1>7, <1>8 DEF Moves

LEMMA IdleOK == /\ TxOK(IdleTx) /\ ~Mid(IdleTx) /\ IdleTx.state = "IDLE"
                /\ DOMAIN IdleRx = RxFields /\ IdleRx.state = "IDLE"
                /\ LinkOK(InitialLink)
BY DEF IdleTx, TxOK, TxFields, Mid, LinkOK, InitialLink, IdleRx, RxFields

LEMMA NewTx ==
    ASSUME NEW l, LinkOK(l), NEW tx, TxOK(tx), NEW m, m = [l EXCEPT !.tx = tx]
    PROVE  LinkOK(m) /\ m.tx = tx /\ m.rx = l.rx
<1>1. DOMAIN m = {"tx", "rx", "fcPending"} /\ m.tx = tx /\ m.rx = l.rx
  BY DEF LinkOK
<1> QED
  BY <1>1 DEF LinkOK

LEMMA UnchangedSends ==
    ASSUME NEW S, NEW a \in Position, NEW l, LinkOK(l), NEW m, LinkOK(m), m.rx = l.rx,
           At(m.tx, S, a)
    PROVE  Sends(S, a, l, Unchanged(m))
<1>1. Unchanged(m).link = m /\ Unchanged(m).out = <<>> /\ Unchanged(m).ind = <<>>
  BY DEF Unchanged
<1> QED
  BY <1>1, NoMove DEF Sends

LEMMA FinishLink ==
    ASSUME NEW l, LinkOK(l), NEW result, NEW o, o = TxFinish(l, result)
    PROVE  /\ DOMAIN o = {"link", "out", "ind", "conf"}
           /\ LinkOK(o.link) /\ o.link.tx = IdleTx /\ o.link.rx = l.rx
           /\ o.out = <<>> /\ o.ind = <<>>
<1> DEFINE m == [l EXCEPT !.tx = IdleTx]
<1>1. LinkOK(m) /\ m.tx = IdleTx /\ m.rx = l.rx
  BY IdleOK, NewTx
<1>2. /\ DOMAIN o = {"link", "out", "ind", "conf"}
      /\ o.link = m /\ o.out = <<>> /\ o.ind = <<>>
  BY DEF TxFinish, Unchanged
<1> HIDE DEF m
<1> QED
  BY <1>1, <1>2

LEMMA IdleAt == ASSUME NEW S, NEW a, a.begun <= Len(S) PROVE At(IdleTx, S, a)
BY IdleOK DEF At

LEMMA FinishSends ==
    ASSUME NEW S, NEW a \in Position, a.begun <= Len(S), NEW l, LinkOK(l), NEW result
    PROVE  Sends(S, a, l, TxFinish(l, result))
<1> DEFINE o == TxFinish(l, result)
<1>1. /\ LinkOK(o.link) /\ o.link.tx = IdleTx /\ o.link.rx = l.rx
      /\ o.out = <<>> /\ o.ind = <<>>
  BY FinishLink
<1> HIDE DEF o
<1>2. Moves(o.out, S, a, a) /\ At(o.link.tx, S, a)
  BY <1>1, NoMove, IdleAt
<1> QED
  BY <1>1, <1>2 DEF Sends, o

LEMMA FirstSends ==
    ASSUME NEW S, Messages(S), NEW a \in Position, NEW l, LinkOK(l),
           l.tx.state = "SEND_FIRST", At(l.tx, S, a), NEW accepted \in BOOLEAN
    PROVE  Sends(S, a, l, TxSendFirst(l, accepted))
<1> DEFINE msg == l.tx.msg
           n == Len(S)
           o == TxSendFirst(l, accepted)
<1>1. /\ n \in Nat /\ a.begun \in Nat /\ a.begun < n /\ n \in 1 .. n /\ msg = S[n]
      /\ Len(msg) \in Nat /\ ~Mid(l.tx) /\ TxOK(l.tx)
  <2>1. n \in Nat /\ a.begun \in Nat /\ a.begun < n /\ msg = S[n]
    BY Indices DEF Messages, At, Position
  <2>2. n \in 1 .. n
    BY <2>1
  <2>3. IsSeq(S[n])
    BY <2>2 DEF Messages
  <2> QED
    BY <2>1, <2>2, <2>3, Indices DEF Mid, LinkOK
<1>2. CASE ~accepted
  <2>1. o = Unchanged(l)
    BY <1>2 DEF TxSendFirst
  <2> QED
    BY <2>1, UnchangedSends
<1>3. CASE accepted /\ Len(msg) <= SfMax
  <2> DEFINE p == TxFinish(l, "OK")
             f == SingleFrame(msg)
             b == [begun |-> n, out |-> Len(msg)]
  <2>1. o = [p EXCEPT !.out = <<f>>]
    BY <1>3 DEF TxSendFirst
  <2>2. /\ DOMAIN p = {"link", "out", "ind", "conf"}
        /\ LinkOK(p.link) /\ p.link.tx = IdleTx /\ p.link.rx = l.rx /\ p.ind = <<>>
    BY FinishLink
  <2> HIDE DEF p
  <2>3. o.link = p.link /\ o.ind = <<>> /\ o.out = <<f>>
    BY <2>1, <2>2
  <2>4. b \in Position /\ b.begun = n /\ b.out = Len(msg)
    BY <1>1 DEF Position
  <2> HIDE DEF b, o, f
  <2>5. Fits(f, S, a, b)
    BY <1>1, <1>3, <2>4 DEF Fits, f
  <2>6. Moves(o.out, S, a, b)
    BY <2>3, <2>4, <2>5, OneMove
  <2>7. At(o.link.tx, S, b)
    BY <1>1, <2>2, <2>3, <2>4, IdleAt
  <2> QED
    BY <2>2, <2>3, <2>4, <2>6, <2>7 DEF Sends, o
<1>4. CASE accepted /\ ~(Len(msg) <= SfMax)
  <2> DEFINE tx == [l.tx EXCEPT !.offset = FfData, !.seq = 1, !.waitCount = 0,
                                !.state = "WAIT_FC", !.timer = 0]
             m == [l EXCEPT !.tx = tx]
             f == FirstFrame(msg)
             b == [begun |-> n, out |-> FfData]
  <2>1. o.link = m /\ o.ind = <<>> /\ o.out = <<f>>
    <3> DEFINE k == [l EXCEPT !.tx.offset = FfData, !.tx.seq = 1, !.tx.waitCount = 0,
                              !.tx.state = "WAIT_FC", !.tx.timer = 0]
    <3>1. o.link = k /\ o.ind = <<>> /\ o.out = <<f>>
      BY <1>4 DEF TxSendFirst, Unchanged
    <3>2. k = m
      <4>1. DOMAIN l = {"tx", "rx", "fcPending"}
        BY DEF LinkOK
      <4> QED
        BY <4>1, ZenonT(30)
    <3> QED
      BY <3>1, <3>2
  <2>2. TxOK(tx) /\ tx.state = "WAIT_FC" /\ tx.msg = msg /\ tx.offset = FfData
    BY <1>1 DEF TxOK, TxFields
  <2> HIDE DEF tx
  <2>3. LinkOK(m) /\ m.tx = tx /\ m.rx = l.rx
    BY <2>2, NewTx
  <2>4. b \in Position /\ b.begun = n /\ b.out = FfData
    BY <1>1, Sizes DEF Position
  <2> HIDE DEF m, b, o
  <2>5. Fits(f, S, a, b)
    <3>1. f = FirstFrame(S[b.begun]) /\ Len(S[b.begun]) = Len(msg) /\ b.begun <= Len(S)
      BY <1>1, <2>4
    <3>2. Len(S[b.begun]) > SfMax
      BY <1>1, <1>4, <3>1, Sizes
    <3> HIDE DEF f, msg, n
    <3> QED
      BY <1>1, <2>4, <3>1, <3>2 DEF Fits
  <2> HIDE DEF f, msg, n
  <2>6. Moves(o.out, S, a, b)
    BY <2>1, <2>4, <2>5, OneMove
  <2>7. At(tx, S, b)
    <3>1. FfData < Len(msg)
      BY <1>1, <1>4, Sizes
    <3> QED
      BY <1>1, <2>2, <2>4, <3>1 DEF At, n
  <2> QED
    BY <2>1, <2>3, <2>4, <2>6, <2>7 DEF Sends, o
<1> QED
  BY <1>2, <1>3, <1>4

LEMMA CfsSends ==
    ASSUME NEW S, Messages(S), NEW a \in Position, NEW l, LinkOK(l),
           l.tx.state = "SEND_CF", At(l.tx, S, a), NEW room \in Nat
    PROVE  Sends(S, a, l, TxSendConsecutiveFrames(l, room))
<1> DEFINE tx == l.tx
           len == Len(tx.msg)
           n  == CfsNow(tx, room)
           frames == [k \in 1 .. n |-> ConsecutiveFrame((tx.seq + k - 1) % SeqMod, CfChunk(tx, k))]
           next == [tx EXCEPT !.offset = Least(Len(tx.msg), @ + n * CfMax),
                              !.seq = (@ + n) % SeqMod,
                              !.lastCf = IF n = 0 THEN @ ELSE 0,
                              !.blockCount = IF tx.blockSize = 0 THEN @ ELSE @ + n]
           blockDone == tx.blockSize /= 0 /\ n > 0 /\ next.blockCount >= tx.blockSize
           waiting == [next EXCEPT !.state = "WAIT_FC", !.timer = 0]
           o == TxSendConsecutiveFrames(l, room)
           p == TxFinish(l, "OK")
           b == [begun |-> a.begun, out |-> Least(len, tx.offset + n * CfMax)]
<1>1. /\ TxOK(tx) /\ Mid(tx) /\ Len(S) \in Nat \ {0} /\ a.begun = Len(S) /\ tx.msg = S[Len(S)]
      /\ len \in Nat /\ tx.offset \in Nat /\ tx.offset < len
  <2>1. TxOK(tx) /\ Mid(tx)
    BY DEF LinkOK, Mid
  <2>2. /\ Len(S) \in Nat \ {0} /\ a.begun = Len(S) /\ tx.msg = S[Len(S)]
        /\ tx.offset \in Nat /\ tx.offset < len
    BY <2>1, Indices DEF At, Messages, Position
  <2>3. IsSeq(tx.msg)
    BY <2>2 DEF Messages
  <2> QED
    BY <2>1, <2>2, <2>3, Indices
<1>2. /\ n \in Nat /\ n <= CfsLeft(tx)
      /\ (tx.blockSize /= 0 => tx.blockCount + n <= tx.blockSize)
  BY <1>1, CfsLeftBounds, CfsNowBounds
<1>3. b \in Position /\ Moves(frames, S, a, b)
  <2> HIDE DEF n
  <2> QED
    BY <1>1, <1>2, CfsMove
<1>4. b.begun = Len(S) /\ b.out = Least(len, tx.offset + n * CfMax)
  BY <1>1
<1>5. o = [(CASE next.offset >= Len(tx.msg) -> p
             [] next.offset < Len(tx.msg) /\ blockDone -> Unchanged([l EXCEPT !.tx = waiting])
             [] OTHER -> Unchanged([l EXCEPT !.tx = next])) EXCEPT !.out = frames]
  BY DEF TxSendConsecutiveFrames
<1> HIDE DEF n, frames, o, p, b
<1>6. /\ DOMAIN next = TxFields /\ next.state = "SEND_CF" /\ next.msg = tx.msg
      /\ next.offset = b.out
      /\ next.blockSize = tx.blockSize
      /\ next.blockCount = IF tx.blockSize = 0 THEN tx.blockCount ELSE tx.blockCount + n
  BY <1>1, <1>4 DEF TxOK, TxFields
<1>7. tx.blockSize \in Nat /\ next.blockSize \in Nat /\ next.blockCount \in Nat
  BY <1>1, <1>2, <1>6 DEF TxOK
<1>8. b.out \in Nat /\ b.out <= len
  <2>1. b.out \in Nat
    BY <1>3 DEF Position
  <2>2. n * CfMax \in Nat
    BY <1>2, Sizes, Product
  <2> QED
    BY <1>1, <1>4, <2>1, <2>2 DEF Least
<1> HIDE DEF next
<1>9. CASE next.offset >= Len(tx.msg)
  <2>1. o = [p EXCEPT !.out = frames]
    <3>1. ~(next.offset < Len(tx.msg))
      BY <1>1, <1>6, <1>8, <1>9
    <3> QED
      BY <1>5, <1>9, <3>1
  <2>2. /\ DOMAIN p = {"link", "out", "ind", "conf"}
        /\ LinkOK(p.link) /\ p.link.tx = IdleTx /\ p.link.rx = l.rx /\ p.ind = <<>>
    BY FinishLink DEF p
  <2>3. o.link = p.link /\ o.ind = <<>> /\ o.out = frames
    BY <2>1, <2>2
  <2>4. At(o.link.tx, S, b)
    BY <1>1, <1>4, <2>2, <2>3, IdleAt
  <2> QED
    BY <1>3, <2>2, <2>3, <2>4 DEF Sends, o
<1>10. ASSUME next.offset < Len(tx.msg), NEW t, t \in {next, waiting}, TxOK(t),
              o = [Unchanged([l EXCEPT !.tx = t]) EXCEPT !.out = frames]
       PROVE  Sends(S, a, l, o)
  <2> DEFINE m == [l EXCEPT !.tx = t]
  <2>1. LinkOK(m) /\ m.tx = t /\ m.rx = l.rx
    BY <1>10, NewTx
  <2>2. t.msg = tx.msg /\ t.offset = b.out /\ t.state /= "SEND_FIRST"
    <3>1. waiting.msg = next.msg /\ waiting.offset = next.offset /\ waiting.state = "WAIT_FC"
      BY <1>6 DEF TxFields
    <3> HIDE DEF waiting
    <3> QED
      BY <1>6, <1>10, <3>1
  <2> HIDE DEF m
  <2>3. o.link = m /\ o.ind = <<>> /\ o.out = frames
    BY <1>10 DEF Unchanged, m
  <2>4. At(t, S, b)
    BY <1>1, <1>4, <1>6, <1>10, <2>2 DEF At
  <2> QED
    BY <1>3, <2>1, <2>3, <2>4 DEF Sends
<1>11. CASE next.offset < Len(tx.msg) /\ blockDone
  <2>1. TxOK(waiting)
    <3>1. /\ DOMAIN waiting = TxFields /\ waiting.state = "WAIT_FC"
          /\ waiting.blockSize = next.blockSize /\ waiting.blockCount = next.blockCount
      BY <1>6 DEF TxFields
    <3> HIDE DEF waiting
    <3> QED
      BY <1>7, <3>1 DEF TxOK
  <2>2. ~(next.offset >= Len(tx.msg))
    BY <1>1, <1>6, <1>8, <1>11
  <2> HIDE DEF blockDone, waiting
  <2>3. o = [Unchanged([l EXCEPT !.tx = waiting]) EXCEPT !.out = frames]
    BY <1>5, <1>11, <2>2
  <2> QED
    BY <1>10, <1>11, <2>1, <2>3 DEF o
<1>12. CASE next.offset < Len(tx.msg) /\ ~blockDone
  <2>1. next.blockSize = 0 \/ next.blockCount < next.blockSize
    <3>1. CASE tx.blockSize = 0
      BY <1>6, <3>1
    <3>2. CASE tx.blockSize /= 0 /\ n = 0
      BY <1>1, <1>6, <1>2, <1>7, <3>2 DEF TxOK
    <3>3. CASE tx.blockSize /= 0 /\ n /= 0
      BY <1>2, <1>6, <1>7, <1>12, <3>3
    <3> QED
      BY <3>1, <3>2, <3>3
  <2>2. TxOK(next)
    BY <1>6, <1>7, <2>1 DEF TxOK
  <2>3. ~(next.offset >= Len(tx.msg))
    BY <1>1, <1>6, <1>8, <1>12
  <2> HIDE DEF blockDone, waiting
  <2>4. o = [Unchanged([l EXCEPT !.tx = next]) EXCEPT !.out = frames]
    BY <1>5, <1>12, <2>3
  <2> QED
    BY <1>10, <1>12, <2>2, <2>4 DEF o
<1> QED
  BY <1>1, <1>6, <1>8, <1>9, <1>11, <1>12 DEF o

\* A further Sends of the same sender: the receiver counts only.
LEMMA SendsFor ==
    ASSUME NEW S, NEW a, NEW l, NEW m, NEW o, Sends(S, a, m, o), m.rx = l.rx
    PROVE  Sends(S, a, l, o)
BY DEF Sends

LEMMA SenderSends ==
    ASSUME NEW S, Messages(S), NEW a \in Position, NEW l, LinkOK(l), At(l.tx, S, a),
           NEW room \in Nat
    PROVE  Sends(S, a, l, MainSender(l, room))
<1>1. a.begun <= Len(S) /\ (room > 0) \in BOOLEAN
  BY DEF At
<1>2. CASE l.tx.state = "SEND_FIRST"
  BY <1>1, <1>2, FirstSends, FinishSends DEF MainSender
<1>3. CASE l.tx.state = "WAIT_FC"
  BY <1>1, <1>3, UnchangedSends, FinishSends DEF MainSender
<1>4. CASE l.tx.state = "SEND_CF"
  BY <1>4, CfsSends DEF MainSender
<1>5. CASE l.tx.state = "IDLE"
  BY <1>5, UnchangedSends DEF MainSender
<1> QED
  BY <1>2, <1>3, <1>4, <1>5 DEF LinkOK, TxOK

LEMMA WaitSends ==
    ASSUME NEW S, NEW a \in Position, NEW l, LinkOK(l), l.tx.state = "WAIT_FC", At(l.tx, S, a)
    PROVE  Sends(S, a, l, TxOnWait(l))
<1> DEFINE tx == [l.tx EXCEPT !.waitCount = @ + 1, !.timer = 0]
           m == [l EXCEPT !.tx = tx]
<1>1. CASE l.tx.waitCount + 1 > MaxWft
  BY <1>1, FinishSends DEF TxOnWait, At
<1>2. CASE ~(l.tx.waitCount + 1 > MaxWft)
  <2>1. TxOnWait(l) = Unchanged(m)
    <3> DEFINE k == [l EXCEPT !.tx.waitCount = @ + 1, !.tx.timer = 0]
    <3>1. TxOnWait(l) = Unchanged(k)
      BY <1>2 DEF TxOnWait
    <3>2. k = m
      <4>1. DOMAIN l = {"tx", "rx", "fcPending"} /\ DOMAIN l.tx = TxFields
        BY DEF LinkOK, TxOK
      <4> QED
        BY <4>1, ZenonT(30) DEF TxFields
    <3> QED
      BY <3>1, <3>2
  <2>2. TxOK(tx) /\ tx.state = "WAIT_FC" /\ tx.msg = l.tx.msg /\ tx.offset = l.tx.offset
    BY DEF LinkOK, TxOK, TxFields
  <2> HIDE DEF tx
  <2>3. LinkOK(m) /\ m.tx = tx /\ m.rx = l.rx
    BY <2>2, NewTx
  <2> HIDE DEF m
  <2>4. At(tx, S, a)
    BY <2>2 DEF At, Mid
  <2> QED
    BY <2>1, <2>3, <2>4, UnchangedSends
<1> QED
  BY <1>1, <1>2

LEMMA FlowControlSends ==
    ASSUME NEW S, Messages(S), NEW a \in Position, NEW l, LinkOK(l), At(l.tx, S, a),
           NEW f, IsFc(f), NEW room \in Nat
    PROVE  Sends(S, a, l, TxOnFlowControl(l, f, room))
<1>1. a.begun <= Len(S) /\ f.dlc >= 3 /\ ~(f.dlc < 3) /\ f.bs \in Nat
  BY Sizes DEF At, IsFc
<1>2. CASE l.tx.state /= "WAIT_FC"
  <2>1. TxOnFlowControl(l, f, room) = Unchanged(l)
    BY <1>2 DEF TxOnFlowControl
  <2> QED
    BY <2>1, UnchangedSends
<1>3. CASE l.tx.state = "WAIT_FC" /\ f.status = "CTS"
  <2> DEFINE st == DecodeStMin(f.stMin)
             tx == [l.tx EXCEPT !.blockSize = f.bs, !.blockCount = 0, !.waitCount = 0, !.stMin = st,
                                !.lastCf = st + 1, !.timer = 0, !.state = "SEND_CF"]
             m == [l EXCEPT !.tx = tx]
  <2>1. TxOnFlowControl(l, f, room) = TxSendConsecutiveFrames(m, room)
    <3> DEFINE k == [l EXCEPT !.tx.blockSize = f.bs, !.tx.blockCount = 0, !.tx.waitCount = 0,
                              !.tx.stMin = st, !.tx.lastCf = st + 1, !.tx.timer = 0,
                              !.tx.state = "SEND_CF"]
    <3>1. TxOnFlowControl(l, f, room) = TxSendConsecutiveFrames(k, room)
      BY <1>1, <1>3 DEF TxOnFlowControl
    <3> HIDE DEF st
    <3>2. k = m
      <4>1. DOMAIN l = {"tx", "rx", "fcPending"}
        BY DEF LinkOK
      <4> QED
        BY <4>1, ZenonT(30)
    <3> QED
      BY <3>1, <3>2
  <2> HIDE DEF st
  <2>2. /\ DOMAIN tx = TxFields /\ tx.state = "SEND_CF" /\ tx.msg = l.tx.msg
        /\ tx.offset = l.tx.offset /\ tx.blockSize = f.bs /\ tx.blockCount = 0
    BY DEF LinkOK, TxOK, TxFields
  <2> HIDE DEF tx
  <2>3. TxOK(tx)
    BY <1>1, <2>2 DEF TxOK
  <2>4. LinkOK(m) /\ m.tx = tx /\ m.rx = l.rx
    BY <2>3, NewTx
  <2> HIDE DEF m
  <2>5. At(tx, S, a)
    BY <1>3, <2>2 DEF At, Mid
  <2> QED
    BY <2>1, <2>2, <2>4, <2>5, CfsSends, SendsFor
<1>4. CASE l.tx.state = "WAIT_FC" /\ f.status = "WAIT"
  <2>1. TxOnFlowControl(l, f, room) = TxOnWait(l)
    BY <1>1, <1>4 DEF TxOnFlowControl
  <2> QED
    BY <1>4, <2>1, WaitSends
<1>5. CASE l.tx.state = "WAIT_FC" /\ f.status \notin {"CTS", "WAIT"}
  <2>1. \E r : TxOnFlowControl(l, f, room) = TxFinish(l, r)
    BY <1>1, <1>5 DEF TxOnFlowControl
  <2> QED
    BY <1>1, <2>1, FinishSends
<1> QED
  BY <1>2, <1>3, <1>4, <1>5

\* A transmission that begins, the message being the last of those sent.
LEMMA TransmitSends ==
    ASSUME NEW S, Messages(S), NEW a \in Position, NEW l, LinkOK(l), a.begun < Len(S),
           NEW room \in Nat
    PROVE  Sends(S, a, l, Transmit(l, S[Len(S)], room))
<1> DEFINE msg == S[Len(S)]
           tx == [IdleTx EXCEPT !.msg = msg, !.state = "SEND_FIRST"]
           m == [l EXCEPT !.tx = tx]
<1>1. TxOK(tx) /\ tx.state = "SEND_FIRST" /\ tx.msg = msg
  BY DEF IdleTx, TxOK, TxFields
<1> HIDE DEF tx
<1>2. LinkOK(m) /\ m.tx = tx /\ m.rx = l.rx
  BY <1>1, NewTx
<1>3. Transmit(l, msg, room) = TxSendFirst(m, room > 0)
  BY DEF Transmit, tx
<1> HIDE DEF m
<1>4. At(tx, S, a) /\ (room > 0) \in BOOLEAN
  BY <1>1 DEF At, Mid, Position, Messages
<1> QED
  BY <1>1, <1>2, <1>3, <1>4, FirstSends, SendsFor

-----------------------------------------------------------------------------
(* Indications.                                                            *)

LEMMA OkDataOf ==
    ASSUME NEW o
    PROVE  /\ o.ind = <<>> => OkData(o) = <<>>
           /\ \A i : o.ind = <<i>> => OkData(o) = IF i.result = "OK" THEN <<i.data>> ELSE <<>>
           /\ \A i, j : o.ind = <<i, j>> /\ i.result /= "OK" /\ j.result = "OK" =>
                 OkData(o) = <<j.data>>
<1>1. ASSUME o.ind = <<>> PROVE OkData(o) = <<>>
  <2>1. Len(o.ind) = 0
    BY <1>1, NoElement
  <2> QED
    BY <2>1 DEF OkData
<1>2. ASSUME NEW i, o.ind = <<i>>
      PROVE  OkData(o) = IF i.result = "OK" THEN <<i.data>> ELSE <<>>
  <2>1. Len(o.ind) = 1 /\ o.ind[1] = i
    BY <1>2, OneElement
  <2> QED
    BY <2>1 DEF OkData
<1>3. ASSUME NEW i, NEW j, o.ind = <<i, j>>, i.result /= "OK", j.result = "OK"
      PROVE  OkData(o) = <<j.data>>
  <2>1. Len(o.ind) = 2 /\ o.ind[1] = i /\ o.ind[2] = j
    BY <1>3
  <2>2. OkData(o) = <<>> \o <<j.data>>
    BY <1>3, <2>1 DEF OkData
  <2> QED
    BY <2>2, OneElement, WithNothing
<1> QED
  BY <1>1, <1>2, <1>3

LEMMA Earlier ==
    ASSUME NEW D, NEW S, NEW n \in Nat, NEW m \in Nat, n <= m, IsSeq(S), Before(D, S, n)
    PROVE  Before(D, S, m)
<1>1. Len(S) \in Nat
  BY Indices
<1> QED
  BY <1>1 DEF Before

LEMMA Delivers ==
    ASSUME NEW S, Messages(S), NEW D, IsSeq(D), Ascending(D), NEW n \in 1 .. Len(S), Before(D, S, n)
    PROVE  IsSeq(D \o <<S[n]>>) /\ Ascending(D \o <<S[n]>>) /\ Before(D \o <<S[n]>>, S, n + 1)
<1> DEFINE E == D \o <<S[n]>>
           d == Len(D)
<1>1. /\ IsSeq(E) /\ d \in Nat /\ Len(S) \in Nat /\ Len(E) = d + 1
      /\ \A k \in 1 .. d : E[k] = D[k]
      /\ E[d + 1] = S[n]
  <2>1. IsSeq(<<S[n]>>) /\ Len(<<S[n]>>) = 1 /\ <<S[n]>>[1] = S[n]
    BY OneElement
  <2>2. 1 \in 1 .. Len(<<S[n]>>)
    BY <2>1
  <2> QED
    BY <2>1, <2>2, Concatenated, Indices DEF Messages
<1> HIDE DEF E
<1>2. Before(E, S, n + 1)
  <2> SUFFICES ASSUME NEW k \in 1 .. d + 1
               PROVE  \E i \in 1 .. Len(S) : E[k] = S[i] /\ i < n + 1
    BY <1>1 DEF Before
  <2>1. CASE k = d + 1
    BY <1>1, <2>1
  <2>2. CASE k \in 1 .. d
    <3>1. PICK i \in 1 .. Len(S) : D[k] = S[i] /\ i < n
      BY <2>2 DEF Before, d
    <3> QED
      BY <1>1, <2>2, <3>1
  <2> QED
    BY <1>1, <2>1, <2>2
<1>3. Ascending(E)
  <2> SUFFICES ASSUME NEW j \in 1 .. d + 1, NEW k \in 1 .. d + 1, j < k
               PROVE  IdOf(E[j]) < IdOf(E[k])
    BY <1>1 DEF Ascending
  <2>1. j \in 1 .. d
    BY <1>1
  <2>2. CASE k = d + 1
    <3>1. PICK i \in 1 .. Len(S) : D[j] = S[i] /\ i < n
      BY <2>1 DEF Before, d
    <3>2. IdOf(S[i]) < IdOf(S[n])
      BY <3>1 DEF Messages, Ascending
    <3> QED
      BY <1>1, <2>1, <2>2, <3>1, <3>2
  <2>3. CASE k \in 1 .. d
    <3>1. IdOf(D[j]) < IdOf(D[k])
      BY <2>1, <2>3 DEF Ascending, d
    <3> QED
      BY <1>1, <2>1, <2>3, <3>1
  <2> QED
    BY <1>1, <2>2, <2>3
<1> QED
  BY <1>1, <1>2, <1>3 DEF E

\* A receiver that is idle, or begins to receive.
LEMMA GotIdle ==
    ASSUME NEW S, IsSeq(S), NEW D, NEW a \in Position, NEW b \in Position, a.begun <= b.begun,
           NEW rx, Got(rx, S, a, D), NEW to, to.state = "IDLE"
    PROVE  Got(to, S, b, D)
<1> DEFINE n == IF rx.state = "RECEIVING" THEN a.begun ELSE a.begun + 1
<1>1. n \in Nat /\ b.begun + 1 \in Nat /\ n <= b.begun + 1
  BY DEF Position
<1>2. Before(D, S, n)
  BY DEF Got
<1> HIDE DEF n
<1>3. Before(D, S, b.begun + 1)
  BY <1>1, <1>2, Earlier
<1> QED
  BY <1>3 DEF Got

LEMMA GotLater ==
    ASSUME NEW S, IsSeq(S), NEW D, NEW a \in Position, NEW b \in Position, a.begun < b.begun,
           NEW rx, Got(rx, S, a, D), NEW to,
           \/ b.out >= Len(S[b.begun])
           \/ /\ to.length = Len(S[b.begun]) /\ to.offset = b.out
              /\ to.data = SubSeq(S[b.begun], 1, b.out),
           b.begun \in 1 .. Len(S) => Len(S[b.begun]) \in Nat
    PROVE  Got(to, S, b, D)
<1> DEFINE n == IF rx.state = "RECEIVING" THEN a.begun ELSE a.begun + 1
           m == IF to.state = "RECEIVING" THEN b.begun ELSE b.begun + 1
<1>1. n \in Nat /\ m \in Nat /\ n <= m /\ b.out \in Nat
  BY DEF Position
<1>2. Before(D, S, n)
  BY DEF Got
<1> HIDE DEF n, m
<1>3. Before(D, S, m)
  BY <1>1, <1>2, Earlier
<1> QED
  BY <1>1, <1>3 DEF Got, m

\* A message is complete.
LEMMA GotWhole ==
    ASSUME NEW S, Messages(S), NEW D, NEW a \in Position, NEW b \in Position,
           NEW rx, Got(rx, S, a, D), NEW to, to.state = "IDLE",
           b.begun \in 1 .. Len(S),
           a.begun < b.begun \/ (a.begun = b.begun /\ rx.state = "RECEIVING")
    PROVE  Got(to, S, b, D \o <<S[b.begun]>>)
<1> DEFINE n == IF rx.state = "RECEIVING" THEN a.begun ELSE a.begun + 1
<1>1. n \in Nat /\ b.begun \in Nat /\ n <= b.begun
  BY DEF Position
<1>2. Before(D, S, n) /\ IsSeq(D) /\ Ascending(D)
  BY DEF Got
<1> HIDE DEF n
<1>3. Before(D, S, b.begun)
  BY <1>1, <1>2, Earlier DEF Messages
<1> DEFINE E == D \o <<S[b.begun]>>
<1>4. IsSeq(E) /\ Ascending(E) /\ Before(E, S, b.begun + 1)
  BY <1>2, <1>3, Delivers
<1> HIDE DEF E
<1> QED
  BY <1>4 DEF Got, E

LEMMA StillGot ==
    ASSUME NEW S, IsSeq(S), NEW m, NEW a \in Position, a.begun <= Len(S), NEW rx, NEW D, Got(rx, S, a, D)
    PROVE  Got(rx, Append(S, m), a, D)
<1> DEFINE T == Append(S, m)
           n == IF rx.state = "RECEIVING" THEN a.begun ELSE a.begun + 1
<1>1. Len(S) \in Nat /\ Len(T) = Len(S) + 1 /\ \A i \in 1 .. Len(S) : T[i] = S[i]
  BY Appended, Indices
<1> HIDE DEF T, n
<1>2. Before(D, T, n)
  <2> SUFFICES ASSUME NEW k \in 1 .. Len(D)
               PROVE  \E i \in 1 .. Len(T) : D[k] = T[i] /\ i < n
    BY DEF Before
  <2>1. PICK i \in 1 .. Len(S) : D[k] = S[i] /\ i < n
    BY DEF Got, Before, n
  <2> QED
    BY <1>1, <2>1
<1>3. a.begun \in 1 .. Len(T) => a.begun \in 1 .. Len(S) /\ T[a.begun] = S[a.begun]
  BY <1>1 DEF Position
<1> QED
  BY <1>2, <1>3 DEF Got, T, n

-----------------------------------------------------------------------------
(* Bytes.                                                                  *)

LEMMA Part ==
    ASSUME NEW s, IsSeq(s), NEW m \in Nat \ {0}, NEW n \in Nat, n <= Len(s), m <= n + 1
    PROVE  /\ IsSeq(SubSeq(s, m, n)) /\ Len(SubSeq(s, m, n)) = n + 1 - m
           /\ \A k \in 1 .. n + 1 - m : SubSeq(s, m, n)[k] = s[m + k - 1]
<1>1. PICK S : s \in Seq(S)
  BY DEF IsSeq
<1>2. SubSeq(s, m, n) \in Seq(S)
  BY <1>1
<1> QED
  BY <1>1, <1>2 DEF IsSeq

LEMMA WholePart == ASSUME NEW s, IsSeq(s) PROVE SubSeq(s, 1, Len(s)) = s
<1> DEFINE t == SubSeq(s, 1, Len(s))
<1>1. Len(s) \in Nat
  BY Indices
<1>2. IsSeq(t) /\ Len(t) = Len(s) + 1 - 1 /\ \A k \in 1 .. Len(s) + 1 - 1 : t[k] = s[1 + k - 1]
  BY <1>1, Part
<1> HIDE DEF t
<1>3. Len(t) = Len(s) /\ \A k \in 1 .. Len(t) : t[k] = s[k]
  BY <1>1, <1>2
<1> QED
  BY <1>2, <1>3, SameSeq DEF t

LEMMA PaddedBytes ==
    ASSUME NEW bytes, IsSeq(bytes), NEW n \in Nat, Len(bytes) <= n
    PROVE  /\ IsSeq(Padded(bytes, n)) /\ Len(Padded(bytes, n)) = n
           /\ SubSeq(Padded(bytes, n), 1, Len(bytes)) = bytes
<1>1. PICK S : bytes \in Seq(S)
  BY DEF IsSeq
<1> DEFINE T == S \cup {Pad}
           p == Padded(bytes, n)
           len == Len(bytes)
           q == SubSeq(p, 1, len)
<1>2. p = [k \in 1 .. n |-> IF k <= Len(bytes) THEN bytes[k] ELSE Pad]
  BY DEF Padded
<1>3. \A k \in 1 .. n : (IF k <= Len(bytes) THEN bytes[k] ELSE Pad) \in T
  BY <1>1
<1>4. p \in Seq(T) /\ Len(p) = n
  <2> HIDE DEF T, p
  <2> QED
    BY <1>2, <1>3
<1>5. IsSeq(p) /\ Len(p) = n /\ len \in Nat /\ len <= n
  BY <1>1, <1>4 DEF IsSeq
<1>6. \A k \in 1 .. len : p[k] = bytes[k]
  <2> HIDE DEF p
  <2> QED
    BY <1>2, <1>5
<1> HIDE DEF p, T
<1>7. IsSeq(q) /\ Len(q) = len + 1 - 1 /\ \A k \in 1 .. len + 1 - 1 : q[k] = p[1 + k - 1]
  BY <1>5, Part
<1> HIDE DEF q
<1>8. Len(q) = len /\ \A k \in 1 .. len : q[k] = bytes[k]
  BY <1>5, <1>6, <1>7
<1>9. q = bytes
  BY <1>7, <1>8, SameSeq
<1> QED
  BY <1>5, <1>9 DEF p, q

\* What has come of a message and the bytes of the next CF.
Joined(msg, from, to, chunk) ==
    SubSeq(msg, 1, from) \o SubSeq(Padded(SubSeq(msg, from + 1, to), CfMax), 1, chunk)

LEMMA NextBytes ==
    ASSUME NEW msg, IsSeq(msg), NEW from \in Nat, from < Len(msg),
           NEW to, to = Least(Len(msg), from + CfMax),
           NEW chunk, chunk = Least(Len(msg) - from, CfMax)
    PROVE  /\ to \in Nat /\ to <= Len(msg) /\ from + chunk = to /\ chunk <= CfMax
           /\ Joined(msg, from, to, chunk) = SubSeq(msg, 1, to)
<1> DEFINE len == Len(msg)
           head == SubSeq(msg, 1, from)
           part == SubSeq(msg, from + 1, to)
           all == SubSeq(msg, 1, to)
<1>1. len \in Nat /\ CfMax \in Nat \ {0}
  BY Sizes, Indices
<1> HIDE DEF len
<1>2. /\ to \in Nat /\ to <= len /\ from < to /\ chunk \in Nat /\ from + chunk = to
      /\ chunk <= CfMax
  BY <1>1 DEF Least, len
<1>3. IsSeq(head) /\ Len(head) = from /\ \A k \in 1 .. from : head[k] = msg[k]
  <2>1. /\ IsSeq(head) /\ Len(head) = from + 1 - 1
        /\ \A k \in 1 .. from + 1 - 1 : head[k] = msg[1 + k - 1]
    BY <1>1, Part DEF len
  <2> HIDE DEF head
  <2> QED
    BY <2>1
<1>4. IsSeq(part) /\ Len(part) = chunk /\ \A k \in 1 .. chunk : part[k] = msg[from + k]
  <2>1. /\ IsSeq(part) /\ Len(part) = to + 1 - (from + 1)
        /\ \A k \in 1 .. to + 1 - (from + 1) : part[k] = msg[(from + 1) + k - 1]
    BY <1>1, <1>2, Part, SMTT(30) DEF len
  <2> HIDE DEF part
  <2>2. to + 1 - (from + 1) = chunk /\ \A k \in 1 .. chunk : (from + 1) + k - 1 = from + k
    BY <1>2
  <2> QED
    BY <2>1, <2>2
<1>5. IsSeq(all) /\ Len(all) = to /\ \A k \in 1 .. to : all[k] = msg[k]
  <2>1. /\ IsSeq(all) /\ Len(all) = to + 1 - 1
        /\ \A k \in 1 .. to + 1 - 1 : all[k] = msg[1 + k - 1]
    BY <1>1, <1>2, Part, SMTT(30) DEF len
  <2> HIDE DEF all
  <2> QED
    BY <1>2, <2>1
<1> HIDE DEF head, part, all
<1>6. SubSeq(Padded(part, CfMax), 1, chunk) = part
  BY <1>1, <1>2, <1>4, PaddedBytes
<1> DEFINE both == head \o part
<1>7. /\ IsSeq(both) /\ Len(both) = Len(head) + Len(part)
      /\ \A k \in 1 .. Len(head) : both[k] = head[k]
      /\ \A k \in 1 .. Len(part) : both[Len(head) + k] = part[k]
  <2>1. IsSeq(head)
    BY <1>3
  <2>2. IsSeq(part)
    BY <1>4
  <2> QED
    BY <2>1, <2>2, Concatenated
<1> HIDE DEF both
<1>8. Len(both) = Len(all) /\ \A k \in 1 .. Len(both) : both[k] = all[k]
  <2>1. Len(both) = to
    BY <1>2, <1>3, <1>4, <1>7
  <2>2. ASSUME NEW k \in 1 .. to PROVE both[k] = msg[k]
    <3>1. CASE k <= from
      BY <1>3, <1>7, <3>1
    <3>2. CASE ~(k <= from)
      <4>1. k - from \in 1 .. chunk /\ from + (k - from) = k
        BY <1>2, <3>2
      <4> QED
        BY <1>3, <1>4, <1>7, <4>1
    <3> QED
      BY <3>1, <3>2
  <2> QED
    BY <1>5, <2>1, <2>2
<1>9. both = all
  BY <1>5, <1>7, <1>8, SameSeq
<1> QED
  BY <1>2, <1>6, <1>9 DEF head, part, all, both, len, Joined

-----------------------------------------------------------------------------
(* The receiver's side of a link.                                          *)

Fcs(q) == IsSeq(q) /\ \A k \in 1 .. Len(q) : IsFc(q[k])

\* The call with outcome o leaves the sender of l alone.
Receives(l, o) ==
    /\ LinkOK(o.link) /\ o.link.tx = l.tx
    /\ Fcs(o.out) /\ IsSeq(o.ind) /\ IsSeq(OkData(o))

\* ... and the receiver has got as far as b, having delivered D before.
Takes(S, b, D, l, o) == Receives(l, o) /\ Got(o.link.rx, S, b, D \o OkData(o))

LEMMA NoFcs == Fcs(<<>>)
BY NoElement DEF Fcs

LEMMA OneFc == ASSUME NEW f, IsFc(f) PROVE Fcs(<<f>>)
<1> DEFINE q == <<f>>
<1>1. IsSeq(q) /\ Len(q) = 1 /\ q[1] = f
  BY OneElement
<1> HIDE DEF q
<1>2. \A k \in 1 .. Len(q) : k = 1
  BY <1>1
<1> QED
  BY <1>1, <1>2 DEF Fcs, q

LEMMA NewRx ==
    ASSUME NEW l, LinkOK(l), NEW rx, DOMAIN rx = RxFields, rx.state \in {"IDLE", "RECEIVING"},
           NEW m, m = [l EXCEPT !.rx = rx]
    PROVE  LinkOK(m) /\ m.rx = rx /\ m.tx = l.tx
<1>1. DOMAIN m = {"tx", "rx", "fcPending"} /\ m.rx = rx /\ m.tx = l.tx
  BY DEF LinkOK
<1> QED
  BY <1>1 DEF LinkOK

LEMMA UnchangedTakes ==
    ASSUME NEW S, NEW b, NEW D, NEW l, LinkOK(l), NEW m, LinkOK(m), m.tx = l.tx, Got(m.rx, S, b, D)
    PROVE  Takes(S, b, D, l, Unchanged(m))
<1> DEFINE o == Unchanged(m)
<1>1. o.link = m /\ o.out = <<>> /\ o.ind = <<>>
  BY DEF Unchanged
<1> HIDE DEF o
<1>2. OkData(o) = <<>> /\ D \o <<>> = D
  BY <1>1, OkDataOf, WithNothing DEF Got
<1> QED
  BY <1>1, <1>2, NoFcs, NoElement DEF Takes, Receives, o

LEMMA RxFinishes ==
    ASSUME NEW l, LinkOK(l), NEW result, NEW o, o = RxFinish(l, result)
    PROVE  /\ LinkOK(o.link) /\ o.link.tx = l.tx /\ o.link.rx = IdleRx
           /\ o.out = <<>>
           /\ o.ind = <<[result |-> result,
                         data |-> SubSeq(l.rx.data, 1,
                                         IF result = "OK" THEN l.rx.length ELSE l.rx.offset)]>>
<1> DEFINE m == [l EXCEPT !.rx = IdleRx]
<1>1. LinkOK(m) /\ m.rx = IdleRx /\ m.tx = l.tx
  BY IdleOK, NewRx
<1>2. /\ o.link = m /\ o.out = <<>>
      /\ o.ind = <<[result |-> result,
                    data |-> SubSeq(l.rx.data, 1,
                                    IF result = "OK" THEN l.rx.length ELSE l.rx.offset)]>>
  BY DEF RxFinish, Unchanged
<1> HIDE DEF m
<1> QED
  BY <1>1, <1>2

\* A reception ends with an error.
LEMMA FailTakes ==
    ASSUME NEW S, IsSeq(S), NEW a \in Position, NEW b \in Position, a.begun <= b.begun, NEW D,
           NEW l, LinkOK(l), Got(l.rx, S, a, D), NEW result, result /= "OK"
    PROVE  Takes(S, b, D, l, RxFinish(l, result))
<1> DEFINE o == RxFinish(l, result)
           i == [result |-> result, data |-> SubSeq(l.rx.data, 1, l.rx.offset)]
<1>1. /\ LinkOK(o.link) /\ o.link.tx = l.tx /\ o.link.rx = IdleRx
      /\ o.out = <<>> /\ o.ind = <<i>>
  BY RxFinishes
<1>2. i.result /= "OK"
  OBVIOUS
<1> HIDE DEF o, i
<1>3. OkData(o) = <<>> /\ D \o <<>> = D
  BY <1>1, <1>2, OkDataOf, WithNothing DEF Got
<1>4. Got(o.link.rx, S, b, D)
  BY <1>1, IdleOK, GotIdle
<1> QED
  BY <1>1, <1>3, <1>4, NoFcs, NoElement, OneElement DEF Takes, Receives, o

LEMMA Interrupts ==
    ASSUME NEW l, LinkOK(l), NEW o, o = RxInterrupt(l)
    PROVE  /\ LinkOK(o.link) /\ o.link.tx = l.tx /\ o.link.rx.state = "IDLE"
           /\ o.out = <<>>
           /\ o.ind = <<>> \/ \E i : o.ind = <<i>> /\ i.result /= "OK"
<1>1. CASE l.rx.state = "RECEIVING"
  <2> DEFINE i == [result |-> "ERR_UNEXP_PDU", data |-> SubSeq(l.rx.data, 1, l.rx.offset)]
  <2>1. o = RxFinish(l, "ERR_UNEXP_PDU")
    BY <1>1 DEF RxInterrupt
  <2>2. /\ LinkOK(o.link) /\ o.link.tx = l.tx /\ o.link.rx = IdleRx
        /\ o.out = <<>> /\ o.ind = <<i>>
    BY <2>1, RxFinishes
  <2>3. i.result /= "OK"
    OBVIOUS
  <2> HIDE DEF i
  <2> QED
    BY <2>2, <2>3, IdleOK
<1>2. CASE l.rx.state /= "RECEIVING"
  BY <1>2 DEF RxInterrupt, Unchanged, LinkOK
<1> QED
  BY <1>1, <1>2

LEMMA FcGoes ==
    ASSUME NEW l, LinkOK(l), NEW cfg, cfg.blockSize \in Nat, NEW status, NEW accepted \in BOOLEAN,
           NEW o, o = RxSendFlowControl(l, cfg, status, accepted)
    PROVE  /\ LinkOK(o.link) /\ o.link.tx = l.tx /\ o.link.rx = l.rx
           /\ Fcs(o.out) /\ o.ind = <<>>
<1>1. ASSUME NEW s, NEW m, m = [l EXCEPT !.fcPending = s]
      PROVE  LinkOK(m) /\ m.tx = l.tx /\ m.rx = l.rx
  <2>1. DOMAIN m = {"tx", "rx", "fcPending"} /\ m.tx = l.tx /\ m.rx = l.rx
    BY <1>1 DEF LinkOK
  <2> QED
    BY <2>1 DEF LinkOK
<1>2. CASE accepted
  <2> DEFINE m == [l EXCEPT !.fcPending = NoFc]
             f == FlowControl(status, cfg)
  <2>1. o.link = m /\ o.out = <<f>> /\ o.ind = <<>>
    BY <1>2 DEF RxSendFlowControl, Unchanged
  <2>2. IsFc(f)
    BY DEF FlowControl, IsFc
  <2>3. LinkOK(m) /\ m.tx = l.tx /\ m.rx = l.rx
    BY <1>1
  <2> HIDE DEF m, f
  <2> QED
    BY <2>1, <2>2, <2>3, OneFc
<1>3. CASE ~accepted
  <2> DEFINE m == [l EXCEPT !.fcPending = status]
  <2>1. o.link = m /\ o.out = <<>> /\ o.ind = <<>>
    BY <1>3 DEF RxSendFlowControl, Unchanged
  <2>2. LinkOK(m) /\ m.tx = l.tx /\ m.rx = l.rx
    BY <1>1
  <2> HIDE DEF m
  <2> QED
    BY <2>1, <2>2, NoFcs
<1> QED
  BY <1>2, <1>3

\* An interrupted reception, and then the indications of the call itself.
LEMMA ThenIndicates ==
    ASSUME NEW o, o.ind = <<>> \/ \E i : o.ind = <<i>> /\ i.result /= "OK",
           NEW p, NEW r, r.ind = o.ind \o p.ind
    PROVE  /\ p.ind = <<>> => IsSeq(r.ind) /\ OkData(r) = <<>>
           /\ \A j : p.ind = <<j>> /\ j.result = "OK" => IsSeq(r.ind) /\ OkData(r) = <<j.data>>
<1>1. ASSUME o.ind = <<>>, p.ind = <<>>
      PROVE  IsSeq(r.ind) /\ OkData(r) = <<>>
  <2>1. r.ind = <<>>
    BY <1>1, NoElement, WithNothing
  <2> QED
    BY <2>1, NoElement, OkDataOf
<1>2. ASSUME NEW i, o.ind = <<i>>, i.result /= "OK", p.ind = <<>>
      PROVE  IsSeq(r.ind) /\ OkData(r) = <<>>
  <2>1. r.ind = <<i>>
    BY <1>2, OneElement, WithNothing
  <2> QED
    BY <1>2, <2>1, OneElement, OkDataOf
<1>3. ASSUME NEW j, o.ind = <<>>, p.ind = <<j>>, j.result = "OK"
      PROVE  IsSeq(r.ind) /\ OkData(r) = <<j.data>>
  <2>1. r.ind = <<j>>
    BY <1>3, OneElement, WithNothing
  <2> QED
    BY <1>3, <2>1, OneElement, OkDataOf
<1>4. ASSUME NEW i, NEW j, o.ind = <<i>>, i.result /= "OK", p.ind = <<j>>, j.result = "OK"
      PROVE  IsSeq(r.ind) /\ OkData(r) = <<j.data>>
  <2>1. r.ind = <<i, j>>
    BY <1>4, TwoElements
  <2>2. IsSeq(r.ind)
    BY <1>4, OneElement, Concatenated
  <2> QED
    BY <1>4, <2>1, <2>2, OkDataOf
<1> QED
  BY <1>1, <1>2, <1>3, <1>4

LEMMA ThenFc ==
    ASSUME NEW S, NEW b, NEW D, NEW l, LinkOK(l), NEW m, LinkOK(m), m.tx = l.tx, Got(m.rx, S, b, D),
           NEW cfg, cfg.blockSize \in Nat, NEW status, NEW accepted \in BOOLEAN
    PROVE  Takes(S, b, D, l, Then(RxInterrupt(l), RxSendFlowControl(m, cfg, status, accepted)))
<1> DEFINE o == RxInterrupt(l)
           p == RxSendFlowControl(m, cfg, status, accepted)
           r == Then(o, p)
<1>1. o.out = <<>> /\ (o.ind = <<>> \/ \E i : o.ind = <<i>> /\ i.result /= "OK")
  BY Interrupts
<1>2. /\ LinkOK(p.link) /\ p.link.tx = m.tx /\ p.link.rx = m.rx
      /\ Fcs(p.out) /\ p.ind = <<>>
  BY FcGoes
<1>3. r.link = p.link /\ r.out = o.out \o p.out /\ r.ind = o.ind \o p.ind
  BY DEF Then
<1> HIDE DEF o, p, r
<1>4. IsSeq(r.ind) /\ OkData(r) = <<>>
  BY <1>1, <1>2, <1>3, ThenIndicates
<1>5. r.out = p.out
  BY <1>1, <1>2, <1>3, WithNothing DEF Fcs
<1>6. D \o <<>> = D
  BY WithNothing DEF Got
<1> QED
  BY <1>2, <1>3, <1>4, <1>5, <1>6, NoElement DEF Takes, Receives, o, p, r

\* The frame that opens the reception of message b.begun.
LEMMA SingleFrameTakes ==
    ASSUME NEW S, Messages(S), NEW a \in Position, NEW b \in Position, NEW D,
           NEW l, LinkOK(l), Got(l.rx, S, a, D), NEW cfg, cfg.rxSize \in Nat,
           a.begun < b.begun, b.begun \in 1 .. Len(S), Len(S[b.begun]) <= SfMax,
           b.out = Len(S[b.begun]), NEW f, f = SingleFrame(S[b.begun])
    PROVE  Takes(S, b, D, l, RxOnSingleFrame(l, cfg, f))
<1> DEFINE msg == S[b.begun]
           n == Len(msg)
<1>1. IsSeq(S) /\ IsSeq(msg) /\ n \in Nat \ {0} /\ n <= SfMax
  BY Indices DEF Messages
<1>2. f.length = n /\ f.dlc = CanDl /\ f.data = Padded(msg, SfMax)
  BY DEF SingleFrame
<1>3. f.length /= 0 /\ ~(f.length > SfMax) /\ ~(f.length > f.dlc - 1)
  <2> HIDE DEF n
  <2> QED
    BY <1>1, <1>2, Sizes
<1>4. SubSeq(f.data, 1, f.length) = msg
  BY <1>1, <1>2, PaddedBytes, Sizes, SMTT(30)
<1> HIDE DEF msg, n
<1>5. CASE f.length > cfg.rxSize
  <2>1. RxOnSingleFrame(l, cfg, f) = Unchanged(l)
    BY <1>5 DEF RxOnSingleFrame
  <2>2. b.out >= Len(S[b.begun]) /\ Len(S[b.begun]) \in Nat
    BY <1>1 DEF msg, n
  <2>3. Got(l.rx, S, b, D)
    BY <1>1, <2>2, GotLater
  <2> QED
    BY <2>1, <2>3, UnchangedTakes
<1>6. CASE ~(f.length > cfg.rxSize)
  <2> DEFINE o == RxInterrupt(l)
             rx == [o.link.rx EXCEPT !.data = msg, !.length = n]
             m == [o.link EXCEPT !.rx = rx]
             p == RxFinish(m, "OK")
             r == Then(o, p)
  <2>1. /\ LinkOK(o.link) /\ o.link.tx = l.tx /\ o.link.rx.state = "IDLE"
        /\ o.out = <<>>
        /\ o.ind = <<>> \/ \E i : o.ind = <<i>> /\ i.result /= "OK"
    BY Interrupts
  <2>2. RxOnSingleFrame(l, cfg, f) = r
    <3> DEFINE k == [o.link EXCEPT !.rx.data = msg, !.rx.length = n]
    <3>1. RxOnSingleFrame(l, cfg, f) = Then(o, RxFinish(k, "OK"))
      BY <1>2, <1>3, <1>4, <1>6 DEF RxOnSingleFrame
    <3>2. k = m
      <4>1. DOMAIN o.link = {"tx", "rx", "fcPending"}
        BY <2>1 DEF LinkOK
      <4> HIDE DEF o
      <4> QED
        BY <4>1, ZenonT(30)
    <3> QED
      BY <3>1, <3>2
  <2> HIDE DEF o
  <2>3. DOMAIN rx = RxFields /\ rx.state = "IDLE" /\ rx.data = msg /\ rx.length = n
    BY <2>1 DEF LinkOK, RxFields
  <2> HIDE DEF rx
  <2>4. LinkOK(m) /\ m.rx = rx /\ m.tx = l.tx
    BY <2>1, <2>3, NewRx
  <2> HIDE DEF m
  <2> DEFINE j == [result |-> "OK", data |-> SubSeq(m.rx.data, 1, m.rx.length)]
  <2>5. /\ LinkOK(p.link) /\ p.link.tx = m.tx /\ p.link.rx = IdleRx
        /\ p.out = <<>> /\ p.ind = <<j>>
    BY <2>4, RxFinishes
  <2>6. j.result = "OK" /\ j.data = msg
    BY <1>1, <2>3, <2>4, WholePart DEF n
  <2>7. r.link = p.link /\ r.out = o.out \o p.out /\ r.ind = o.ind \o p.ind
    BY DEF Then
  <2> HIDE DEF p, r, j
  <2>8. IsSeq(r.ind) /\ OkData(r) = <<msg>>
    BY <2>1, <2>5, <2>6, <2>7, ThenIndicates, ZenonT(30)
  <2>9. r.out = <<>>
    BY <2>1, <2>5, <2>7, NoElement, WithNothing
  <2>10. Got(IdleRx, S, b, D \o <<S[b.begun]>>)
    BY IdleOK, GotWhole
  <2> QED
    BY <2>2, <2>4, <2>5, <2>7, <2>8, <2>9, <2>10, NoFcs, OneElement DEF Takes, Receives, msg
<1> QED
  BY <1>5, <1>6

LEMMA FirstFrameTakes ==
    ASSUME NEW S, Messages(S), NEW a \in Position, NEW b \in Position, NEW D,
           NEW l, LinkOK(l), Got(l.rx, S, a, D),
           NEW cfg, cfg.rxSize \in Nat, cfg.blockSize \in Nat, NEW accepted \in BOOLEAN,
           a.begun < b.begun, b.begun \in 1 .. Len(S), Len(S[b.begun]) > SfMax,
           b.out = FfData, NEW f, f = FirstFrame(S[b.begun])
    PROVE  Takes(S, b, D, l, RxOnFirstFrame(l, cfg, f, accepted))
<1> DEFINE msg == S[b.begun]
           n == Len(msg)
           o == RxInterrupt(l)
<1>1. IsSeq(S) /\ n \in Nat \ {0} /\ n > SfMax
  BY Indices DEF Messages
<1>2. f.length = n /\ f.dlc = CanDl /\ f.data = SubSeq(msg, 1, FfData)
  BY DEF FirstFrame
<1>3. ~(f.dlc < CanDl \/ f.length <= SfMax) /\ f.dlc >= CanDl /\ f.length > SfMax
  <2> HIDE DEF n
  <2> QED
    BY <1>1, <1>2, Sizes
<1>4. LinkOK(o.link) /\ o.link.tx = l.tx /\ o.link.rx.state = "IDLE"
  BY Interrupts
<1>5. CASE f.length > cfg.rxSize
  <2>1. RxOnFirstFrame(l, cfg, f, accepted)
           = Then(o, RxSendFlowControl(o.link, cfg, "OVFLW", accepted))
    BY <1>3, <1>5 DEF RxOnFirstFrame
  <2>2. Got(o.link.rx, S, b, D)
    <3>1. a.begun <= b.begun
      BY DEF Position
    <3> HIDE DEF o
    <3> QED
      BY <1>1, <1>4, <3>1, GotIdle
  <2> QED
    BY <1>4, <2>1, <2>2, ThenFc
<1>6. CASE ~(f.length > cfg.rxSize)
  <2> DEFINE rx == RxBegun(f)
             m == [o.link EXCEPT !.rx = rx]
  <2>1. RxOnFirstFrame(l, cfg, f, accepted) = Then(o, RxSendFlowControl(m, cfg, "CTS", accepted))
    BY <1>3, <1>6 DEF RxOnFirstFrame
  <2>2. /\ DOMAIN rx = RxFields /\ rx.state = "RECEIVING"
        /\ rx.length = f.length /\ rx.offset = FfData /\ rx.data = f.data
    BY DEF RxBegun, IdleRx, RxFields
  <2> HIDE DEF rx, o
  <2>3. LinkOK(m) /\ m.rx = rx /\ m.tx = l.tx
    BY <1>4, <2>2, NewRx
  <2>4. rx.length = Len(S[b.begun]) /\ rx.offset = b.out /\ rx.data = SubSeq(S[b.begun], 1, b.out)
    BY <1>2, <2>2
  <2> HIDE DEF m
  <2>5. Got(m.rx, S, b, D)
    BY <1>1, <2>3, <2>4, GotLater
  <2> QED
    BY <2>1, <2>3, <2>5, ThenFc DEF o
<1> QED
  BY <1>5, <1>6

\* A reception that goes on.
LEMMA GotNext ==
    ASSUME NEW S, NEW D, NEW a, NEW b, a.begun = b.begun, NEW rx, rx.state = "RECEIVING", Got(rx, S, a, D),
           NEW to, to.state = "RECEIVING",
           to.length = Len(S[b.begun]), to.offset = b.out, to.data = SubSeq(S[b.begun], 1, b.out)
    PROVE  Got(to, S, b, D)
BY DEF Got

\* A Flow Control between two frames of a message, after an outcome without any.
LEMMA FcTakes ==
    ASSUME NEW S, NEW b, NEW D, NEW l, LinkOK(l), NEW m, LinkOK(m), m.tx = l.tx, Got(m.rx, S, b, D),
           NEW cfg, cfg.blockSize \in Nat, NEW status, NEW accepted \in BOOLEAN
    PROVE  Takes(S, b, D, l, RxSendFlowControl(m, cfg, status, accepted))
<1> DEFINE o == RxSendFlowControl(m, cfg, status, accepted)
<1>1. /\ LinkOK(o.link) /\ o.link.tx = m.tx /\ o.link.rx = m.rx
      /\ Fcs(o.out) /\ o.ind = <<>>
  BY FcGoes
<1> HIDE DEF o
<1>2. OkData(o) = <<>> /\ D \o <<>> = D
  BY <1>1, OkDataOf, WithNothing DEF Got
<1> QED
  BY <1>1, <1>2, NoElement DEF Takes, Receives, o

LEMMA ConsecutiveFrameTakes ==
    ASSUME NEW S, Messages(S), NEW a \in Position, NEW b \in Position, NEW D,
           NEW l, LinkOK(l), Got(l.rx, S, a, D),
           NEW cfg, cfg.blockSize \in Nat, NEW accepted \in BOOLEAN,
           NEW f, f.dlc = CanDl, a.begun \in 1 .. Len(S), b.begun = a.begun,
           f.data = Padded(SubSeq(S[a.begun], a.out + 1, b.out), CfMax),
           a.out < Len(S[a.begun]), b.out = Least(Len(S[a.begun]), a.out + CfMax)
    PROVE  Takes(S, b, D, l, RxOnConsecutiveFrame(l, cfg, f, accepted))
<1> DEFINE msg == S[a.begun]
           n == Len(msg)
           from == a.out
           to == b.out
           rx == l.rx
           chunk == CfChunkExpected(rx)
           got == RxTaken(rx, f)
           o == RxOnConsecutiveFrame(l, cfg, f, accepted)
<1>1. /\ IsSeq(S) /\ IsSeq(msg) /\ n \in Nat \ {0} /\ a.begun \in Nat /\ a.begun <= b.begun
      /\ from \in Nat /\ to \in Nat
  BY Indices DEF Messages, Position
<1>2. CASE rx.state /= "RECEIVING"
  <2>1. rx.state = "IDLE"
    BY <1>2 DEF LinkOK
  <2>2. Got(rx, S, b, D)
    BY <1>1, <2>1, GotIdle
  <2>3. o = Unchanged(l)
    BY <1>2 DEF RxOnConsecutiveFrame
  <2> QED
    BY <2>2, <2>3, UnchangedTakes
<1>3. CASE rx.state = "RECEIVING" /\ ~NextCf(rx, f)
  <2>1. o = RxFinish(l, "ERR_WRONG_SN")
    BY <1>3 DEF RxOnConsecutiveFrame
  <2> QED
    BY <1>1, <2>1, FailTakes
<1>4. CASE rx.state = "RECEIVING" /\ NextCf(rx, f)
  <2>1. rx.length = n /\ rx.offset = from /\ rx.data = SubSeq(msg, 1, from)
    BY <1>4 DEF Got
  <2>2. chunk = Least(n - from, CfMax)
    BY <2>1 DEF CfChunkExpected
  <2> HIDE DEF chunk
  <2>3. /\ to <= n /\ from + chunk = to /\ chunk <= CfMax
        /\ SubSeq(msg, 1, from) \o SubSeq(f.data, 1, chunk) = SubSeq(msg, 1, to)
    <3>1. /\ IsSeq(msg) /\ from \in Nat /\ from < Len(msg)
          /\ to = Least(Len(msg), from + CfMax) /\ chunk = Least(Len(msg) - from, CfMax)
      BY <1>1, <2>2
    <3>3. f.data = Padded(SubSeq(msg, from + 1, to), CfMax)
      OBVIOUS
    <3> HIDE DEF msg, from, to
    <3>2. /\ to <= Len(msg) /\ from + chunk = to /\ chunk <= CfMax
          /\ Joined(msg, from, to, chunk) = SubSeq(msg, 1, to)
      BY <3>1, NextBytes, SMTT(30)
    <3> QED
      BY <3>2, <3>3 DEF Joined
  <2>4. chunk \in Nat /\ ~(chunk > f.dlc - 1)
    <3>1. chunk \in Nat
      BY <1>1, <2>2, Sizes, SMTT(30) DEF Least
    <3> QED
      BY <2>3, <3>1, Sizes
  <2>5. /\ DOMAIN got = RxFields /\ got.state = "RECEIVING" /\ got.length = n /\ got.offset = to
        /\ got.data = SubSeq(msg, 1, to)
    <3>1. got = [rx EXCEPT !.data = @ \o SubSeq(f.data, 1, chunk), !.offset = @ + chunk,
                           !.seq = (@ + 1) % SeqMod, !.timer = 0]
      BY DEF RxTaken, chunk
    <3>2. DOMAIN rx = RxFields
      BY DEF LinkOK
    <3> HIDE DEF got, rx
    <3> QED
      BY <1>4, <2>1, <2>3, <3>1, <3>2 DEF RxFields
  <2>6. o = IF to >= n THEN RxFinish([l EXCEPT !.rx = got], "OK")
            ELSE IF cfg.blockSize = 0 THEN Unchanged([l EXCEPT !.rx = got])
            ELSE IF rx.blockCount + 1 < cfg.blockSize
                 THEN Unchanged([l EXCEPT !.rx = [got EXCEPT !.blockCount = rx.blockCount + 1]])
                 ELSE RxSendFlowControl([l EXCEPT !.rx = [got EXCEPT !.blockCount = 0]],
                                        cfg, "CTS", accepted)
    BY <1>4, <2>1, <2>4, <2>5 DEF RxOnConsecutiveFrame, chunk
  <2> HIDE DEF got, o
  <2>7. CASE to >= n
    <3> DEFINE m == [l EXCEPT !.rx = got]
               j == [result |-> "OK", data |-> SubSeq(m.rx.data, 1, m.rx.length)]
    <3>1. LinkOK(m) /\ m.rx = got /\ m.tx = l.tx
      BY <2>5, NewRx
    <3>2. o = RxFinish(m, "OK")
      BY <2>6, <2>7
    <3> HIDE DEF m
    <3>3. /\ LinkOK(o.link) /\ o.link.tx = m.tx /\ o.link.rx = IdleRx
          /\ o.out = <<>> /\ o.ind = <<j>>
      BY <3>1, <3>2, RxFinishes
    <3>4. j.result = "OK" /\ j.data = msg
      <4>1. to = n
        BY <1>1, <2>3, <2>7, SMTT(30)
      <4>2. SubSeq(msg, 1, n) = msg
        BY <1>1, WholePart
      <4> HIDE DEF msg, n, to
      <4> QED
        BY <2>5, <3>1, <4>1, <4>2
    <3> HIDE DEF j
    <3>5. OkData(o) = <<msg>> /\ IsSeq(o.ind)
      BY <3>3, <3>4, OkDataOf, OneElement
    <3>6. Got(IdleRx, S, b, D \o <<S[b.begun]>>)
      BY <1>4, IdleOK, GotWhole
    <3> QED
      BY <3>1, <3>3, <3>5, <3>6, NoFcs, OneElement DEF Takes, Receives, o
  <2>8. CASE ~(to >= n)
    <3>1. ASSUME NEW x, NEW m, x = got \/ (\E c : x = [got EXCEPT !.blockCount = c]),
                 m = [l EXCEPT !.rx = x]
          PROVE  LinkOK(m) /\ m.tx = l.tx /\ Got(m.rx, S, b, D)
      <4>1. /\ DOMAIN x = RxFields /\ x.state = "RECEIVING" /\ x.length = n /\ x.offset = to
            /\ x.data = SubSeq(msg, 1, to)
        BY <2>5, <3>1 DEF RxFields
      <4>2. LinkOK(m) /\ m.rx = x /\ m.tx = l.tx
        BY <3>1, <4>1, NewRx
      <4>3. Got(x, S, b, D)
        BY <1>4, <4>1, GotNext
      <4> QED
        BY <4>2, <4>3
    <3> DEFINE x1 == [got EXCEPT !.blockCount = rx.blockCount + 1]
               x2 == [got EXCEPT !.blockCount = 0]
               m0 == [l EXCEPT !.rx = got]
               m1 == [l EXCEPT !.rx = x1]
               m2 == [l EXCEPT !.rx = x2]
    <3>2. o \in {Unchanged(m0), Unchanged(m1), RxSendFlowControl(m2, cfg, "CTS", accepted)}
      BY <2>6, <2>8
    <3>3. x1 = got \/ (\E c : x1 = [got EXCEPT !.blockCount = c])
      OBVIOUS
    <3>4. x2 = got \/ (\E c : x2 = [got EXCEPT !.blockCount = c])
      OBVIOUS
    <3> HIDE DEF x1, x2
    <3>5. LinkOK(m0) /\ m0.tx = l.tx /\ Got(m0.rx, S, b, D)
      BY <3>1
    <3>6. LinkOK(m1) /\ m1.tx = l.tx /\ Got(m1.rx, S, b, D)
      BY <3>1, <3>3
    <3>7. LinkOK(m2) /\ m2.tx = l.tx /\ Got(m2.rx, S, b, D)
      BY <3>1, <3>4
    <3> HIDE DEF m0, m1, m2
    <3>8. CASE o = Unchanged(m0)
      BY <3>5, <3>8, UnchangedTakes DEF o
    <3>9. CASE o = Unchanged(m1)
      BY <3>6, <3>9, UnchangedTakes DEF o
    <3>10. CASE o = RxSendFlowControl(m2, cfg, "CTS", accepted)
      BY <3>7, <3>10, FcTakes DEF o
    <3> QED
      BY <3>2, <3>8, <3>9, <3>10
  <2> QED
    BY <2>7, <2>8
<1> QED
  BY <1>2, <1>3, <1>4

\* A frame that brings the receiver from a to b: a Flow Control, or data.
LEMMA DataTakes ==
    ASSUME NEW S, Messages(S), NEW a \in Position, NEW b \in Position, NEW D,
           NEW l, LinkOK(l), Got(l.rx, S, a, D),
           NEW cfg, cfg.rxSize \in Nat, cfg.blockSize \in Nat,
           NEW f, Fits(f, S, a, b), ~IsFc(f), NEW room \in Nat
    PROVE  Takes(S, b, D, l, RxFrame(l, cfg, f, room))
<1>1. /\ CanDl \in 1 .. CanDl /\ ~(CanDl = 0 \/ CanDl > CanDl) /\ (room > 0) \in BOOLEAN
      /\ a.begun \in Nat /\ b.begun \in Nat
  BY Sizes DEF Position
<1>2. CASE /\ f = SingleFrame(S[b.begun]) /\ Len(S[b.begun]) <= SfMax
           /\ a.begun < b.begun /\ b.begun <= Len(S)
           /\ b.out = Len(S[b.begun])
  <2>1. f.dlc = CanDl /\ f.pci = "SF"
    BY <1>2 DEF SingleFrame
  <2>2. RxFrame(l, cfg, f, room) = RxOnSingleFrame(l, cfg, f)
    BY <1>1, <2>1 DEF RxFrame
  <2>3. b.begun \in 1 .. Len(S)
    BY <1>1, <1>2, Indices DEF Messages
  <2> QED
    BY <1>2, <2>2, <2>3, SingleFrameTakes
<1>3. CASE /\ f = FirstFrame(S[b.begun]) /\ Len(S[b.begun]) > SfMax
           /\ a.begun < b.begun /\ b.begun <= Len(S)
           /\ b.out = FfData
  <2>1. f.dlc = CanDl /\ f.pci = "FF"
    BY <1>3 DEF FirstFrame
  <2>2. RxFrame(l, cfg, f, room) = RxOnFirstFrame(l, cfg, f, room > 0)
    BY <1>1, <2>1 DEF RxFrame
  <2>3. b.begun \in 1 .. Len(S)
    BY <1>1, <1>3, Indices DEF Messages
  <2> DEFINE accepted == room > 0
  <2>4. accepted \in BOOLEAN
    BY <1>1
  <2> HIDE DEF accepted
  <2>5. Takes(S, b, D, l, RxOnFirstFrame(l, cfg, f, accepted))
    BY <1>3, <2>3, <2>4, FirstFrameTakes
  <2> QED
    BY <2>2, <2>5 DEF accepted
<1>4. CASE /\ f.pci = "CF" /\ f.dlc = CanDl
           /\ f.data = Padded(SubSeq(S[a.begun], a.out + 1, b.out), CfMax)
           /\ a.begun \in 1 .. Len(S) /\ b.begun = a.begun
           /\ a.out < Len(S[a.begun]) /\ b.out = Least(Len(S[a.begun]), a.out + CfMax)
  <2>1. RxFrame(l, cfg, f, room) = RxOnConsecutiveFrame(l, cfg, f, room > 0)
    BY <1>1, <1>4 DEF RxFrame
  <2> DEFINE accepted == room > 0
  <2>2. accepted \in BOOLEAN
    BY <1>1
  <2> HIDE DEF accepted
  <2>3. Takes(S, b, D, l, RxOnConsecutiveFrame(l, cfg, f, accepted))
    BY <1>4, <2>2, ConsecutiveFrameTakes
  <2> QED
    BY <2>1, <2>3 DEF accepted
<1> QED
  BY <1>2, <1>3, <1>4 DEF Fits

LEMMA FcSends ==
    ASSUME NEW S, Messages(S), NEW a \in Position, NEW l, LinkOK(l), At(l.tx, S, a),
           NEW cfg, NEW f, IsFc(f), NEW room \in Nat
    PROVE  Sends(S, a, l, RxFrame(l, cfg, f, room))
<1>1. f.dlc \in 1 .. CanDl /\ ~(f.dlc = 0 \/ f.dlc > CanDl) /\ f.pci = "FC"
  BY Sizes DEF IsFc
<1>2. RxFrame(l, cfg, f, room) = TxOnFlowControl(l, f, room)
  BY <1>1 DEF RxFrame
<1> QED
  BY <1>2, FlowControlSends

LEMMA ReceiverTakes ==
    ASSUME NEW S, IsSeq(S), NEW a \in Position, NEW D, NEW l, LinkOK(l), Got(l.rx, S, a, D),
           NEW cfg, cfg.blockSize \in Nat, NEW room \in Nat
    PROVE  Takes(S, a, D, l, MainReceiver(l, cfg, room))
<1> DEFINE o == IF l.fcPending = NoFc THEN Unchanged(l)
                ELSE RxSendFlowControl(l, cfg, l.fcPending, room > 0)
           p == RxFinish(o.link, "ERR_TIMEOUT_CR")
           r == MainReceiver(l, cfg, room)
<1>1. /\ LinkOK(o.link) /\ o.link.tx = l.tx /\ o.link.rx = l.rx
      /\ Fcs(o.out) /\ o.ind = <<>>
  <2>1. CASE l.fcPending = NoFc
    BY <2>1, NoFcs DEF Unchanged
  <2>2. CASE l.fcPending /= NoFc
    <3> DEFINE accepted == room > 0
               q == RxSendFlowControl(l, cfg, l.fcPending, accepted)
    <3>1. accepted \in BOOLEAN
      OBVIOUS
    <3> HIDE DEF accepted
    <3>2. /\ LinkOK(q.link) /\ q.link.tx = l.tx /\ q.link.rx = l.rx
          /\ Fcs(q.out) /\ q.ind = <<>>
      BY <3>1, FcGoes
    <3>3. o = q
      BY <2>2 DEF accepted
    <3> HIDE DEF q, o
    <3> QED
      BY <3>2, <3>3
  <2> QED
    BY <2>1, <2>2
<1>2. r = IF o.link.rx.state = "RECEIVING" /\ o.link.rx.timer >= NCr THEN Then(o, p) ELSE o
  BY DEF MainReceiver
<1> HIDE DEF o, r
<1>3. CASE r = o
  <2>1. OkData(o) = <<>> /\ D \o <<>> = D
    BY <1>1, OkDataOf, WithNothing DEF Got
  <2> QED
    BY <1>1, <1>3, <2>1, NoElement DEF Takes, Receives, r
<1>4. CASE r = Then(o, p)
  <2>1. Got(o.link.rx, S, a, D) /\ a.begun <= a.begun
    BY <1>1 DEF Position
  <2>2. Takes(S, a, D, o.link, p)
    <3> DEFINE m == o.link
    <3>1. LinkOK(m) /\ Got(m.rx, S, a, D)
      BY <1>1, <2>1
    <3> HIDE DEF m
    <3>2. Takes(S, a, D, m, RxFinish(m, "ERR_TIMEOUT_CR"))
      BY <2>1, <3>1, FailTakes
    <3> QED
      BY <3>2 DEF m
  <2>3. p.out = <<>>
    BY DEF RxFinish, Unchanged
  <2>4. r.link = p.link /\ r.out = o.out \o p.out /\ r.ind = o.ind \o p.ind
    BY <1>4 DEF Then
  <2> HIDE DEF p
  <2>5. r.out = o.out /\ r.ind = p.ind
    BY <1>1, <2>2, <2>3, <2>4, WithNothing DEF Fcs, Takes, Receives
  <2>6. OkData(r) = OkData(p)
    BY <2>5 DEF OkData
  <2> QED
    BY <1>1, <2>2, <2>4, <2>5, <2>6 DEF Takes, Receives, r
<1> QED
  BY <1>2, <1>3, <1>4

-----------------------------------------------------------------------------
(* A call of one side.                                                     *)

\* The call with outcome o of a side that had been given D: its receiver gets
\* as far as b in the peer's messages S, its sender from c on in its own, T.
Serves(S, b, D, T, c, o) ==
    /\ LinkOK(o.link) /\ IsSeq(OkData(o))
    /\ Got(o.link.rx, S, b, D \o OkData(o))
    /\ \E d \in Position : Moves(o.out, T, c, d) /\ At(o.link.tx, T, d)

LEMMA TakesServes ==
    ASSUME NEW S, NEW b, NEW D, NEW T, NEW c \in Position, NEW l, NEW o,
           Takes(S, b, D, l, o), At(l.tx, T, c)
    PROVE  Serves(S, b, D, T, c, o)
<1>1. Moves(o.out, T, c, c)
  BY FcsMove DEF Takes, Receives, Fcs
<1> QED
  BY <1>1 DEF Takes, Receives, Serves

LEMMA SendsServes ==
    ASSUME NEW S, NEW b, NEW D, NEW T, NEW c, NEW l, NEW o, Got(l.rx, S, b, D), Sends(T, c, l, o)
    PROVE  Serves(S, b, D, T, c, o) /\ OkData(o) = <<>>
<1>1. OkData(o) = <<>> /\ D \o <<>> = D
  BY OkDataOf, WithNothing DEF Sends, Got
<1> QED
  BY <1>1, NoElement DEF Sends, Serves

LEMMA ThenServes ==
    ASSUME NEW S, NEW b, NEW D, NEW T, NEW c \in Position, NEW l, NEW o, NEW p,
           Takes(S, b, D, l, o), Sends(T, c, o.link, p)
    PROVE  Serves(S, b, D, T, c, Then(o, p))
<1> DEFINE r == Then(o, p)
<1>1. r.link = p.link /\ r.out = o.out \o p.out /\ r.ind = o.ind \o p.ind
  BY DEF Then
<1> HIDE DEF r
<1>2. PICK d \in Position : Moves(p.out, T, c, d) /\ At(p.link.tx, T, d)
  BY DEF Sends
<1>3. Moves(o.out, T, c, c)
  BY FcsMove DEF Takes, Receives, Fcs
<1>4. Moves(r.out, T, c, d)
  BY <1>1, <1>2, <1>3, MovesOn
<1>5. r.ind = o.ind
  BY <1>1, WithNothing DEF Takes, Receives, Sends
<1>6. OkData(r) = OkData(o)
  BY <1>5 DEF OkData
<1>7. LinkOK(r.link) /\ r.link.rx = o.link.rx
  BY <1>1 DEF Sends
<1> QED
  BY <1>1, <1>2, <1>4, <1>6, <1>7 DEF Takes, Receives, Serves, r

LEMMA PollServes ==
    ASSUME NEW S, IsSeq(S), NEW a \in Position, NEW D, NEW T, Messages(T), NEW c \in Position,
           NEW l, LinkOK(l), Got(l.rx, S, a, D), At(l.tx, T, c),
           NEW cfg, cfg.blockSize \in Nat, NEW fcRoom \in Nat, NEW room \in Nat
    PROVE  Serves(S, a, D, T, c, MainFunction(l, cfg, fcRoom, room))
<1> DEFINE o == MainReceiver(l, cfg, fcRoom)
           m == o.link
<1>1. Takes(S, a, D, l, o)
  BY ReceiverTakes
<1>2. LinkOK(m) /\ At(m.tx, T, c)
  BY <1>1 DEF Takes, Receives
<1>3. MainFunction(l, cfg, fcRoom, room) = Then(o, MainSender(m, room))
  BY DEF MainFunction
<1> HIDE DEF m
<1>4. Sends(T, c, m, MainSender(m, room))
  BY <1>2, SenderSends
<1> HIDE DEF o
<1> QED
  BY <1>1, <1>3, <1>4, ThenServes DEF m

-----------------------------------------------------------------------------
(* Messages.                                                               *)

LEMMA MessageFacts ==
    ASSUME NEW s, NEW id, NEW n \in Nat \ {0}
    PROVE  /\ IsSeq(Message(s, id, n)) /\ Len(Message(s, id, n)) = n
           /\ IdOf(Message(s, id, n)) = id
<1> DEFINE B == {<<s, id, k>> : k \in 1 .. n}
           m == Message(s, id, n)
<1>1. m = [k \in 1 .. n |-> <<s, id, k>>]
  BY DEF Message
<1>2. \A k \in 1 .. n : <<s, id, k>> \in B
  OBVIOUS
<1>3. m \in Seq(B) /\ Len(m) = n
  <2> HIDE DEF B, m
  <2> QED
    BY <1>1, <1>2
<1>4. m[1] = <<s, id, 1>>
  BY <1>1
<1> HIDE DEF B, m
<1>5. IsSeq(m) /\ IdOf(m) = id
  BY <1>3, <1>4 DEF IsSeq, IdOf
<1> QED
  BY <1>3, <1>5 DEF m

LEMMA NextMessage ==
    ASSUME NEW S, Messages(S), NEW m, IsSeq(m), Len(m) > 0,
           \A i \in 1 .. Len(S) : IdOf(S[i]) < IdOf(m)
    PROVE  Messages(Append(S, m))
<1> DEFINE T == Append(S, m)
           n == Len(S)
<1>1. /\ IsSeq(T) /\ n \in Nat /\ Len(T) = n + 1
      /\ \A i \in 1 .. n : T[i] = S[i]
      /\ T[n + 1] = m
  BY Appended, Indices DEF Messages
<1> HIDE DEF T
<1>2. \A i \in 1 .. n + 1 : i \in 1 .. n \/ i = n + 1
  BY <1>1
<1>3. Ascending(T)
  <2> SUFFICES ASSUME NEW i \in 1 .. n + 1, NEW j \in 1 .. n + 1, i < j
               PROVE  IdOf(T[i]) < IdOf(T[j])
    BY <1>1 DEF Ascending
  <2>1. i \in 1 .. n
    BY <1>1
  <2>2. CASE j = n + 1
    BY <1>1, <2>1, <2>2
  <2>3. CASE j \in 1 .. n
    <3>1. IdOf(S[i]) < IdOf(S[j])
      BY <2>1, <2>3 DEF Messages, Ascending
    <3> QED
      BY <1>1, <2>1, <2>3, <3>1
  <2> QED
    BY <1>2, <2>2, <2>3
<1>4. \A i \in 1 .. Len(T) : IsSeq(T[i]) /\ Len(T[i]) > 0
  <2> SUFFICES ASSUME NEW i \in 1 .. n + 1 PROVE IsSeq(T[i]) /\ Len(T[i]) > 0
    BY <1>1
  <2>1. CASE i \in 1 .. n
    BY <1>1, <2>1 DEF Messages
  <2>2. CASE i = n + 1
    BY <1>1, <2>2
  <2> QED
    BY <1>2, <2>1, <2>2
<1> QED
  BY <1>1, <1>3, <1>4 DEF Messages, T

-----------------------------------------------------------------------------
(* The two links.                                                          *)

\* The messages S on their way over q, from a sender with the link m to a
\* receiver with the link l that has been given D.
Goes(l, m, S, q, D) ==
    \E a \in Position : \E b \in Position :
        a.begun <= Len(S) /\ Got(l.rx, S, a, D) /\ Moves(q, S, a, b) /\ At(m.tx, S, b)

Domains ==
    DOMAIN link = Sides /\ DOMAIN chan = Sides /\ DOMAIN sent = Sides /\ DOMAIN delivered = Sides

\* A request has its number for identifier, a response that of a request the
\* ECU was given.
Ids ==
    /\ \A j \in 1 .. Len(sent["tester"]) : IdOf(sent["tester"][j]) = j
    /\ Len(sent["tester"]) <= Len(Requests)
    /\ \A j \in 1 .. Len(sent["ecu"]) :
          \E k \in 1 .. Len(delivered["ecu"]) : IdOf(sent["ecu"][j]) = IdOf(delivered["ecu"][k])

Whole ==
    /\ Domains
    /\ \A s \in Sides : LinkOK(link[s]) /\ Messages(sent[s])
    /\ Ids
    /\ \A s \in Sides : Goes(link[s], link[Peer(s)], sent[Peer(s)], chan[s], delivered[s])

IInv ==
    /\ losses \in Nat /\ setup \in Setups
    /\ losses = 0 => Whole

LEMMA Others ==
    ASSUME NEW s \in Sides
    PROVE  Peer(s) \in Sides /\ Peer(s) /= s /\ Peer(Peer(s)) = s /\ Sides = {s, Peer(s)}
BY DEF Sides, Peer

LEMMA Effect ==
    ASSUME Domains, NEW s \in Sides, NEW o, NEW rest, Perform(s, o, rest)
    PROVE  /\ DOMAIN link' = Sides /\ DOMAIN chan' = Sides /\ DOMAIN delivered' = Sides
           /\ link'[s] = o.link /\ link'[Peer(s)] = link[Peer(s)]
           /\ chan'[s] = rest /\ chan'[Peer(s)] = chan[Peer(s)] \o o.out
           /\ delivered'[s] = delivered[s] \o OkData(o) /\ delivered'[Peer(s)] = delivered[Peer(s)]
<1>1. Peer(s) \in Sides /\ Peer(s) /= s
  BY Others
<1> HIDE DEF OkData
<1> QED
  BY <1>1 DEF Domains, Perform

\* A call of side s keeps the messages whole in both directions, given what it
\* makes of the peer's messages and what it adds to its own.
LEMMA Performed ==
    ASSUME Domains, NEW s \in Sides, NEW o, NEW rest, Perform(s, o, rest),
           DOMAIN sent' = Sides, sent'[Peer(s)] = sent[Peer(s)],
           \A x \in Sides : LinkOK(link[x]) /\ Messages(sent[x]), Messages(sent'[s]),
           NEW b \in Position, NEW e \in Position, b.begun <= Len(sent[Peer(s)]),
           Moves(rest, sent[Peer(s)], b, e), At(link[Peer(s)].tx, sent[Peer(s)], e),
           NEW a \in Position, NEW c \in Position, a.begun <= Len(sent'[s]),
           Got(link[Peer(s)].rx, sent'[s], a, delivered[Peer(s)]),
           Moves(chan[Peer(s)], sent'[s], a, c),
           Serves(sent[Peer(s)], b, delivered[s], sent'[s], c, o)
    PROVE  /\ Domains'
           /\ \A x \in Sides : LinkOK(link'[x]) /\ Messages(sent'[x])
           /\ \A x \in Sides : Goes(link'[x], link'[Peer(x)], sent'[Peer(x)], chan'[x], delivered'[x])
<1> DEFINE p == Peer(s)
<1>1. p \in Sides /\ p /= s /\ Peer(p) = s /\ \A x \in Sides : x = s \/ x = p
  BY Others
<1>2. /\ DOMAIN link' = Sides /\ DOMAIN chan' = Sides /\ DOMAIN delivered' = Sides
      /\ link'[s] = o.link /\ link'[p] = link[p]
      /\ chan'[s] = rest /\ chan'[p] = chan[p] \o o.out
      /\ delivered'[s] = delivered[s] \o OkData(o) /\ delivered'[p] = delivered[p]
  BY Effect
<1> HIDE DEF p
<1>3. PICK d \in Position : Moves(o.out, sent'[s], c, d) /\ At(o.link.tx, sent'[s], d)
  BY DEF Serves
<1>4. Goes(link'[s], link'[p], sent'[p], chan'[s], delivered'[s])
  BY <1>2 DEF Goes, Serves, p
<1>5. Moves(chan'[p], sent'[s], a, d)
  BY <1>2, <1>3, MovesOn DEF p
<1>6. Goes(link'[p], link'[s], sent'[s], chan'[p], delivered'[p])
  BY <1>2, <1>3, <1>5 DEF Goes, p
<1>7. \A x \in Sides : LinkOK(link'[x]) /\ Messages(sent'[x])
  BY <1>1, <1>2 DEF Serves, p
<1>8. \A x \in Sides : Goes(link'[x], link'[Peer(x)], sent'[Peer(x)], chan'[x], delivered'[x])
  BY <1>1, <1>4, <1>6 DEF p
<1> QED
  BY <1>2, <1>7, <1>8 DEF Domains

LEMMA RoomsAreNat ==
    ASSUME NEW s \in Sides, IsSeq(chan[Peer(s)]), NEW used \in Nat
    PROVE  \A room \in Rooms(s, used) : room \in Nat
<1>1. Len(chan[Peer(s)]) \in Nat /\ Depth \in Nat
  BY Indices, PairAssumption
<1> QED
  BY <1>1 DEF Rooms

\* The requests that the ECU has been given.
LEMMA GivenIds ==
    ASSUME Ids, NEW D, IsSeq(D), NEW n, Before(D, sent["tester"], n), IsSeq(sent["tester"])
    PROVE  \A k \in 1 .. Len(D) : IdOf(D[k]) \in 1 .. Len(Requests)
<1> SUFFICES ASSUME NEW k \in 1 .. Len(D) PROVE IdOf(D[k]) \in 1 .. Len(Requests)
  OBVIOUS
<1>1. PICK i \in 1 .. Len(sent["tester"]) : D[k] = sent["tester"][i]
  BY DEF Before
<1>2. IdOf(D[k]) = i
  BY <1>1 DEF Ids
<1>3. Len(sent["tester"]) \in Nat /\ Len(Requests) \in Nat
  BY Indices, PairAssumption
<1> QED
  BY <1>2, <1>3 DEF Ids

LEMMA SideNames == /\ "ecu" \in Sides /\ "tester" \in Sides
                   /\ Peer("ecu") = "tester" /\ Peer("tester") = "ecu"
                   /\ \A s \in Sides : s = "ecu" \/ s = "tester"
BY DEF Sides, Peer

\* What the ECU has been given stays.
LEMMA Longer ==
    ASSUME Domains, NEW s \in Sides, NEW o, NEW rest, Perform(s, o, rest),
           IsSeq(delivered["ecu"]), IsSeq(OkData(o))
    PROVE  \A k \in 1 .. Len(delivered["ecu"]) :
              k \in 1 .. Len(delivered'["ecu"]) /\ delivered'["ecu"][k] = delivered["ecu"][k]
<1>1. CASE s = "ecu"
  <2> DEFINE D == delivered["ecu"]
             E == D \o OkData(o)
  <2>1. delivered'["ecu"] = E
    BY <1>1, Effect
  <2>2. /\ Len(E) = Len(D) + Len(OkData(o)) /\ \A k \in 1 .. Len(D) : E[k] = D[k]
    BY Concatenated
  <2>3. Len(D) \in Nat /\ Len(OkData(o)) \in Nat
    BY Indices
  <2> HIDE DEF D, E
  <2>4. \A k \in 1 .. Len(D) : k \in 1 .. Len(E) /\ E[k] = D[k]
    BY <2>2, <2>3
  <2> QED
    BY <2>1, <2>4 DEF D
<1>2. CASE s = "tester"
  BY <1>2, Effect, SideNames, ZenonT(30)
<1> QED
  BY <1>1, <1>2, SideNames

LEMMA IdsKept ==
    ASSUME Ids, Domains, NEW s \in Sides, NEW o, NEW rest, Perform(s, o, rest),
           IsSeq(delivered["ecu"]), IsSeq(OkData(o)), sent' = sent
    PROVE  Ids'
<1> DEFINE E == delivered'["ecu"]
<1>1. \A k \in 1 .. Len(delivered["ecu"]) : k \in 1 .. Len(E) /\ E[k] = delivered["ecu"][k]
  BY Longer
<1> HIDE DEF E
<1>2. ASSUME NEW j \in 1 .. Len(sent["ecu"])
      PROVE  \E k \in 1 .. Len(E) : IdOf(sent["ecu"][j]) = IdOf(E[k])
  <2>1. PICK k \in 1 .. Len(delivered["ecu"]) : IdOf(sent["ecu"][j]) = IdOf(delivered["ecu"][k])
    BY DEF Ids
  <2> QED
    BY <1>1, <2>1
<1> QED
  BY <1>2 DEF Ids, E

\* A request has the next number.
LEMMA IdsOfRequest ==
    ASSUME Ids, Domains, NEW o, NEW rest, Perform("tester", o, rest),
           IsSeq(delivered["ecu"]), IsSeq(OkData(o)), IsSeq(sent["tester"]),
           Len(sent["tester"]) + 1 <= Len(Requests), NEW m, IdOf(m) = Len(sent["tester"]) + 1,
           sent' = [sent EXCEPT !["tester"] = Append(@, m)]
    PROVE  Ids'
<1> DEFINE S == sent["tester"]
           T == Append(S, m)
           E == delivered'["ecu"]
           n == Len(S)
<1>1. sent'["tester"] = T /\ sent'["ecu"] = sent["ecu"]
  BY SideNames DEF Domains
<1>2. /\ n \in Nat /\ Len(T) = n + 1 /\ T[n + 1] = m
      /\ \A k \in 1 .. n : T[k] = S[k]
  BY Appended, Indices
<1>3. \A j \in 1 .. n : IdOf(S[j]) = j
  BY DEF Ids
<1>4. E = delivered["ecu"]
  BY Effect, SideNames
<1>5. n + 1 <= Len(Requests) /\ IdOf(m) = n + 1
  OBVIOUS
<1> HIDE DEF S, T, E, n
<1>6. \A j \in 1 .. Len(T) : IdOf(T[j]) = j
  <2> SUFFICES ASSUME NEW j \in 1 .. Len(T) PROVE IdOf(T[j]) = j
    OBVIOUS
  <2>1. j \in 1 .. n \/ j = n + 1
    BY <1>2
  <2> QED
    BY <1>2, <1>3, <1>5, <2>1
<1>7. Len(T) <= Len(Requests)
  BY <1>2, <1>5
<1> QED
  BY <1>1, <1>4, <1>6, <1>7 DEF Ids, E

\* A response has the number of the request that the call delivers.
LEMMA IdsOfResponse ==
    ASSUME Ids, Domains, NEW o, NEW rest, Perform("ecu", o, rest),
           IsSeq(delivered["ecu"]), IsSeq(OkData(o)), OkData(o) /= <<>>, IsSeq(sent["ecu"]),
           NEW m, IdOf(m) = IdOf(OkData(o)[1]),
           sent' = [sent EXCEPT !["ecu"] = Append(@, m)]
    PROVE  Ids'
<1> DEFINE S == sent["ecu"]
           T == Append(S, m)
           D == delivered["ecu"]
           E == delivered'["ecu"]
           F == OkData(o)
           n == Len(S)
<1>1. sent'["ecu"] = T /\ sent'["tester"] = sent["tester"]
  BY SideNames DEF Domains
<1>2. /\ n \in Nat /\ Len(T) = n + 1 /\ T[n + 1] = m
      /\ \A k \in 1 .. n : T[k] = S[k]
  BY Appended, Indices
<1>3. \A k \in 1 .. Len(D) : k \in 1 .. Len(E) /\ E[k] = D[k]
  BY Longer, SideNames
<1>4. \A j \in 1 .. n : \E k \in 1 .. Len(D) : IdOf(S[j]) = IdOf(D[k])
  BY DEF Ids
<1>5. E = D \o F
  BY Effect, SideNames
<1>6. IsSeq(D) /\ IsSeq(F) /\ F /= <<>> /\ IdOf(m) = IdOf(F[1])
  OBVIOUS
<1> HIDE DEF S, T, D, E, F, n
<1>7. Len(D) \in Nat /\ Len(F) \in Nat \ {0}
  BY <1>6, Rest, Indices
<1>8. Len(D) + 1 \in 1 .. Len(E) /\ E[Len(D) + 1] = F[1]
  <2>1. Len(E) = Len(D) + Len(F) /\ \A k \in 1 .. Len(F) : E[Len(D) + k] = F[k]
    BY <1>5, <1>6, Concatenated
  <2>2. 1 \in 1 .. Len(F)
    BY <1>7
  <2> QED
    BY <1>7, <2>1, <2>2
<1>9. ASSUME NEW j \in 1 .. Len(T) PROVE \E k \in 1 .. Len(E) : IdOf(T[j]) = IdOf(E[k])
  <2>1. CASE j = n + 1
    BY <1>2, <1>6, <1>8, <2>1
  <2>2. CASE j \in 1 .. n
    <3>1. PICK k \in 1 .. Len(D) : IdOf(S[j]) = IdOf(D[k])
      BY <1>4, <2>2
    <3> QED
      BY <1>2, <1>3, <2>2, <3>1
  <2> QED
    BY <1>2, <2>1, <2>2
<1> QED
  BY <1>1, <1>9 DEF Ids, E

\* ... which is higher than those before.
LEMMA HigherId ==
    ASSUME Ids, NEW F, IsSeq(F), F /= <<>>, IsSeq(delivered["ecu"]), Ascending(delivered["ecu"] \o F)
    PROVE  \A i \in 1 .. Len(sent["ecu"]) : IdOf(sent["ecu"][i]) < IdOf(F[1])
<1> DEFINE D == delivered["ecu"]
           E == D \o F
<1>1. Len(D) \in Nat /\ Len(F) \in Nat \ {0}
  BY Rest, Indices
<1>2. /\ Len(E) = Len(D) + Len(F)
      /\ \A k \in 1 .. Len(D) : E[k] = D[k]
      /\ \A k \in 1 .. Len(F) : E[Len(D) + k] = F[k]
  BY Concatenated
<1> SUFFICES ASSUME NEW i \in 1 .. Len(sent["ecu"]) PROVE IdOf(sent["ecu"][i]) < IdOf(F[1])
  OBVIOUS
<1>3. PICK k \in 1 .. Len(D) : IdOf(sent["ecu"][i]) = IdOf(D[k])
  BY DEF Ids
<1> HIDE DEF D, E
<1>4. /\ k \in 1 .. Len(E) /\ Len(D) + 1 \in 1 .. Len(E) /\ k < Len(D) + 1
      /\ E[k] = D[k] /\ E[Len(D) + 1] = F[1]
  <2>1. 1 \in 1 .. Len(F)
    BY <1>1
  <2> QED
    BY <1>1, <1>2, <2>1
<1>5. IdOf(E[k]) < IdOf(E[Len(D) + 1])
  BY <1>4 DEF Ascending, E, D
<1> QED
  BY <1>3, <1>4, <1>5

-----------------------------------------------------------------------------
(* The steps.                                                              *)

LEMMA InitIInv == Init => IInv
<1> SUFFICES ASSUME Init PROVE IInv
  OBVIOUS
<1> DEFINE a == [begun |-> 0, out |-> 0]
<1>1. a \in Position /\ a.begun = 0 /\ a.out = 0
  BY DEF Position
<1> HIDE DEF a
<1>2. IsSeq(<<>>) /\ Len(<<>>) = 0
  BY NoElement
<1>3. Messages(<<>>)
  BY <1>2 DEF Messages, Ascending
<1>4. LinkOK(InitialLink)
  BY IdleOK DEF InitialLink, LinkOK
<1>5. InitialLink.rx.state = "IDLE" /\ InitialLink.tx = IdleTx
  BY IdleOK DEF InitialLink
<1>6. Goes(InitialLink, InitialLink, <<>>, <<>>, <<>>)
  <2>1. Got(InitialLink.rx, <<>>, a, <<>>)
    BY <1>2, <1>5 DEF Got, Ascending, Before
  <2>2. At(InitialLink.tx, <<>>, a)
    BY <1>1, <1>2, <1>5, IdleAt
  <2>3. Moves(<<>>, <<>>, a, a)
    BY <1>1, NoMove
  <2> QED
    BY <1>1, <1>2, <2>1, <2>2, <2>3 DEF Goes
<1>7. /\ DOMAIN link = Sides /\ DOMAIN chan = Sides /\ DOMAIN sent = Sides
      /\ DOMAIN delivered = Sides
      /\ \A s \in Sides : /\ link[s] = InitialLink /\ chan[s] = <<>> /\ sent[s] = <<>>
                          /\ delivered[s] = <<>>
  BY DEF Init
<1>8. Ids
  <2>1. Len(Requests) \in Nat
    BY PairAssumption
  <2> QED
    BY <1>2, <1>7, <2>1, SideNames DEF Ids
<1>9. Whole
  BY <1>3, <1>4, <1>6, <1>7, <1>8, Others DEF Whole, Domains
<1> QED
  BY <1>9 DEF IInv, Init

\* What is known of side s before it performs a call.
LEMMA Known ==
    ASSUME Whole, setup \in Setups, NEW s \in Sides
    PROVE  /\ Cfg[s].blockSize \in Nat /\ Cfg[s].rxSize \in Nat
           /\ IsSeq(sent[s]) /\ IsSeq(delivered[s]) /\ IsSeq(chan[s])
           /\ \A used \in Nat : \A room \in Rooms(s, used) : room \in Nat
<1>1. Cfg[s].blockSize \in Nat /\ Cfg[s].rxSize \in Nat
  BY PairAssumption DEF Cfg
<1>2. \A x \in Sides : IsSeq(sent[x]) /\ IsSeq(delivered[x]) /\ IsSeq(chan[x])
  <2> TAKE x \in Sides
  <2>1. Messages(sent[x]) /\ Goes(link[x], link[Peer(x)], sent[Peer(x)], chan[x], delivered[x])
    BY DEF Whole
  <2> QED
    BY <2>1 DEF Messages, Goes, Got, Moves
<1>3. \A used \in Nat : \A room \in Rooms(s, used) : room \in Nat
  BY <1>2, RoomsAreNat, Others
<1> QED
  BY <1>1, <1>2, <1>3

LEMMA PollKeeps == ASSUME Whole, setup \in Setups, NEW s \in Sides, Poll(s) PROVE Whole'
<1> DEFINE p == Peer(s)
<1>1. p \in Sides /\ p /= s /\ Peer(p) = s
  BY Others
<1>2. /\ Cfg[s].blockSize \in Nat
      /\ IsSeq(sent[p])
      /\ \A used \in Nat : \A room \in Rooms(s, used) : room \in Nat
  BY <1>1, Known
<1>3. PICK fcRoom \in Rooms(s, 0) :
         \E room \in Rooms(s, IF fcRoom > 0 /\ link[s].fcPending /= NoFc THEN 1 ELSE 0) :
            Perform(s, MainFunction(link[s], Cfg[s], fcRoom, room), chan[s])
  BY DEF Poll
<1>4. PICK room \in Rooms(s, IF fcRoom > 0 /\ link[s].fcPending /= NoFc THEN 1 ELSE 0) :
         Perform(s, MainFunction(link[s], Cfg[s], fcRoom, room), chan[s])
  BY <1>3
<1>5. fcRoom \in Nat /\ room \in Nat
  BY <1>2
<1> DEFINE o == MainFunction(link[s], Cfg[s], fcRoom, room)
<1>6. /\ Domains /\ Ids /\ LinkOK(link[s]) /\ Messages(sent[s]) /\ Messages(sent[p])
      /\ Goes(link[s], link[p], sent[p], chan[s], delivered[s])
      /\ Goes(link[p], link[s], sent[s], chan[p], delivered[p])
  BY <1>1 DEF Whole
<1>7. PICK b \in Position, e \in Position :
         /\ b.begun <= Len(sent[p]) /\ Got(link[s].rx, sent[p], b, delivered[s])
         /\ Moves(chan[s], sent[p], b, e) /\ At(link[p].tx, sent[p], e)
  BY <1>6 DEF Goes
<1>8. PICK a \in Position, c \in Position :
         /\ a.begun <= Len(sent[s]) /\ Got(link[p].rx, sent[s], a, delivered[p])
         /\ Moves(chan[p], sent[s], a, c) /\ At(link[s].tx, sent[s], c)
  BY <1>6 DEF Goes
<1>9. Serves(sent[p], b, delivered[s], sent[s], c, o)
  <2> DEFINE l == link[s]
             cfg == Cfg[s]
             S == sent[p]
             T == sent[s]
             D == delivered[s]
  <2>1. /\ IsSeq(S) /\ Messages(T) /\ LinkOK(l) /\ Got(l.rx, S, b, D) /\ At(l.tx, T, c)
        /\ cfg.blockSize \in Nat
    BY <1>2, <1>6, <1>7, <1>8
  <2> HIDE DEF l, cfg, S, T, D
  <2>2. Serves(S, b, D, T, c, MainFunction(l, cfg, fcRoom, room))
    BY <1>5, <2>1, PollServes
  <2> QED
    BY <2>2 DEF l, cfg, S, T, D
<1>10. sent' = sent /\ Perform(s, o, chan[s])
  BY <1>4 DEF Poll
<1> HIDE DEF o, p
<1>11. /\ Domains'
       /\ \A x \in Sides : LinkOK(link'[x]) /\ Messages(sent'[x])
       /\ \A x \in Sides : Goes(link'[x], link'[Peer(x)], sent'[Peer(x)], chan'[x], delivered'[x])
  BY <1>6, <1>7, <1>8, <1>9, <1>10, Performed DEF Whole, Domains, p
<1>12. Ids'
  BY <1>6, <1>9, <1>10, IdsKept, SideNames, Known DEF Serves
<1> QED
  BY <1>11, <1>12 DEF Whole

LEMMA SendRequestKeeps == ASSUME Whole, setup \in Setups, SendRequest PROVE Whole'
<1> DEFINE S == sent["tester"]
           id == Len(S) + 1
           msg == Message("tester", id, Requests[id])
           T == Append(S, msg)
           l == link["tester"]
<1>1. /\ Domains /\ Ids
      /\ LinkOK(l) /\ Messages(S) /\ Messages(sent["ecu"])
      /\ Goes(l, link["ecu"], sent["ecu"], chan["tester"], delivered["tester"])
      /\ Goes(link["ecu"], l, S, chan["ecu"], delivered["ecu"])
  BY SideNames DEF Whole
<1>2. id <= Len(Requests) /\ CanTransmit(l, Cfg["tester"], msg)
      /\ sent' = [sent EXCEPT !["tester"] = T]
  BY DEF SendRequest
<1>3. PICK room \in Rooms("tester", 0) : Perform("tester", Transmit(l, msg, room), chan["tester"])
  BY DEF SendRequest
<1>4. room \in Nat
  BY <1>3, Known, SideNames
<1>5. IsSeq(S) /\ Len(S) \in Nat /\ id \in Nat \ {0}
  BY <1>1, Indices DEF Messages
<1>6. Requests[id] \in Nat
  <2>1. id \in 1 .. Len(Requests) /\ Requests \in Seq(Nat)
    BY <1>2, <1>5, PairAssumption
  <2> HIDE DEF id
  <2> QED
    BY <2>1
<1>7. IsSeq(msg) /\ Len(msg) > 0 /\ IdOf(msg) = id
  <2>1. Requests[id] /= 0
    <3>1. Len(msg) /= 0
      BY <1>2 DEF CanTransmit
    <3>2. CASE Requests[id] = 0
      <4>1. msg = <<>>
        BY <3>2 DEF Message
      <4> QED
        BY <3>1, <4>1, NoElement
    <3> QED
      BY <3>2
  <2>2. Requests[id] \in Nat \ {0}
    BY <1>6, <2>1
  <2>3. IsSeq(msg) /\ Len(msg) = Requests[id] /\ IdOf(msg) = id
    BY <2>2, MessageFacts
  <2> QED
    BY <2>2, <2>3
<1> HIDE DEF msg
<1>8. \A i \in 1 .. Len(S) : IdOf(S[i]) < IdOf(msg)
  <2>1. \A i \in 1 .. Len(S) : IdOf(S[i]) = i
    BY <1>1 DEF Ids
  <2> QED
    BY <1>5, <1>7, <2>1
<1> HIDE DEF S
<1>9. Messages(T) /\ Len(T) = id /\ T[Len(T)] = msg
  <2>1. Messages(T)
    BY <1>1, <1>7, <1>8, NextMessage
  <2>2. Len(T) = Len(S) + 1 /\ T[Len(S) + 1] = msg
    BY <1>5, Appended
  <2> QED
    BY <2>1, <2>2
<1>10. PICK b \in Position, e \in Position :
         /\ b.begun <= Len(sent["ecu"]) /\ Got(l.rx, sent["ecu"], b, delivered["tester"])
         /\ Moves(chan["tester"], sent["ecu"], b, e) /\ At(link["ecu"].tx, sent["ecu"], e)
  BY <1>1 DEF Goes
<1>11. PICK a \in Position, c \in Position :
         /\ a.begun <= Len(S) /\ Got(link["ecu"].rx, S, a, delivered["ecu"])
         /\ Moves(chan["ecu"], S, a, c) /\ At(l.tx, S, c)
  BY <1>1 DEF Goes
<1>12. a.begun <= Len(T) /\ Got(link["ecu"].rx, T, a, delivered["ecu"]) /\ Moves(chan["ecu"], T, a, c)
  <2>1. a.begun <= Len(T)
    BY <1>5, <1>9, <1>11 DEF Position
  <2>2. Got(link["ecu"].rx, T, a, delivered["ecu"]) /\ Moves(chan["ecu"], T, a, c)
    BY <1>5, <1>11, StillGot, StillMoves
  <2> QED
    BY <2>1, <2>2
<1> DEFINE o == Transmit(l, msg, room)
<1>13. Sends(T, c, l, o)
  <2>1. c.begun < Len(T)
    BY <1>5, <1>9, <1>11 DEF At, Position
  <2> HIDE DEF T, l
  <2>2. Sends(T, c, l, Transmit(l, T[Len(T)], room))
    BY <1>1, <1>4, <1>9, <2>1, TransmitSends
  <2> QED
    BY <1>9, <2>2
<1>14. Serves(sent["ecu"], b, delivered["tester"], T, c, o)
  BY <1>10, <1>13, SendsServes
<1>15. sent'["tester"] = T /\ sent'["ecu"] = sent["ecu"] /\ DOMAIN sent' = Sides
  BY <1>1, <1>2, SideNames DEF Domains
<1>16. Perform("tester", o, chan["tester"])
  BY <1>3
<1> HIDE DEF o, T, l
<1>17. /\ Domains'
       /\ \A x \in Sides : LinkOK(link'[x]) /\ Messages(sent'[x])
       /\ \A x \in Sides : Goes(link'[x], link'[Peer(x)], sent'[Peer(x)], chan'[x], delivered'[x])
  <2>1. \A x \in Sides : LinkOK(link[x]) /\ Messages(sent[x])
    BY DEF Whole
  <2>2. "tester" \in Sides /\ Peer("tester") = "ecu"
    BY SideNames
  <2> QED
    BY <1>1, <1>9, <1>10, <1>12, <1>14, <1>15, <1>16, <2>1, <2>2, Performed
<1>18. Ids'
  <2>1. IsSeq(delivered["ecu"]) /\ IsSeq(OkData(o))
    BY <1>14, Known, SideNames DEF Serves
  <2>2. /\ IsSeq(S) /\ Len(S) + 1 <= Len(Requests) /\ IdOf(msg) = Len(S) + 1
        /\ sent' = [sent EXCEPT !["tester"] = Append(@, msg)]
    BY <1>2, <1>5, <1>7 DEF T, S
  <2> QED
    BY <1>1, <1>16, <2>1, <2>2, IdsOfRequest DEF S
<1> QED
  BY <1>17, <1>18 DEF Whole

LEMMA FitsWithin ==
    ASSUME NEW S, NEW a, NEW b, a.begun <= Len(S), NEW f, Fits(f, S, a, b)
    PROVE  b.begun <= Len(S)
BY DEF Fits

\* What a frame makes of a side: its receiver takes data, its sender a Flow Control.
LEMMA FrameServes ==
    ASSUME NEW S, Messages(S), NEW a \in Position, NEW b \in Position, NEW D,
           NEW T, Messages(T), NEW c \in Position,
           NEW l, LinkOK(l), Got(l.rx, S, a, D), At(l.tx, T, c),
           NEW cfg, cfg.rxSize \in Nat, cfg.blockSize \in Nat,
           NEW f, Fits(f, S, a, b), NEW room \in Nat
    PROVE  /\ Serves(S, b, D, T, c, RxFrame(l, cfg, f, room))
           /\ OkData(RxFrame(l, cfg, f, room)) /= <<>> => Takes(S, b, D, l, RxFrame(l, cfg, f, room))
<1> DEFINE o == RxFrame(l, cfg, f, room)
<1>1. CASE IsFc(f)
  <2>1. b = a
    BY <1>1 DEF Fits, IsFc, SingleFrame, FirstFrame
  <2>2. Sends(T, c, l, o)
    BY <1>1, FcSends
  <2> HIDE DEF o
  <2>3. Serves(S, b, D, T, c, o) /\ OkData(o) = <<>>
    BY <2>1, <2>2, SendsServes
  <2> QED
    BY <2>3 DEF o
<1>2. CASE ~IsFc(f)
  <2>1. Takes(S, b, D, l, o)
    BY <1>2, DataTakes
  <2> HIDE DEF o
  <2>2. Serves(S, b, D, T, c, o)
    BY <2>1, TakesServes
  <2> QED
    BY <2>1, <2>2 DEF o
<1> QED
  BY <1>1, <1>2

\* The response the ECU makes to the request that o delivers.
ResponseTo(o) == Message("ecu", IdOf(OkData(o)[1]), Responses[IdOf(OkData(o)[1])])

LEMMA ReceiveKeeps == ASSUME Whole, setup \in Setups, NEW s \in Sides, Receive(s) PROVE Whole'
<1> DEFINE p == Peer(s)
           S == sent[p]
           T == sent[s]
           D == delivered[s]
           l == link[s]
           cfg == Cfg[s]
           f == Head(chan[s])
<1>1. p \in Sides /\ p /= s /\ Peer(p) = s
  BY Others
<1>2. /\ cfg.blockSize \in Nat /\ cfg.rxSize \in Nat
      /\ IsSeq(delivered["ecu"])
      /\ \A used \in Nat : \A room \in Rooms(s, used) : room \in Nat
  BY Known, SideNames
<1>3. chan[s] /= <<>>
  BY DEF Receive
<1>4. PICK room \in Rooms(s, 0) :
         IF /\ s = "ecu" /\ OkData(RxFrame(l, cfg, f, room)) /= <<>>
            /\ CanTransmit(RxFrame(l, cfg, f, room).link, cfg, ResponseTo(RxFrame(l, cfg, f, room)))
         THEN /\ Perform(s, Then(RxFrame(l, cfg, f, room),
                                 Transmit(RxFrame(l, cfg, f, room).link,
                                          ResponseTo(RxFrame(l, cfg, f, room)), room)), Tail(chan[s]))
              /\ sent' = [sent EXCEPT ![s] = Append(@, ResponseTo(RxFrame(l, cfg, f, room)))]
         ELSE Perform(s, RxFrame(l, cfg, f, room), Tail(chan[s])) /\ sent' = sent
  BY DEF Receive, ResponseTo
<1> DEFINE o == RxFrame(l, cfg, f, room)
           m == ResponseTo(o)
           responds == s = "ecu" /\ OkData(o) /= <<>> /\ CanTransmit(o.link, cfg, m)
<1>5. room \in Nat
  BY <1>2
<1>6. /\ Domains /\ Ids /\ LinkOK(l) /\ Messages(S) /\ Messages(T)
      /\ Goes(l, link[p], S, chan[s], D)
      /\ Goes(link[p], l, T, chan[p], delivered[p])
  BY <1>1 DEF Whole
<1>7. PICK a0 \in Position, e \in Position :
         /\ a0.begun <= Len(S) /\ Got(l.rx, S, a0, D)
         /\ Moves(chan[s], S, a0, e) /\ At(link[p].tx, S, e)
  BY <1>6 DEF Goes
<1>8. PICK b \in Position : Fits(f, S, a0, b) /\ Moves(Tail(chan[s]), S, b, e)
  BY <1>3, <1>7, FirstMove
<1>9. b.begun <= Len(S)
  BY <1>7, <1>8, FitsWithin
<1>10. PICK a \in Position, c \in Position :
         /\ a.begun <= Len(T) /\ Got(link[p].rx, T, a, delivered[p])
         /\ Moves(chan[p], T, a, c) /\ At(l.tx, T, c)
  BY <1>6 DEF Goes
<1> HIDE DEF l, cfg, f, S, T, D, p
<1>11. Serves(S, b, D, T, c, o) /\ (OkData(o) /= <<>> => Takes(S, b, D, l, o))
  BY <1>2, <1>5, <1>6, <1>7, <1>8, <1>10, FrameServes
<1>12. \A x \in Sides : LinkOK(link[x]) /\ Messages(sent[x])
  BY DEF Whole
<1> HIDE DEF o, m
<1>13. CASE ~responds
  <2>1. Perform(s, o, Tail(chan[s])) /\ sent' = sent
    BY <1>4, <1>13 DEF o, m
  <2>2. DOMAIN sent' = Sides /\ sent'[p] = sent[p] /\ sent'[s] = T
    BY <1>6, <2>1 DEF Domains, T
  <2>3. /\ Domains'
        /\ \A x \in Sides : LinkOK(link'[x]) /\ Messages(sent'[x])
        /\ \A x \in Sides : Goes(link'[x], link'[Peer(x)], sent'[Peer(x)], chan'[x], delivered'[x])
    <3> HIDE DEF responds
    <3> QED
      BY <1>6, <1>7, <1>8, <1>9, <1>10, <1>11, <1>12, <2>1, <2>2, Performed DEF p, S, D
  <2>4. Ids'
    BY <1>2, <1>6, <1>11, <2>1, IdsKept DEF Serves
  <2> QED
    BY <2>3, <2>4 DEF Whole
<1>14. CASE responds
  <2> DEFINE q == Transmit(o.link, m, room)
             r == Then(o, q)
             U == Append(T, m)
  <2>1. s = "ecu" /\ OkData(o) /= <<>> /\ CanTransmit(o.link, cfg, m)
    BY <1>14
  <2>2. Perform(s, r, Tail(chan[s])) /\ sent' = [sent EXCEPT ![s] = U]
    BY <1>4, <1>14 DEF o, m, T
  <2>3. Takes(S, b, D, l, o) /\ IsSeq(OkData(o)) /\ Got(o.link.rx, S, b, D \o OkData(o))
    BY <1>11, <2>1 DEF Takes, Receives
  <2> DEFINE id == IdOf(OkData(o)[1])
  <2>4. D = delivered["ecu"] /\ S = sent["tester"] /\ T = sent["ecu"] /\ p = "tester"
    BY <2>1, SideNames DEF D, S, T, p
  <2>5. id \in 1 .. Len(Requests)
    <3> DEFINE E == D \o OkData(o)
               F == OkData(o)
    <3>1. IsSeq(D) /\ IsSeq(F) /\ F /= <<>> /\ IsSeq(E)
      BY <1>2, <2>1, <2>3, <2>4 DEF Got
    <3>2. \E n : Before(E, S, n)
      BY <2>3 DEF Got
    <3>3. IsSeq(S)
      BY <1>6 DEF Messages
    <3> HIDE DEF F
    <3>4. Len(D) \in Nat /\ Len(F) \in Nat \ {0} /\ 1 \in 1 .. Len(F)
      BY <3>1, Rest, Indices
    <3>5. Len(E) = Len(D) + Len(F) /\ E[Len(D) + 1] = F[1]
      BY <3>1, <3>4, Concatenated DEF F
    <3> HIDE DEF E
    <3>6. \A k \in 1 .. Len(E) : IdOf(E[k]) \in 1 .. Len(Requests)
      BY <1>6, <2>4, <3>1, <3>2, <3>3, GivenIds
    <3>7. Len(D) + 1 \in 1 .. Len(E)
      BY <3>4, <3>5
    <3>8. IdOf(F[1]) \in 1 .. Len(Requests)
      BY <3>5, <3>6, <3>7
    <3> QED
      BY <3>8 DEF F
  <2>6. Responses[id] \in Nat
    <3>1. Len(Requests) = Len(Responses) /\ Responses \in Seq(Nat)
      BY PairAssumption
    <3> HIDE DEF id
    <3> QED
      BY <2>5, <3>1
  <2>7. IsSeq(m) /\ Len(m) > 0 /\ IdOf(m) = id
    <3>1. m = Message("ecu", id, Responses[id])
      BY DEF m, ResponseTo
    <3> HIDE DEF id
    <3>2. Responses[id] /= 0
      <4>1. Len(m) /= 0
        BY <2>1 DEF CanTransmit
      <4>2. CASE Responses[id] = 0
        <5>1. m = <<>>
          BY <3>1, <4>2 DEF Message
        <5> QED
          BY <4>1, <5>1, NoElement
      <4> QED
        BY <4>2
    <3>3. Responses[id] \in Nat \ {0}
      BY <2>6, <3>2
    <3>4. IsSeq(m) /\ Len(m) = Responses[id] /\ IdOf(m) = id
      BY <3>1, <3>3, MessageFacts
    <3> QED
      BY <3>3, <3>4
  <2>8. Messages(U) /\ Len(U) = Len(T) + 1 /\ Len(T) \in Nat /\ U[Len(U)] = m /\ IsSeq(T)
    <3>1. IsSeq(T) /\ Len(T) \in Nat
      BY <1>6, Indices DEF Messages
    <3>2. \A i \in 1 .. Len(T) : IdOf(T[i]) < IdOf(m)
      <4>1. Ascending(D \o OkData(o))
        BY <2>3 DEF Got
      <4> DEFINE F == OkData(o)
      <4>2. IsSeq(F) /\ F /= <<>> /\ Ascending(delivered["ecu"] \o F) /\ id = IdOf(F[1])
        BY <2>1, <2>3, <2>4, <4>1
      <4> HIDE DEF F, id
      <4>3. \A i \in 1 .. Len(sent["ecu"]) : IdOf(sent["ecu"][i]) < IdOf(F[1])
        BY <1>2, <1>6, <4>2, HigherId
      <4> QED
        BY <2>4, <2>7, <4>2, <4>3
    <3>3. Messages(U)
      BY <1>6, <2>7, <3>2, NextMessage
    <3>4. Len(U) = Len(T) + 1 /\ U[Len(T) + 1] = m
      BY <3>1, Appended
    <3> QED
      BY <3>1, <3>3, <3>4
  <2>9. a.begun <= Len(U) /\ Got(link[p].rx, U, a, delivered[p]) /\ Moves(chan[p], U, a, c)
    <3>1. a.begun <= Len(U)
      BY <1>10, <2>8, SMTT(30) DEF Position
    <3>2. Got(link[p].rx, U, a, delivered[p]) /\ Moves(chan[p], U, a, c)
      BY <1>10, <2>8, StillGot, StillMoves
    <3> QED
      BY <3>1, <3>2
  <2>10. Sends(U, c, o.link, q)
    <3> DEFINE k == o.link
    <3>1. LinkOK(k) /\ c.begun < Len(U)
      BY <1>10, <2>3, <2>8, SMTT(30) DEF At, Position, Takes, Receives
    <3> HIDE DEF U, k
    <3>2. Sends(U, c, k, Transmit(k, U[Len(U)], room))
      BY <1>5, <2>8, <3>1, TransmitSends
    <3> QED
      BY <2>8, <3>2 DEF k
  <2>11. Serves(S, b, D, U, c, r)
    BY <2>3, <2>10, ThenServes
  <2>12. DOMAIN sent' = Sides /\ sent'[p] = sent[p] /\ sent'[s] = U
    BY <1>1, <1>6, <2>2 DEF Domains
  <2>13. OkData(r) = OkData(o)
    <3>1. r.ind = o.ind \o q.ind /\ q.ind = <<>>
      BY <2>10 DEF Then, Sends
    <3>2. r.ind = o.ind
      BY <2>3, <3>1, WithNothing DEF Takes, Receives
    <3> QED
      BY <3>2 DEF OkData
  <2>14. sent' = [sent EXCEPT !["ecu"] = Append(@, m)]
    BY <2>1, <2>2, <2>4
  <2> HIDE DEF q, r, U, responds, id
  <2>15. /\ Domains'
         /\ \A x \in Sides : LinkOK(link'[x]) /\ Messages(sent'[x])
         /\ \A x \in Sides : Goes(link'[x], link'[Peer(x)], sent'[Peer(x)], chan'[x], delivered'[x])
    BY <1>6, <1>7, <1>8, <1>9, <1>12, <2>2, <2>8, <2>9, <2>11, <2>12, Performed DEF p, S, D
  <2>16. Ids'
    <3>1. Perform("ecu", r, Tail(chan[s]))
      BY <2>1, <2>2
    <3>2. /\ IsSeq(sent["ecu"]) /\ IsSeq(OkData(r)) /\ OkData(r) /= <<>>
          /\ IdOf(m) = IdOf(OkData(r)[1])
      BY <2>1, <2>3, <2>4, <2>7, <2>8, <2>13 DEF id
    <3> QED
      BY <1>2, <1>6, <2>14, <3>1, <3>2, IdsOfResponse
  <2> QED
    BY <2>15, <2>16 DEF Whole
<1> QED
  BY <1>13, <1>14

\* Time changes the ages only.
LEMMA AgedFields ==
    ASSUME NEW l, LinkOK(l), NEW m, m = Aged(l)
    PROVE  /\ LinkOK(m) /\ m.fcPending = l.fcPending
           /\ m.tx.state = l.tx.state /\ m.tx.msg = l.tx.msg /\ m.tx.offset = l.tx.offset
           /\ m.tx.blockSize = l.tx.blockSize /\ m.tx.blockCount = l.tx.blockCount
           /\ m.rx.state = l.rx.state /\ m.rx.length = l.rx.length /\ m.rx.offset = l.rx.offset
           /\ m.rx.data = l.rx.data /\ m.rx.blockCount = l.rx.blockCount
<1> DEFINE txTimer == IF l.tx.state \in {"SEND_FIRST", "WAIT_FC"} THEN Least(NBs, l.tx.timer + 1)
                      ELSE l.tx.timer
           lastCf == IF l.tx.state = "SEND_CF" THEN Least(l.tx.stMin + 1, l.tx.lastCf + 1)
                     ELSE l.tx.lastCf
           rxTimer == IF l.rx.state = "RECEIVING" THEN Least(NCr, l.rx.timer + 1) ELSE l.rx.timer
           tx == [l.tx EXCEPT !.timer = txTimer, !.lastCf = lastCf]
           rx == [l.rx EXCEPT !.timer = rxTimer]
<1>1. m = [l EXCEPT !.tx.timer = txTimer, !.tx.lastCf = lastCf, !.rx.timer = rxTimer]
  <2>1. DOMAIN l = {"tx", "rx", "fcPending"} /\ DOMAIN l.tx = TxFields /\ DOMAIN l.rx = RxFields
    BY DEF LinkOK, TxOK
  <2> QED
    BY <2>1 DEF Aged, TxFields, RxFields
<1> HIDE DEF txTimer, lastCf, rxTimer
<1>2. m.tx = tx /\ m.rx = rx /\ DOMAIN m = {"tx", "rx", "fcPending"} /\ m.fcPending = l.fcPending
  <2>1. DOMAIN l = {"tx", "rx", "fcPending"}
    BY DEF LinkOK
  <2> QED
    BY <1>1, <2>1
<1>3. /\ DOMAIN tx = TxFields /\ tx.state = l.tx.state /\ tx.msg = l.tx.msg /\ tx.offset = l.tx.offset
      /\ tx.blockSize = l.tx.blockSize /\ tx.blockCount = l.tx.blockCount
  BY DEF LinkOK, TxOK, TxFields
<1>4. /\ DOMAIN rx = RxFields /\ rx.state = l.rx.state /\ rx.length = l.rx.length
      /\ rx.offset = l.rx.offset /\ rx.data = l.rx.data /\ rx.blockCount = l.rx.blockCount
  BY DEF LinkOK, RxFields
<1> HIDE DEF tx, rx
<1>5. LinkOK(m)
  BY <1>2, <1>3, <1>4 DEF LinkOK, TxOK
<1> QED
  BY <1>2, <1>3, <1>4, <1>5

LEMMA AgedLink ==
    ASSUME NEW l, LinkOK(l)
    PROVE  /\ LinkOK(Aged(l))
           /\ \A S, a : At(l.tx, S, a) => At(Aged(l).tx, S, a)
           /\ \A S, a, D : Got(l.rx, S, a, D) => Got(Aged(l).rx, S, a, D)
<1> DEFINE m == Aged(l)
<1>1. /\ LinkOK(m)
      /\ m.tx.state = l.tx.state /\ m.tx.msg = l.tx.msg /\ m.tx.offset = l.tx.offset
      /\ m.rx.state = l.rx.state /\ m.rx.length = l.rx.length /\ m.rx.offset = l.rx.offset
      /\ m.rx.data = l.rx.data
  BY AgedFields
<1> HIDE DEF m
<1>2. ASSUME NEW S, NEW a, At(l.tx, S, a) PROVE At(m.tx, S, a)
  BY <1>1, <1>2 DEF At, Mid
<1>3. ASSUME NEW S, NEW a, NEW D, Got(l.rx, S, a, D) PROVE Got(m.rx, S, a, D)
  BY <1>1, <1>3 DEF Got
<1> QED
  BY <1>1, <1>2, <1>3 DEF m

LEMMA TickKeeps == ASSUME Whole, Tick PROVE Whole'
<1>1. /\ DOMAIN link' = Sides /\ \A s \in Sides : link'[s] = Aged(link[s])
      /\ chan' = chan /\ sent' = sent /\ delivered' = delivered
  BY DEF Tick
<1>2. \A s \in Sides : LinkOK(link'[s]) /\ Messages(sent'[s])
  BY <1>1, AgedLink DEF Whole
<1>3. ASSUME NEW s \in Sides
      PROVE  Goes(link'[s], link'[Peer(s)], sent[Peer(s)], chan[s], delivered[s])
  <2> DEFINE l == link[s]
             m == link[Peer(s)]
  <2>1. /\ LinkOK(l) /\ LinkOK(m) /\ link'[s] = Aged(l) /\ link'[Peer(s)] = Aged(m)
        /\ Goes(l, m, sent[Peer(s)], chan[s], delivered[s])
    BY <1>1, Others DEF Whole
  <2> HIDE DEF l, m
  <2> QED
    BY <2>1, AgedLink DEF Goes
<1>4. Domains' /\ Ids'
  BY <1>1 DEF Whole, Domains, Ids
<1> QED
  BY <1>1, <1>2, <1>3, <1>4 DEF Whole

LEMMA NextIInv == IInv /\ [Next]_vars => IInv'
<1> SUFFICES ASSUME IInv, [Next]_vars PROVE IInv'
  OBVIOUS
<1>1. losses \in Nat /\ setup \in Setups /\ (losses = 0 => Whole)
  BY DEF IInv
<1>2. CASE SendRequest
  <2>1. losses' = losses /\ setup' = setup
    BY <1>2 DEF SendRequest
  <2> QED
    BY <1>1, <1>2, <2>1, SendRequestKeeps DEF IInv
<1>3. CASE \E s \in Sides : Receive(s)
  <2>1. losses' = losses /\ setup' = setup
    BY <1>3 DEF Receive
  <2> QED
    BY <1>1, <1>3, <2>1, ReceiveKeeps DEF IInv
<1>4. CASE \E s \in Sides : Poll(s)
  <2>1. losses' = losses /\ setup' = setup
    BY <1>4 DEF Poll
  <2> QED
    BY <1>1, <1>4, <2>1, PollKeeps DEF IInv
<1>5. CASE \E s \in Sides : Lose(s)
  <2>1. losses' = losses + 1 /\ setup' = setup
    BY <1>5 DEF Lose
  <2>2. losses' \in Nat /\ losses' /= 0
    BY <1>1, <2>1
  <2> QED
    BY <1>1, <2>1, <2>2 DEF IInv
<1>6. CASE Tick
  <2>1. losses' = losses /\ setup' = setup
    BY <1>6 DEF Tick
  <2> QED
    BY <1>1, <1>6, <2>1, TickKeeps DEF IInv
<1>7. CASE UNCHANGED vars
  BY <1>1, <1>7 DEF IInv, vars, Whole, Domains, Ids
<1> QED
  BY <1>2, <1>3, <1>4, <1>5, <1>6, <1>7 DEF Next

LEMMA WholeIntegrity == Whole => Integrity
<1> SUFFICES ASSUME Whole, NEW s \in Sides
             PROVE  /\ \A k \in 1 .. Len(delivered[s]) :
                          \E j \in 1 .. Len(sent[Peer(s)]) : delivered[s][k] = sent[Peer(s)][j]
                    /\ \A j, k \in 1 .. Len(delivered[s]) :
                          j < k => IdOf(delivered[s][j]) < IdOf(delivered[s][k])
  BY DEF Integrity
<1>1. Goes(link[s], link[Peer(s)], sent[Peer(s)], chan[s], delivered[s])
  BY DEF Whole
<1>2. PICK a : Got(link[s].rx, sent[Peer(s)], a, delivered[s])
  BY <1>1 DEF Goes
<1> QED
  BY <1>2 DEF Got, Before, Ascending

\* As long as the bus has lost no frame, what a side is given with ISOTP_OK is,
\* byte for byte, a message its peer gave to IsoTp_Transmit, in the order sent and
\* each at most once, for every configuration, every length and every delay.
THEOREM IntegrityCorrect == Spec => [](losses = 0 => Integrity)
<1>1. IInv => (losses = 0 => Integrity)
  BY WholeIntegrity DEF IInv
<1> QED
  BY InitIInv, NextIInv, <1>1, PTL DEF Spec

-----------------------------------------------------------------------------
(* Blocks, in a run in which frames and polls are faster than time.        *)

\* Frames of q with this PCI.
Kind(q, pci) == {k \in 1 .. Len(q) : q[k].pci = pci}
Count(q, pci) == Cardinality(Kind(q, pci))

\* The CFs of the channel: what BlockRespected counts.
LEMMA CfsCounted ==
    ASSUME NEW q, IsSeq(q)
    PROVE  Cardinality({k \in DOMAIN q : q[k].pci = "CF"}) = Count(q, "CF")
BY Indices DEF Count, Kind

LEMMA KindFinite ==
    ASSUME NEW q, IsSeq(q), NEW pci
    PROVE  IsFiniteSet(Kind(q, pci)) /\ Count(q, pci) \in Nat
<1>1. Len(q) \in Nat
  BY Indices
<1>2. IsFiniteSet(1 .. Len(q))
  BY <1>1, FS_Interval
<1>3. IsFiniteSet(Kind(q, pci))
  BY <1>2, FS_Subset DEF Kind
<1> QED
  BY <1>3, FS_CardinalityType DEF Count

LEMMA CountNone ==
    ASSUME NEW q, NEW pci, \A k \in 1 .. Len(q) : q[k].pci /= pci
    PROVE  Count(q, pci) = 0
<1>1. Kind(q, pci) = {}
  BY DEF Kind
<1> QED
  BY <1>1, FS_EmptySet DEF Count

LEMMA CountSome ==
    ASSUME NEW q, IsSeq(q), NEW pci, NEW k \in 1 .. Len(q), q[k].pci = pci
    PROVE  Count(q, pci) >= 1
<1>1. k \in Kind(q, pci)
  BY DEF Kind
<1>2. IsFiniteSet(Kind(q, pci)) /\ Count(q, pci) \in Nat
  BY KindFinite
<1>3. Count(q, pci) /= 0
  BY <1>1, <1>2, FS_EmptySet DEF Count
<1> QED
  BY <1>2, <1>3

LEMMA CountNothing == ASSUME NEW pci PROVE Count(<<>>, pci) = 0
<1> DEFINE q == <<>>
<1>1. Len(q) = 0
  BY NoElement
<1> HIDE DEF q
<1>2. Count(q, pci) = 0
  BY <1>1, CountNone
<1> QED
  BY <1>2 DEF q

LEMMA CountAll ==
    ASSUME NEW q, IsSeq(q), NEW pci, \A k \in 1 .. Len(q) : q[k].pci = pci
    PROVE  Count(q, pci) = Len(q)
<1>1. Len(q) \in Nat
  BY Indices
<1>2. Kind(q, pci) = 1 .. Len(q)
  BY DEF Kind
<1>3. ASSUME NEW n \in Nat PROVE Cardinality(1 .. n) = n
  <2>1. Cardinality(1 .. n) = IF 1 > n THEN 0 ELSE n - 1 + 1
    BY FS_Interval
  <2> QED
    BY <2>1
<1>4. Cardinality(1 .. Len(q)) = Len(q)
  BY <1>1, <1>3
<1> QED
  BY <1>2, <1>4 DEF Count

LEMMA CountOne ==
    ASSUME NEW f, NEW pci
    PROVE  Count(<<f>>, pci) = IF f.pci = pci THEN 1 ELSE 0
<1> DEFINE q == <<f>>
<1>1. IsSeq(q) /\ Len(q) = 1 /\ q[1] = f
  BY OneElement
<1> HIDE DEF q
<1>2. \A k \in 1 .. Len(q) : q[k] = f
  <2>1. \A k \in 1 .. Len(q) : k = 1
    BY <1>1
  <2> QED
    BY <1>1, <2>1
<1>3. CASE f.pci = pci
  <2>1. Count(q, pci) = Len(q)
    BY <1>1, <1>2, <1>3, CountAll
  <2> QED
    BY <1>1, <1>3, <2>1 DEF q
<1>4. CASE f.pci /= pci
  <2>1. Count(q, pci) = 0
    BY <1>2, <1>4, CountNone
  <2> QED
    BY <1>4, <2>1 DEF q
<1> QED
  BY <1>3, <1>4

\* The frames of two sequences add up.
LEMMA CountSum ==
    ASSUME NEW q, IsSeq(q), NEW r, IsSeq(r), NEW pci
    PROVE  Count(q \o r, pci) = Count(q, pci) + Count(r, pci)
<1> DEFINE h == q \o r
           n == Len(q)
           m == Len(r)
           A == Kind(q, pci)
           B == Kind(r, pci)
           Later == {k \in n + 1 .. n + m : h[k].pci = pci}
           to == [k \in B |-> n + k]
<1>1. /\ n \in Nat /\ m \in Nat /\ IsSeq(h) /\ Len(h) = n + m
      /\ \A k \in 1 .. n : h[k] = q[k]
      /\ \A k \in 1 .. m : h[n + k] = r[k]
  <2> HIDE DEF A, B, Later, to
  <2>1. n \in Nat /\ m \in Nat
    BY Indices
  <2>2. /\ IsSeq(h) /\ Len(h) = n + m
        /\ \A k \in 1 .. n : h[k] = q[k]
        /\ \A k \in 1 .. m : h[n + k] = r[k]
    BY Concatenated
  <2> QED
    BY <2>1, <2>2
<1> HIDE DEF h
<1>2. A \subseteq 1 .. n /\ B \subseteq 1 .. m /\ IsFiniteSet(A) /\ IsFiniteSet(B)
  BY KindFinite DEF Kind
<1>3. Kind(h, pci) = A \cup Later
  <2>1. ASSUME NEW k \in 1 .. n + m PROVE k \in 1 .. n \/ k \in n + 1 .. n + m
    BY <1>1
  <2>2. ASSUME NEW k, k \in 1 .. n \/ k \in n + 1 .. n + m PROVE k \in 1 .. n + m
    BY <1>1, <2>2
  <2>3. Kind(h, pci) = {k \in 1 .. n + m : h[k].pci = pci}
    BY <1>1 DEF Kind
  <2>4. A = {k \in 1 .. n : h[k].pci = pci}
    BY <1>1 DEF Kind
  <2> HIDE DEF A
  <2> QED
    BY <2>1, <2>2, <2>3, <2>4
<1>4. A \cap Later = {}
  <2>1. ASSUME NEW k \in A, k \in Later PROVE FALSE
    <3>1. k \in 1 .. n /\ k \in n + 1 .. n + m
      BY <1>2, <2>1
    <3> QED
      BY <1>1, <3>1
  <2> QED
    BY <2>1
<1>5. to \in [B -> Later]
  <2>1. ASSUME NEW k \in B PROVE n + k \in Later
    <3>1. k \in 1 .. m /\ r[k].pci = pci
      BY DEF Kind
    <3>2. n + k \in n + 1 .. n + m /\ h[n + k] = r[k]
      BY <1>1, <3>1
    <3> QED
      BY <3>1, <3>2
  <2> HIDE DEF B, Later
  <2> QED
    BY <2>1
<1>6. \A j, k \in B : to[j] = to[k] => j = k
  <2>1. \A k \in B : k \in Int
    BY <1>2
  <2> HIDE DEF B
  <2>2. \A k \in B : to[k] = n + k
    OBVIOUS
  <2> HIDE DEF to
  <2> QED
    BY <1>1, <2>1, <2>2
<1>7. \A k \in Later : \E j \in B : to[j] = k
  <2>1. ASSUME NEW k \in Later PROVE k - n \in B /\ n + (k - n) = k
    <3>1. k \in n + 1 .. n + m /\ h[k].pci = pci
      OBVIOUS
    <3>2. k - n \in 1 .. m /\ n + (k - n) = k
      BY <1>1, <3>1
    <3>3. h[n + (k - n)] = r[k - n]
      BY <1>1, <3>2
    <3> QED
      BY <3>1, <3>2, <3>3 DEF Kind
  <2> HIDE DEF B, Later
  <2> QED
    BY <2>1
<1> HIDE DEF to, A, B, Later
<1>8. to \in Bijection(B, Later)
  BY <1>5, <1>6, <1>7 DEF Bijection, Injection, Surjection, IsInjective
<1>9. IsFiniteSet(Later) /\ Cardinality(Later) = Cardinality(B)
  BY <1>2, <1>8, FS_Bijection DEF ExistsBijection
<1>10. Cardinality(A \cup Later) = Cardinality(A) + Cardinality(Later) - 0
  <2>1. Cardinality(A \cap Later) = 0
    BY <1>4, FS_EmptySet
  <2> QED
    BY <1>2, <1>9, <2>1, FS_Union
<1>11. Cardinality(A) \in Nat /\ Cardinality(B) \in Nat
  BY <1>2, FS_CardinalityType
<1> QED
  BY <1>3, <1>9, <1>10, <1>11 DEF Count, h, A, B

\* The first frame and the others.
LEMMA CountTail ==
    ASSUME NEW q, IsSeq(q), q /= <<>>, NEW pci
    PROVE  Count(q, pci) = (IF Head(q).pci = pci THEN 1 ELSE 0) + Count(Tail(q), pci)
<1> DEFINE f == Head(q)
           t == Tail(q)
           h == <<f>>
           all == h \o t
<1>1. /\ IsSeq(t) /\ Len(q) \in Nat \ {0} /\ Len(t) = Len(q) - 1 /\ f = q[1]
      /\ \A k \in 1 .. Len(q) - 1 : t[k] = q[k + 1]
  BY Rest
<1>2. IsSeq(h) /\ Len(h) = 1 /\ h[1] = f
  BY OneElement
<1> HIDE DEF f, t, h
<1>3. /\ IsSeq(all) /\ Len(all) = Len(h) + Len(t)
      /\ \A k \in 1 .. Len(h) : all[k] = h[k]
      /\ \A k \in 1 .. Len(t) : all[Len(h) + k] = t[k]
  <2>1. IsSeq(h)
    BY <1>2
  <2>2. IsSeq(t)
    BY <1>1
  <2> QED
    BY <2>1, <2>2, Concatenated
<1>4. Count(all, pci) = Count(h, pci) + Count(t, pci)
  <2>1. IsSeq(h)
    BY <1>2
  <2>2. IsSeq(t)
    BY <1>1
  <2> QED
    BY <2>1, <2>2, CountSum
<1> HIDE DEF all
<1>5. Len(all) = Len(q)
  BY <1>1, <1>2, <1>3
<1>6. ASSUME NEW k \in 1 .. Len(q) PROVE all[k] = q[k]
  <2>1. CASE k = 1
    <3>1. 1 \in 1 .. Len(h)
      BY <1>2
    <3> QED
      BY <1>1, <1>2, <1>3, <2>1, <3>1
  <2>2. CASE k /= 1
    <3>1. k - 1 \in 1 .. Len(t) /\ Len(h) + (k - 1) = k /\ (k - 1) + 1 = k /\ k - 1 \in 1 .. Len(q) - 1
      BY <1>1, <1>2, <2>2
    <3> QED
      BY <1>1, <1>3, <3>1
  <2> QED
    BY <2>1, <2>2
<1>7. all = q
  BY <1>3, <1>5, <1>6, SameSeq
<1>8. Count(h, pci) = IF f.pci = pci THEN 1 ELSE 0
  BY CountOne DEF h
<1> QED
  BY <1>4, <1>7, <1>8 DEF f, t

\* What is left when the k-th frame is lost.
Without(q, k) == SubSeq(q, 1, k - 1) \o SubSeq(q, k + 1, Len(q))

\* r is q without its k-th frame.
Shorter(q, k, r, pci) ==
    /\ IsSeq(r) /\ Len(r) = Len(q) - 1
    /\ \A j \in 1 .. Len(r) : r[j] = IF j < k THEN q[j] ELSE q[j + 1]
    /\ Count(q, pci) = Count(r, pci) + IF q[k].pci = pci THEN 1 ELSE 0

LEMMA CountLoss ==
    ASSUME NEW q, IsSeq(q), NEW k \in 1 .. Len(q), NEW pci
    PROVE  Shorter(q, k, Without(q, k), pci)
<1> DEFINE r == Without(q, k)
           n == Len(q)
           a == SubSeq(q, 1, k - 1)
           b == SubSeq(q, k + 1, n)
           f == q[k]
           h == <<f>>
           hb == h \o b
           all == a \o hb
           ab == a \o b
<1>1. n \in Nat /\ k \in 1 .. n /\ k - 1 \in Nat /\ k + 1 \in Nat \ {0} /\ k \in Nat
  BY Indices
<1> HIDE DEF n
<1>2. IsSeq(a) /\ Len(a) = k - 1 /\ \A j \in 1 .. k - 1 : a[j] = q[j]
  <2>1. /\ IsSeq(a) /\ Len(a) = (k - 1) + 1 - 1
        /\ \A j \in 1 .. (k - 1) + 1 - 1 : a[j] = q[1 + j - 1]
    <3>1. k - 1 <= Len(q) /\ 1 <= (k - 1) + 1 /\ 1 \in Nat \ {0}
      BY <1>1 DEF n
    <3> QED
      BY <1>1, <3>1, Part
  <2> HIDE DEF a
  <2>2. (k - 1) + 1 - 1 = k - 1 /\ \A j \in 1 .. k - 1 : 1 + j - 1 = j
    BY <1>1
  <2> QED
    BY <2>1, <2>2
<1>3. IsSeq(b) /\ Len(b) = n - k /\ \A j \in 1 .. n - k : b[j] = q[k + j]
  <2>1. /\ IsSeq(b) /\ Len(b) = n + 1 - (k + 1)
        /\ \A j \in 1 .. n + 1 - (k + 1) : b[j] = q[(k + 1) + j - 1]
    <3>1. n <= Len(q) /\ k + 1 <= n + 1
      BY <1>1 DEF n
    <3> QED
      BY <1>1, <3>1, Part
  <2> HIDE DEF b
  <2>2. n + 1 - (k + 1) = n - k /\ \A j \in 1 .. n - k : (k + 1) + j - 1 = k + j
    BY <1>1
  <2> QED
    BY <2>1, <2>2
<1>4. IsSeq(h) /\ Len(h) = 1 /\ h[1] = f
  BY OneElement
<1>5. r = ab
  BY DEF n, Without
<1> HIDE DEF r, a, b, h, f
<1>6. /\ IsSeq(ab) /\ Len(ab) = Len(a) + Len(b)
      /\ \A j \in 1 .. Len(a) : ab[j] = a[j]
      /\ \A j \in 1 .. Len(b) : ab[Len(a) + j] = b[j]
      /\ Count(ab, pci) = Count(a, pci) + Count(b, pci)
  <2>1. IsSeq(a)
    BY <1>2
  <2>2. IsSeq(b)
    BY <1>3
  <2> QED
    BY <2>1, <2>2, Concatenated, CountSum
<1> HIDE DEF ab
<1>7. /\ IsSeq(r) /\ Len(r) = Len(a) + Len(b)
      /\ \A j \in 1 .. Len(a) : r[j] = a[j]
      /\ \A j \in 1 .. Len(b) : r[Len(a) + j] = b[j]
  BY <1>5, <1>6
<1>8. /\ IsSeq(hb) /\ Len(hb) = Len(h) + Len(b)
      /\ \A j \in 1 .. Len(h) : hb[j] = h[j]
      /\ \A j \in 1 .. Len(b) : hb[Len(h) + j] = b[j]
  <2>1. IsSeq(h)
    BY <1>4
  <2>2. IsSeq(b)
    BY <1>3
  <2> QED
    BY <2>1, <2>2, Concatenated
<1>9. IsSeq(a) /\ IsSeq(b) /\ IsSeq(h) /\ IsSeq(hb)
  BY <1>2, <1>3, <1>4, <1>8
<1>10. Count(r, pci) = Count(a, pci) + Count(b, pci)
  BY <1>5, <1>6
<1>11. Count(hb, pci) = Count(h, pci) + Count(b, pci)
  BY <1>9, CountSum
<1>12. Count(all, pci) = Count(a, pci) + Count(hb, pci)
  <2> HIDE DEF hb
  <2> QED
    BY <1>9, CountSum
<1> HIDE DEF hb
<1>13. /\ IsSeq(all) /\ Len(all) = Len(a) + Len(hb)
       /\ \A j \in 1 .. Len(a) : all[j] = a[j]
       /\ \A j \in 1 .. Len(hb) : all[Len(a) + j] = hb[j]
  <2>1. IsSeq(a)
    BY <1>2
  <2>2. IsSeq(hb)
    BY <1>8
  <2> QED
    BY <2>1, <2>2, Concatenated
<1> HIDE DEF all
<1>14. Len(r) = n - 1 /\ Len(all) = n
  <2>1. Len(a) = k - 1 /\ Len(b) = n - k /\ Len(h) = 1
    BY <1>2, <1>3, <1>4
  <2>2. Len(r) = Len(a) + Len(b) /\ Len(hb) = Len(h) + Len(b) /\ Len(all) = Len(a) + Len(hb)
    BY <1>7, <1>8, <1>13
  <2>3. Len(r) = (k - 1) + (n - k) /\ Len(all) = (k - 1) + (1 + (n - k))
    BY <2>1, <2>2
  <2>4. \A i, j \in Nat : (i - 1) + (j - i) = j - 1 /\ (i - 1) + (1 + (j - i)) = j
    OBVIOUS
  <2> QED
    BY <1>1, <2>3, <2>4
<1>15. ASSUME NEW j \in 1 .. n - 1 PROVE r[j] = IF j < k THEN q[j] ELSE q[j + 1]
  <2>1. CASE j < k
    <3>1. j \in 1 .. k - 1 /\ j \in 1 .. Len(a)
      BY <1>1, <1>2, <2>1
    <3> QED
      BY <1>2, <1>7, <2>1, <3>1
  <2>2. CASE ~(j < k)
    <3> DEFINE i == j - (k - 1)
    <3>1. i \in 1 .. n - k /\ (k - 1) + i = j /\ k + i = j + 1
      BY <1>1, <2>2
    <3> HIDE DEF i
    <3>2. b[i] = q[j + 1] /\ r[j] = b[i]
      BY <1>2, <1>3, <1>7, <3>1
    <3> QED
      BY <2>2, <3>2
  <2> QED
    BY <2>1, <2>2
<1>16. ASSUME NEW j \in 1 .. n PROVE all[j] = q[j]
  <2>1. CASE j < k
    <3>1. j \in 1 .. k - 1 /\ j \in 1 .. Len(a)
      BY <1>1, <1>2, <2>1
    <3> QED
      BY <1>2, <1>13, <3>1
  <2>2. CASE j = k
    <3>1. 1 \in 1 .. Len(hb) /\ 1 \in 1 .. Len(h) /\ Len(a) + 1 = k
      BY <1>1, <1>2, <1>3, <1>4, <1>8
    <3> QED
      BY <1>4, <1>8, <1>13, <2>2, <3>1 DEF f
  <2>3. CASE j > k
    <3> DEFINE i == j - k
    <3>1. i \in 1 .. n - k /\ k + i = j /\ 1 + i \in 1 .. Len(hb) /\ Len(a) + (1 + i) = j
          /\ i \in 1 .. Len(b) /\ Len(h) + i = 1 + i
      BY <1>1, <1>2, <1>3, <1>4, <1>8, <2>3
    <3> HIDE DEF i
    <3>2. all[j] = hb[1 + i] /\ hb[1 + i] = b[i] /\ b[i] = q[j]
      BY <1>3, <1>8, <1>13, <3>1
    <3> QED
      BY <3>2
  <2> QED
    BY <1>1, <2>1, <2>2, <2>3
<1>17. all = q
  BY <1>13, <1>14, <1>16, SameSeq DEF n
<1>18. Count(h, pci) = IF f.pci = pci THEN 1 ELSE 0
  BY CountOne DEF h
<1>19. Count(a, pci) \in Nat /\ Count(b, pci) \in Nat
  BY <1>2, <1>3, KindFinite
<1>20. Count(q, pci) = Count(r, pci) + IF f.pci = pci THEN 1 ELSE 0
  BY <1>10, <1>11, <1>12, <1>17, <1>18, <1>19
<1> QED
  <2>1. Shorter(q, k, r, pci)
    BY <1>7, <1>14, <1>15, <1>20 DEF n, f, Shorter
  <2> QED
    BY <2>1 DEF r

LEMMA Regrouped ==
    ASSUME NEW q, IsSeq(q), NEW r, IsSeq(r), NEW s, IsSeq(s)
    PROVE  (q \o r) \o s = q \o (r \o s)
<1> DEFINE qr == q \o r
           rs == r \o s
           a == qr \o s
           b == q \o rs
<1>1. Len(q) \in Nat /\ Len(r) \in Nat /\ Len(s) \in Nat
  BY Indices
<1>2. /\ IsSeq(qr) /\ Len(qr) = Len(q) + Len(r)
      /\ \A k \in 1 .. Len(q) : qr[k] = q[k]
      /\ \A k \in 1 .. Len(r) : qr[Len(q) + k] = r[k]
  BY Concatenated
<1>3. /\ IsSeq(rs) /\ Len(rs) = Len(r) + Len(s)
      /\ \A k \in 1 .. Len(r) : rs[k] = r[k]
      /\ \A k \in 1 .. Len(s) : rs[Len(r) + k] = s[k]
  BY Concatenated
<1> HIDE DEF qr, rs
<1>4. /\ IsSeq(a) /\ Len(a) = Len(qr) + Len(s)
      /\ \A k \in 1 .. Len(qr) : a[k] = qr[k]
      /\ \A k \in 1 .. Len(s) : a[Len(qr) + k] = s[k]
  <2>1. IsSeq(qr)
    BY <1>2
  <2> QED
    BY <2>1, Concatenated
<1>5. /\ IsSeq(b) /\ Len(b) = Len(q) + Len(rs)
      /\ \A k \in 1 .. Len(q) : b[k] = q[k]
      /\ \A k \in 1 .. Len(rs) : b[Len(q) + k] = rs[k]
  <2>1. IsSeq(rs)
    BY <1>3
  <2> QED
    BY <2>1, Concatenated
<1> HIDE DEF a, b
<1> DEFINE x == Len(q)
           y == Len(r)
           z == Len(s)
<1>6. Len(a) = (x + y) + z /\ Len(b) = x + (y + z)
  BY <1>2, <1>3, <1>4, <1>5
<1>7. ASSUME NEW k \in 1 .. (x + y) + z PROVE a[k] = b[k]
  <2>1. CASE k <= x
    <3>1. k \in 1 .. Len(q) /\ k \in 1 .. Len(qr)
      BY <1>1, <1>2, <2>1
    <3> QED
      BY <1>2, <1>4, <1>5, <3>1
  <2>2. CASE x < k /\ k <= x + y
    <3> DEFINE i == k - x
    <3>1. i \in 1 .. Len(r) /\ x + i = k /\ k \in 1 .. Len(qr) /\ i \in 1 .. Len(rs)
      BY <1>1, <1>2, <1>3, <2>2
    <3> HIDE DEF i
    <3>2. a[k] = qr[k] /\ qr[k] = r[i] /\ b[k] = rs[i] /\ rs[i] = r[i]
      BY <1>2, <1>3, <1>4, <1>5, <3>1
    <3> QED
      BY <3>2
  <2>3. CASE x + y < k
    <3> DEFINE i == k - (x + y)
    <3>1. i \in 1 .. Len(s) /\ Len(qr) + i = k /\ y + i \in 1 .. Len(rs) /\ x + (y + i) = k
      BY <1>1, <1>2, <1>3, <2>3
    <3> HIDE DEF i
    <3>2. a[k] = s[i] /\ b[k] = rs[y + i] /\ rs[y + i] = s[i]
      BY <1>3, <1>4, <1>5, <3>1
    <3> QED
      BY <3>2
  <2> QED
    BY <1>1, <2>1, <2>2, <2>3
<1>8. Len(a) = Len(b) /\ \A k \in 1 .. Len(a) : a[k] = b[k]
  BY <1>1, <1>6, <1>7
<1>9. a = b
  BY <1>4, <1>5, <1>8, SameSeq
<1> QED
  BY <1>9 DEF a, b, qr, rs

-----------------------------------------------------------------------------
(* One direction.                                                          *)

\* A Flow Control that the driver has not taken.
Pend(fc) == IF fc = NoFc THEN 0 ELSE 1

\* With c CFs on their way, the receiver is where the sender is.
Together(tx, rx, c) ==
    rx.length = Len(tx.msg) /\ tx.offset = Least(rx.length, rx.offset + c * CfMax)

\* The c CFs that complete the block of the receiver complete the message with it, or
\* the sender waits for the Flow Control that will be the answer.
Completes(tx, rx, c, a, g) ==
    \/ rx.length <= rx.offset + c * CfMax
    \/ tx.state = "WAIT_FC" /\ tx.timer = 0 /\ a = 0 /\ g = 0 /\ Together(tx, rx, c)

\* What the receiver rx, who grants blocks of bs, knows of the sender.
InBlock(tx, rx, c, a, g, bs) ==
    /\ rx.blockCount \in Nat /\ rx.blockCount < bs
    /\ g = 1 => rx.blockCount = 0 /\ rx.length = Len(tx.msg) /\ rx.offset = tx.offset
    /\ tx.state = "SEND_CF" =>
          /\ rx.blockCount + c <= tx.blockCount
          /\ rx.blockCount + c = tx.blockCount => Together(tx, rx, c)
    /\ tx.state /= "SEND_CF" =>
          /\ rx.blockCount + c <= bs
          /\ rx.blockCount + c = bs => Completes(tx, rx, c, a, g)

\* One direction, with c CFs and a First Frames on their way to the receiver and g
\* Flow Controls to the sender: one First Frame or Flow Control at most in all.
Block(tx, rx, c, a, g, bs) ==
    /\ c \in Nat /\ a \in Nat /\ g \in Nat /\ a + g <= 1
    /\ a + g = 1 => tx.state = "WAIT_FC" /\ tx.timer = 0
    /\ a = 1 => tx.offset = FfData
    /\ g = 1 => c = 0
    /\ tx.state = "SEND_CF" => tx.blockSize = bs /\ tx.blockCount \in Nat /\ tx.blockCount < bs
    /\ rx.state = "RECEIVING" => InBlock(tx, rx, c, a, g, bs)

\* No CF is behind a First Frame, which announces the message being sent.
Ahead(q, tx) ==
    \A j \in 1 .. Len(q) :
        q[j].pci = "FF" => /\ q[j].length = Len(tx.msg)
                           /\ \A k \in j .. Len(q) : q[k].pci /= "CF"

Way(q, tx, rx, g, bs) ==
    /\ IsSeq(q)
    /\ Block(tx, rx, Count(q, "CF"), Count(q, "FF"), g, bs)
    /\ Ahead(q, tx)

\* Lengths and offsets are numbers.
SizedRx(rx) == rx.state = "RECEIVING" => rx.length \in Nat /\ rx.offset \in Nat /\ rx.offset < rx.length

LEMMA BlockLess ==
    ASSUME NEW tx, NEW rx, NEW bs \in Nat, NEW c, NEW a, NEW g, Block(tx, rx, c, a, g, bs),
           NEW c2 \in Nat, NEW a2 \in Nat, NEW g2 \in Nat, c2 <= c, a2 <= a, g2 <= g
    PROVE  Block(tx, rx, c2, a2, g2, bs)
<1>1. /\ c \in Nat /\ a \in Nat /\ g \in Nat /\ a + g <= 1
      /\ a + g = 1 => tx.state = "WAIT_FC" /\ tx.timer = 0
      /\ a = 1 => tx.offset = FfData
      /\ g = 1 => c = 0
      /\ tx.state = "SEND_CF" => tx.blockSize = bs /\ tx.blockCount \in Nat /\ tx.blockCount < bs
  BY DEF Block
<1>2. /\ a2 + g2 <= 1
      /\ a2 + g2 = 1 => a + g = 1
      /\ a2 = 1 => a = 1
      /\ g2 = 1 => g = 1 /\ c2 = 0
  BY <1>1
<1>3. ASSUME rx.state = "RECEIVING" PROVE InBlock(tx, rx, c2, a2, g2, bs)
  <2>1. InBlock(tx, rx, c, a, g, bs)
    BY <1>3 DEF Block
  <2>2. rx.blockCount \in Nat
    BY <2>1 DEF InBlock
  <2>3. ASSUME rx.blockCount + c2 >= rx.blockCount + c PROVE c2 = c
    BY <1>1, <2>2, <2>3
  <2>4. CASE tx.state = "SEND_CF"
    <3>1. /\ rx.blockCount + c <= tx.blockCount
          /\ rx.blockCount + c = tx.blockCount => Together(tx, rx, c)
      BY <2>1, <2>4 DEF InBlock
    <3>2. rx.blockCount + c2 <= tx.blockCount
      BY <1>1, <2>2, <2>4, <3>1
    <3>3. rx.blockCount + c2 = tx.blockCount => c2 = c
      BY <1>1, <2>2, <2>4, <3>1
    <3>4. rx.blockCount + c2 = tx.blockCount => Together(tx, rx, c2)
      BY <3>1, <3>3
    <3> QED
      BY <1>2, <2>1, <2>4, <3>2, <3>4 DEF InBlock
  <2>5. CASE tx.state /= "SEND_CF"
    <3>1. /\ rx.blockCount + c <= bs
          /\ rx.blockCount + c = bs => Completes(tx, rx, c, a, g)
      BY <2>1, <2>5 DEF InBlock
    <3>2. rx.blockCount + c2 <= bs /\ (rx.blockCount + c2 = bs => c2 = c)
      BY <1>1, <2>2, <3>1
    <3>3. ASSUME rx.blockCount + c2 = bs PROVE Completes(tx, rx, c2, a2, g2)
      <4>1. c2 = c /\ Completes(tx, rx, c, a, g)
        BY <3>1, <3>2, <3>3
      <4>2. a = 0 /\ g = 0 => a2 = 0 /\ g2 = 0
        BY <1>1
      <4> QED
        BY <4>1, <4>2 DEF Completes
    <3> QED
      BY <1>2, <2>1, <2>5, <3>2, <3>3 DEF InBlock
  <2> QED
    BY <2>4, <2>5
<1> QED
  BY <1>1, <1>2, <1>3 DEF Block

LEMMA BlockIdle ==
    ASSUME NEW tx, NEW rx, NEW bs, NEW c, NEW a, NEW g, Block(tx, rx, c, a, g, bs),
           NEW to, to.state /= "RECEIVING"
    PROVE  Block(tx, to, c, a, g, bs)
BY DEF Block

\* Several CFs bring what each brings.
LEMMA SumOfProducts ==
    ASSUME NEW c \in Nat, NEW n \in Nat
    PROVE  c * CfMax \in Nat /\ n * CfMax \in Nat /\ (c + n) * CfMax = c * CfMax + n * CfMax
<1> DEFINE k == CfMax
<1>1. k \in Nat
  BY Sizes
<1> HIDE DEF k
<1>2. c * k \in Nat /\ n * k \in Nat /\ (c + n) * k = c * k + n * k
  BY <1>1
<1> QED
  BY <1>2 DEF k

\* n more CFs bring both on.
LEMMA TogetherOn ==
    ASSUME NEW tx, NEW rx, NEW c \in Nat, NEW n \in Nat, rx.length \in Nat, rx.offset \in Nat,
           Together(tx, rx, c), NEW to, to.msg = tx.msg,
           to.offset = Least(Len(tx.msg), tx.offset + n * CfMax)
    PROVE  Together(to, rx, c + n)
<1> DEFINE len == rx.length
           off == rx.offset
           x == c * CfMax
           y == n * CfMax
<1>1. x \in Nat /\ y \in Nat /\ (c + n) * CfMax = x + y
  BY SumOfProducts
<1>2. len \in Nat /\ off \in Nat /\ len = Len(tx.msg) /\ tx.offset = Least(len, off + x)
      /\ to.offset = Least(len, tx.offset + y)
  BY DEF Together
<1>3. len = Len(to.msg)
  BY <1>2
<1> HIDE DEF len, off, x, y
<1>4. Least(len, Least(len, off + x) + y) = Least(len, off + (x + y))
  BY <1>1, <1>2 DEF Least
<1>5. to.offset = Least(len, off + (x + y))
  BY <1>2, <1>4
<1>6. to.offset = Least(rx.length, rx.offset + (c + n) * CfMax)
  BY <1>1, <1>5 DEF len, off
<1> QED
  BY <1>3, <1>6 DEF Together, len

\* The last n CFs of a message bring the receiver, who is where the sender is, to its end.
LEMMA TogetherDone ==
    ASSUME NEW tx, NEW rx, NEW c \in Nat, NEW n \in Nat, rx.length \in Nat, rx.offset \in Nat,
           Together(tx, rx, c), Len(tx.msg) <= tx.offset + n * CfMax
    PROVE  rx.length <= rx.offset + (c + n) * CfMax
<1> DEFINE len == rx.length
           off == rx.offset
           x == c * CfMax
           y == n * CfMax
<1>1. x \in Nat /\ y \in Nat /\ (c + n) * CfMax = x + y
  BY SumOfProducts
<1>2. len \in Nat /\ off \in Nat /\ len <= tx.offset + y /\ tx.offset = Least(len, off + x)
  BY DEF Together
<1> HIDE DEF len, off, x, y
<1>3. len <= Least(len, off + x) + y
  BY <1>2
<1>4. len <= off + (x + y)
  BY <1>1, <1>2, <1>3 DEF Least
<1> QED
  BY <1>1, <1>4 DEF len, off

\* What n CFs make of a sender.
Continues(tx, to, n) ==
    /\ tx.blockSize /= 0 => tx.blockCount + n <= tx.blockSize
    /\ \/ to.state = "IDLE" /\ Len(tx.msg) <= tx.offset + n * CfMax
       \/ /\ to.msg = tx.msg /\ to.offset = Least(Len(tx.msg), tx.offset + n * CfMax)
          /\ \/ to.state = "WAIT_FC" /\ to.timer = 0 /\ tx.blockSize /= 0
                /\ tx.blockCount + n >= tx.blockSize
             \/ /\ to.state = "SEND_CF" /\ to.blockSize = tx.blockSize
                /\ tx.blockSize /= 0 => to.blockCount = tx.blockCount + n
                                        /\ to.blockCount < tx.blockSize

LEMMA BlockContinues ==
    ASSUME NEW tx, tx.state = "SEND_CF", NEW rx, SizedRx(rx), NEW bs \in Nat \ {0},
           NEW c, NEW a, NEW g, Block(tx, rx, c, a, g, bs),
           NEW n \in Nat, NEW to, Continues(tx, to, n)
    PROVE  Block(to, rx, c + n, a, g, bs)
<1>1. /\ c \in Nat /\ a = 0 /\ g = 0
      /\ tx.blockSize = bs /\ tx.blockCount \in Nat /\ tx.blockCount < bs /\ tx.blockCount + n <= bs
  BY DEF Block, Continues
<1>2. to.state = "SEND_CF" => to.blockSize = bs /\ to.blockCount \in Nat /\ to.blockCount < bs
                              /\ to.blockCount = tx.blockCount + n
  BY <1>1 DEF Continues
<1>3. ASSUME rx.state = "RECEIVING" PROVE InBlock(to, rx, c + n, 0, 0, bs)
  <2>1. /\ rx.blockCount \in Nat /\ rx.blockCount < bs
        /\ rx.blockCount + c <= tx.blockCount
        /\ rx.blockCount + c = tx.blockCount => Together(tx, rx, c)
    BY <1>3 DEF Block, InBlock
  <2>2. rx.length \in Nat /\ rx.offset \in Nat
    BY <1>3 DEF SizedRx
  <2>3. /\ rx.blockCount + (c + n) <= tx.blockCount + n
        /\ rx.blockCount + (c + n) = tx.blockCount + n => rx.blockCount + c = tx.blockCount
        /\ rx.blockCount + (c + n) <= bs
        /\ rx.blockCount + (c + n) = bs =>
              rx.blockCount + c = tx.blockCount /\ tx.blockCount + n = bs
    BY <1>1, <2>1
  <2>4. CASE to.state = "SEND_CF"
    <3>1. ASSUME rx.blockCount + (c + n) = to.blockCount PROVE Together(to, rx, c + n)
      <4>1. Together(tx, rx, c)
        BY <1>2, <2>1, <2>3, <2>4, <3>1
      <4>2. to.msg = tx.msg /\ to.offset = Least(Len(tx.msg), tx.offset + n * CfMax)
        BY <2>4 DEF Continues
      <4> QED
        BY <1>1, <2>2, <4>1, <4>2, TogetherOn
    <3> QED
      BY <1>2, <2>1, <2>3, <2>4, <3>1 DEF InBlock
  <2>5. CASE to.state /= "SEND_CF"
    <3>1. ASSUME rx.blockCount + (c + n) = bs PROVE Completes(to, rx, c + n, 0, 0)
      <4>1. Together(tx, rx, c)
        BY <2>1, <2>3, <3>1
      <4>2. CASE to.state = "IDLE" /\ Len(tx.msg) <= tx.offset + n * CfMax
        BY <1>1, <2>2, <4>1, <4>2, TogetherDone DEF Completes
      <4>3. CASE /\ to.msg = tx.msg /\ to.offset = Least(Len(tx.msg), tx.offset + n * CfMax)
                 /\ to.state = "WAIT_FC" /\ to.timer = 0
        BY <1>1, <2>2, <4>1, <4>3, TogetherOn DEF Completes
      <4> QED
        BY <2>5, <4>2, <4>3 DEF Continues
    <3> QED
      BY <2>1, <2>3, <2>5, <3>1 DEF InBlock
  <2> QED
    BY <2>4, <2>5
<1>4. c + n \in Nat
  BY <1>1
<1> QED
  BY <1>1, <1>2, <1>3, <1>4 DEF Block

\* What a call makes of a sender that it gives no Flow Control, and the frames it sends.
Advances(tx, to, out) ==
    /\ IsSeq(out) /\ Count(out, "FC") = 0
    /\ \/ out = <<>> /\ to = tx
       \/ /\ Count(out, "CF") = 0 /\ Count(out, "FF") = 0
          /\ tx.state \in {"IDLE", "SEND_FIRST"} /\ to.state \in {"IDLE", "SEND_FIRST"}
       \/ /\ tx.state \in {"IDLE", "SEND_FIRST"}
          /\ to.state = "WAIT_FC" /\ to.timer = 0 /\ to.offset = FfData
          /\ \E f : out = <<f>> /\ f.pci = "FF" /\ f.length = Len(to.msg)
       \/ out = <<>> /\ tx.state = "WAIT_FC" /\ tx.timer /= 0 /\ to.state = "IDLE"
       \/ /\ tx.state = "SEND_CF" /\ Count(out, "CF") \in Nat /\ Count(out, "FF") = 0
          /\ Continues(tx, to, Count(out, "CF"))

LEMMA AheadNone ==
    ASSUME NEW q, IsSeq(q), Count(q, "FF") = 0, NEW tx
    PROVE  Ahead(q, tx)
<1>1. \A j \in 1 .. Len(q) : q[j].pci /= "FF"
  BY CountSome
<1> QED
  BY <1>1 DEF Ahead

\* A sender that is not waiting for a Flow Control has no First Frame on its way.
LEMMA NoFirst ==
    ASSUME NEW tx, NEW rx, NEW c, NEW a, NEW g, NEW bs, Block(tx, rx, c, a, g, bs),
           tx.state /= "WAIT_FC" \/ tx.timer /= 0
    PROVE  a = 0 /\ g = 0
BY DEF Block

\* Between two blocks, or with nothing to send, all senders look alike to the receiver.
LEMMA BlockRests ==
    ASSUME NEW tx, tx.state /= "SEND_CF", tx.state /= "WAIT_FC" \/ tx.timer /= 0,
           NEW rx, NEW bs, NEW c, NEW a, NEW g, Block(tx, rx, c, a, g, bs),
           NEW to, to.state /= "SEND_CF"
    PROVE  /\ a = 0 /\ g = 0 /\ c \in Nat /\ Block(to, rx, c, 0, 0, bs)
           /\ rx.state = "RECEIVING" => rx.blockCount \in Nat /\ rx.blockCount < bs
           /\ rx.state = "RECEIVING" => rx.blockCount + c <= bs
           /\ rx.state = "RECEIVING" /\ rx.blockCount + c = bs => rx.length <= rx.offset + c * CfMax
<1>1. a = 0 /\ g = 0 /\ c \in Nat
  BY NoFirst DEF Block
<1>2. ASSUME rx.state = "RECEIVING"
      PROVE  /\ rx.blockCount \in Nat /\ rx.blockCount < bs /\ rx.blockCount + c <= bs
             /\ rx.blockCount + c = bs => rx.length <= rx.offset + c * CfMax
             /\ InBlock(to, rx, c, 0, 0, bs)
  <2>1. InBlock(tx, rx, c, a, g, bs)
    BY <1>2 DEF Block
  <2>2. /\ rx.blockCount \in Nat /\ rx.blockCount < bs /\ rx.blockCount + c <= bs
        /\ rx.blockCount + c = bs => Completes(tx, rx, c, a, g)
    BY <2>1 DEF InBlock
  <2>3. rx.blockCount + c = bs => rx.length <= rx.offset + c * CfMax
    BY <2>2 DEF Completes
  <2>4. rx.blockCount + c = bs => Completes(to, rx, c, 0, 0)
    BY <2>3 DEF Completes
  <2> QED
    BY <2>2, <2>3, <2>4 DEF InBlock
<1>3. Block(to, rx, c, 0, 0, bs)
  BY <1>1, <1>2 DEF Block
<1> QED
  BY <1>1, <1>2, <1>3

\* The First Frame of a message.
LEMMA BlockFirst ==
    ASSUME NEW tx, tx.state \in {"IDLE", "SEND_FIRST"},
           NEW rx, NEW bs, NEW c, NEW a, NEW g, Block(tx, rx, c, a, g, bs),
           NEW to, to.state = "WAIT_FC", to.timer = 0, to.offset = FfData
    PROVE  a = 0 /\ g = 0 /\ c \in Nat /\ Block(to, rx, c, 1, 0, bs)
<1>1. /\ a = 0 /\ g = 0 /\ c \in Nat
      /\ rx.state = "RECEIVING" => rx.blockCount \in Nat /\ rx.blockCount < bs
      /\ rx.state = "RECEIVING" => rx.blockCount + c <= bs
      /\ rx.state = "RECEIVING" /\ rx.blockCount + c = bs => rx.length <= rx.offset + c * CfMax
  BY BlockRests
<1>2. rx.state = "RECEIVING" => InBlock(to, rx, c, 1, 0, bs)
  BY <1>1 DEF InBlock, Completes
<1> QED
  BY <1>1, <1>2 DEF Block

\* Frames that are neither CF nor FF change nothing for this direction.
LEMMA WayMore ==
    ASSUME NEW q, NEW tx, NEW rx, NEW g, NEW bs, Way(q, tx, rx, g, bs),
           NEW r, IsSeq(r), Count(r, "CF") = 0, Count(r, "FF") = 0
    PROVE  Way(q \o r, tx, rx, g, bs)
<1> DEFINE h == q \o r
<1>1. IsSeq(q) /\ Block(tx, rx, Count(q, "CF"), Count(q, "FF"), g, bs) /\ Ahead(q, tx)
  BY DEF Way
<1>2. /\ IsSeq(h) /\ Len(h) = Len(q) + Len(r)
      /\ \A k \in 1 .. Len(q) : h[k] = q[k]
      /\ \A k \in 1 .. Len(r) : h[Len(q) + k] = r[k]
  BY <1>1, Concatenated
<1>3. Len(q) \in Nat /\ Len(r) \in Nat /\ Count(q, "CF") \in Nat /\ Count(q, "FF") \in Nat
  BY <1>1, Indices, KindFinite
<1>4. Count(h, "CF") = Count(q, "CF") /\ Count(h, "FF") = Count(q, "FF")
  <2>1. /\ Count(h, "CF") = Count(q, "CF") + Count(r, "CF")
        /\ Count(h, "FF") = Count(q, "FF") + Count(r, "FF")
    BY <1>1, CountSum
  <2> QED
    BY <1>3, <2>1
<1> HIDE DEF h
<1>5. \A k \in 1 .. Len(r) : r[k].pci /= "CF" /\ r[k].pci /= "FF"
  BY CountSome
<1>6. \A j \in 1 .. Len(h) : j \in 1 .. Len(q) \/ \E i \in 1 .. Len(r) : j = Len(q) + i
  <2> TAKE j \in 1 .. Len(h)
  <2>1. j \in 1 .. Len(q) \/ (j - Len(q) \in 1 .. Len(r) /\ j = Len(q) + (j - Len(q)))
    BY <1>2, <1>3
  <2> QED
    BY <2>1
<1>7. ASSUME NEW j \in 1 .. Len(h), h[j].pci = "FF"
      PROVE  h[j].length = Len(tx.msg) /\ \A k \in j .. Len(h) : h[k].pci /= "CF"
  <2>1. j \in 1 .. Len(q) /\ h[j] = q[j]
    BY <1>2, <1>5, <1>6, <1>7
  <2>2. q[j].length = Len(tx.msg) /\ \A k \in j .. Len(q) : q[k].pci /= "CF"
    BY <1>1, <1>7, <2>1 DEF Ahead
  <2>3. ASSUME NEW k \in j .. Len(h) PROVE h[k].pci /= "CF"
    <3>1. k \in 1 .. Len(h)
      BY <1>2, <1>3
    <3>2. CASE k \in 1 .. Len(q)
      <4>1. k \in j .. Len(q)
        BY <3>2
      <4> QED
        BY <1>2, <2>2, <3>2, <4>1
    <3>3. CASE \E i \in 1 .. Len(r) : k = Len(q) + i
      BY <1>2, <1>5, <3>3
    <3> QED
      BY <1>6, <3>1, <3>2, <3>3
  <2> QED
    BY <2>1, <2>2, <2>3
<1>8. Ahead(h, tx)
  BY <1>7 DEF Ahead
<1> QED
  BY <1>1, <1>2, <1>4, <1>8 DEF Way, h

LEMMA WayAdvances ==
    ASSUME NEW q, NEW tx, NEW rx, SizedRx(rx), NEW g, NEW bs \in Nat \ {0}, Way(q, tx, rx, g, bs),
           NEW to, NEW out, Advances(tx, to, out)
    PROVE  Way(q \o out, to, rx, g, bs)
<1> DEFINE h == q \o out
           c == Count(q, "CF")
           a == Count(q, "FF")
<1>1. IsSeq(q) /\ Block(tx, rx, c, a, g, bs) /\ Ahead(q, tx) /\ IsSeq(out)
  BY DEF Way, Advances
<1>2. c \in Nat /\ a \in Nat
  BY <1>1, KindFinite
<1>3. IsSeq(h) /\ Count(h, "CF") = c + Count(out, "CF") /\ Count(h, "FF") = a + Count(out, "FF")
  BY <1>1, Concatenated, CountSum
<1> HIDE DEF h, c, a
<1>4. CASE out = <<>> /\ to = tx
  BY <1>1, <1>4, WithNothing DEF h
<1>5. ASSUME a = 0, Count(out, "FF") = 0, Block(to, rx, c + Count(out, "CF"), 0, g, bs)
      PROVE  Way(h, to, rx, g, bs)
  <2>1. Count(h, "FF") = 0
    BY <1>2, <1>3, <1>5
  <2> QED
    BY <1>3, <1>5, <2>1, AheadNone DEF Way
<1>6. CASE /\ Count(out, "CF") = 0 /\ Count(out, "FF") = 0
           /\ tx.state \in {"IDLE", "SEND_FIRST"} /\ to.state \in {"IDLE", "SEND_FIRST"}
  <2>1. a = 0 /\ g = 0 /\ Block(to, rx, c, 0, 0, bs)
    BY <1>1, <1>6, BlockRests
  <2>2. c + Count(out, "CF") = c
    BY <1>2, <1>6
  <2> QED
    BY <1>5, <1>6, <2>1, <2>2 DEF h
<1>7. CASE out = <<>> /\ tx.state = "WAIT_FC" /\ tx.timer /= 0 /\ to.state = "IDLE"
  <2>1. a = 0 /\ g = 0 /\ Block(to, rx, c, 0, 0, bs)
    BY <1>1, <1>7, BlockRests
  <2>2. Count(out, "CF") = 0 /\ Count(out, "FF") = 0
    BY <1>7, CountNothing
  <2>3. c + Count(out, "CF") = c
    BY <1>2, <2>2
  <2> QED
    BY <1>5, <2>1, <2>2, <2>3 DEF h
<1>8. CASE /\ tx.state = "SEND_CF" /\ Count(out, "CF") \in Nat /\ Count(out, "FF") = 0
           /\ Continues(tx, to, Count(out, "CF"))
  <2>1. a = 0 /\ g = 0
    BY <1>1, <1>8, NoFirst
  <2>2. Block(to, rx, c + Count(out, "CF"), a, g, bs)
    BY <1>1, <1>8, BlockContinues
  <2> QED
    BY <1>5, <1>8, <2>1, <2>2 DEF h
<1>9. CASE /\ tx.state \in {"IDLE", "SEND_FIRST"}
           /\ to.state = "WAIT_FC" /\ to.timer = 0 /\ to.offset = FfData
           /\ \E f : out = <<f>> /\ f.pci = "FF" /\ f.length = Len(to.msg)
  <2>1. PICK f : out = <<f>> /\ f.pci = "FF" /\ f.length = Len(to.msg)
    BY <1>9
  <2>2. a = 0 /\ g = 0 /\ Block(to, rx, c, 1, 0, bs)
    BY <1>1, <1>9, BlockFirst
  <2>3. Count(out, "CF") = 0 /\ Count(out, "FF") = 1
    BY <2>1, CountOne
  <2>4. Count(h, "CF") = c /\ Count(h, "FF") = 1
    BY <1>2, <1>3, <2>2, <2>3
  <2>5. Len(out) = 1 /\ out[1] = f
    BY <2>1, OneElement
  <2>6. /\ Len(h) = Len(q) + 1 /\ Len(q) \in Nat
        /\ \A k \in 1 .. Len(q) : h[k] = q[k]
        /\ h[Len(q) + 1] = f
    <3>1. /\ Len(h) = Len(q) + Len(out)
          /\ \A k \in 1 .. Len(q) : h[k] = q[k]
          /\ \A k \in 1 .. Len(out) : h[Len(q) + k] = out[k]
      BY <1>1, Concatenated DEF h
    <3>2. 1 \in 1 .. Len(out)
      BY <2>5
    <3> QED
      BY <1>1, <2>5, <3>1, <3>2, Indices
  <2>7. \A k \in 1 .. Len(q) : q[k].pci /= "FF"
    BY <1>1, <2>2, CountSome DEF a
  <2>8. ASSUME NEW j \in 1 .. Len(h), h[j].pci = "FF"
        PROVE  h[j].length = Len(to.msg) /\ \A k \in j .. Len(h) : h[k].pci /= "CF"
    <3>1. j = Len(q) + 1
      <4>1. j \in 1 .. Len(q) \/ j = Len(q) + 1
        BY <2>6
      <4> QED
        BY <2>6, <2>7, <2>8, <4>1
    <3>2. \A k \in j .. Len(h) : k = Len(q) + 1
      BY <2>6, <3>1
    <3> QED
      BY <2>1, <2>6, <3>1, <3>2
  <2>9. Ahead(h, to)
    BY <2>8 DEF Ahead
  <2> QED
    BY <1>3, <2>2, <2>4, <2>9 DEF Way, h
<1> QED
  BY <1>4, <1>6, <1>7, <1>8, <1>9 DEF Advances, h

LEMMA WayLess ==
    ASSUME NEW q, NEW tx, NEW rx, NEW g, NEW bs \in Nat, Way(q, tx, rx, g, bs), NEW g2 \in Nat, g2 <= g
    PROVE  Way(q, tx, rx, g2, bs)
<1>1. IsSeq(q) /\ Block(tx, rx, Count(q, "CF"), Count(q, "FF"), g, bs) /\ Ahead(q, tx)
  BY DEF Way
<1>2. Count(q, "CF") \in Nat /\ Count(q, "FF") \in Nat
  BY <1>1, KindFinite
<1>3. Block(tx, rx, Count(q, "CF"), Count(q, "FF"), g2, bs)
  BY <1>1, <1>2, BlockLess
<1> QED
  BY <1>1, <1>3 DEF Way

LEMMA AheadRest ==
    ASSUME NEW q, IsSeq(q), q /= <<>>, NEW tx, Ahead(q, tx)
    PROVE  Ahead(Tail(q), tx)
<1> DEFINE t == Tail(q)
<1>1. /\ Len(q) \in Nat \ {0} /\ Len(t) = Len(q) - 1
      /\ \A k \in 1 .. Len(q) - 1 : t[k] = q[k + 1]
  BY Rest
<1> HIDE DEF t
<1>2. ASSUME NEW j \in 1 .. Len(t), t[j].pci = "FF"
      PROVE  t[j].length = Len(tx.msg) /\ \A k \in j .. Len(t) : t[k].pci /= "CF"
  <2>1. j + 1 \in 1 .. Len(q) /\ t[j] = q[j + 1]
    BY <1>1
  <2>2. q[j + 1].length = Len(tx.msg) /\ \A k \in j + 1 .. Len(q) : q[k].pci /= "CF"
    BY <1>2, <2>1 DEF Ahead
  <2>3. \A k \in j .. Len(t) : k + 1 \in j + 1 .. Len(q) /\ t[k] = q[k + 1]
    BY <1>1
  <2> QED
    BY <2>1, <2>2, <2>3
<1> QED
  BY <1>2 DEF Ahead, t

\* The first frame is gone.
LEMMA WayRest ==
    ASSUME NEW q, q /= <<>>, NEW tx, NEW rx, NEW g, NEW bs \in Nat, Way(q, tx, rx, g, bs)
    PROVE  Way(Tail(q), tx, rx, g, bs)
<1> DEFINE t == Tail(q)
<1>1. IsSeq(q) /\ Block(tx, rx, Count(q, "CF"), Count(q, "FF"), g, bs) /\ Ahead(q, tx)
  BY DEF Way
<1>2. IsSeq(t) /\ Ahead(t, tx)
  BY <1>1, Rest, AheadRest
<1>3. /\ Count(q, "CF") = (IF Head(q).pci = "CF" THEN 1 ELSE 0) + Count(t, "CF")
      /\ Count(q, "FF") = (IF Head(q).pci = "FF" THEN 1 ELSE 0) + Count(t, "FF")
  BY <1>1, CountTail
<1> HIDE DEF t
<1>4. /\ Count(q, "CF") \in Nat /\ Count(q, "FF") \in Nat
      /\ Count(t, "CF") \in Nat /\ Count(t, "FF") \in Nat
  BY <1>1, <1>2, KindFinite
<1>5. Count(t, "CF") <= Count(q, "CF") /\ Count(t, "FF") <= Count(q, "FF") /\ g \in Nat /\ g <= g
  BY <1>1, <1>3, <1>4 DEF Block
<1>6. Block(tx, rx, Count(t, "CF"), Count(t, "FF"), g, bs)
  BY <1>1, <1>4, <1>5, BlockLess
<1> QED
  BY <1>2, <1>6 DEF Way, t

\* A frame is lost on the way to the receiver.
LEMMA WayLoss ==
    ASSUME NEW q, NEW tx, NEW rx, NEW g, NEW bs \in Nat, Way(q, tx, rx, g, bs),
           NEW i \in 1 .. Len(q), NEW r, Shorter(q, i, r, "CF"), Shorter(q, i, r, "FF")
    PROVE  Way(r, tx, rx, g, bs)
<1>1. IsSeq(q) /\ Block(tx, rx, Count(q, "CF"), Count(q, "FF"), g, bs) /\ Ahead(q, tx)
  BY DEF Way
<1>2. /\ IsSeq(r) /\ Len(r) = Len(q) - 1
      /\ \A j \in 1 .. Len(r) : r[j] = IF j < i THEN q[j] ELSE q[j + 1]
      /\ Count(q, "CF") = Count(r, "CF") + IF q[i].pci = "CF" THEN 1 ELSE 0
      /\ Count(q, "FF") = Count(r, "FF") + IF q[i].pci = "FF" THEN 1 ELSE 0
  BY DEF Shorter
<1>3. /\ Count(q, "CF") \in Nat /\ Count(q, "FF") \in Nat /\ Len(q) \in Nat /\ i \in Nat
      /\ Count(r, "CF") \in Nat /\ Count(r, "FF") \in Nat
  BY <1>1, <1>2, KindFinite, Indices
<1>4. Count(r, "CF") <= Count(q, "CF") /\ Count(r, "FF") <= Count(q, "FF") /\ g \in Nat /\ g <= g
  BY <1>1, <1>2, <1>3 DEF Block
<1>5. Block(tx, rx, Count(r, "CF"), Count(r, "FF"), g, bs)
  BY <1>1, <1>3, <1>4, BlockLess
<1> DEFINE old(j) == IF j < i THEN j ELSE j + 1
<1>6. \A j \in 1 .. Len(r) : old(j) \in 1 .. Len(q) /\ r[j] = q[old(j)]
  <2>1. \A j \in 1 .. Len(q) - 1 : old(j) \in 1 .. Len(q)
    BY <1>3
  <2> QED
    BY <1>2, <2>1
<1>7. \A j \in 1 .. Len(r) : \A k \in j .. Len(r) : k \in 1 .. Len(r) /\ old(k) \in old(j) .. Len(q)
  <2>1. \A j \in 1 .. Len(q) - 1 : \A k \in j .. Len(q) - 1 : k \in 1 .. Len(q) - 1 /\ old(k) \in old(j) .. Len(q)
    BY <1>3
  <2> QED
    BY <1>2, <2>1
<1> HIDE DEF old
<1>8. ASSUME NEW j \in 1 .. Len(r), r[j].pci = "FF"
      PROVE  r[j].length = Len(tx.msg) /\ \A k \in j .. Len(r) : r[k].pci /= "CF"
  <2>1. q[old(j)].length = Len(tx.msg) /\ \A k \in old(j) .. Len(q) : q[k].pci /= "CF"
    BY <1>1, <1>6, <1>8 DEF Ahead
  <2> QED
    BY <1>6, <1>7, <2>1
<1>9. Ahead(r, tx)
  BY <1>8 DEF Ahead
<1> QED
  BY <1>2, <1>5, <1>9 DEF Way

LEMMA WayIdle ==
    ASSUME NEW q, NEW tx, NEW rx, NEW g, NEW bs, Way(q, tx, rx, g, bs), NEW to, to.state /= "RECEIVING"
    PROVE  Way(q, tx, to, g, bs)
BY BlockIdle DEF Way

\* The receiver takes a First Frame and has a Flow Control to send: nothing else is
\* on its way, in either direction.
LEMMA WayFirst ==
    ASSUME NEW q, q /= <<>>, Head(q).pci = "FF", NEW tx, NEW rx, NEW g, NEW bs \in Nat \ {0},
           Way(q, tx, rx, g, bs),
           NEW to, to.state = "RECEIVING" => /\ to.blockCount = 0 /\ to.length = Head(q).length
                                             /\ to.offset = FfData
    PROVE  g = 0 /\ Way(Tail(q), tx, to, 1, bs)
<1> DEFINE t == Tail(q)
           f == Head(q)
           c == Count(q, "CF")
           a == Count(q, "FF")
<1>1. IsSeq(q) /\ Block(tx, rx, c, a, g, bs) /\ Ahead(q, tx)
  BY DEF Way
<1>2. IsSeq(t) /\ Ahead(t, tx) /\ Len(q) \in Nat \ {0} /\ f = q[1]
  BY <1>1, Rest, AheadRest
<1>3. a = 1 + Count(t, "FF") /\ c = Count(t, "CF")
  <2>1. /\ c = (IF f.pci = "CF" THEN 1 ELSE 0) + Count(t, "CF")
        /\ a = (IF f.pci = "FF" THEN 1 ELSE 0) + Count(t, "FF")
    BY <1>1, CountTail
  <2>2. Count(t, "CF") \in Nat
    BY <1>2, KindFinite
  <2> QED
    BY <2>1, <2>2
<1>4. Count(t, "CF") \in Nat /\ Count(t, "FF") \in Nat
  BY <1>2, KindFinite
<1> HIDE DEF t, c, a, f
<1>5. /\ a = 1 /\ g = 0 /\ Count(t, "FF") = 0
      /\ tx.state = "WAIT_FC" /\ tx.timer = 0 /\ tx.offset = FfData
  <2>1. a \in Nat /\ g \in Nat /\ a + g <= 1
    BY <1>1 DEF Block
  <2>2. a = 1 /\ g = 0 /\ Count(t, "FF") = 0 /\ a + g = 1
    BY <1>3, <1>4, <2>1
  <2> QED
    BY <1>1, <2>2 DEF Block
<1>6. f.length = Len(tx.msg) /\ \A k \in 1 .. Len(q) : q[k].pci /= "CF"
  <2>1. 1 \in 1 .. Len(q) /\ q[1].pci = "FF"
    BY <1>2 DEF f
  <2> QED
    BY <1>1, <1>2, <2>1 DEF Ahead
<1>7. c = 0
  BY <1>6, CountNone DEF c
<1>8. ASSUME to.state = "RECEIVING" PROVE InBlock(tx, to, 0, 0, 1, bs)
  <2>1. to.blockCount = 0 /\ to.length = Len(tx.msg) /\ to.offset = tx.offset
    BY <1>5, <1>6, <1>8 DEF f
  <2>2. 0 < bs /\ 0 + 0 <= bs /\ 0 + 0 /= bs /\ 0 \in Nat /\ tx.state /= "SEND_CF"
    BY <1>5
  <2> QED
    BY <2>1, <2>2 DEF InBlock
<1>9. Block(tx, to, 0, 0, 1, bs)
  BY <1>5, <1>8 DEF Block
<1> QED
  BY <1>2, <1>3, <1>5, <1>7, <1>9 DEF Way, t

\* A CF taken brings the receiver as far as it was to bring it.
LEMMA TogetherTaken ==
    ASSUME NEW rx, NEW c \in Nat \ {0}, rx.length \in Nat, rx.offset \in Nat,
           NEW to, to.length = rx.length, to.offset = rx.offset + CfMax
    PROVE  /\ to.offset + (c - 1) * CfMax = rx.offset + c * CfMax
           /\ \A tx : Together(tx, rx, c) => Together(tx, to, c - 1)
<1>1. PICK d \in Nat : c = d + 1 /\ d = c - 1
  <2>1. c - 1 \in Nat /\ c = (c - 1) + 1
    OBVIOUS
  <2> QED
    BY <2>1
<1>2. d * CfMax \in Nat /\ (d + 1) * CfMax = d * CfMax + CfMax
  <2> DEFINE k == CfMax
  <2>1. k \in Nat
    BY Sizes
  <2> HIDE DEF k
  <2>2. d * k \in Nat /\ (d + 1) * k = d * k + k
    BY <2>1
  <2> QED
    BY <2>2 DEF k
<1> DEFINE x == d * CfMax
<1>3. c * CfMax = x + CfMax /\ (c - 1) * CfMax = x /\ x \in Nat
  BY <1>1, <1>2
<1> HIDE DEF x
<1>4. to.offset + x = rx.offset + (x + CfMax)
  BY <1>3, Sizes
<1>5. to.offset + (c - 1) * CfMax = rx.offset + c * CfMax
  BY <1>3, <1>4
<1> QED
  BY <1>5 DEF Together

\* What a CF of the receiver's block makes of the numbers.
LEMMA CfWay ==
    ASSUME NEW q, q /= <<>>, Head(q).pci = "CF", NEW tx, NEW rx, rx.state = "RECEIVING",
           NEW g, NEW bs \in Nat \ {0}, Way(q, tx, rx, g, bs)
    PROVE  /\ IsSeq(Tail(q)) /\ Ahead(Tail(q), tx) /\ g = 0
           /\ Count(q, "CF") \in Nat \ {0} /\ Count(Tail(q), "CF") = Count(q, "CF") - 1
           /\ Count(Tail(q), "FF") = Count(q, "FF") /\ Count(q, "FF") \in Nat
           /\ Block(tx, rx, Count(q, "CF"), Count(q, "FF"), 0, bs)
<1> DEFINE t == Tail(q)
           c == Count(q, "CF")
           a == Count(q, "FF")
<1>1. IsSeq(q) /\ Block(tx, rx, c, a, g, bs) /\ Ahead(q, tx)
  BY DEF Way
<1>2. IsSeq(t) /\ Ahead(t, tx)
  BY <1>1, Rest, AheadRest
<1>3. Count(t, "CF") \in Nat /\ Count(t, "FF") \in Nat
  BY <1>2, KindFinite
<1>4. c = 1 + Count(t, "CF") /\ a = Count(t, "FF")
  <2>1. /\ c = (IF Head(q).pci = "CF" THEN 1 ELSE 0) + Count(t, "CF")
        /\ a = (IF Head(q).pci = "FF" THEN 1 ELSE 0) + Count(t, "FF")
    BY <1>1, CountTail
  <2> QED
    BY <1>3, <2>1
<1> HIDE DEF t, c, a
<1>5. g = 0
  BY <1>1, <1>3, <1>4 DEF Block
<1> QED
  BY <1>1, <1>2, <1>3, <1>4, <1>5 DEF t, c, a

\* The next CF of a block, and the CF that ends it.
LEMMA WayNext ==
    ASSUME NEW q, q /= <<>>, Head(q).pci = "CF", NEW tx, NEW rx, rx.state = "RECEIVING", SizedRx(rx),
           NEW g, NEW bs \in Nat \ {0}, Way(q, tx, rx, g, bs),
           NEW to, to.state = "RECEIVING", to.length = rx.length, to.offset = rx.offset + CfMax,
           to.blockCount = rx.blockCount + 1, to.blockCount < bs
    PROVE  Way(Tail(q), tx, to, g, bs)
<1> DEFINE c == Count(q, "CF")
           a == Count(q, "FF")
<1>1. /\ IsSeq(Tail(q)) /\ Ahead(Tail(q), tx) /\ g = 0
      /\ c \in Nat \ {0} /\ Count(Tail(q), "CF") = c - 1
      /\ Count(Tail(q), "FF") = a /\ a \in Nat
      /\ Block(tx, rx, c, a, 0, bs)
  BY CfWay
<1> HIDE DEF c, a
<1>2. /\ to.offset + (c - 1) * CfMax = rx.offset + c * CfMax
      /\ Together(tx, rx, c) => Together(tx, to, c - 1)
  BY <1>1, TogetherTaken DEF SizedRx
<1>3. InBlock(tx, rx, c, a, 0, bs)
  BY <1>1 DEF Block
<1>4. rx.blockCount \in Nat /\ to.blockCount \in Nat /\ to.blockCount + (c - 1) = rx.blockCount + c
  BY <1>1, <1>3 DEF InBlock
<1>5. Completes(tx, rx, c, a, 0) => Completes(tx, to, c - 1, a, 0)
  BY <1>2 DEF Completes
<1>6. InBlock(tx, to, c - 1, a, 0, bs)
  BY <1>2, <1>3, <1>4, <1>5 DEF InBlock
<1>7. c - 1 \in Nat
  BY <1>1
<1>8. Block(tx, to, c - 1, a, 0, bs)
  BY <1>1, <1>6, <1>7 DEF Block
<1> QED
  BY <1>1, <1>8 DEF Way

LEMMA WayBlockEnd ==
    ASSUME NEW q, q /= <<>>, Head(q).pci = "CF", NEW tx, NEW rx, rx.state = "RECEIVING", SizedRx(rx),
           NEW g, NEW bs \in Nat \ {0}, Way(q, tx, rx, g, bs),
           NEW to, to.state = "RECEIVING", to.length = rx.length, to.offset = rx.offset + CfMax,
           to.offset < to.length, to.blockCount = 0, ~(rx.blockCount + 1 < bs)
    PROVE  g = 0 /\ Way(Tail(q), tx, to, 1, bs)
<1> DEFINE c == Count(q, "CF")
           a == Count(q, "FF")
<1>1. /\ IsSeq(Tail(q)) /\ Ahead(Tail(q), tx) /\ g = 0
      /\ c \in Nat \ {0} /\ Count(Tail(q), "CF") = c - 1
      /\ Count(Tail(q), "FF") = a /\ a \in Nat
      /\ Block(tx, rx, c, a, 0, bs)
  BY CfWay
<1> HIDE DEF c, a
<1>2. InBlock(tx, rx, c, a, 0, bs) /\ rx.length \in Nat /\ rx.offset \in Nat
  BY <1>1 DEF Block, SizedRx
<1>3. rx.blockCount \in Nat /\ rx.blockCount < bs
  BY <1>2 DEF InBlock
<1>4. rx.blockCount = bs - 1
  BY <1>3
<1>5. tx.state /= "SEND_CF"
  <2> SUFFICES ASSUME tx.state = "SEND_CF" PROVE FALSE
    OBVIOUS
  <2>1. tx.blockCount \in Nat /\ tx.blockCount < bs /\ rx.blockCount + c <= tx.blockCount
    BY <1>1, <1>2 DEF Block, InBlock
  <2> QED
    BY <1>1, <1>4, <2>1
<1>6. /\ rx.blockCount + c <= bs
      /\ rx.blockCount + c = bs => Completes(tx, rx, c, a, 0)
  BY <1>2, <1>5 DEF InBlock
<1>7. c = 1 /\ Completes(tx, rx, 1, a, 0)
  BY <1>1, <1>4, <1>6
<1>8. 1 * CfMax = CfMax /\ CfMax \in Nat
  BY Sizes
<1>9. tx.state = "WAIT_FC" /\ tx.timer = 0 /\ a = 0 /\ Together(tx, rx, 1)
  <2>1. ~(rx.length <= rx.offset + 1 * CfMax)
    BY <1>2, <1>8
  <2> QED
    BY <1>7, <2>1 DEF Completes
<1>10. to.length = Len(tx.msg) /\ to.offset = tx.offset
  <2>1. rx.length = Len(tx.msg) /\ tx.offset = Least(rx.length, rx.offset + CfMax)
    BY <1>8, <1>9 DEF Together
  <2> QED
    BY <1>2, <1>8, <2>1 DEF Least
<1>11. InBlock(tx, to, 0, 0, 1, bs)
  BY <1>5, <1>10 DEF InBlock
<1>12. Block(tx, to, 0, 0, 1, bs)
  BY <1>5, <1>9, <1>11 DEF Block
<1> QED
  BY <1>1, <1>7, <1>9, <1>12 DEF Way

\* What a receiver that grants blocks of bs makes of the frame f: its reception rx
\* becomes to, its pending Flow Control fc becomes fc2, it sends out.
Picks(rx, fc, f, to, fc2, out, bs) ==
    /\ IsSeq(out) /\ Count(out, "CF") = 0 /\ Count(out, "FF") = 0
    /\ \/ /\ to = rx \/ to.state /= "RECEIVING"
          /\ fc2 = fc /\ Count(out, "FC") = 0
       \/ /\ f.pci = "FF" /\ Count(out, "FC") + Pend(fc2) = 1
          /\ to.state = "RECEIVING" => to.blockCount = 0 /\ to.length = f.length /\ to.offset = FfData
       \/ /\ f.pci = "CF" /\ rx.state = "RECEIVING" /\ to.state = "RECEIVING"
          /\ to.length = rx.length /\ to.offset = rx.offset + CfMax /\ to.offset < to.length
          /\ \/ bs = 0
             \/ /\ to.blockCount = rx.blockCount + 1 /\ to.blockCount < bs
                /\ fc2 = fc /\ Count(out, "FC") = 0
             \/ /\ to.blockCount = 0 /\ ~(rx.blockCount + 1 < bs)
                /\ Count(out, "FC") + Pend(fc2) = 1

LEMMA PendIs == ASSUME NEW fc PROVE Pend(fc) \in {0, 1}
BY DEF Pend

LEMMA WayPicks ==
    ASSUME NEW q, q /= <<>>, NEW tx, NEW rx, SizedRx(rx), NEW fc, NEW n \in Nat, NEW bs \in Nat \ {0},
           Way(q, tx, rx, n + Pend(fc), bs),
           NEW to, NEW fc2, NEW out, Picks(rx, fc, Head(q), to, fc2, out, bs)
    PROVE  Way(Tail(q), tx, to, n + (Count(out, "FC") + Pend(fc2)), bs)
<1> DEFINE f == Head(q)
<1>1. CASE (to = rx \/ to.state /= "RECEIVING") /\ fc2 = fc /\ Count(out, "FC") = 0
  <2>1. Count(out, "FC") + Pend(fc2) = Pend(fc)
    BY <1>1, PendIs
  <2>2. Way(Tail(q), tx, rx, n + Pend(fc), bs)
    BY WayRest
  <2>3. Way(Tail(q), tx, to, n + Pend(fc), bs)
    BY <1>1, <2>2, WayIdle
  <2> QED
    BY <2>1, <2>3
<1>2. ASSUME n + Pend(fc) = 0, Way(Tail(q), tx, to, 1, bs), Count(out, "FC") + Pend(fc2) = 1
      PROVE  Way(Tail(q), tx, to, n + (Count(out, "FC") + Pend(fc2)), bs)
  <2>1. n = 0
    BY <1>2, PendIs
  <2> QED
    BY <1>2, <2>1
<1>3. CASE /\ f.pci = "FF" /\ Count(out, "FC") + Pend(fc2) = 1
           /\ to.state = "RECEIVING" => to.blockCount = 0 /\ to.length = f.length /\ to.offset = FfData
  <2>1. n + Pend(fc) = 0 /\ Way(Tail(q), tx, to, 1, bs)
    BY <1>3, WayFirst
  <2> QED
    BY <1>2, <1>3, <2>1
<1>4. CASE /\ f.pci = "CF" /\ rx.state = "RECEIVING" /\ to.state = "RECEIVING"
           /\ to.length = rx.length /\ to.offset = rx.offset + CfMax /\ to.offset < to.length
           /\ to.blockCount = rx.blockCount + 1 /\ to.blockCount < bs
           /\ fc2 = fc /\ Count(out, "FC") = 0
  <2>1. Way(Tail(q), tx, to, n + Pend(fc), bs)
    BY <1>4, WayNext
  <2>2. Count(out, "FC") + Pend(fc2) = Pend(fc)
    BY <1>4, PendIs
  <2> QED
    BY <2>1, <2>2
<1>5. CASE /\ f.pci = "CF" /\ rx.state = "RECEIVING" /\ to.state = "RECEIVING"
           /\ to.length = rx.length /\ to.offset = rx.offset + CfMax /\ to.offset < to.length
           /\ to.blockCount = 0 /\ ~(rx.blockCount + 1 < bs)
           /\ Count(out, "FC") + Pend(fc2) = 1
  <2>1. n + Pend(fc) = 0 /\ Way(Tail(q), tx, to, 1, bs)
    BY <1>5, WayBlockEnd
  <2> QED
    BY <1>2, <1>5, <2>1
<1> QED
  BY <1>1, <1>3, <1>4, <1>5 DEF Picks

\* What the Flow Control f makes of a sender, and the CFs it sends at once.
Grants(tx, f, to, out) ==
    \/ IsSeq(out) /\ out = <<>> /\ (to = tx \/ to.state /= "SEND_CF")
    \/ \E t : /\ t.state = "SEND_CF" /\ t.blockSize = f.bs /\ t.blockCount = 0
              /\ t.msg = tx.msg /\ t.offset = tx.offset
              /\ Advances(t, to, out)

LEMMA WayGrants ==
    ASSUME NEW q, NEW tx, NEW rx, SizedRx(rx), NEW bs \in Nat \ {0}, NEW n \in Nat,
           Way(q, tx, rx, n + 1, bs), NEW f, f.bs = bs, NEW to, NEW out, Grants(tx, f, to, out)
    PROVE  Way(q \o out, to, rx, n, bs)
<1> DEFINE c == Count(q, "CF")
           a == Count(q, "FF")
<1>1. IsSeq(q) /\ Block(tx, rx, c, a, n + 1, bs)
  BY DEF Way
<1> HIDE DEF c, a
<1>2. /\ n = 0 /\ a = 0 /\ c = 0 /\ tx.state = "WAIT_FC"
      /\ rx.state = "RECEIVING" => /\ rx.blockCount = 0 /\ rx.length = Len(tx.msg)
                                   /\ rx.offset = tx.offset
  <2>1. a \in Nat /\ c \in Nat /\ a + (n + 1) <= 1
    BY <1>1 DEF Block
  <2>2. n = 0 /\ a = 0 /\ n + 1 = 1 /\ a + (n + 1) = 1
    BY <2>1
  <2>3. c = 0 /\ tx.state = "WAIT_FC"
    BY <1>1, <2>2 DEF Block
  <2>4. rx.state = "RECEIVING" => InBlock(tx, rx, c, a, n + 1, bs)
    BY <1>1 DEF Block
  <2> QED
    BY <2>2, <2>3, <2>4 DEF InBlock
<1>3. \A u : Ahead(q, u)
  BY <1>1, <1>2, AheadNone DEF a
<1>4. ASSUME NEW u, u.state /= "SEND_CF" PROVE Way(q, u, rx, 0, bs)
  <2>1. rx.state = "RECEIVING" => InBlock(u, rx, 0, 0, 0, bs)
    BY <1>2, <1>4 DEF InBlock
  <2>2. Block(u, rx, 0, 0, 0, bs)
    BY <1>4, <2>1 DEF Block
  <2> QED
    BY <1>1, <1>2, <1>3, <2>2 DEF Way, c, a
<1>5. CASE IsSeq(out) /\ out = <<>> /\ (to = tx \/ to.state /= "SEND_CF")
  <2>1. to.state /= "SEND_CF"
    BY <1>2, <1>5
  <2>2. q \o out = q
    BY <1>1, <1>5, WithNothing
  <2> QED
    BY <1>2, <1>4, <2>1, <2>2
<1>6. ASSUME NEW t, t.state = "SEND_CF", t.blockSize = f.bs, t.blockCount = 0,
             t.msg = tx.msg, t.offset = tx.offset, Advances(t, to, out)
      PROVE  Way(q \o out, to, rx, n, bs)
  <2>1. rx.state = "RECEIVING" => Together(t, rx, 0)
    <3> SUFFICES ASSUME rx.state = "RECEIVING" PROVE Together(t, rx, 0)
      OBVIOUS
    <3>1. 0 * CfMax = 0
      BY Sizes
    <3>2. rx.length \in Nat /\ rx.offset \in Nat /\ rx.offset < rx.length
      BY DEF SizedRx
    <3>3. t.offset = Least(rx.length, rx.offset + 0 * CfMax)
      BY <1>2, <1>6, <3>1, <3>2 DEF Least
    <3> QED
      BY <1>2, <1>6, <3>3 DEF Together
  <2>2. rx.state = "RECEIVING" => InBlock(t, rx, 0, 0, 0, bs)
    BY <1>2, <1>6, <2>1 DEF InBlock
  <2>3. Block(t, rx, 0, 0, 0, bs)
    BY <1>6, <2>2 DEF Block
  <2>4. Way(q, t, rx, 0, bs)
    BY <1>1, <1>2, <1>3, <2>3 DEF Way, c, a
  <2> QED
    BY <1>2, <1>6, <2>4, WayAdvances
<1> QED
  BY <1>5, <1>6 DEF Grants

-----------------------------------------------------------------------------
(* What the calls make of one direction: the sender.                       *)

\* The Flow Control that the receiver owes stays owed.
LEMMA PendingKept ==
    ASSUME NEW l, LinkOK(l), NEW tx, NEW m, m = [l EXCEPT !.tx = tx]
    PROVE  m.fcPending = l.fcPending
BY DEF LinkOK

LEMMA FinishKeeps ==
    ASSUME NEW l, LinkOK(l), NEW result, NEW o, o = TxFinish(l, result)
    PROVE  o.link.fcPending = l.fcPending
<1> DEFINE m == [l EXCEPT !.tx = IdleTx]
<1>1. o.link = m
  BY DEF TxFinish, Unchanged
<1>2. m.fcPending = l.fcPending
  BY PendingKept
<1> HIDE DEF m
<1> QED
  BY <1>1, <1>2

\* The call leaves the receiver's dues alone and brings the sender on.
Leads(l, o) == o.link.fcPending = l.fcPending /\ Advances(l.tx, o.link.tx, o.out)

LEMMA StaysLeads == ASSUME NEW l PROVE Leads(l, Unchanged(l))
<1> DEFINE o == Unchanged(l)
<1>1. o.link = l /\ o.out = <<>>
  BY DEF Unchanged
<1> HIDE DEF o
<1>2. IsSeq(o.out) /\ Count(o.out, "FC") = 0
  BY <1>1, NoElement, CountNothing
<1> QED
  BY <1>1, <1>2 DEF Leads, Advances, o

\* Nothing, a Single Frame or a First Frame.
LEMMA FirstLeads ==
    ASSUME NEW l, LinkOK(l), l.tx.state = "SEND_FIRST", NEW accepted \in BOOLEAN
    PROVE  Leads(l, TxSendFirst(l, accepted))
<1> DEFINE msg == l.tx.msg
           o == TxSendFirst(l, accepted)
<1>1. CASE ~accepted
  <2>1. o = Unchanged(l)
    BY <1>1 DEF TxSendFirst
  <2> QED
    BY <2>1, StaysLeads
<1>2. CASE accepted /\ Len(msg) <= SfMax
  <2> DEFINE p == TxFinish(l, "OK")
             f == SingleFrame(msg)
  <2>1. o = [p EXCEPT !.out = <<f>>]
    BY <1>2 DEF TxSendFirst
  <2>2. /\ DOMAIN p = {"link", "out", "ind", "conf"}
        /\ p.link.tx = IdleTx /\ p.link.fcPending = l.fcPending
    BY FinishLink, FinishKeeps
  <2>3. f.pci = "SF"
    BY DEF SingleFrame
  <2> HIDE DEF p, f, o
  <2>4. o.link = p.link /\ o.out = <<f>>
    BY <2>1, <2>2
  <2>5. IsSeq(o.out) /\ Count(o.out, "FC") = 0 /\ Count(o.out, "CF") = 0 /\ Count(o.out, "FF") = 0
    BY <2>3, <2>4, OneElement, CountOne
  <2>6. o.link.tx.state = "IDLE"
    BY <2>2, <2>4, IdleOK
  <2> QED
    BY <2>2, <2>4, <2>5, <2>6 DEF Leads, Advances, o
<1>3. CASE accepted /\ ~(Len(msg) <= SfMax)
  <2> DEFINE tx == [l.tx EXCEPT !.offset = FfData, !.seq = 1, !.waitCount = 0,
                                !.state = "WAIT_FC", !.timer = 0]
             m == [l EXCEPT !.tx = tx]
             f == FirstFrame(msg)
  <2>1. o.link = m /\ o.out = <<f>>
    <3> DEFINE k == [l EXCEPT !.tx.offset = FfData, !.tx.seq = 1, !.tx.waitCount = 0,
                              !.tx.state = "WAIT_FC", !.tx.timer = 0]
    <3>1. o.link = k /\ o.out = <<f>>
      BY <1>3 DEF TxSendFirst, Unchanged
    <3>2. k = m
      <4>1. DOMAIN l = {"tx", "rx", "fcPending"}
        BY DEF LinkOK
      <4> QED
        BY <4>1, ZenonT(30)
    <3> QED
      BY <3>1, <3>2
  <2>2. tx.state = "WAIT_FC" /\ tx.msg = msg /\ tx.offset = FfData /\ tx.timer = 0
    BY DEF LinkOK, TxOK, TxFields
  <2>3. f.pci = "FF" /\ f.length = Len(msg)
    BY DEF FirstFrame
  <2> HIDE DEF tx, f
  <2>4. m.tx = tx /\ m.fcPending = l.fcPending
    BY PendingKept DEF LinkOK
  <2> HIDE DEF m, o, msg
  <2>5. IsSeq(o.out) /\ Count(o.out, "FC") = 0
    BY <2>1, <2>3, OneElement, CountOne
  <2>6. \E x : o.out = <<x>> /\ x.pci = "FF" /\ x.length = Len(o.link.tx.msg)
    BY <2>1, <2>2, <2>3, <2>4
  <2> QED
    BY <2>1, <2>2, <2>4, <2>5, <2>6 DEF Leads, Advances, o
<1> QED
  BY <1>1, <1>2, <1>3

\* Consecutive Frames, to the end of the block or of the message or as far as the
\* driver and STmin let them go.
LEMMA CfsLead ==
    ASSUME NEW l, LinkOK(l), l.tx.state = "SEND_CF", NEW room \in Nat,
           Len(l.tx.msg) \in Nat, l.tx.offset \in Nat, l.tx.offset < Len(l.tx.msg)
    PROVE  Leads(l, TxSendConsecutiveFrames(l, room))
<1> DEFINE tx == l.tx
           len == Len(tx.msg)
           n  == CfsNow(tx, room)
           frames == [k \in 1 .. n |-> ConsecutiveFrame((tx.seq + k - 1) % SeqMod, CfChunk(tx, k))]
           next == [tx EXCEPT !.offset = Least(Len(tx.msg), @ + n * CfMax),
                              !.seq = (@ + n) % SeqMod,
                              !.lastCf = IF n = 0 THEN @ ELSE 0,
                              !.blockCount = IF tx.blockSize = 0 THEN @ ELSE @ + n]
           blockDone == tx.blockSize /= 0 /\ n > 0 /\ next.blockCount >= tx.blockSize
           waiting == [next EXCEPT !.state = "WAIT_FC", !.timer = 0]
           o == TxSendConsecutiveFrames(l, room)
           p == TxFinish(l, "OK")
           off == Least(len, tx.offset + n * CfMax)
<1>1. TxOK(tx) /\ len \in Nat /\ tx.offset \in Nat /\ tx.offset < len
  BY DEF LinkOK
<1>2. /\ n \in Nat
      /\ (tx.blockSize /= 0 => tx.blockCount + n <= tx.blockSize)
  BY <1>1, CfsLeftBounds, CfsNowBounds
<1>3. IsSeq(frames) /\ Len(frames) = n /\ \A k \in 1 .. n : frames[k].pci = "CF"
  <2> DEFINE g(k) == ConsecutiveFrame((tx.seq + k - 1) % SeqMod, CfChunk(tx, k))
             F == {g(k) : k \in 1 .. n}
  <2>1. \A k \in 1 .. n : g(k) \in F
    OBVIOUS
  <2>2. \A k \in 1 .. n : g(k).pci = "CF"
    BY DEF ConsecutiveFrame
  <2>3. frames = [k \in 1 .. n |-> g(k)]
    OBVIOUS
  <2> HIDE DEF g, n, F, frames
  <2>4. frames \in Seq(F) /\ Len(frames) = n
    BY <1>2, <2>1, <2>3
  <2>5. \A k \in 1 .. n : frames[k] = g(k)
    BY <2>3
  <2> QED
    BY <2>2, <2>4, <2>5 DEF IsSeq
<1>4. o = [(CASE next.offset >= Len(tx.msg) -> p
             [] next.offset < Len(tx.msg) /\ blockDone -> Unchanged([l EXCEPT !.tx = waiting])
             [] OTHER -> Unchanged([l EXCEPT !.tx = next])) EXCEPT !.out = frames]
  BY DEF TxSendConsecutiveFrames
<1> HIDE DEF n, frames, o, p
<1>5. /\ DOMAIN next = TxFields /\ next.state = "SEND_CF" /\ next.msg = tx.msg
      /\ next.offset = off
      /\ next.blockSize = tx.blockSize
      /\ next.blockCount = IF tx.blockSize = 0 THEN tx.blockCount ELSE tx.blockCount + n
  BY <1>1 DEF TxOK, TxFields
<1>6. /\ Count(frames, "CF") = n /\ Count(frames, "FF") = 0 /\ Count(frames, "FC") = 0
      /\ IsSeq(frames)
  BY <1>3, CountAll, CountNone
<1>7. n * CfMax \in Nat /\ off \in Nat /\ tx.blockSize \in Nat /\ tx.blockCount \in Nat
      /\ (off < len \/ off = len)
      /\ (off >= len => len <= tx.offset + n * CfMax)
      /\ (tx.blockSize = 0 \/ tx.blockCount < tx.blockSize)
  <2> DEFINE x == n * CfMax
  <2>1. x \in Nat
    BY <1>2, Sizes, Product
  <2> HIDE DEF x, len
  <2>2. Least(len, tx.offset + x) \in Nat /\ Least(len, tx.offset + x) <= len
        /\ (Least(len, tx.offset + x) >= len => len <= tx.offset + x)
    BY <1>1, <2>1 DEF Least
  <2>3. Least(len, tx.offset + x) < len \/ Least(len, tx.offset + x) = len
    BY <1>1, <2>2
  <2> QED
    BY <1>1, <2>1, <2>2, <2>3 DEF x, TxOK
<1> HIDE DEF next, off
<1>8. ASSUME NEW to, Continues(tx, to, n), o.link.tx = to, o.link.fcPending = l.fcPending,
             o.out = frames
      PROVE  Leads(l, o)
  BY <1>2, <1>6, <1>8 DEF Leads, Advances
<1>9. CASE next.offset >= Len(tx.msg)
  <2>1. o = [p EXCEPT !.out = frames]
    BY <1>4, <1>5, <1>7, <1>9
  <2>2. /\ DOMAIN p = {"link", "out", "ind", "conf"}
        /\ p.link.tx = IdleTx /\ p.link.fcPending = l.fcPending
    BY FinishLink, FinishKeeps DEF p
  <2>3. o.link = p.link /\ o.out = frames
    BY <2>1, <2>2
  <2>4. Continues(tx, IdleTx, n)
    BY <1>2, <1>5, <1>7, <1>9, IdleOK DEF Continues
  <2> QED
    BY <1>8, <2>2, <2>3, <2>4 DEF o
<1>10. ASSUME NEW t, Continues(tx, t, n),
              o = [Unchanged([l EXCEPT !.tx = t]) EXCEPT !.out = frames]
       PROVE  Leads(l, o)
  <2> DEFINE m == [l EXCEPT !.tx = t]
  <2>1. m.tx = t /\ m.fcPending = l.fcPending
    BY PendingKept DEF LinkOK
  <2> HIDE DEF m
  <2>2. o.link = m /\ o.out = frames
    BY <1>10 DEF Unchanged, m
  <2> QED
    BY <1>8, <1>10, <2>1, <2>2
<1>11. CASE ~(next.offset >= Len(tx.msg)) /\ blockDone
  <2>1. Continues(tx, waiting, n)
    <3>1. /\ waiting.state = "WAIT_FC" /\ waiting.timer = 0
          /\ waiting.msg = next.msg /\ waiting.offset = next.offset
      BY <1>5 DEF TxFields
    <3>2. tx.blockSize /= 0 /\ tx.blockCount + n >= tx.blockSize
      BY <1>5, <1>11
    <3> HIDE DEF waiting
    <3> QED
      BY <1>2, <1>5, <3>1, <3>2 DEF Continues, off
  <2>2. next.offset < Len(tx.msg)
    BY <1>5, <1>7, <1>11
  <2> HIDE DEF blockDone, waiting
  <2>3. o = [Unchanged([l EXCEPT !.tx = waiting]) EXCEPT !.out = frames]
    BY <1>4, <1>11, <2>2
  <2> QED
    BY <1>10, <2>1, <2>3 DEF o
<1>12. CASE ~(next.offset >= Len(tx.msg)) /\ ~blockDone
  <2>1. tx.blockSize /= 0 => next.blockCount < tx.blockSize
    <3>1. CASE n = 0
      BY <1>5, <1>7, <3>1
    <3>2. CASE n /= 0
      BY <1>2, <1>5, <1>7, <1>12, <3>2
    <3> QED
      BY <3>1, <3>2
  <2>2. Continues(tx, next, n)
    BY <1>2, <1>5, <2>1 DEF Continues, off
  <2> HIDE DEF blockDone, waiting
  <2>3. o = [Unchanged([l EXCEPT !.tx = next]) EXCEPT !.out = frames]
    BY <1>4, <1>12
  <2> QED
    BY <1>10, <2>2, <2>3 DEF o
<1> QED
  BY <1>9, <1>11, <1>12 DEF o

LEMMA SenderLeads ==
    ASSUME NEW l, LinkOK(l), NEW room \in Nat,
           Mid(l.tx) => Len(l.tx.msg) \in Nat /\ l.tx.offset \in Nat /\ l.tx.offset < Len(l.tx.msg)
    PROVE  Leads(l, MainSender(l, room))
<1>1. ASSUME NEW r, l.tx.timer >= NBs, l.tx.state \in {"SEND_FIRST", "WAIT_FC"}
      PROVE  Leads(l, TxFinish(l, r))
  <2> DEFINE o == TxFinish(l, r)
  <2>1. o.link.tx = IdleTx /\ o.out = <<>> /\ o.link.fcPending = l.fcPending
    BY FinishLink, FinishKeeps
  <2> HIDE DEF o
  <2>2. /\ IsSeq(o.out) /\ Count(o.out, "FC") = 0 /\ Count(o.out, "CF") = 0
        /\ Count(o.out, "FF") = 0
    BY <2>1, NoElement, CountNothing
  <2>3. l.tx.timer /= 0
    BY <1>1, TimeoutAssumption
  <2>4. o.link.tx.state = "IDLE"
    BY <2>1, IdleOK
  <2> QED
    BY <1>1, <2>1, <2>2, <2>3, <2>4 DEF Leads, Advances, o
<1>2. CASE l.tx.state = "SEND_FIRST"
  <2> DEFINE accepted == room > 0
  <2>1. accepted \in BOOLEAN
    OBVIOUS
  <2> HIDE DEF accepted
  <2>2. Leads(l, TxSendFirst(l, accepted))
    BY <1>2, <2>1, FirstLeads
  <2>3. \/ MainSender(l, room) = TxSendFirst(l, accepted)
        \/ l.tx.timer >= NBs /\ MainSender(l, room) = TxFinish(l, "ERR_TIMEOUT_BS")
    BY <1>2 DEF MainSender, accepted
  <2> QED
    BY <1>1, <1>2, <2>2, <2>3
<1>3. CASE l.tx.state = "WAIT_FC"
  BY <1>1, <1>3, StaysLeads DEF MainSender
<1>4. CASE l.tx.state = "SEND_CF"
  BY <1>4, CfsLead DEF MainSender, Mid
<1>5. CASE l.tx.state = "IDLE"
  BY <1>5, StaysLeads DEF MainSender
<1> QED
  BY <1>2, <1>3, <1>4, <1>5 DEF LinkOK, TxOK

LEMMA TransmitLeads ==
    ASSUME NEW l, LinkOK(l), l.tx.state = "IDLE", NEW msg, NEW room \in Nat
    PROVE  Leads(l, Transmit(l, msg, room))
<1> DEFINE tx == [IdleTx EXCEPT !.msg = msg, !.state = "SEND_FIRST"]
           m == [l EXCEPT !.tx = tx]
           accepted == room > 0
           o == Transmit(l, msg, room)
<1>1. TxOK(tx) /\ tx.state = "SEND_FIRST"
  BY DEF IdleTx, TxOK, TxFields
<1> HIDE DEF tx
<1>2. LinkOK(m) /\ m.tx = tx /\ m.fcPending = l.fcPending
  BY <1>1, NewTx, PendingKept
<1>3. o = TxSendFirst(m, accepted)
  BY DEF Transmit, tx
<1> HIDE DEF m, o
<1>4. accepted \in BOOLEAN
  OBVIOUS
<1> HIDE DEF accepted
<1>5. Leads(m, o)
  BY <1>1, <1>2, <1>3, <1>4, FirstLeads
<1>6. o.link.fcPending = l.fcPending /\ Advances(tx, o.link.tx, o.out)
  BY <1>2, <1>5 DEF Leads
<1>7. CASE o.out = <<>> /\ o.link.tx = tx
  <2>1. Count(o.out, "CF") = 0 /\ Count(o.out, "FF") = 0
    BY <1>7, CountNothing
  <2> QED
    BY <1>1, <1>6, <1>7, <2>1 DEF Leads, Advances, o
<1>8. CASE ~(o.out = <<>> /\ o.link.tx = tx)
  BY <1>1, <1>6, <1>8 DEF Leads, Advances, o
<1> QED
  BY <1>7, <1>8

\* The answer to a First Frame or the end of a block.
LEMMA FlowControlGrants ==
    ASSUME NEW l, LinkOK(l), NEW f, IsFc(f), NEW room \in Nat,
           Mid(l.tx) => Len(l.tx.msg) \in Nat /\ l.tx.offset \in Nat /\ l.tx.offset < Len(l.tx.msg),
           NEW o, o = TxOnFlowControl(l, f, room)
    PROVE  o.link.fcPending = l.fcPending /\ Grants(l.tx, f, o.link.tx, o.out)
<1>1. f.dlc >= 3 /\ ~(f.dlc < 3) /\ f.bs \in Nat
  BY Sizes DEF IsFc
<1>2. CASE l.tx.state /= "WAIT_FC"
  <2>1. o = Unchanged(l)
    BY <1>2 DEF TxOnFlowControl
  <2>2. o.link = l /\ o.out = <<>>
    BY <2>1 DEF Unchanged
  <2> QED
    BY <2>2, NoElement DEF Grants
<1>3. ASSUME NEW r, o = TxFinish(l, r)
      PROVE  o.link.fcPending = l.fcPending /\ Grants(l.tx, f, o.link.tx, o.out)
  <2>1. o.link.tx.state = "IDLE" /\ o.out = <<>> /\ o.link.fcPending = l.fcPending
    BY <1>3, FinishLink, FinishKeeps, IdleOK
  <2> QED
    BY <2>1, NoElement DEF Grants
<1>4. CASE l.tx.state = "WAIT_FC" /\ f.status = "CTS"
  <2> DEFINE st == DecodeStMin(f.stMin)
             tx == [l.tx EXCEPT !.blockSize = f.bs, !.blockCount = 0, !.waitCount = 0, !.stMin = st,
                                !.lastCf = st + 1, !.timer = 0, !.state = "SEND_CF"]
             m == [l EXCEPT !.tx = tx]
  <2>1. o = TxSendConsecutiveFrames(m, room)
    <3> DEFINE k == [l EXCEPT !.tx.blockSize = f.bs, !.tx.blockCount = 0, !.tx.waitCount = 0,
                              !.tx.stMin = st, !.tx.lastCf = st + 1, !.tx.timer = 0,
                              !.tx.state = "SEND_CF"]
    <3>1. o = TxSendConsecutiveFrames(k, room)
      BY <1>1, <1>4 DEF TxOnFlowControl
    <3> HIDE DEF st
    <3>2. k = m
      <4>1. DOMAIN l = {"tx", "rx", "fcPending"}
        BY DEF LinkOK
      <4> QED
        BY <4>1, ZenonT(30)
    <3> QED
      BY <3>1, <3>2
  <2> HIDE DEF st
  <2>2. /\ DOMAIN tx = TxFields /\ tx.state = "SEND_CF" /\ tx.msg = l.tx.msg
        /\ tx.offset = l.tx.offset /\ tx.blockSize = f.bs /\ tx.blockCount = 0
    BY DEF LinkOK, TxOK, TxFields
  <2> HIDE DEF tx
  <2>3. TxOK(tx)
    BY <1>1, <2>2 DEF TxOK
  <2>4. LinkOK(m) /\ m.tx = tx /\ m.fcPending = l.fcPending
    BY <2>3, NewTx, PendingKept
  <2>5. Len(tx.msg) \in Nat /\ tx.offset \in Nat /\ tx.offset < Len(tx.msg)
    BY <1>4, <2>2 DEF Mid
  <2> HIDE DEF m
  <2>6. Leads(m, o)
    BY <2>1, <2>2, <2>4, <2>5, CfsLead
  <2> QED
    BY <2>2, <2>4, <2>6 DEF Leads, Grants
<1>5. CASE l.tx.state = "WAIT_FC" /\ f.status = "WAIT"
  <2>1. o = TxOnWait(l)
    BY <1>1, <1>5 DEF TxOnFlowControl
  <2>2. CASE l.tx.waitCount + 1 > MaxWft
    BY <1>3, <2>1, <2>2 DEF TxOnWait
  <2>3. CASE ~(l.tx.waitCount + 1 > MaxWft)
    <3> DEFINE m == [l EXCEPT !.tx.waitCount = @ + 1, !.tx.timer = 0]
    <3>1. o.link = m /\ o.out = <<>>
      BY <2>1, <2>3 DEF TxOnWait, Unchanged
    <3>2. m.fcPending = l.fcPending /\ m.tx.state = "WAIT_FC"
      BY <1>5 DEF LinkOK, TxOK, TxFields
    <3> HIDE DEF m
    <3> QED
      BY <3>1, <3>2, NoElement DEF Grants
  <2> QED
    BY <2>2, <2>3
<1>6. CASE l.tx.state = "WAIT_FC" /\ f.status \notin {"CTS", "WAIT"}
  <2>1. \E r : o = TxFinish(l, r)
    BY <1>1, <1>6 DEF TxOnFlowControl
  <2> QED
    BY <1>3, <2>1
<1> QED
  BY <1>2, <1>4, <1>5, <1>6

-----------------------------------------------------------------------------
(* Types, whatever is lost.                                                *)

\* A request, or the beginning of one, tells its number.
Named(s, m) == s = "tester" => IdOf(m) \in 1 .. Len(Requests)

Good(s, m) == IsSeq(m) /\ Len(m) > 0 /\ Named(s, m)

\* The sender of side s.
Sender(s, tx) ==
    tx.state /= "IDLE" =>
        /\ Good(s, tx.msg)
        /\ Mid(tx) => tx.offset \in Nat /\ tx.offset < Len(tx.msg)

\* A frame of side s, which grants blocks of bs.
Carries(s, bs, f) ==
    /\ f.dlc = CanDl
    /\ \/ /\ f.pci = "SF" /\ f.length \in Nat \ {0} /\ f.length <= SfMax
          /\ IsSeq(f.data) /\ Len(f.data) = SfMax /\ Named(s, f.data)
       \/ /\ f.pci = "FF" /\ f.length \in Nat /\ f.length > SfMax
          /\ IsSeq(f.data) /\ Len(f.data) = FfData /\ Named(s, f.data)
       \/ f.pci = "CF" /\ IsSeq(f.data) /\ Len(f.data) = CfMax
       \/ IsFc(f) /\ f.bs = bs

Carried(s, bs, q) == IsSeq(q) /\ \A k \in 1 .. Len(q) : Carries(s, bs, q[k])

LEMMA FitsCarries ==
    ASSUME NEW s, NEW bs, NEW m, Good(s, m), NEW S, S = <<m>>, NEW a \in Position, NEW b \in Position,
           NEW f, f.pci /= "FC", Fits(f, S, a, b)
    PROVE  Carries(s, bs, f)
<1> DEFINE n == Len(m)
<1>1. Len(S) = 1 /\ S[1] = m
  BY OneElement
<1>2. /\ IsSeq(m) /\ n \in Nat \ {0} /\ a.begun \in Nat /\ b.begun \in Nat
      /\ a.out \in Nat /\ b.out \in Nat
  BY Indices DEF Good, Position
<1>3. ASSUME NEW data, data[1] = m[1] PROVE Named(s, data)
  BY <1>3 DEF Good, Named, IdOf
<1>4. CASE f = SingleFrame(S[b.begun]) /\ Len(S[b.begun]) <= SfMax /\ a.begun < b.begun /\ b.begun <= Len(S)
  <2>1. b.begun = 1
    BY <1>1, <1>2, <1>4
  <2>2. f = SingleFrame(m) /\ n <= SfMax
    BY <1>1, <1>4, <2>1
  <2>3. f.pci = "SF" /\ f.dlc = CanDl /\ f.length = n /\ f.data = Padded(m, SfMax)
    BY <2>2 DEF SingleFrame
  <2>4. IsSeq(Padded(m, SfMax)) /\ Len(Padded(m, SfMax)) = SfMax
    BY <1>2, <2>2, PaddedBytes, Sizes
  <2>5. Padded(m, SfMax)[1] = m[1]
    <3>1. 1 \in 1 .. SfMax /\ 1 <= n
      BY <1>2, Sizes
    <3> QED
      BY <3>1 DEF Padded
  <2> QED
    BY <1>2, <1>3, <2>2, <2>3, <2>4, <2>5 DEF Carries
<1>5. CASE f = FirstFrame(S[b.begun]) /\ Len(S[b.begun]) > SfMax /\ a.begun < b.begun /\ b.begun <= Len(S)
  <2>1. b.begun = 1
    BY <1>1, <1>2, <1>5
  <2>2. f = FirstFrame(m) /\ n > SfMax
    BY <1>1, <1>5, <2>1
  <2> DEFINE d == SubSeq(m, 1, FfData)
  <2>3. f.pci = "FF" /\ f.dlc = CanDl /\ f.length = n /\ f.data = d
    BY <2>2 DEF FirstFrame
  <2>4. IsSeq(d) /\ Len(d) = FfData + 1 - 1 /\ \A k \in 1 .. FfData + 1 - 1 : d[k] = m[1 + k - 1]
    <3>1. 1 \in Nat \ {0} /\ FfData \in Nat /\ FfData <= Len(m) /\ 1 <= FfData + 1
      BY <1>2, <2>2, Sizes
    <3> QED
      BY <1>2, <3>1, Part
  <2> HIDE DEF d
  <2>5. Len(d) = FfData /\ d[1] = m[1]
    <3>1. FfData + 1 - 1 = FfData /\ 1 \in 1 .. FfData + 1 - 1 /\ 1 + 1 - 1 = 1
      BY Sizes
    <3> QED
      BY <2>4, <3>1
  <2> QED
    BY <1>2, <1>3, <2>2, <2>3, <2>4, <2>5 DEF Carries
<1>6. CASE /\ f.pci = "CF" /\ f.dlc = CanDl
           /\ f.data = Padded(SubSeq(S[a.begun], a.out + 1, b.out), CfMax)
           /\ a.begun \in 1 .. Len(S) /\ b.begun = a.begun
           /\ a.out < Len(S[a.begun]) /\ b.out = Least(Len(S[a.begun]), a.out + CfMax)
  <2>1. a.begun = 1
    BY <1>1, <1>2, <1>6
  <2> DEFINE d == SubSeq(m, a.out + 1, b.out)
  <2>2. f.data = Padded(d, CfMax) /\ a.out < n /\ b.out = Least(n, a.out + CfMax)
    BY <1>1, <1>6, <2>1
  <2>3. b.out <= n /\ a.out + 1 <= b.out + 1 /\ b.out + 1 - (a.out + 1) <= CfMax /\ a.out + 1 \in Nat \ {0}
    BY <1>2, <2>2, Sizes DEF Least
  <2>4. IsSeq(d) /\ Len(d) = b.out + 1 - (a.out + 1)
    BY <1>2, <2>3, Part
  <2> HIDE DEF d
  <2>5. IsSeq(Padded(d, CfMax)) /\ Len(Padded(d, CfMax)) = CfMax
    BY <2>3, <2>4, PaddedBytes, Sizes
  <2> QED
    BY <1>6, <2>2, <2>5 DEF Carries
<1> QED
  BY <1>4, <1>5, <1>6 DEF Fits, IsFc

\* A call that leaves the receiver of side s alone.
Speaks(s, bs, l, o) ==
    /\ LinkOK(o.link) /\ o.link.rx = l.rx /\ o.ind = <<>>
    /\ Sender(s, o.link.tx) /\ Carried(s, bs, o.out)

LEMMA AloneIsMessages == ASSUME NEW s, NEW m, Good(s, m) PROVE Messages(<<m>>) /\ Len(<<m>>) = 1 /\ <<m>>[1] = m
<1> DEFINE S == <<m>>
<1>1. IsSeq(S) /\ Len(S) = 1 /\ S[1] = m
  BY OneElement
<1> HIDE DEF S
<1>2. \A k \in 1 .. Len(S) : k = 1
  BY <1>1
<1>3. Ascending(S)
  <2> SUFFICES ASSUME NEW i \in 1 .. Len(S), NEW j \in 1 .. Len(S), i < j PROVE FALSE
    BY DEF Ascending
  <2>1. i = 1 /\ j = 1
    BY <1>2
  <2> QED
    BY <2>1
<1>4. IsSeq(m) /\ Len(m) > 0
  BY DEF Good
<1>5. Messages(S)
  BY <1>1, <1>2, <1>3, <1>4 DEF Messages
<1> QED
  BY <1>1, <1>5 DEF S

LEMMA SendsSpeaks ==
    ASSUME NEW s, NEW bs, NEW m, Good(s, m), NEW S, S = <<m>>, NEW a, NEW l, NEW o, Sends(S, a, l, o),
           Count(o.out, "FC") = 0
    PROVE  Speaks(s, bs, l, o)
<1>1. /\ LinkOK(o.link) /\ o.link.rx = l.rx /\ o.ind = <<>>
  BY DEF Sends
<1>2. PICK b \in Position : Moves(o.out, S, a, b) /\ At(o.link.tx, S, b)
  BY DEF Sends
<1>3. IsSeq(o.out)
  BY <1>2 DEF Moves
<1>4. PICK at : Over(o.out, S, at)
  BY <1>2 DEF Moves
<1>5. \A k \in 1 .. Len(o.out) : o.out[k].pci /= "FC"
  BY <1>3, CountSome
<1>6. ASSUME NEW k \in 1 .. Len(o.out) PROVE Carries(s, bs, o.out[k])
  <2>1. at[k - 1] \in Position /\ at[k] \in Position /\ Fits(o.out[k], S, at[k - 1], at[k])
    BY <1>4 DEF Over
  <2> QED
    BY <1>5, <2>1, FitsCarries
<1>7. Len(S) = 1 /\ S[1] = m
  BY OneElement
<1>8. Sender(s, o.link.tx)
  <2> DEFINE t == o.link.tx
  <2>1. Mid(t) => t.msg = m /\ t.offset = b.out /\ t.offset < Len(t.msg)
    BY <1>2, <1>7 DEF At
  <2>2. t.state = "SEND_FIRST" => t.msg = m
    BY <1>2, <1>7 DEF At
  <2>3. t.state \in {"IDLE", "SEND_FIRST", "WAIT_FC", "SEND_CF"}
    BY <1>1 DEF LinkOK, TxOK
  <2> HIDE DEF t
  <2>4. t.state /= "IDLE" => t.msg = m
    BY <2>1, <2>2, <2>3 DEF Mid
  <2> QED
    BY <2>1, <2>4 DEF Sender, Position, t
<1> QED
  BY <1>1, <1>3, <1>6, <1>8 DEF Speaks, Carried

\* Where a sender that is not idle stands in its message.
LEMMA Stands ==
    ASSUME NEW s, NEW tx, tx.state /= "IDLE", Sender(s, tx)
    PROVE  \E a \in Position : At(tx, <<tx.msg>>, a)
<1> DEFINE S == <<tx.msg>>
           a == [begun |-> IF Mid(tx) THEN 1 ELSE 0, out |-> IF Mid(tx) THEN tx.offset ELSE 0]
<1>1. Len(S) = 1 /\ S[1] = tx.msg
  BY OneElement
<1>2. Mid(tx) => tx.offset \in Nat /\ tx.offset < Len(tx.msg)
  BY DEF Sender
<1>3. a \in Position /\ a.begun = (IF Mid(tx) THEN 1 ELSE 0) /\ (Mid(tx) => a.out = tx.offset)
  BY <1>2 DEF Position
<1> HIDE DEF S, a
<1>4. tx.state = "SEND_FIRST" => ~Mid(tx)
  BY DEF Mid
<1>5. At(tx, S, a)
  BY <1>1, <1>2, <1>3, <1>4 DEF At
<1> QED
  BY <1>3, <1>5 DEF S

LEMMA SenderSpeaks ==
    ASSUME NEW s, NEW bs, NEW l, LinkOK(l), Sender(s, l.tx), NEW room \in Nat
    PROVE  Speaks(s, bs, l, MainSender(l, room)) /\ Leads(l, MainSender(l, room))
<1> DEFINE o == MainSender(l, room)
<1>1. Mid(l.tx) => Len(l.tx.msg) \in Nat /\ l.tx.offset \in Nat /\ l.tx.offset < Len(l.tx.msg)
  BY Indices DEF Sender, Good, Mid
<1>2. Leads(l, o)
  BY <1>1, SenderLeads
<1>3. IsSeq(o.out) /\ Count(o.out, "FC") = 0
  BY <1>2 DEF Leads, Advances
<1>4. CASE l.tx.state = "IDLE"
  <2>1. o = Unchanged(l)
    BY <1>4 DEF MainSender
  <2>2. o.link = l /\ o.out = <<>> /\ o.ind = <<>>
    BY <2>1 DEF Unchanged
  <2> HIDE DEF o
  <2>3. Carried(s, bs, o.out)
    BY <2>2, NoElement DEF Carried
  <2> QED
    BY <1>2, <2>2, <2>3 DEF Speaks, o
<1>5. CASE l.tx.state /= "IDLE"
  <2> DEFINE m == l.tx.msg
             S == <<m>>
  <2>1. Good(s, m)
    BY <1>5 DEF Sender
  <2>2. PICK a \in Position : At(l.tx, S, a)
    BY <1>5, Stands
  <2>3. Messages(S)
    BY <2>1, AloneIsMessages
  <2> HIDE DEF m, o
  <2>4. Sends(S, a, l, o)
    <3> HIDE DEF S
    <3> QED
      BY <2>2, <2>3, SenderSends DEF o
  <2>5. Speaks(s, bs, l, o)
    BY <1>3, <2>1, <2>4, SendsSpeaks
  <2> QED
    BY <1>2, <2>5 DEF o
<1> QED
  BY <1>4, <1>5

LEMMA TransmitSpeaks ==
    ASSUME NEW s, NEW bs, NEW l, LinkOK(l), l.tx.state = "IDLE", NEW m, Good(s, m), NEW room \in Nat
    PROVE  Speaks(s, bs, l, Transmit(l, m, room)) /\ Leads(l, Transmit(l, m, room))
<1> DEFINE o == Transmit(l, m, room)
           S == <<m>>
           a == [begun |-> 0, out |-> 0]
<1>1. Leads(l, o)
  BY TransmitLeads
<1>2. IsSeq(o.out) /\ Count(o.out, "FC") = 0
  BY <1>1 DEF Leads, Advances
<1>3. a \in Position /\ a.begun = 0
  BY DEF Position
<1>4. Messages(S) /\ Len(S) = 1 /\ S[1] = m
  BY AloneIsMessages
<1> HIDE DEF a, o
<1>5. Sends(S, a, l, o)
  <2> HIDE DEF S
  <2>1. S[Len(S)] = m /\ a.begun < Len(S)
    BY <1>3, <1>4
  <2>2. Sends(S, a, l, Transmit(l, S[Len(S)], room))
    BY <1>3, <1>4, <2>1, TransmitSends
  <2> QED
    BY <2>1, <2>2 DEF o
<1> QED
  BY <1>1, <1>2, <1>5, SendsSpeaks DEF o

LEMMA FlowControlSpeaks ==
    ASSUME NEW s, NEW bs, NEW l, LinkOK(l), Sender(s, l.tx), NEW f, IsFc(f), NEW room \in Nat,
           NEW o, o = TxOnFlowControl(l, f, room)
    PROVE  /\ Speaks(s, bs, l, o) /\ Count(o.out, "FC") = 0
           /\ o.link.fcPending = l.fcPending /\ Grants(l.tx, f, o.link.tx, o.out)
<1>1. Mid(l.tx) => Len(l.tx.msg) \in Nat /\ l.tx.offset \in Nat /\ l.tx.offset < Len(l.tx.msg)
  BY Indices DEF Sender, Good, Mid
<1>2. o.link.fcPending = l.fcPending /\ Grants(l.tx, f, o.link.tx, o.out)
  BY <1>1, FlowControlGrants
<1>3. Count(o.out, "FC") = 0
  BY <1>2, CountNothing DEF Grants, Advances
<1>4. CASE l.tx.state = "IDLE"
  <2>1. o = Unchanged(l)
    BY <1>4 DEF TxOnFlowControl
  <2>2. o.link = l /\ o.out = <<>> /\ o.ind = <<>>
    BY <2>1 DEF Unchanged
  <2>3. Carried(s, bs, o.out)
    BY <2>2, NoElement DEF Carried
  <2> QED
    BY <1>2, <1>3, <2>2, <2>3 DEF Speaks
<1>5. CASE l.tx.state /= "IDLE"
  <2> DEFINE m == l.tx.msg
             S == <<m>>
  <2>1. Good(s, m)
    BY <1>5 DEF Sender
  <2>2. PICK a \in Position : At(l.tx, S, a)
    BY <1>5, Stands
  <2>3. Messages(S)
    BY <2>1, AloneIsMessages
  <2> HIDE DEF m
  <2>4. Sends(S, a, l, o)
    <3> HIDE DEF S
    <3> QED
      BY <2>2, <2>3, FlowControlSends
  <2>5. Speaks(s, bs, l, o)
    BY <1>3, <2>1, <2>4, SendsSpeaks
  <2> QED
    BY <1>2, <1>3, <2>5
<1> QED
  BY <1>4, <1>5

-----------------------------------------------------------------------------
(* What the calls make of one direction: the receiver.                     *)

\* The receiver of what side s sends.
Receiver(s, rx) ==
    rx.state = "RECEIVING" =>
        /\ rx.length \in Nat /\ rx.offset \in Nat \ {0} /\ rx.offset < rx.length
        /\ IsSeq(rx.data) /\ Len(rx.data) = rx.offset /\ Named(s, rx.data)

\* Messages of side s.
Given(s, D) == IsSeq(D) /\ \A k \in 1 .. Len(D) : Named(s, D[k])

\* Flow Controls that grant blocks of bs, and no data.
Grantings(bs, q) == IsSeq(q) /\ \A k \in 1 .. Len(q) : IsFc(q[k]) /\ q[k].bs = bs

\* A call that leaves the sender of l, which grants blocks of bs to side s, alone.
Hears(s, bs, l, o) ==
    /\ LinkOK(o.link) /\ o.link.tx = l.tx /\ Receiver(s, o.link.rx)
    /\ Grantings(bs, o.out) /\ IsSeq(o.ind) /\ Given(s, OkData(o))

LEMMA GrantingsOnly ==
    ASSUME NEW bs, NEW q, Grantings(bs, q)
    PROVE  /\ IsSeq(q) /\ Count(q, "CF") = 0 /\ Count(q, "FF") = 0
           /\ \A p : Carried(p, bs, q)
<1>1. IsSeq(q) /\ \A k \in 1 .. Len(q) : IsFc(q[k]) /\ q[k].bs = bs
  BY DEF Grantings
<1>2. \A k \in 1 .. Len(q) : q[k].pci /= "CF" /\ q[k].pci /= "FF"
  BY <1>1 DEF IsFc
<1>3. Count(q, "CF") = 0 /\ Count(q, "FF") = 0
  BY <1>2, CountNone
<1>4. \A p : Carried(p, bs, q)
  BY <1>1 DEF Carried, Carries, IsFc
<1> QED
  BY <1>1, <1>3, <1>4

LEMMA NoGrant == ASSUME NEW bs PROVE Grantings(bs, <<>>) /\ Count(<<>>, "FC") = 0
<1> DEFINE q == <<>>
<1>1. IsSeq(q) /\ Len(q) = 0
  BY NoElement
<1>2. Count(q, "FC") = 0
  BY CountNothing
<1> HIDE DEF q
<1>3. Grantings(bs, q)
  BY <1>1 DEF Grantings
<1> QED
  BY <1>2, <1>3 DEF q

LEMMA NothingGiven == ASSUME NEW s PROVE Given(s, <<>>)
<1> DEFINE D == <<>>
<1>1. IsSeq(D) /\ Len(D) = 0
  BY NoElement
<1> HIDE DEF D
<1>2. Given(s, D)
  BY <1>1 DEF Given
<1> QED
  BY <1>2 DEF D

LEMMA OneGiven == ASSUME NEW s, NEW m, Named(s, m) PROVE Given(s, <<m>>)
<1> DEFINE D == <<m>>
<1>1. IsSeq(D) /\ Len(D) = 1 /\ D[1] = m
  BY OneElement
<1> HIDE DEF D
<1>2. \A k \in 1 .. Len(D) : k = 1
  BY <1>1
<1>3. Given(s, D)
  BY <1>1, <1>2 DEF Given
<1> QED
  BY <1>3 DEF D

LEMMA QuietHears ==
    ASSUME NEW s, NEW bs, NEW l, LinkOK(l), NEW m, LinkOK(m), m.tx = l.tx, Receiver(s, m.rx),
           NEW o, o = Unchanged(m)
    PROVE  Hears(s, bs, l, o) /\ o.link = m /\ o.out = <<>> /\ o.ind = <<>> /\ Count(o.out, "FC") = 0
<1>1. o.link = m /\ o.out = <<>> /\ o.ind = <<>>
  BY DEF Unchanged
<1>2. OkData(o) = <<>>
  BY <1>1, OkDataOf
<1> QED
  BY <1>1, <1>2, NoElement, NoGrant, NothingGiven DEF Hears

\* A reception ends with an error.
LEMMA FailHears ==
    ASSUME NEW s, NEW bs, NEW l, LinkOK(l), NEW result, result /= "OK", NEW o, o = RxFinish(l, result)
    PROVE  /\ Hears(s, bs, l, o) /\ o.link.rx.state = "IDLE" /\ o.link.fcPending = l.fcPending
           /\ o.out = <<>> /\ Count(o.out, "FC") = 0
<1> DEFINE i == [result |-> result, data |-> SubSeq(l.rx.data, 1, l.rx.offset)]
<1>1. /\ LinkOK(o.link) /\ o.link.tx = l.tx /\ o.link.rx = IdleRx
      /\ o.out = <<>> /\ o.ind = <<i>>
  BY RxFinishes
<1>2. i.result /= "OK"
  OBVIOUS
<1> HIDE DEF i
<1>3. OkData(o) = <<>> /\ IsSeq(o.ind)
  BY <1>1, <1>2, OkDataOf, OneElement
<1>4. o.link.fcPending = l.fcPending
  BY DEF RxFinish, Unchanged, LinkOK
<1> QED
  BY <1>1, <1>3, <1>4, IdleOK, NoGrant, NothingGiven DEF Hears, Receiver

\* The Flow Control goes, or is owed.
LEMMA FcOwed ==
    ASSUME NEW l, LinkOK(l), NEW cfg, cfg.blockSize \in Nat, NEW status, status /= NoFc,
           NEW accepted \in BOOLEAN, NEW o, o = RxSendFlowControl(l, cfg, status, accepted)
    PROVE  /\ LinkOK(o.link) /\ o.link.tx = l.tx /\ o.link.rx = l.rx /\ o.ind = <<>>
           /\ Grantings(cfg.blockSize, o.out) /\ Count(o.out, "FC") + Pend(o.link.fcPending) = 1
<1>1. /\ LinkOK(o.link) /\ o.link.tx = l.tx /\ o.link.rx = l.rx /\ o.ind = <<>>
  BY FcGoes
<1>2. CASE accepted
  <2> DEFINE f == FlowControl(status, cfg)
             q == <<f>>
  <2>1. o.link.fcPending = NoFc /\ o.out = q
    BY <1>2 DEF RxSendFlowControl, Unchanged, LinkOK
  <2>2. IsFc(f) /\ f.bs = cfg.blockSize
    BY DEF FlowControl, IsFc
  <2> HIDE DEF f
  <2>3. IsSeq(q) /\ Len(q) = 1 /\ q[1] = f
    BY OneElement
  <2>4. Count(q, "FC") = 1
    BY <2>2, CountOne DEF IsFc
  <2> HIDE DEF q
  <2>5. \A k \in 1 .. Len(q) : k = 1
    BY <2>3
  <2>6. Grantings(cfg.blockSize, q)
    BY <2>2, <2>3, <2>5 DEF Grantings
  <2> QED
    BY <1>1, <2>1, <2>4, <2>6 DEF Pend
<1>3. CASE ~accepted
  <2>1. o.link.fcPending = status /\ o.out = <<>>
    BY <1>3 DEF RxSendFlowControl, Unchanged, LinkOK
  <2>2. Pend(status) = 1
    BY DEF Pend
  <2> QED
    BY <1>1, <2>1, <2>2, NoGrant
<1> QED
  BY <1>2, <1>3

LEMMA InterruptKeeps ==
    ASSUME NEW l, LinkOK(l), NEW o, o = RxInterrupt(l)
    PROVE  o.link.fcPending = l.fcPending
<1>1. CASE l.rx.state = "RECEIVING"
  BY <1>1, FailHears DEF RxInterrupt
<1>2. CASE l.rx.state /= "RECEIVING"
  BY <1>2 DEF RxInterrupt, Unchanged
<1> QED
  BY <1>1, <1>2

\* The receiver takes the frame f.
Catches(s, bs, l, f, o) ==
    Hears(s, bs, l, o) /\ Picks(l.rx, l.fcPending, f, o.link.rx, o.link.fcPending, o.out, bs)

LEMMA QuietCatches ==
    ASSUME NEW s, NEW bs, NEW l, LinkOK(l), Receiver(s, l.rx), NEW f
    PROVE  Catches(s, bs, l, f, Unchanged(l))
<1> DEFINE o == Unchanged(l)
<1>1. Hears(s, bs, l, o) /\ o.link = l /\ Count(o.out, "FC") = 0
  BY QuietHears
<1> HIDE DEF o
<1>2. IsSeq(o.out) /\ Count(o.out, "CF") = 0 /\ Count(o.out, "FF") = 0
  BY <1>1, GrantingsOnly DEF Hears
<1> QED
  BY <1>1, <1>2 DEF Catches, Picks, o

LEMMA SingleFrameCatches ==
    ASSUME NEW s, NEW bs, NEW l, LinkOK(l), Receiver(s, l.rx), NEW cfg, NEW f,
           f.length \in Nat \ {0}, f.length <= SfMax, IsSeq(f.data), Len(f.data) = SfMax, Named(s, f.data)
    PROVE  Catches(s, bs, l, f, RxOnSingleFrame(l, cfg, f))
<1> DEFINE r == RxOnSingleFrame(l, cfg, f)
           n == f.length
           msg == SubSeq(f.data, 1, n)
<1>1. CASE r = Unchanged(l)
  BY <1>1, QuietCatches
<1>2. CASE r /= Unchanged(l)
  <2> DEFINE o == RxInterrupt(l)
             rx == [o.link.rx EXCEPT !.data = msg, !.length = n]
             m == [o.link EXCEPT !.rx = rx]
             p == RxFinish(m, "OK")
  <2>1. /\ LinkOK(o.link) /\ o.link.tx = l.tx /\ o.link.rx.state = "IDLE"
        /\ o.out = <<>>
        /\ o.ind = <<>> \/ \E i : o.ind = <<i>> /\ i.result /= "OK"
    BY Interrupts
  <2>2. o.link.fcPending = l.fcPending
    BY InterruptKeeps
  <2>3. r = Then(o, p)
    <3> DEFINE k == [o.link EXCEPT !.rx.data = msg, !.rx.length = n]
    <3>1. r = Then(o, RxFinish(k, "OK"))
      BY <1>2 DEF RxOnSingleFrame
    <3>2. k = m
      <4>1. DOMAIN o.link = {"tx", "rx", "fcPending"}
        BY <2>1 DEF LinkOK
      <4> HIDE DEF o
      <4> QED
        BY <4>1, ZenonT(30)
    <3> QED
      BY <3>1, <3>2
  <2> HIDE DEF o
  <2>4. /\ IsSeq(msg) /\ Len(msg) = n + 1 - 1 /\ \A k \in 1 .. n + 1 - 1 : msg[k] = f.data[1 + k - 1]
    <3>1. 1 \in Nat \ {0} /\ n \in Nat /\ n <= Len(f.data) /\ 1 <= n + 1
      OBVIOUS
    <3> QED
      BY <3>1, Part
  <2> HIDE DEF msg, n
  <2>5. Len(msg) = n /\ msg[1] = f.data[1]
    <3>1. n + 1 - 1 = n /\ 1 \in 1 .. n + 1 - 1 /\ 1 + 1 - 1 = 1
      BY DEF n
    <3> QED
      BY <2>4, <3>1
  <2>6. Named(s, msg)
    BY <2>5 DEF Named, IdOf
  <2>7. DOMAIN rx = RxFields /\ rx.state = "IDLE" /\ rx.data = msg /\ rx.length = n
    BY <2>1 DEF LinkOK, RxFields
  <2> HIDE DEF rx
  <2>8. LinkOK(m) /\ m.rx = rx /\ m.tx = l.tx
    BY <2>1, <2>7, NewRx
  <2>9. m.fcPending = l.fcPending
    BY <2>1, <2>2 DEF LinkOK
  <2> HIDE DEF m
  <2> DEFINE j == [result |-> "OK", data |-> SubSeq(m.rx.data, 1, m.rx.length)]
  <2>10. /\ LinkOK(p.link) /\ p.link.tx = m.tx /\ p.link.rx = IdleRx
         /\ p.out = <<>> /\ p.ind = <<j>>
    BY <2>8, RxFinishes
  <2>11. p.link.fcPending = l.fcPending
    BY <2>8, <2>9 DEF RxFinish, Unchanged, LinkOK
  <2>12. j.result = "OK" /\ j.data = msg
    BY <2>4, <2>5, <2>7, <2>8, WholePart
  <2> HIDE DEF p, r, j
  <2>13. r.link = p.link /\ r.out = o.out \o p.out /\ r.ind = o.ind \o p.ind
    BY <2>3 DEF Then
  <2>14. IsSeq(r.ind) /\ OkData(r) = <<msg>>
    BY <2>1, <2>10, <2>12, <2>13, ThenIndicates, ZenonT(30)
  <2>15. r.out = <<>>
    BY <2>1, <2>10, <2>13, NoElement, WithNothing
  <2>16. Hears(s, bs, l, r)
    BY <2>6, <2>8, <2>10, <2>13, <2>14, <2>15, IdleOK, NoGrant, OneGiven DEF Hears, Receiver
  <2>17. Picks(l.rx, l.fcPending, f, r.link.rx, r.link.fcPending, r.out, bs)
    <3>1. r.link.rx.state /= "RECEIVING"
      BY <2>10, <2>13, IdleOK
    <3>2. IsSeq(r.out) /\ Count(r.out, "CF") = 0 /\ Count(r.out, "FF") = 0 /\ Count(r.out, "FC") = 0
      BY <2>15, NoElement, CountNothing
    <3> QED
      BY <2>11, <2>13, <3>1, <3>2 DEF Picks
  <2> QED
    BY <2>16, <2>17 DEF Catches, r
<1> QED
  BY <1>1, <1>2

LEMMA FirstFrameCatches ==
    ASSUME NEW s, NEW l, LinkOK(l), Receiver(s, l.rx), NEW cfg, cfg.blockSize \in Nat,
           NEW accepted \in BOOLEAN, NEW f, f.pci = "FF", f.dlc = CanDl, f.length \in Nat, f.length > SfMax,
           IsSeq(f.data), Len(f.data) = FfData, Named(s, f.data)
    PROVE  Catches(s, cfg.blockSize, l, f, RxOnFirstFrame(l, cfg, f, accepted))
<1> DEFINE r == RxOnFirstFrame(l, cfg, f, accepted)
           o == RxInterrupt(l)
           bs == cfg.blockSize
<1>1. LinkOK(o.link) /\ o.link.tx = l.tx /\ o.link.rx.state = "IDLE"
  BY Interrupts
<1>2. ASSUME NEW m, LinkOK(m), m.tx = l.tx, Receiver(s, m.rx),
             m.rx.state = "RECEIVING" => m.rx.blockCount = 0 /\ m.rx.length = f.length /\ m.rx.offset = FfData,
             NEW status, status /= NoFc,
             r = Then(RxInterrupt(l), RxSendFlowControl(m, cfg, status, accepted))
      PROVE  Catches(s, bs, l, f, r)
  <2> HIDE DEF r
  <2> DEFINE p == RxSendFlowControl(m, cfg, status, accepted)
  <2>1. o.out = <<>> /\ (o.ind = <<>> \/ \E i : o.ind = <<i>> /\ i.result /= "OK")
    BY Interrupts
  <2>2. /\ LinkOK(p.link) /\ p.link.tx = m.tx /\ p.link.rx = m.rx /\ p.ind = <<>>
        /\ Grantings(bs, p.out) /\ Count(p.out, "FC") + Pend(p.link.fcPending) = 1
    <3>1. LinkOK(m) /\ status /= NoFc
      BY <1>2
    <3> QED
      BY <3>1, FcOwed
  <2>3. r.link = p.link /\ r.out = o.out \o p.out /\ r.ind = o.ind \o p.ind
    BY <1>2 DEF Then
  <2> HIDE DEF o, p, r
  <2>4. IsSeq(r.ind) /\ OkData(r) = <<>>
    BY <2>1, <2>2, <2>3, ThenIndicates
  <2>5. IsSeq(p.out) /\ Count(p.out, "CF") = 0 /\ Count(p.out, "FF") = 0
    BY <2>2, GrantingsOnly
  <2>6. r.out = p.out
    BY <2>1, <2>3, <2>5, WithNothing
  <2>7. Hears(s, bs, l, r)
    BY <1>2, <2>2, <2>3, <2>4, <2>6, NothingGiven DEF Hears
  <2> QED
    BY <1>2, <2>2, <2>3, <2>5, <2>6, <2>7 DEF Catches, Picks
<1>3. ~(f.dlc < CanDl \/ f.length <= SfMax) /\ f.dlc >= CanDl /\ f.length > SfMax
  BY Sizes
<1>4. CASE f.length > cfg.rxSize
  <2>1. r = Then(o, RxSendFlowControl(o.link, cfg, "OVFLW", accepted))
    BY <1>3, <1>4 DEF RxOnFirstFrame
  <2>2. "OVFLW" /= NoFc
    BY DEF NoFc
  <2> DEFINE m == o.link
  <2>3. LinkOK(m) /\ m.tx = l.tx /\ m.rx.state /= "RECEIVING" /\ Receiver(s, m.rx)
    BY <1>1 DEF Receiver
  <2>4. r = Then(RxInterrupt(l), RxSendFlowControl(m, cfg, "OVFLW", accepted))
    BY <2>1
  <2> HIDE DEF m, r, o
  <2> QED
    BY <1>2, <2>2, <2>3, <2>4 DEF r
<1>5. CASE ~(f.length > cfg.rxSize)
  <2> DEFINE rx == RxBegun(f)
             m == [o.link EXCEPT !.rx = rx]
  <2>1. r = Then(o, RxSendFlowControl(m, cfg, "CTS", accepted))
    BY <1>3, <1>5 DEF RxOnFirstFrame
  <2>2. /\ DOMAIN rx = RxFields /\ rx.state = "RECEIVING" /\ rx.blockCount = 0
        /\ rx.length = f.length /\ rx.offset = FfData /\ rx.data = f.data
    BY DEF RxBegun, IdleRx, RxFields
  <2> HIDE DEF rx, o
  <2>3. LinkOK(m) /\ m.rx = rx /\ m.tx = l.tx
    BY <1>1, <2>2, NewRx
  <2>4. FfData \in Nat \ {0} /\ FfData < f.length
    BY Sizes
  <2>5. Receiver(s, rx)
    BY <2>2, <2>4 DEF Receiver
  <2>6. "CTS" /= NoFc
    BY DEF NoFc
  <2> HIDE DEF m, r
  <2> QED
    BY <1>2, <2>1, <2>2, <2>3, <2>5, <2>6 DEF o, r
<1> QED
  BY <1>4, <1>5

\* The bytes of one more frame leave the number of the message.
Grown(d, e, n) == d \o SubSeq(e, 1, n)

LEMMA GrownBytes ==
    ASSUME NEW s, NEW d, IsSeq(d), Len(d) \in Nat \ {0}, Named(s, d), NEW e, IsSeq(e),
           NEW n \in Nat, n <= Len(e)
    PROVE  IsSeq(Grown(d, e, n)) /\ Len(Grown(d, e, n)) = Len(d) + n /\ Named(s, Grown(d, e, n))
<1> DEFINE part == SubSeq(e, 1, n)
           h == d \o part
<1>1. IsSeq(part) /\ Len(part) = n + 1 - 1
  <2>1. 1 \in Nat \ {0} /\ 1 <= n + 1
    OBVIOUS
  <2> QED
    BY <2>1, Part
<1> HIDE DEF part
<1>2. IsSeq(d) /\ IsSeq(part)
  BY <1>1
<1>3. IsSeq(h) /\ Len(h) = Len(d) + Len(part) /\ \A k \in 1 .. Len(d) : h[k] = d[k]
  BY <1>2, Concatenated
<1> HIDE DEF h
<1>4. h[1] = d[1]
  BY <1>3
<1>5. h = Grown(d, e, n)
  BY DEF Grown, h, part
<1> QED
  BY <1>1, <1>3, <1>4, <1>5 DEF Named, IdOf

LEMMA ConsecutiveFrameCatches ==
    ASSUME NEW s, NEW l, LinkOK(l), Receiver(s, l.rx), NEW cfg, cfg.blockSize \in Nat,
           NEW accepted \in BOOLEAN, NEW f, f.pci = "CF", f.dlc = CanDl, IsSeq(f.data), Len(f.data) = CfMax
    PROVE  Catches(s, cfg.blockSize, l, f, RxOnConsecutiveFrame(l, cfg, f, accepted))
<1> DEFINE bs == cfg.blockSize
           rx == l.rx
           len == rx.length
           off == rx.offset
           chunk == CfChunkExpected(rx)
           to == off + chunk
           got == RxTaken(rx, f)
           data == rx.data \o SubSeq(f.data, 1, chunk)
           o == RxOnConsecutiveFrame(l, cfg, f, accepted)
<1>1. CASE rx.state /= "RECEIVING"
  <2>1. o = Unchanged(l)
    BY <1>1 DEF RxOnConsecutiveFrame
  <2> QED
    BY <2>1, QuietCatches
<1>2. CASE rx.state = "RECEIVING" /\ ~NextCf(rx, f)
  <2>1. o = RxFinish(l, "ERR_WRONG_SN")
    BY <1>2 DEF RxOnConsecutiveFrame
  <2>2. "ERR_WRONG_SN" /= "OK"
    OBVIOUS
  <2> HIDE DEF o
  <2>3. /\ Hears(s, bs, l, o) /\ o.link.rx.state = "IDLE" /\ o.link.fcPending = l.fcPending
        /\ Count(o.out, "FC") = 0
    BY <2>1, <2>2, FailHears
  <2>4. IsSeq(o.out) /\ Count(o.out, "CF") = 0 /\ Count(o.out, "FF") = 0
    BY <2>3, GrantingsOnly DEF Hears
  <2>5. o.link.rx.state /= "RECEIVING"
    BY <2>3
  <2>6. Picks(l.rx, l.fcPending, f, o.link.rx, o.link.fcPending, o.out, bs)
    BY <2>3, <2>4, <2>5 DEF Picks
  <2> QED
    BY <2>3, <2>6 DEF Catches, o
<1>3. CASE rx.state = "RECEIVING" /\ NextCf(rx, f)
  <2>1. /\ len \in Nat /\ off \in Nat \ {0} /\ off < len
        /\ IsSeq(rx.data) /\ Len(rx.data) = off /\ Named(s, rx.data)
    BY <1>3 DEF Receiver
  <2>2. chunk = Least(len - off, CfMax)
    BY DEF CfChunkExpected
  <2> HIDE DEF chunk
  <2>3. /\ chunk \in Nat /\ chunk <= CfMax /\ to \in Nat \ {0} /\ to <= len
        /\ ~(chunk > f.dlc - 1) /\ (~(to >= len) => to < len /\ to = off + CfMax)
    <3> HIDE DEF len, off
    <3>1. chunk \in Nat /\ chunk <= CfMax /\ chunk <= len - off /\ (chunk < len - off => chunk = CfMax)
      BY <2>1, <2>2, Sizes, SMTT(30) DEF Least
    <3> QED
      BY <2>1, <3>1, Sizes
  <2>4. IsSeq(data) /\ Len(data) = to /\ Named(s, data)
    <3> DEFINE d == rx.data
               e == f.data
    <3>1. IsSeq(d) /\ Len(d) \in Nat \ {0} /\ Named(s, d) /\ IsSeq(e) /\ chunk \in Nat /\ chunk <= Len(e)
      BY <2>1, <2>3
    <3> HIDE DEF d, e
    <3>2. /\ IsSeq(Grown(d, e, chunk)) /\ Len(Grown(d, e, chunk)) = Len(d) + chunk
          /\ Named(s, Grown(d, e, chunk))
      BY <3>1, GrownBytes
    <3>3. data = Grown(d, e, chunk)
      BY DEF Grown, d, e
    <3> HIDE DEF data
    <3> QED
      BY <2>1, <3>2, <3>3 DEF d
  <2>5. /\ DOMAIN got = RxFields /\ got.state = "RECEIVING" /\ got.length = len /\ got.offset = to
        /\ got.data = data
    <3>1. got = [rx EXCEPT !.data = @ \o SubSeq(f.data, 1, chunk), !.offset = @ + chunk,
                           !.seq = (@ + 1) % SeqMod, !.timer = 0]
      BY DEF RxTaken, chunk
    <3>2. DOMAIN rx = RxFields
      BY DEF LinkOK
    <3> HIDE DEF got, rx
    <3> QED
      BY <1>3, <3>1, <3>2 DEF RxFields
  <2>6. o = IF to >= len THEN RxFinish([l EXCEPT !.rx = got], "OK")
            ELSE IF bs = 0 THEN Unchanged([l EXCEPT !.rx = got])
            ELSE IF rx.blockCount + 1 < bs
                 THEN Unchanged([l EXCEPT !.rx = [got EXCEPT !.blockCount = rx.blockCount + 1]])
                 ELSE RxSendFlowControl([l EXCEPT !.rx = [got EXCEPT !.blockCount = 0]],
                                        cfg, "CTS", accepted)
    BY <1>3, <2>3, <2>5 DEF RxOnConsecutiveFrame, chunk
  <2> HIDE DEF got, o, data
  <2>7. CASE to >= len
    <3> DEFINE m == [l EXCEPT !.rx = got]
               j == [result |-> "OK", data |-> SubSeq(m.rx.data, 1, m.rx.length)]
    <3>1. LinkOK(m) /\ m.rx = got /\ m.tx = l.tx
      BY <2>5, NewRx
    <3>2. m.fcPending = l.fcPending
      BY DEF LinkOK
    <3>3. o = RxFinish(m, "OK")
      BY <2>6, <2>7
    <3> HIDE DEF m
    <3>4. /\ LinkOK(o.link) /\ o.link.tx = m.tx /\ o.link.rx = IdleRx
          /\ o.out = <<>> /\ o.ind = <<j>>
      BY <3>1, <3>3, RxFinishes
    <3>5. o.link.fcPending = l.fcPending
      BY <3>1, <3>2, <3>3 DEF RxFinish, Unchanged, LinkOK
    <3>6. j.result = "OK" /\ j.data = data
      <4>1. to = len
        BY <2>1, <2>3, <2>7
      <4>2. SubSeq(data, 1, Len(data)) = data
        BY <2>4, WholePart
      <4> QED
        BY <2>4, <2>5, <3>1, <4>1, <4>2
    <3> HIDE DEF j
    <3>7. OkData(o) = <<data>> /\ IsSeq(o.ind)
      BY <3>4, <3>6, OkDataOf, OneElement
    <3>8. o.link.rx.state /= "RECEIVING"
      BY <3>4, IdleOK
    <3>9. Hears(s, bs, l, o)
      BY <2>4, <3>1, <3>4, <3>7, <3>8, NoGrant, OneGiven DEF Hears, Receiver
    <3>10. IsSeq(o.out) /\ Count(o.out, "CF") = 0 /\ Count(o.out, "FF") = 0 /\ Count(o.out, "FC") = 0
      BY <3>4, NoElement, CountNothing
    <3>11. Picks(l.rx, l.fcPending, f, o.link.rx, o.link.fcPending, o.out, bs)
      BY <3>5, <3>8, <3>10 DEF Picks
    <3> QED
      BY <3>9, <3>11 DEF Catches, o
  <2>8. CASE ~(to >= len)
    <3>1. ASSUME NEW x, NEW m, x = got \/ (\E c : x = [got EXCEPT !.blockCount = c]),
                 m = [l EXCEPT !.rx = x]
          PROVE  /\ LinkOK(m) /\ m.tx = l.tx /\ m.rx = x /\ Receiver(s, m.rx)
                 /\ m.rx.state = "RECEIVING" /\ m.rx.length = len /\ m.rx.offset = off + CfMax
                 /\ m.rx.offset < m.rx.length /\ m.fcPending = l.fcPending
      <4>1. /\ DOMAIN x = RxFields /\ x.state = "RECEIVING" /\ x.length = len /\ x.offset = to
            /\ x.data = data
        BY <2>5, <3>1 DEF RxFields
      <4>2. LinkOK(m) /\ m.rx = x /\ m.tx = l.tx
        BY <3>1, <4>1, NewRx
      <4>3. m.fcPending = l.fcPending
        BY <3>1 DEF LinkOK
      <4>4. to < len /\ to = off + CfMax
        BY <2>3, <2>8
      <4>5. Receiver(s, x)
        BY <2>1, <2>3, <2>4, <4>1, <4>4 DEF Receiver
      <4> QED
        BY <4>1, <4>2, <4>3, <4>4, <4>5
    <3> DEFINE x1 == [got EXCEPT !.blockCount = rx.blockCount + 1]
               x2 == [got EXCEPT !.blockCount = 0]
               m0 == [l EXCEPT !.rx = got]
               m1 == [l EXCEPT !.rx = x1]
               m2 == [l EXCEPT !.rx = x2]
    <3>2. \/ bs = 0 /\ o = Unchanged(m0)
          \/ rx.blockCount + 1 < bs /\ o = Unchanged(m1)
          \/ ~(rx.blockCount + 1 < bs) /\ o = RxSendFlowControl(m2, cfg, "CTS", accepted)
      BY <2>6, <2>8
    <3>3. /\ x1 = got \/ (\E c : x1 = [got EXCEPT !.blockCount = c])
          /\ x1.blockCount = rx.blockCount + 1
      BY <2>5 DEF RxFields
    <3>4. /\ x2 = got \/ (\E c : x2 = [got EXCEPT !.blockCount = c])
          /\ x2.blockCount = 0
      BY <2>5 DEF RxFields
    <3> HIDE DEF x1, x2
    <3> DEFINE On(m) == /\ LinkOK(m) /\ m.tx = l.tx /\ Receiver(s, m.rx)
                        /\ m.rx.state = "RECEIVING" /\ m.rx.length = len /\ m.rx.offset = off + CfMax
                        /\ m.rx.offset < m.rx.length /\ m.fcPending = l.fcPending
    <3>5. On(m0)
      BY <3>1
    <3>6. On(m1) /\ m1.rx = x1
      BY <3>1, <3>3
    <3>7. On(m2) /\ m2.rx = x2
      BY <3>1, <3>4
    <3> HIDE DEF m0, m1, m2
    <3>8. ASSUME NEW m, On(m), o = Unchanged(m),
                 bs = 0 \/ (m.rx.blockCount = rx.blockCount + 1 /\ m.rx.blockCount < bs)
          PROVE  Catches(s, bs, l, f, o)
      <4>1. Hears(s, bs, l, o) /\ o.link = m /\ o.out = <<>> /\ Count(o.out, "FC") = 0
        BY <3>8, QuietHears
      <4>2. IsSeq(o.out) /\ Count(o.out, "CF") = 0 /\ Count(o.out, "FF") = 0
        BY <4>1, GrantingsOnly DEF Hears
      <4>3. /\ m.rx.state = "RECEIVING" /\ m.rx.length = len /\ m.rx.offset = off + CfMax
            /\ m.rx.offset < m.rx.length /\ m.fcPending = l.fcPending
        BY <3>8
      <4>4. Picks(l.rx, l.fcPending, f, o.link.rx, o.link.fcPending, o.out, bs)
        BY <1>3, <3>8, <4>1, <4>2, <4>3 DEF Picks
      <4> QED
        BY <4>1, <4>4 DEF Catches
    <3>9. CASE bs = 0 /\ o = Unchanged(m0)
      BY <3>5, <3>8, <3>9 DEF o
    <3>10. CASE rx.blockCount + 1 < bs /\ o = Unchanged(m1)
      BY <3>3, <3>6, <3>8, <3>10 DEF o
    <3>11. CASE ~(rx.blockCount + 1 < bs) /\ o = RxSendFlowControl(m2, cfg, "CTS", accepted)
      <4>1. "CTS" /= NoFc
        BY DEF NoFc
      <4>2. /\ LinkOK(o.link) /\ o.link.tx = m2.tx /\ o.link.rx = m2.rx /\ o.ind = <<>>
            /\ Grantings(bs, o.out) /\ Count(o.out, "FC") + Pend(o.link.fcPending) = 1
        BY <3>7, <3>11, <4>1, FcOwed
      <4>3. IsSeq(o.out) /\ Count(o.out, "CF") = 0 /\ Count(o.out, "FF") = 0
        BY <4>2, GrantingsOnly
      <4>4. OkData(o) = <<>>
        BY <4>2, OkDataOf
      <4>5. Hears(s, bs, l, o)
        BY <3>7, <4>2, <4>4, NoElement, NothingGiven DEF Hears
      <4>6. Picks(l.rx, l.fcPending, f, o.link.rx, o.link.fcPending, o.out, bs)
        BY <1>3, <3>4, <3>7, <3>11, <4>2, <4>3 DEF Picks
      <4> QED
        BY <4>5, <4>6 DEF Catches, o
    <3> QED
      BY <3>2, <3>9, <3>10, <3>11
  <2> QED
    BY <2>7, <2>8
<1> QED
  BY <1>1, <1>2, <1>3

\* Data of side s.
LEMMA FrameCatches ==
    ASSUME NEW s, NEW bs, NEW l, LinkOK(l), Receiver(s, l.rx), NEW cfg, cfg.blockSize \in Nat,
           NEW f, Carries(s, bs, f), ~IsFc(f), NEW room \in Nat
    PROVE  Catches(s, cfg.blockSize, l, f, RxFrame(l, cfg, f, room))
<1> DEFINE accepted == room > 0
           r == RxFrame(l, cfg, f, room)
<1>1. f.dlc \in 1 .. CanDl /\ ~(f.dlc = 0 \/ f.dlc > CanDl) /\ f.dlc = CanDl
  BY Sizes DEF Carries
<1>2. accepted \in BOOLEAN
  OBVIOUS
<1>3. CASE f.pci = "SF"
  <2>1. r = RxOnSingleFrame(l, cfg, f)
    BY <1>1, <1>3 DEF RxFrame
  <2>2. /\ f.length \in Nat \ {0} /\ f.length <= SfMax
        /\ IsSeq(f.data) /\ Len(f.data) = SfMax /\ Named(s, f.data)
    BY <1>3 DEF Carries, IsFc
  <2> QED
    BY <2>1, <2>2, SingleFrameCatches
<1>4. CASE f.pci = "FF"
  <2>1. r = RxOnFirstFrame(l, cfg, f, accepted)
    BY <1>1, <1>4 DEF RxFrame
  <2>2. /\ f.length \in Nat /\ f.length > SfMax
        /\ IsSeq(f.data) /\ Len(f.data) = FfData /\ Named(s, f.data)
    BY <1>4 DEF Carries, IsFc
  <2> HIDE DEF accepted, r
  <2> QED
    BY <1>1, <1>2, <1>4, <2>1, <2>2, FirstFrameCatches DEF r
<1>5. CASE f.pci = "CF"
  <2>1. r = RxOnConsecutiveFrame(l, cfg, f, accepted)
    BY <1>1, <1>5 DEF RxFrame
  <2>2. IsSeq(f.data) /\ Len(f.data) = CfMax
    BY <1>5 DEF Carries, IsFc
  <2> HIDE DEF accepted, r
  <2> QED
    BY <1>1, <1>2, <1>5, <2>1, <2>2, ConsecutiveFrameCatches DEF r
<1> QED
  BY <1>3, <1>4, <1>5 DEF Carries

\* The receiver's own turn: a Flow Control it owes, and N_Cr.
Owes(s, bs, l, o) ==
    /\ Hears(s, bs, l, o) /\ (o.link.rx = l.rx \/ o.link.rx.state /= "RECEIVING")
    /\ Count(o.out, "FC") + Pend(o.link.fcPending) = Pend(l.fcPending)

Paid(l, cfg, room) ==
    IF l.fcPending = NoFc THEN Unchanged(l) ELSE RxSendFlowControl(l, cfg, l.fcPending, room > 0)

Pays(s, bs, l, o) == Owes(s, bs, l, o) /\ o.link.rx = l.rx /\ o.ind = <<>>

LEMMA PaysOwed ==
    ASSUME NEW s, NEW l, LinkOK(l), Receiver(s, l.rx), NEW cfg, cfg.blockSize \in Nat, NEW room \in Nat,
           NEW o, o = Paid(l, cfg, room)
    PROVE  Pays(s, cfg.blockSize, l, o)
<1>1. CASE l.fcPending = NoFc
  <2>1. o = Unchanged(l)
    BY <1>1 DEF Paid
  <2>2. /\ Hears(s, cfg.blockSize, l, o) /\ o.link = l /\ o.ind = <<>> /\ Count(o.out, "FC") = 0
    BY <2>1, QuietHears
  <2>3. Pend(l.fcPending) = 0
    BY <1>1 DEF Pend
  <2> QED
    BY <2>2, <2>3 DEF Owes, Pays
<1>2. CASE l.fcPending /= NoFc
  <2> DEFINE accepted == room > 0
             status == l.fcPending
  <2>1. o = RxSendFlowControl(l, cfg, status, accepted)
    BY <1>2 DEF Paid
  <2>2. accepted \in BOOLEAN /\ status /= NoFc
    BY <1>2
  <2>3. Pend(l.fcPending) = 1
    BY <1>2 DEF Pend
  <2> HIDE DEF accepted, status
  <2>4. /\ LinkOK(o.link) /\ o.link.tx = l.tx /\ o.link.rx = l.rx /\ o.ind = <<>>
        /\ Grantings(cfg.blockSize, o.out) /\ Count(o.out, "FC") + Pend(o.link.fcPending) = 1
    BY <2>1, <2>2, FcOwed
  <2>5. OkData(o) = <<>>
    BY <2>4, OkDataOf
  <2> QED
    BY <2>3, <2>4, <2>5, NoElement, NothingGiven DEF Pays, Owes, Hears
<1> QED
  BY <1>1, <1>2

LEMMA ReceiverOwes ==
    ASSUME NEW s, NEW l, LinkOK(l), Receiver(s, l.rx), NEW cfg, cfg.blockSize \in Nat, NEW room \in Nat
    PROVE  Owes(s, cfg.blockSize, l, MainReceiver(l, cfg, room))
<1> DEFINE o == Paid(l, cfg, room)
           m == o.link
           p == RxFinish(m, "ERR_TIMEOUT_CR")
           r == MainReceiver(l, cfg, room)
           bs == cfg.blockSize
<1>1. r = IF m.rx.state = "RECEIVING" /\ m.rx.timer >= NCr THEN Then(o, p) ELSE o
  BY DEF MainReceiver, Paid
<1>2. Owes(s, bs, l, o) /\ m.rx = l.rx /\ o.ind = <<>>
  <2>1. o = Paid(l, cfg, room)
    OBVIOUS
  <2> HIDE DEF o
  <2>2. Pays(s, cfg.blockSize, l, o)
    BY <2>1, PaysOwed
  <2> QED
    BY <2>2 DEF Pays
<1> HIDE DEF o, r
<1>3. LinkOK(m) /\ m.tx = l.tx /\ Grantings(bs, o.out)
  BY <1>2 DEF Owes, Hears
<1>4. CASE r = o
  BY <1>2, <1>4 DEF r
<1>5. CASE r = Then(o, p)
  <2>1. "ERR_TIMEOUT_CR" /= "OK"
    OBVIOUS
  <2> HIDE DEF m
  <2>2. /\ Hears(s, bs, m, p) /\ p.link.rx.state = "IDLE" /\ p.link.fcPending = m.fcPending
        /\ p.out = <<>>
    BY <1>3, <2>1, FailHears
  <2>3. r.link = p.link /\ r.out = o.out \o p.out /\ r.ind = o.ind \o p.ind
    BY <1>5 DEF Then
  <2> HIDE DEF p
  <2>4. r.out = o.out
    <3>1. IsSeq(o.out)
      BY <1>3, GrantingsOnly
    <3> QED
      BY <2>2, <2>3, <3>1, WithNothing
  <2>5. r.ind = p.ind /\ IsSeq(p.ind)
    <3>1. IsSeq(p.ind)
      BY <2>2 DEF Hears
    <3> QED
      BY <1>2, <2>3, <3>1, WithNothing
  <2>6. OkData(r) = OkData(p)
    BY <2>5 DEF OkData
  <2>7. Hears(s, bs, l, r)
    BY <1>3, <2>2, <2>3, <2>4, <2>5, <2>6 DEF Hears
  <2>8. Count(r.out, "FC") + Pend(r.link.fcPending) = Pend(l.fcPending)
    BY <1>2, <2>2, <2>3, <2>4 DEF Owes, m
  <2>9. r.link.rx.state /= "RECEIVING"
    BY <2>2, <2>3
  <2> QED
    BY <2>7, <2>8, <2>9 DEF Owes, r
<1> QED
  BY <1>1, <1>4, <1>5 DEF r

-----------------------------------------------------------------------------
(* Both directions.                                                        *)

\* The frames q from the link m to the link l, which grants blocks of bs; r goes back.
Into(q, m, l, r, bs) == bs /= 0 => Way(q, m.tx, l.rx, Count(r, "FC") + Pend(l.fcPending), bs)

Two(q, r, l, m, bs, cs) == IsSeq(q) /\ IsSeq(r) /\ Into(q, m, l, r, bs) /\ Into(r, l, m, q, cs)

LEMMA TwoOther ==
    ASSUME NEW q, NEW r, NEW l, NEW m, NEW bs, NEW cs, Two(q, r, l, m, bs, cs)
    PROVE  Two(r, q, m, l, cs, bs)
BY DEF Two

LEMMA ReceiverSized == ASSUME NEW s, NEW rx, Receiver(s, rx) PROVE SizedRx(rx)
BY DEF Receiver, SizedRx

\* A call of l that only sends.
LEMMA TwoSpoken ==
    ASSUME NEW q, NEW r, NEW l, NEW m, NEW bs \in Nat, NEW cs \in Nat, Two(q, r, l, m, bs, cs),
           SizedRx(m.rx), NEW o, o.link.rx = l.rx, Leads(l, o)
    PROVE  Two(q, r \o o.out, o.link, m, bs, cs)
<1> DEFINE out == o.out
           h == r \o out
<1>1. /\ IsSeq(q) /\ IsSeq(r) /\ IsSeq(out) /\ Count(out, "FC") = 0
      /\ o.link.fcPending = l.fcPending /\ Advances(l.tx, o.link.tx, out)
  BY DEF Two, Leads, Advances
<1> HIDE DEF out
<1>2. IsSeq(h)
  BY <1>1, Concatenated
<1>3. Count(h, "FC") = Count(r, "FC")
  <2>1. Count(h, "FC") = Count(r, "FC") + Count(out, "FC")
    BY <1>1, CountSum
  <2>2. Count(r, "FC") \in Nat
    BY <1>1, KindFinite
  <2> QED
    BY <1>1, <2>1, <2>2
<1>4. Into(q, m, o.link, h, bs)
  <2>1. Into(q, m, l, r, bs)
    BY DEF Two
  <2> HIDE DEF h
  <2> QED
    BY <1>1, <1>3, <2>1 DEF Into
<1>5. ASSUME cs /= 0 PROVE Way(h, o.link.tx, m.rx, Count(q, "FC") + Pend(m.fcPending), cs)
  <2>1. Way(r, l.tx, m.rx, Count(q, "FC") + Pend(m.fcPending), cs) /\ cs \in Nat \ {0}
    BY <1>5 DEF Two, Into
  <2> QED
    BY <1>1, <2>1, WayAdvances
<1> QED
  BY <1>1, <1>2, <1>4, <1>5 DEF Two, Into, out

\* What l is owed is not counted twice when its peer takes a frame.
LEMMA HeardBack ==
    ASSUME NEW s, NEW bs, NEW l, NEW o, Hears(s, bs, l, o),
           NEW r, IsSeq(r), NEW m, NEW q, NEW t, IsSeq(q), IsSeq(t), Count(t, "FC") <= Count(q, "FC"),
           NEW cs \in Nat, Into(r, l, m, q, cs)
    PROVE  IsSeq(r \o o.out) /\ Into(r \o o.out, o.link, m, t, cs)
<1> DEFINE out == o.out
           h == r \o out
<1>1. IsSeq(out) /\ Count(out, "CF") = 0 /\ Count(out, "FF") = 0 /\ o.link.tx = l.tx
  BY GrantingsOnly DEF Hears
<1> HIDE DEF out
<1>2. IsSeq(h)
  BY <1>1, Concatenated
<1>3. ASSUME cs /= 0 PROVE Way(h, o.link.tx, m.rx, Count(t, "FC") + Pend(m.fcPending), cs)
  <2> DEFINE g == Count(q, "FC") + Pend(m.fcPending)
             g2 == Count(t, "FC") + Pend(m.fcPending)
  <2>1. Way(r, l.tx, m.rx, g, cs)
    BY <1>3 DEF Into
  <2>2. g2 \in Nat /\ g2 <= g
    <3>1. Count(q, "FC") \in Nat /\ Count(t, "FC") \in Nat /\ Pend(m.fcPending) \in {0, 1}
      BY KindFinite, PendIs
    <3> QED
      BY <3>1
  <2> HIDE DEF g, g2
  <2>3. Way(r, l.tx, m.rx, g2, cs)
    BY <2>1, <2>2, WayLess
  <2>4. Way(h, l.tx, m.rx, g2, cs)
    BY <1>1, <2>3, WayMore
  <2> QED
    BY <1>1, <2>4 DEF g2
<1> QED
  BY <1>2, <1>3 DEF Into, out

\* l takes data.
LEMMA TwoCaught ==
    ASSUME NEW q, q /= <<>>, NEW r, NEW l, NEW m, NEW bs \in Nat, NEW cs \in Nat,
           Two(q, r, l, m, bs, cs), SizedRx(l.rx), NEW s, NEW o, Catches(s, bs, l, Head(q), o)
    PROVE  Two(Tail(q), r \o o.out, o.link, m, bs, cs)
<1> DEFINE out == o.out
           h == r \o out
           t == Tail(q)
           n == Count(r, "FC")
<1>1. IsSeq(q) /\ IsSeq(r) /\ Into(q, m, l, r, bs) /\ Into(r, l, m, q, cs)
  BY DEF Two
<1>2. IsSeq(t) /\ Count(t, "FC") <= Count(q, "FC")
  <2>1. IsSeq(t)
    BY <1>1, Rest
  <2>2. Count(q, "FC") = (IF Head(q).pci = "FC" THEN 1 ELSE 0) + Count(t, "FC")
    BY <1>1, CountTail
  <2>3. Count(t, "FC") \in Nat
    BY <2>1, KindFinite
  <2> QED
    BY <2>1, <2>2, <2>3
<1>3. Hears(s, bs, l, o) /\ Picks(l.rx, l.fcPending, Head(q), o.link.rx, o.link.fcPending, out, bs)
  BY DEF Catches
<1>4. IsSeq(h) /\ Into(h, o.link, m, t, cs)
  BY <1>1, <1>2, <1>3, HeardBack
<1>5. IsSeq(out) /\ n \in Nat
  BY <1>1, <1>3, GrantingsOnly, KindFinite DEF Hears
<1> HIDE DEF out, t
<1>6. Count(h, "FC") = n + Count(out, "FC")
  BY <1>1, <1>5, CountSum
<1>7. ASSUME bs /= 0 PROVE Way(t, m.tx, o.link.rx, Count(h, "FC") + Pend(o.link.fcPending), bs)
  <2>1. Way(q, m.tx, l.rx, n + Pend(l.fcPending), bs) /\ bs \in Nat \ {0}
    BY <1>1, <1>7 DEF Into
  <2> HIDE DEF h, n
  <2>2. Way(t, m.tx, o.link.rx, n + (Count(out, "FC") + Pend(o.link.fcPending)), bs)
    BY <1>3, <1>5, <2>1, WayPicks DEF t
  <2>3. n + (Count(out, "FC") + Pend(o.link.fcPending)) = Count(h, "FC") + Pend(o.link.fcPending)
    <3>1. Count(out, "FC") \in Nat /\ Pend(o.link.fcPending) \in {0, 1}
      BY <1>5, KindFinite, PendIs
    <3> QED
      BY <1>5, <1>6, <3>1
  <2> QED
    BY <2>2, <2>3
<1> HIDE DEF h
<1>8. Into(t, m, o.link, h, bs)
  BY <1>7 DEF Into
<1> QED
  BY <1>2, <1>4, <1>8 DEF Two, t, h, out

\* l takes a Flow Control of its peer.
LEMMA TwoGranted ==
    ASSUME NEW q, q /= <<>>, NEW r, NEW l, NEW m, NEW bs \in Nat, NEW cs \in Nat,
           Two(q, r, l, m, bs, cs), SizedRx(m.rx), Head(q).pci = "FC", Head(q).bs = cs,
           NEW o, o.link.rx = l.rx, o.link.fcPending = l.fcPending, Count(o.out, "FC") = 0,
           IsSeq(o.out), Grants(l.tx, Head(q), o.link.tx, o.out)
    PROVE  Two(Tail(q), r \o o.out, o.link, m, bs, cs)
<1> DEFINE out == o.out
           h == r \o out
           t == Tail(q)
           f == Head(q)
<1>1. /\ IsSeq(q) /\ IsSeq(r) /\ Into(q, m, l, r, bs) /\ Into(r, l, m, q, cs)
      /\ IsSeq(out) /\ Count(out, "FC") = 0 /\ Grants(l.tx, f, o.link.tx, out) /\ f.bs = cs
  BY DEF Two
<1> HIDE DEF out
<1>2. IsSeq(t) /\ Count(t, "FC") \in Nat /\ Count(q, "FC") = 1 + Count(t, "FC")
  <2>1. IsSeq(t)
    BY <1>1, Rest
  <2>2. Count(q, "FC") = (IF Head(q).pci = "FC" THEN 1 ELSE 0) + Count(t, "FC")
    BY <1>1, CountTail
  <2> QED
    BY <2>1, <2>2, KindFinite
<1>3. IsSeq(h) /\ Count(h, "FC") = Count(r, "FC")
  <2>1. IsSeq(h)
    BY <1>1, Concatenated
  <2>2. Count(h, "FC") = Count(r, "FC") + Count(out, "FC")
    BY <1>1, CountSum
  <2>3. Count(r, "FC") \in Nat
    BY <1>1, KindFinite
  <2> QED
    BY <1>1, <2>1, <2>2, <2>3
<1>4. ASSUME bs /= 0 PROVE Way(t, m.tx, o.link.rx, Count(h, "FC") + Pend(o.link.fcPending), bs)
  <2> HIDE DEF h
  <2>1. Way(q, m.tx, l.rx, Count(h, "FC") + Pend(l.fcPending), bs)
    BY <1>1, <1>3, <1>4 DEF Into
  <2>2. Way(t, m.tx, l.rx, Count(h, "FC") + Pend(l.fcPending), bs)
    BY <2>1, WayRest
  <2> QED
    BY <2>2
<1>5. ASSUME cs /= 0 PROVE Way(h, o.link.tx, m.rx, Count(t, "FC") + Pend(m.fcPending), cs)
  <2> DEFINE n == Count(t, "FC") + Pend(m.fcPending)
  <2>1. n \in Nat /\ Count(q, "FC") + Pend(m.fcPending) = n + 1
    <3>1. Pend(m.fcPending) \in {0, 1}
      BY PendIs
    <3> QED
      BY <1>2, <3>1
  <2>2. Way(r, l.tx, m.rx, n + 1, cs) /\ cs \in Nat \ {0}
    BY <1>1, <1>5, <2>1 DEF Into
  <2> HIDE DEF n, f
  <2>3. Way(h, o.link.tx, m.rx, n, cs)
    BY <1>1, <2>1, <2>2, WayGrants
  <2> QED
    BY <2>3 DEF n
<1> HIDE DEF h, t
<1>6. Into(t, m, o.link, h, bs) /\ Into(h, o.link, m, t, cs)
  BY <1>4, <1>5 DEF Into
<1> QED
  BY <1>2, <1>3, <1>6 DEF Two, t, h, out

\* l sends a Flow Control that it owed, or gives up a reception.
LEMMA TwoPaid ==
    ASSUME NEW q, NEW r, NEW l, NEW m, NEW bs \in Nat, NEW cs \in Nat, Two(q, r, l, m, bs, cs),
           NEW s, NEW o, Owes(s, bs, l, o)
    PROVE  Two(q, r \o o.out, o.link, m, bs, cs)
<1> DEFINE out == o.out
           h == r \o out
<1>1. IsSeq(q) /\ IsSeq(r) /\ Into(q, m, l, r, bs) /\ Into(r, l, m, q, cs)
  BY DEF Two
<1>2. Count(q, "FC") <= Count(q, "FC")
  BY <1>1, KindFinite
<1>3. /\ Hears(s, bs, l, o) /\ (o.link.rx = l.rx \/ o.link.rx.state /= "RECEIVING")
      /\ Count(out, "FC") + Pend(o.link.fcPending) = Pend(l.fcPending)
  BY DEF Owes
<1>4. IsSeq(h) /\ Into(h, o.link, m, q, cs)
  BY <1>1, <1>2, <1>3, HeardBack
<1>5. IsSeq(out)
  BY <1>3, GrantingsOnly DEF Hears
<1> HIDE DEF out
<1>6. Count(h, "FC") + Pend(o.link.fcPending) = Count(r, "FC") + Pend(l.fcPending)
  <2>1. Count(h, "FC") = Count(r, "FC") + Count(out, "FC")
    BY <1>1, <1>5, CountSum
  <2>2. /\ Count(r, "FC") \in Nat /\ Count(out, "FC") \in Nat
        /\ Pend(o.link.fcPending) \in {0, 1} /\ Pend(l.fcPending) \in {0, 1}
    BY <1>1, <1>5, KindFinite, PendIs
  <2> QED
    BY <1>3, <2>1, <2>2
<1> HIDE DEF h
<1>7. ASSUME bs /= 0 PROVE Way(q, m.tx, o.link.rx, Count(h, "FC") + Pend(o.link.fcPending), bs)
  <2>1. Way(q, m.tx, l.rx, Count(h, "FC") + Pend(o.link.fcPending), bs)
    BY <1>1, <1>6, <1>7 DEF Into
  <2> QED
    BY <1>3, <2>1, WayIdle
<1> QED
  BY <1>1, <1>4, <1>7 DEF Two, Into, h, out

\* A frame to l is lost.
LEMMA TwoLess ==
    ASSUME NEW q, NEW r, NEW l, NEW m, NEW bs \in Nat, NEW cs \in Nat, Two(q, r, l, m, bs, cs),
           NEW k \in 1 .. Len(q)
    PROVE  Two(Without(q, k), r, l, m, bs, cs)
<1> DEFINE t == Without(q, k)
<1>1. IsSeq(q) /\ IsSeq(r) /\ Into(q, m, l, r, bs) /\ Into(r, l, m, q, cs)
  BY DEF Two
<1>2. Shorter(q, k, t, "CF") /\ Shorter(q, k, t, "FF") /\ Shorter(q, k, t, "FC")
  BY <1>1, CountLoss
<1> HIDE DEF t
<1>3. IsSeq(t) /\ Count(q, "FC") = Count(t, "FC") + IF q[k].pci = "FC" THEN 1 ELSE 0
  BY <1>2 DEF Shorter
<1>4. ASSUME bs /= 0 PROVE Way(t, m.tx, l.rx, Count(r, "FC") + Pend(l.fcPending), bs)
  <2>1. Way(q, m.tx, l.rx, Count(r, "FC") + Pend(l.fcPending), bs)
    BY <1>1, <1>4 DEF Into
  <2> QED
    BY <1>2, <2>1, WayLoss
<1>5. ASSUME cs /= 0 PROVE Way(r, l.tx, m.rx, Count(t, "FC") + Pend(m.fcPending), cs)
  <2>1. Way(r, l.tx, m.rx, Count(q, "FC") + Pend(m.fcPending), cs)
    BY <1>1, <1>5 DEF Into
  <2>2. /\ Count(t, "FC") + Pend(m.fcPending) \in Nat
        /\ Count(t, "FC") + Pend(m.fcPending) <= Count(q, "FC") + Pend(m.fcPending)
    <3>1. Count(t, "FC") \in Nat /\ Pend(m.fcPending) \in {0, 1}
      BY <1>3, KindFinite, PendIs
    <3> QED
      BY <1>3, <3>1
  <2> QED
    BY <2>1, <2>2, WayLess
<1> QED
  BY <1>1, <1>3, <1>4, <1>5 DEF Two, Into, t

-----------------------------------------------------------------------------
(* A call of side s, which keeps what both directions know of each other.  *)

Sound(s, l) == LinkOK(l) /\ Sender(s, l.tx) /\ Receiver(Peer(s), l.rx)

\* What a call of side s with outcome o makes of its link l, of the frames q to it,
\* of which rest remain, and of those to its peer, r; m is the link of the peer.
Call(s, l, m, q, r, rest, bs, cs, o) ==
    /\ Sound(s, o.link) /\ Carried(s, bs, o.out)
    /\ Two(q, r, l, m, bs, cs) => Two(rest, r \o o.out, o.link, m, bs, cs)

LEMMA SpokenCall ==
    ASSUME NEW s, NEW l, Sound(s, l), NEW m, SizedRx(m.rx), NEW q, NEW r, NEW bs \in Nat, NEW cs \in Nat,
           NEW o, Speaks(s, bs, l, o), Leads(l, o)
    PROVE  Call(s, l, m, q, r, q, bs, cs, o)
<1>1. o.link.rx = l.rx /\ Sound(s, o.link) /\ Carried(s, bs, o.out)
  BY DEF Speaks, Sound
<1>2. Two(q, r, l, m, bs, cs) => Two(q, r \o o.out, o.link, m, bs, cs)
  BY <1>1, TwoSpoken
<1> QED
  BY <1>1, <1>2 DEF Call

LEMMA HeardSound ==
    ASSUME NEW s, NEW l, Sound(s, l), NEW bs, NEW o, Hears(Peer(s), bs, l, o)
    PROVE  Sound(s, o.link) /\ Carried(s, bs, o.out)
<1>1. /\ LinkOK(o.link) /\ o.link.tx = l.tx /\ Receiver(Peer(s), o.link.rx) /\ Grantings(bs, o.out)
  BY DEF Hears
<1>2. Carried(s, bs, o.out)
  BY <1>1, GrantingsOnly
<1> QED
  BY <1>1, <1>2 DEF Sound

\* The receiver takes data, the sender a Flow Control.
LEMMA FrameCall ==
    ASSUME NEW s, NEW l, Sound(s, l), NEW m, SizedRx(m.rx), NEW q, q /= <<>>, NEW r,
           NEW cfg, cfg.blockSize \in Nat, NEW cs \in Nat, Carries(Peer(s), cs, Head(q)), NEW room \in Nat
    PROVE  /\ Call(s, l, m, q, r, Tail(q), cfg.blockSize, cs, RxFrame(l, cfg, Head(q), room))
           /\ Given(Peer(s), OkData(RxFrame(l, cfg, Head(q), room)))
<1> DEFINE f == Head(q)
           o == RxFrame(l, cfg, f, room)
           bs == cfg.blockSize
<1>1. LinkOK(l) /\ Sender(s, l.tx) /\ Receiver(Peer(s), l.rx) /\ SizedRx(l.rx)
  BY ReceiverSized DEF Sound
<1>2. CASE ~IsFc(f)
  <2>1. Catches(Peer(s), bs, l, f, o)
    BY <1>1, <1>2, FrameCatches
  <2> HIDE DEF o
  <2>2. Hears(Peer(s), bs, l, o)
    BY <2>1 DEF Catches
  <2>3. Given(Peer(s), OkData(o)) /\ Sound(s, o.link) /\ Carried(s, bs, o.out)
    BY <2>2, HeardSound DEF Hears
  <2>4. Two(q, r, l, m, bs, cs) => Two(Tail(q), r \o o.out, o.link, m, bs, cs)
    BY <1>1, <2>1, TwoCaught
  <2> QED
    BY <2>3, <2>4 DEF Call, o
<1>3. CASE IsFc(f)
  <2>1. f.pci = "FC" /\ f.bs = cs /\ f.dlc \in 1 .. CanDl /\ ~(f.dlc = 0 \/ f.dlc > CanDl)
    BY <1>3, Sizes DEF IsFc, Carries
  <2>2. o = TxOnFlowControl(l, f, room)
    BY <2>1 DEF RxFrame
  <2> HIDE DEF o, f
  <2>3. /\ Speaks(s, bs, l, o) /\ Count(o.out, "FC") = 0
        /\ o.link.fcPending = l.fcPending /\ Grants(l.tx, f, o.link.tx, o.out)
    BY <1>1, <1>3, <2>2, FlowControlSpeaks
  <2>4. /\ o.link.rx = l.rx /\ Sound(s, o.link) /\ Carried(s, bs, o.out) /\ IsSeq(o.out) /\ o.ind = <<>>
    BY <1>1, <2>3 DEF Speaks, Sound, Carried
  <2>5. Given(Peer(s), OkData(o))
    BY <2>4, OkDataOf, NothingGiven
  <2>6. Two(q, r, l, m, bs, cs) => Two(Tail(q), r \o o.out, o.link, m, bs, cs)
    BY <2>1, <2>3, <2>4, TwoGranted DEF f
  <2> QED
    BY <2>4, <2>5, <2>6 DEF Call, o, f
<1> QED
  BY <1>2, <1>3

LEMMA CarriedOn ==
    ASSUME NEW s, NEW bs, NEW q, Carried(s, bs, q), NEW r, Carried(s, bs, r)
    PROVE  Carried(s, bs, q \o r)
<1> DEFINE h == q \o r
           n == Len(q)
<1>1. /\ IsSeq(q) /\ IsSeq(r) /\ n \in Nat /\ Len(r) \in Nat
      /\ \A k \in 1 .. n : Carries(s, bs, q[k])
      /\ \A k \in 1 .. Len(r) : Carries(s, bs, r[k])
  BY Indices DEF Carried
<1>2. /\ IsSeq(h) /\ Len(h) = n + Len(r)
      /\ \A k \in 1 .. n : h[k] = q[k]
      /\ \A k \in 1 .. Len(r) : h[n + k] = r[k]
  BY <1>1, Concatenated
<1> HIDE DEF h, n
<1>3. ASSUME NEW k \in 1 .. Len(h) PROVE Carries(s, bs, h[k])
  <2>1. CASE k <= n
    <3>1. k \in 1 .. n
      BY <1>1, <1>2, <2>1
    <3> QED
      BY <1>1, <1>2, <3>1
  <2>2. CASE ~(k <= n)
    <3> DEFINE i == k - n
    <3>1. i \in 1 .. Len(r) /\ n + i = k
      BY <1>1, <1>2, <2>2
    <3> HIDE DEF i
    <3>2. h[k] = r[i]
      BY <1>2, <3>1
    <3> QED
      BY <1>1, <3>1, <3>2
  <2> QED
    BY <2>1, <2>2
<1>4. Carried(s, bs, h)
  BY <1>2, <1>3 DEF Carried
<1> QED
  BY <1>4 DEF h

LEMMA CallThen ==
    ASSUME NEW s, NEW l, NEW m, NEW q, NEW r, NEW rest, NEW bs, NEW cs,
           NEW o, Call(s, l, m, q, r, rest, bs, cs, o), IsSeq(r),
           NEW p, Call(s, o.link, m, rest, r \o o.out, rest, bs, cs, p)
    PROVE  Call(s, l, m, q, r, rest, bs, cs, Then(o, p))
<1> DEFINE t == Then(o, p)
<1>1. t.link = p.link /\ t.out = o.out \o p.out
  BY DEF Then
<1> HIDE DEF t
<1>2. /\ Sound(s, p.link) /\ Carried(s, bs, o.out) /\ Carried(s, bs, p.out)
      /\ Two(q, r, l, m, bs, cs) => Two(rest, (r \o o.out) \o p.out, p.link, m, bs, cs)
  BY DEF Call
<1>3. IsSeq(o.out) /\ IsSeq(p.out)
  BY <1>2 DEF Carried
<1>4. (r \o o.out) \o p.out = r \o t.out
  <2> DEFINE a == o.out
             b == p.out
  <2>1. IsSeq(r) /\ IsSeq(a) /\ IsSeq(b) /\ t.out = a \o b
    BY <1>1, <1>3
  <2> HIDE DEF a, b
  <2>2. (r \o a) \o b = r \o (a \o b)
    BY <2>1, Regrouped
  <2>3. (r \o a) \o b = r \o t.out
    BY <2>1, <2>2
  <2> QED
    BY <2>3 DEF a, b
<1>5. Carried(s, bs, t.out)
  BY <1>1, <1>2, CarriedOn
<1> QED
  BY <1>1, <1>2, <1>4, <1>5 DEF Call, t

LEMMA PollCall ==
    ASSUME NEW s, NEW l, Sound(s, l), NEW m, SizedRx(m.rx), NEW q, NEW r, IsSeq(r),
           NEW cfg, cfg.blockSize \in Nat, NEW cs \in Nat, NEW fcRoom \in Nat, NEW room \in Nat
    PROVE  Call(s, l, m, q, r, q, cfg.blockSize, cs, MainFunction(l, cfg, fcRoom, room))
<1> DEFINE bs == cfg.blockSize
           o == MainReceiver(l, cfg, fcRoom)
           k == o.link
           h == r \o o.out
           p == MainSender(k, room)
<1>1. LinkOK(l) /\ Receiver(Peer(s), l.rx)
  BY DEF Sound
<1>2. Owes(Peer(s), bs, l, o)
  BY <1>1, ReceiverOwes
<1>3. MainFunction(l, cfg, fcRoom, room) = Then(o, p)
  BY DEF MainFunction
<1> HIDE DEF o
<1>4. Sound(s, k) /\ Carried(s, bs, o.out)
  BY <1>2, HeardSound DEF Owes
<1>5. Call(s, l, m, q, r, q, bs, cs, o)
  <2>1. Two(q, r, l, m, bs, cs) => Two(q, h, k, m, bs, cs)
    BY <1>2, TwoPaid
  <2> QED
    BY <1>4, <2>1 DEF Call
<1> HIDE DEF k, h
<1>6. Speaks(s, bs, k, p) /\ Leads(k, p)
  BY <1>4, SenderSpeaks DEF Sound
<1> HIDE DEF p
<1>7. Call(s, k, m, q, h, q, bs, cs, p)
  BY <1>4, <1>6, SpokenCall
<1>8. Call(s, l, m, q, r, q, bs, cs, Then(o, p))
  BY <1>5, <1>7, CallThen DEF k, h
<1> QED
  BY <1>3, <1>8

-----------------------------------------------------------------------------
(* The two links, whatever is lost.                                        *)

Paths ==
    /\ Domains /\ IsSeq(sent["tester"])
    /\ \A s \in Sides : Sound(s, link[s]) /\ Carried(Peer(s), Cfg[Peer(s)].blockSize, chan[s])

Blocks ==
    \A s \in Sides :
        Two(chan[s], chan[Peer(s)], link[s], link[Peer(s)], Cfg[s].blockSize, Cfg[Peer(s)].blockSize)

BInv == setup \in Setups /\ Paths /\ (setup.prompt => Blocks)

\* The call of side s with outcome o, of its frames rest remain.
CallOf(s, rest, o) ==
    Call(s, link[s], link[Peer(s)], chan[s], chan[Peer(s)], rest,
         Cfg[s].blockSize, Cfg[Peer(s)].blockSize, o)

LEMMA Called ==
    ASSUME Paths, NEW s \in Sides, NEW o, NEW rest, Perform(s, o, rest), setup' = setup,
           DOMAIN sent' = Sides, IsSeq(sent'["tester"]), CallOf(s, rest, o),
           Carried(Peer(s), Cfg[Peer(s)].blockSize, rest)
    PROVE  Paths' /\ (Blocks => Blocks')
<1> DEFINE p == Peer(s)
           bs == Cfg[s].blockSize
           cs == Cfg[p].blockSize
           h == chan[p] \o o.out
<1>1. p \in Sides /\ p /= s /\ Peer(p) = s /\ \A x \in Sides : x = s \/ x = p
  BY Others
<1>2. /\ DOMAIN link' = Sides /\ DOMAIN chan' = Sides /\ DOMAIN delivered' = Sides
      /\ link'[s] = o.link /\ link'[p] = link[p] /\ chan'[s] = rest /\ chan'[p] = h
  BY Effect DEF Paths
<1>3. /\ Sound(s, o.link) /\ Carried(s, bs, o.out)
      /\ Two(chan[s], chan[p], link[s], link[p], bs, cs) => Two(rest, h, o.link, link[p], bs, cs)
  BY DEF CallOf, Call
<1>4. Sound(p, link[p]) /\ Carried(s, bs, chan[p])
  BY <1>1 DEF Paths
<1>5. Carried(s, bs, h)
  BY <1>3, <1>4, CarriedOn
<1>6. Cfg' = Cfg
  BY DEF Cfg
<1>7. Carried(p, cs, rest)
  OBVIOUS
<1> HIDE DEF p, h, bs, cs
<1>8. bs = Cfg[s].blockSize /\ cs = Cfg[p].blockSize /\ p = Peer(s)
  BY DEF bs, cs, p
<1>9. ASSUME NEW x \in Sides
      PROVE  Sound(x, link'[x]) /\ Carried(Peer(x), Cfg[Peer(x)].blockSize, chan'[x])
  <2>1. CASE x = s
    BY <1>2, <1>3, <1>7, <1>8, <2>1
  <2>2. CASE x = p
    BY <1>1, <1>2, <1>4, <1>5, <1>8, <2>2
  <2> QED
    BY <1>1, <2>1, <2>2
<1>10. ASSUME Blocks, NEW x \in Sides
       PROVE  Two(chan'[x], chan'[Peer(x)], link'[x], link'[Peer(x)], Cfg[x].blockSize, Cfg[Peer(x)].blockSize)
  <2>1. Two(chan[s], chan[p], link[s], link[p], bs, cs)
    BY <1>8, <1>10 DEF Blocks
  <2>2. Two(rest, h, o.link, link[p], bs, cs)
    BY <1>3, <2>1
  <2>3. Two(chan'[s], chan'[p], link'[s], link'[p], bs, cs)
    BY <1>2, <2>2
  <2>4. Two(chan'[p], chan'[s], link'[p], link'[s], cs, bs)
    BY <2>3, TwoOther
  <2>5. CASE x = s
    BY <1>8, <2>3, <2>5
  <2>6. CASE x = p
    BY <1>1, <1>8, <2>4, <2>6
  <2> QED
    BY <1>1, <2>5, <2>6
<1>11. Domains'
  BY <1>2 DEF Domains
<1> QED
  BY <1>6, <1>9, <1>10, <1>11 DEF Paths, Blocks

\* What is known of side s before it performs a call.
LEMMA KnownOf ==
    ASSUME Paths, setup \in Setups, NEW s \in Sides
    PROVE  /\ Cfg[s].blockSize \in Nat /\ Cfg[Peer(s)].blockSize \in Nat
           /\ Sound(s, link[s]) /\ SizedRx(link[Peer(s)].rx)
           /\ IsSeq(chan[s]) /\ IsSeq(chan[Peer(s)])
           /\ Carried(Peer(s), Cfg[Peer(s)].blockSize, chan[s])
           /\ DOMAIN sent = Sides
           /\ \A used \in Nat : \A room \in Rooms(s, used) : room \in Nat
<1>1. Peer(s) \in Sides /\ Peer(Peer(s)) = s
  BY Others
<1>2. Cfg[s].blockSize \in Nat /\ Cfg[Peer(s)].blockSize \in Nat
  BY <1>1, PairAssumption DEF Cfg
<1>3. /\ Sound(s, link[s]) /\ Sound(Peer(s), link[Peer(s)])
      /\ Carried(Peer(s), Cfg[Peer(s)].blockSize, chan[s]) /\ Carried(s, Cfg[s].blockSize, chan[Peer(s)])
  BY <1>1 DEF Paths
<1>4. SizedRx(link[Peer(s)].rx)
  BY <1>3, ReceiverSized DEF Sound
<1>5. IsSeq(chan[s]) /\ IsSeq(chan[Peer(s)])
  BY <1>3 DEF Carried
<1>6. \A used \in Nat : \A room \in Rooms(s, used) : room \in Nat
  BY <1>5, RoomsAreNat
<1> QED
  BY <1>2, <1>3, <1>4, <1>5, <1>6 DEF Paths, Domains

LEMMA PollPaths ==
    ASSUME Paths, setup \in Setups, NEW s \in Sides, Poll(s) PROVE Paths' /\ (Blocks => Blocks')
<1>1. /\ Cfg[s].blockSize \in Nat /\ Cfg[Peer(s)].blockSize \in Nat
      /\ Sound(s, link[s]) /\ SizedRx(link[Peer(s)].rx)
      /\ IsSeq(chan[s]) /\ IsSeq(chan[Peer(s)])
      /\ Carried(Peer(s), Cfg[Peer(s)].blockSize, chan[s])
      /\ DOMAIN sent = Sides
      /\ \A used \in Nat : \A room \in Rooms(s, used) : room \in Nat
  BY KnownOf
<1>2. PICK fcRoom \in Rooms(s, 0) :
         \E room \in Rooms(s, IF fcRoom > 0 /\ link[s].fcPending /= NoFc THEN 1 ELSE 0) :
            Perform(s, MainFunction(link[s], Cfg[s], fcRoom, room), chan[s])
  BY DEF Poll
<1>3. PICK room \in Rooms(s, IF fcRoom > 0 /\ link[s].fcPending /= NoFc THEN 1 ELSE 0) :
         Perform(s, MainFunction(link[s], Cfg[s], fcRoom, room), chan[s])
  BY <1>2
<1>4. fcRoom \in Nat /\ room \in Nat
  BY <1>1
<1> DEFINE o == MainFunction(link[s], Cfg[s], fcRoom, room)
<1>5. CallOf(s, chan[s], o)
  <2> DEFINE l == link[s]
             m == link[Peer(s)]
             q == chan[s]
             r == chan[Peer(s)]
             cfg == Cfg[s]
             cs == Cfg[Peer(s)].blockSize
  <2>1. Sound(s, l) /\ SizedRx(m.rx) /\ IsSeq(r) /\ cfg.blockSize \in Nat /\ cs \in Nat
    BY <1>1
  <2> HIDE DEF l, m, q, r, cfg, cs
  <2>2. Call(s, l, m, q, r, q, cfg.blockSize, cs, MainFunction(l, cfg, fcRoom, room))
    BY <1>4, <2>1, PollCall
  <2> QED
    BY <2>2 DEF CallOf, l, m, q, r, cfg, cs
<1>6. Perform(s, o, chan[s]) /\ setup' = setup /\ sent' = sent /\ IsSeq(sent["tester"])
  BY <1>3 DEF Poll, Paths
<1> HIDE DEF o
<1> QED
  BY <1>1, <1>5, <1>6, Called

LEMMA SendRequestPaths ==
    ASSUME Paths, setup \in Setups, SendRequest PROVE Paths' /\ (Blocks => Blocks')
<1> DEFINE s == "tester"
           S == sent["tester"]
           id == Len(S) + 1
           msg == Message("tester", id, Requests[id])
           T == Append(S, msg)
           l == link[s]
<1>1. s \in Sides /\ Peer(s) = "ecu"
  BY SideNames
<1>2. /\ Cfg[s].blockSize \in Nat /\ Cfg[Peer(s)].blockSize \in Nat
      /\ Sound(s, link[s]) /\ SizedRx(link[Peer(s)].rx)
      /\ IsSeq(chan[s]) /\ IsSeq(chan[Peer(s)])
      /\ Carried(Peer(s), Cfg[Peer(s)].blockSize, chan[s])
      /\ DOMAIN sent = Sides
      /\ \A used \in Nat : \A room \in Rooms(s, used) : room \in Nat
  BY <1>1, KnownOf
<1>3. id <= Len(Requests) /\ CanTransmit(l, Cfg[s], msg)
      /\ sent' = [sent EXCEPT !["tester"] = T] /\ setup' = setup
  BY DEF SendRequest
<1>4. PICK room \in Rooms(s, 0) : Perform(s, Transmit(l, msg, room), chan[s])
  BY DEF SendRequest
<1>5. room \in Nat
  BY <1>2
<1>6. IsSeq(S) /\ Len(S) \in Nat /\ id \in 1 .. Len(Requests)
  BY <1>3, Indices, PairAssumption DEF Paths
<1>7. Requests[id] \in Nat
  <2>1. Requests \in Seq(Nat)
    BY PairAssumption
  <2> HIDE DEF id
  <2> QED
    BY <1>6, <2>1
<1>8. Good(s, msg)
  <2>1. Requests[id] /= 0
    <3>1. Len(msg) /= 0
      BY <1>3 DEF CanTransmit
    <3>2. CASE Requests[id] = 0
      <4>1. msg = <<>>
        BY <3>2 DEF Message
      <4> QED
        BY <3>1, <4>1, NoElement
    <3> QED
      BY <3>2
  <2>2. Requests[id] \in Nat \ {0}
    BY <1>7, <2>1
  <2> HIDE DEF id
  <2>3. IsSeq(msg) /\ Len(msg) = Requests[id] /\ IdOf(msg) = id
    BY <2>2, MessageFacts
  <2> HIDE DEF msg
  <2> QED
    BY <1>6, <2>2, <2>3 DEF Good, Named
<1>9. l.tx.state = "IDLE"
  BY <1>3 DEF CanTransmit
<1> DEFINE o == Transmit(l, msg, room)
<1>10. CallOf(s, chan[s], o)
  <2> DEFINE bs == Cfg[s].blockSize
             m == link[Peer(s)]
             q == chan[s]
             r == chan[Peer(s)]
             cs == Cfg[Peer(s)].blockSize
  <2>1. Sound(s, l) /\ SizedRx(m.rx) /\ IsSeq(r) /\ bs \in Nat /\ cs \in Nat
    BY <1>2
  <2> HIDE DEF l, m, q, r, bs, cs, msg, s
  <2>2. Speaks(s, bs, l, o) /\ Leads(l, o)
    BY <1>5, <1>8, <1>9, <2>1, TransmitSpeaks DEF Sound
  <2> HIDE DEF o
  <2>3. Call(s, l, m, q, r, q, bs, cs, o)
    BY <2>1, <2>2, SpokenCall
  <2> QED
    BY <2>3 DEF CallOf, l, m, q, r, bs, cs
<1>11. DOMAIN sent' = Sides /\ IsSeq(sent'["tester"])
  <2>1. sent'["tester"] = T /\ DOMAIN sent' = Sides
    BY <1>2, <1>3, SideNames
  <2> HIDE DEF msg
  <2>2. IsSeq(T)
    BY <1>6, Appended
  <2> QED
    BY <2>1, <2>2
<1>12. Perform(s, o, chan[s])
  BY <1>4
<1> HIDE DEF o, s
<1> QED
  BY <1>1, <1>2, <1>3, <1>10, <1>11, <1>12, Called

LEMMA CarriedRest ==
    ASSUME NEW s, NEW bs, NEW q, q /= <<>>, Carried(s, bs, q)
    PROVE  Carries(s, bs, Head(q)) /\ Carried(s, bs, Tail(q))
<1> DEFINE t == Tail(q)
<1>1. IsSeq(q) /\ \A k \in 1 .. Len(q) : Carries(s, bs, q[k])
  BY DEF Carried
<1>2. /\ IsSeq(t) /\ Len(q) \in Nat \ {0} /\ Len(t) = Len(q) - 1 /\ Head(q) = q[1]
      /\ \A k \in 1 .. Len(q) - 1 : t[k] = q[k + 1]
  BY <1>1, Rest
<1> HIDE DEF t
<1>3. ASSUME NEW k \in 1 .. Len(t) PROVE Carries(s, bs, t[k])
  <2>1. k \in 1 .. Len(q) - 1 /\ k + 1 \in 1 .. Len(q)
    BY <1>2
  <2> QED
    BY <1>1, <1>2, <2>1
<1>4. Carried(s, bs, t)
  BY <1>2, <1>3 DEF Carried
<1>5. 1 \in 1 .. Len(q)
  BY <1>2
<1> QED
  BY <1>1, <1>2, <1>4, <1>5 DEF t

\* The response that the ECU may transmit is a message, for its request has a number.
LEMMA ResponseGood ==
    ASSUME NEW o, Given("tester", OkData(o)), OkData(o) /= <<>>, NEW m, m = ResponseTo(o), Len(m) /= 0
    PROVE  Good("ecu", m)
<1> DEFINE F == OkData(o)
           id == IdOf(F[1])
<1>1. IsSeq(F) /\ F /= <<>> /\ \A k \in 1 .. Len(F) : Named("tester", F[k])
  BY DEF Given
<1>2. m = Message("ecu", id, Responses[id])
  BY DEF ResponseTo
<1> HIDE DEF F
<1>3. Len(F) \in Nat \ {0}
  BY <1>1, Rest
<1>4. Named("tester", F[1])
  <2>1. 1 \in 1 .. Len(F)
    BY <1>3
  <2> QED
    BY <1>1, <2>1
<1>5. id \in 1 .. Len(Requests)
  BY <1>4 DEF Named
<1> HIDE DEF id
<1>6. Responses[id] \in Nat
  <2>1. Len(Requests) = Len(Responses) /\ Responses \in Seq(Nat)
    BY PairAssumption
  <2> QED
    BY <1>5, <2>1
<1>7. Responses[id] /= 0
  <2>1. CASE Responses[id] = 0
    <3>1. m = <<>>
      BY <1>2, <2>1 DEF Message
    <3> QED
      BY <3>1, NoElement
  <2> QED
    BY <2>1
<1>8. Responses[id] \in Nat \ {0}
  BY <1>6, <1>7
<1>9. IsSeq(m) /\ Len(m) = Responses[id]
  BY <1>2, <1>8, MessageFacts
<1> QED
  BY <1>8, <1>9 DEF Good, Named

LEMMA ReceivePaths ==
    ASSUME Paths, setup \in Setups, NEW s \in Sides, Receive(s) PROVE Paths' /\ (Blocks => Blocks')
<1> DEFINE p == Peer(s)
           l == link[s]
           cfg == Cfg[s]
           cs == Cfg[p].blockSize
           q == chan[s]
           f == Head(q)
           rest == Tail(q)
<1>1. /\ Cfg[s].blockSize \in Nat /\ Cfg[Peer(s)].blockSize \in Nat
      /\ Sound(s, link[s]) /\ SizedRx(link[Peer(s)].rx)
      /\ IsSeq(chan[s]) /\ IsSeq(chan[Peer(s)])
      /\ Carried(Peer(s), Cfg[Peer(s)].blockSize, chan[s])
      /\ DOMAIN sent = Sides
      /\ \A used \in Nat : \A room \in Rooms(s, used) : room \in Nat
  BY KnownOf
<1>2. q /= <<>> /\ setup' = setup
  BY DEF Receive
<1>3. PICK room \in Rooms(s, 0) :
         IF /\ s = "ecu" /\ OkData(RxFrame(l, cfg, f, room)) /= <<>>
            /\ CanTransmit(RxFrame(l, cfg, f, room).link, cfg, ResponseTo(RxFrame(l, cfg, f, room)))
         THEN /\ Perform(s, Then(RxFrame(l, cfg, f, room),
                                 Transmit(RxFrame(l, cfg, f, room).link,
                                          ResponseTo(RxFrame(l, cfg, f, room)), room)), Tail(chan[s]))
              /\ sent' = [sent EXCEPT ![s] = Append(@, ResponseTo(RxFrame(l, cfg, f, room)))]
         ELSE Perform(s, RxFrame(l, cfg, f, room), Tail(chan[s])) /\ sent' = sent
  BY DEF Receive, ResponseTo
<1>4. room \in Nat
  BY <1>1
<1> DEFINE o == RxFrame(l, cfg, f, room)
           m == ResponseTo(o)
           responds == s = "ecu" /\ OkData(o) /= <<>> /\ CanTransmit(o.link, cfg, m)
<1>5. Carries(p, cs, f) /\ Carried(p, cs, rest)
  BY <1>1, <1>2, CarriedRest
<1>6. CallOf(s, rest, o) /\ Given(p, OkData(o))
  <2> DEFINE k == link[p]
             r == chan[p]
  <2>1. Sound(s, l) /\ SizedRx(k.rx) /\ cfg.blockSize \in Nat /\ cs \in Nat /\ q /= <<>>
        /\ Carries(Peer(s), cs, Head(q))
    BY <1>1, <1>2, <1>5
  <2> HIDE DEF l, k, q, r, cfg, cs
  <2>2. /\ Call(s, l, k, q, r, Tail(q), cfg.blockSize, cs, RxFrame(l, cfg, Head(q), room))
        /\ Given(Peer(s), OkData(RxFrame(l, cfg, Head(q), room)))
    BY <1>4, <2>1, FrameCall
  <2> QED
    BY <2>2 DEF CallOf, l, k, q, r, cfg, cs
<1>7. IsSeq(sent["tester"])
  BY DEF Paths
<1> HIDE DEF l, cfg, o, m
<1>8. CASE ~responds
  <2>1. Perform(s, o, rest) /\ sent' = sent
    BY <1>3, <1>8 DEF o, m
  <2>2. DOMAIN sent' = Sides /\ IsSeq(sent'["tester"])
    BY <1>1, <1>7, <2>1
  <2> HIDE DEF responds, rest
  <2> QED
    BY <1>2, <1>5, <1>6, <2>1, <2>2, Called
<1>9. CASE responds
  <2> DEFINE t == Transmit(o.link, m, room)
             all == Then(o, t)
  <2>1. s = "ecu" /\ OkData(o) /= <<>> /\ CanTransmit(o.link, cfg, m)
    BY <1>9
  <2>2. Perform(s, all, rest) /\ sent' = [sent EXCEPT ![s] = Append(@, m)]
    BY <1>3, <1>9 DEF o, m
  <2>3. Good(s, m) /\ o.link.tx.state = "IDLE"
    <3>1. Len(m) /= 0 /\ o.link.tx.state = "IDLE"
      BY <2>1 DEF CanTransmit
    <3>2. Given("tester", OkData(o)) /\ OkData(o) /= <<>>
      BY <1>6, <2>1, SideNames
    <3>3. Good("ecu", m)
      BY <3>1, <3>2, ResponseGood DEF m
    <3> QED
      BY <2>1, <3>1, <3>3
  <2>4. CallOf(s, rest, all)
    <3> DEFINE i == link[s]
               j == link[p]
               r == chan[p]
               bs == Cfg[s].blockSize
               k == o.link
               h == r \o o.out
    <3>1. Call(s, i, j, q, r, rest, bs, cs, o)
      BY <1>6 DEF CallOf
    <3>2. Sound(s, k) /\ SizedRx(j.rx) /\ bs \in Nat /\ cs \in Nat /\ IsSeq(r)
      BY <1>1, <3>1 DEF Call
    <3> HIDE DEF i, j, k, q, r, rest, bs, cs, h, responds
    <3>3. Speaks(s, bs, k, t) /\ Leads(k, t)
      <4>1. LinkOK(k) /\ k.tx.state = "IDLE" /\ Good(s, m)
        BY <2>3, <3>2 DEF Sound, k
      <4>2. Speaks(s, bs, k, Transmit(k, m, room)) /\ Leads(k, Transmit(k, m, room))
        BY <1>4, <4>1, TransmitSpeaks
      <4> QED
        BY <4>2 DEF k
    <3> HIDE DEF t
    <3>4. Call(s, k, j, rest, h, rest, bs, cs, t)
      BY <3>2, <3>3, SpokenCall
    <3>5. Call(s, i, j, q, r, rest, bs, cs, Then(o, t))
      BY <3>1, <3>2, <3>4, CallThen DEF k, h
    <3> QED
      BY <3>5 DEF CallOf, i, j, q, r, bs, cs
  <2>5. DOMAIN sent' = Sides /\ IsSeq(sent'["tester"])
    <3>1. s /= "tester"
      BY <2>1
    <3> QED
      BY <1>1, <1>7, <2>2, <3>1, SideNames
  <2> HIDE DEF responds, rest, all
  <2> QED
    BY <1>2, <1>5, <2>2, <2>4, <2>5, Called
<1> QED
  BY <1>8, <1>9

LEMMA LosePaths ==
    ASSUME Paths, setup \in Setups, NEW s \in Sides, Lose(s) PROVE Paths' /\ (Blocks => Blocks')
<1> DEFINE p == Peer(s)
           q == chan[s]
           bs == Cfg[s].blockSize
           cs == Cfg[p].blockSize
<1>1. p \in Sides /\ p /= s /\ Peer(p) = s /\ \A x \in Sides : x = s \/ x = p
  BY Others
<1>2. bs \in Nat /\ cs \in Nat /\ IsSeq(q) /\ Carried(p, cs, q)
  BY KnownOf
<1>3. PICK k \in 1 .. Len(q) :
         chan' = [chan EXCEPT ![s] = SubSeq(@, 1, k - 1) \o SubSeq(@, k + 1, Len(@))]
  BY DEF Lose
<1> DEFINE t == Without(q, k)
<1>4. chan'[s] = t /\ chan'[p] = chan[p] /\ DOMAIN chan' = Sides
  BY <1>1, <1>3 DEF Without, Paths, Domains
<1>5. link' = link /\ sent' = sent /\ delivered' = delivered /\ setup' = setup
  BY DEF Lose
<1>6. Carried(p, cs, t)
  <2>1. Shorter(q, k, t, "CF")
    BY <1>2, CountLoss
  <2> HIDE DEF t, q
  <2>2. /\ IsSeq(t) /\ Len(t) = Len(q) - 1 /\ Len(q) \in Nat
        /\ \A j \in 1 .. Len(t) : t[j] = IF j < k THEN q[j] ELSE q[j + 1]
    BY <1>2, <2>1, Indices DEF Shorter
  <2>3. ASSUME NEW j \in 1 .. Len(t) PROVE Carries(p, cs, t[j])
    <3>1. j \in 1 .. Len(q) /\ j + 1 \in 1 .. Len(q)
      BY <2>2
    <3>2. Carries(p, cs, q[j]) /\ Carries(p, cs, q[j + 1])
      BY <1>2, <3>1 DEF Carried
    <3> QED
      BY <2>2, <3>2
  <2> QED
    BY <2>2, <2>3 DEF Carried
<1>7. Two(q, chan[p], link[s], link[p], bs, cs) => Two(t, chan[p], link[s], link[p], bs, cs)
  <2> DEFINE l == link[s]
             m == link[p]
             r == chan[p]
  <2> HIDE DEF l, m, r, q, t, bs, cs
  <2>1. ASSUME Two(q, r, l, m, bs, cs) PROVE Two(t, r, l, m, bs, cs)
    BY <1>2, <2>1, TwoLess DEF t
  <2> QED
    BY <2>1 DEF l, m, r
<1> HIDE DEF p, t, bs, cs
<1>8. bs = Cfg[s].blockSize /\ cs = Cfg[p].blockSize /\ p = Peer(s)
  BY DEF bs, cs, p
<1>9. Cfg' = Cfg
  BY <1>5 DEF Cfg
<1>10. ASSUME NEW x \in Sides
       PROVE  Sound(x, link'[x]) /\ Carried(Peer(x), Cfg[Peer(x)].blockSize, chan'[x])
  <2>1. Sound(x, link[x]) /\ Carried(Peer(x), Cfg[Peer(x)].blockSize, chan[x])
    BY DEF Paths
  <2>2. CASE x = s
    BY <1>4, <1>5, <1>6, <1>8, <2>1, <2>2
  <2>3. CASE x = p
    BY <1>4, <1>5, <2>1, <2>3
  <2> QED
    BY <1>1, <2>2, <2>3
<1>11. ASSUME Blocks, NEW x \in Sides
       PROVE  Two(chan'[x], chan'[Peer(x)], link'[x], link'[Peer(x)], Cfg[x].blockSize, Cfg[Peer(x)].blockSize)
  <2>1. Two(q, chan[p], link[s], link[p], bs, cs)
    BY <1>8, <1>11 DEF Blocks
  <2>2. Two(chan'[s], chan'[p], link'[s], link'[p], bs, cs)
    BY <1>4, <1>5, <1>7, <2>1
  <2>3. Two(chan'[p], chan'[s], link'[p], link'[s], cs, bs)
    BY <2>2, TwoOther
  <2>4. CASE x = s
    BY <1>8, <2>2, <2>4
  <2>5. CASE x = p
    BY <1>1, <1>8, <2>3, <2>5
  <2> QED
    BY <1>1, <2>4, <2>5
<1>12. Domains' /\ IsSeq(sent'["tester"])
  BY <1>4, <1>5 DEF Paths, Domains
<1> QED
  BY <1>9, <1>10, <1>11, <1>12 DEF Paths, Blocks

-----------------------------------------------------------------------------
(* Time.                                                                   *)

\* Nothing is on its way: the ages of the two sides do not matter.
LEMMA WayAged ==
    ASSUME NEW bs \in Nat, NEW tx, NEW rx, Way(<<>>, tx, rx, 0, bs),
           NEW to, to.state = tx.state, to.msg = tx.msg, to.offset = tx.offset,
           to.blockSize = tx.blockSize, to.blockCount = tx.blockCount,
           NEW ro, ro.state = rx.state, ro.length = rx.length, ro.offset = rx.offset,
           ro.blockCount = rx.blockCount
    PROVE  Way(<<>>, to, ro, 0, bs)
<1> DEFINE q == <<>>
<1>1. Count(q, "CF") = 0 /\ Count(q, "FF") = 0 /\ IsSeq(q) /\ Len(q) = 0
  BY CountNothing, NoElement
<1> HIDE DEF q
<1>2. Block(tx, rx, 0, 0, 0, bs)
  BY <1>1 DEF Way, q
<1>3. ASSUME ro.state = "RECEIVING" PROVE InBlock(to, ro, 0, 0, 0, bs)
  <2>1. /\ rx.blockCount \in Nat /\ rx.blockCount < bs
        /\ tx.state = "SEND_CF" =>
              /\ rx.blockCount + 0 <= tx.blockCount
              /\ rx.blockCount + 0 = tx.blockCount => Together(tx, rx, 0)
    BY <1>2, <1>3 DEF Block, InBlock
  <2>2. Together(tx, rx, 0) => Together(to, ro, 0)
    BY DEF Together
  <2>3. ro.blockCount + 0 <= bs /\ ro.blockCount + 0 /= bs
    BY <2>1
  <2> QED
    BY <2>1, <2>2, <2>3 DEF InBlock
<1>4. Block(to, ro, 0, 0, 0, bs)
  BY <1>2, <1>3 DEF Block
<1>5. Ahead(q, to)
  BY <1>1 DEF Ahead
<1> QED
  BY <1>1, <1>4, <1>5 DEF Way, q

\* A poll with room in the driver sends the Flow Control that is owed.
LEMMA PollPays ==
    ASSUME NEW s, NEW l, Sound(s, l), NEW cfg, cfg.blockSize \in Nat
    PROVE  MainFunction(l, cfg, 1, 0).link.fcPending = NoFc
<1> DEFINE o == Paid(l, cfg, 1)
           k == o.link
           f == RxFinish(k, "ERR_TIMEOUT_CR")
           r == MainReceiver(l, cfg, 1)
           p == MainSender(r.link, 0)
<1>1. LinkOK(l) /\ Receiver(Peer(s), l.rx)
  BY DEF Sound
<1>2. k.fcPending = NoFc
  <2>1. CASE l.fcPending = NoFc
    BY <2>1 DEF Paid, Unchanged
  <2>2. CASE l.fcPending /= NoFc
    <3>1. o = RxSendFlowControl(l, cfg, l.fcPending, 1 > 0)
      BY <2>2 DEF Paid
    <3>2. 1 > 0
      OBVIOUS
    <3> QED
      BY <1>1, <3>1, <3>2 DEF RxSendFlowControl, Unchanged, LinkOK
  <2> QED
    BY <2>1, <2>2
<1>3. LinkOK(k)
  <2>1. o = Paid(l, cfg, 1) /\ 1 \in Nat
    OBVIOUS
  <2> HIDE DEF o
  <2>2. Pays(Peer(s), cfg.blockSize, l, o)
    BY <1>1, <2>1, PaysOwed
  <2> QED
    BY <2>2 DEF Pays, Owes, Hears
<1>4. r = IF k.rx.state = "RECEIVING" /\ k.rx.timer >= NCr THEN Then(o, f) ELSE o
  BY DEF MainReceiver, Paid
<1>5. f.link.fcPending = NoFc
  BY <1>2, <1>3 DEF RxFinish, Unchanged, LinkOK
<1>6. Then(o, f).link = f.link
  BY DEF Then
<1> HIDE DEF f, o
<1>7. r.link.fcPending = NoFc
  BY <1>2, <1>4, <1>5, <1>6
<1>8. Sound(s, r.link)
  <2>1. Owes(Peer(s), cfg.blockSize, l, r)
    BY <1>1, ReceiverOwes
  <2> HIDE DEF r
  <2> QED
    BY <2>1, HeardSound DEF Owes
<1>9. MainFunction(l, cfg, 1, 0) = Then(r, p)
  BY DEF MainFunction
<1>10. p.link.fcPending = r.link.fcPending
  <2> DEFINE j == r.link
  <2>1. LinkOK(j) /\ Sender(s, j.tx)
    BY <1>8 DEF Sound
  <2> HIDE DEF j
  <2>2. Leads(j, MainSender(j, 0))
    BY <2>1, SenderSpeaks
  <2> QED
    BY <2>2 DEF Leads, j
<1> QED
  BY <1>7, <1>9, <1>10 DEF Then

LEMMA SettledOwesNothing ==
    ASSUME Paths, setup \in Setups, Settled, NEW s \in Sides
    PROVE  chan[s] = <<>> /\ link[s].fcPending = NoFc
<1> DEFINE l == link[s]
<1>1. Sound(s, l) /\ Cfg[s].blockSize \in Nat
  BY KnownOf
<1>2. chan[s] = <<>> /\ chan[Peer(s)] = <<>> /\ ~PollDue(s)
  BY Others DEF Settled
<1>3. 0 \in Rooms(s, 0) /\ 1 \in Rooms(s, 0)
  <2>1. Len(chan[Peer(s)]) = 0
    BY <1>2, NoElement
  <2>2. Depth \in Nat \ {0}
    BY PairAssumption
  <2> QED
    BY <2>1, <2>2 DEF Rooms
<1>4. MainFunction(l, Cfg[s], 1, 0).link = l
  BY <1>2, <1>3 DEF PollDue
<1> HIDE DEF l
<1>5. MainFunction(l, Cfg[s], 1, 0).link.fcPending = NoFc
  BY <1>1, PollPays
<1> QED
  BY <1>2, <1>4, <1>5 DEF l

LEMMA TickPaths ==
    ASSUME Paths, setup \in Setups, Tick PROVE Paths' /\ (setup.prompt /\ Blocks => Blocks')
<1>1. /\ DOMAIN link' = Sides /\ \A s \in Sides : link'[s] = Aged(link[s])
      /\ chan' = chan /\ sent' = sent /\ delivered' = delivered /\ setup' = setup
      /\ (setup.prompt => Settled)
  BY DEF Tick
<1>2. Cfg' = Cfg
  BY <1>1 DEF Cfg
<1>3. ASSUME NEW s \in Sides
      PROVE  /\ LinkOK(link'[s]) /\ link'[s].fcPending = link[s].fcPending
             /\ link'[s].tx.state = link[s].tx.state /\ link'[s].tx.msg = link[s].tx.msg
             /\ link'[s].tx.offset = link[s].tx.offset
             /\ link'[s].tx.blockSize = link[s].tx.blockSize
             /\ link'[s].tx.blockCount = link[s].tx.blockCount
             /\ link'[s].rx.state = link[s].rx.state /\ link'[s].rx.length = link[s].rx.length
             /\ link'[s].rx.offset = link[s].rx.offset
             /\ link'[s].rx.data = link[s].rx.data /\ link'[s].rx.blockCount = link[s].rx.blockCount
  <2>1. LinkOK(link[s]) /\ link'[s] = Aged(link[s])
    BY <1>1 DEF Paths, Sound
  <2> DEFINE l == link[s]
             m == link'[s]
  <2> HIDE DEF l, m
  <2>2. LinkOK(l) /\ m = Aged(l)
    BY <2>1 DEF l, m
  <2>3. /\ LinkOK(m) /\ m.fcPending = l.fcPending
        /\ m.tx.state = l.tx.state /\ m.tx.msg = l.tx.msg /\ m.tx.offset = l.tx.offset
        /\ m.tx.blockSize = l.tx.blockSize /\ m.tx.blockCount = l.tx.blockCount
        /\ m.rx.state = l.rx.state /\ m.rx.length = l.rx.length /\ m.rx.offset = l.rx.offset
        /\ m.rx.data = l.rx.data /\ m.rx.blockCount = l.rx.blockCount
    BY <2>2, AgedFields
  <2> QED
    BY <2>3 DEF l, m
<1>4. \A s \in Sides : Sound(s, link'[s]) /\ Carried(Peer(s), Cfg[Peer(s)].blockSize, chan'[s])
  <2> TAKE s \in Sides
  <2>1. Sound(s, link[s]) /\ Carried(Peer(s), Cfg[Peer(s)].blockSize, chan[s])
    BY DEF Paths
  <2>2. Sender(s, link'[s].tx)
    BY <1>3, <2>1 DEF Sound, Sender, Mid
  <2>3. Receiver(Peer(s), link'[s].rx)
    BY <1>3, <2>1 DEF Sound, Receiver
  <2> QED
    BY <1>1, <1>3, <2>1, <2>2, <2>3 DEF Sound
<1>5. ASSUME setup.prompt, Blocks, NEW s \in Sides, Cfg[s].blockSize /= 0
      PROVE  Way(<<>>, link'[Peer(s)].tx, link'[s].rx, 0, Cfg[s].blockSize)
  <2> DEFINE p == Peer(s)
             bs == Cfg[s].blockSize
             g == Count(chan[p], "FC") + Pend(link[s].fcPending)
  <2>1. p \in Sides /\ bs \in Nat
    BY Others, KnownOf
  <2>2. chan[s] = <<>> /\ chan[p] = <<>> /\ link[s].fcPending = NoFc
    BY <1>1, <1>5, <2>1, SettledOwesNothing
  <2>3. g = 0
    BY <2>2, CountNothing DEF Pend
  <2>4. Way(chan[s], link[p].tx, link[s].rx, g, bs)
    BY <1>5 DEF Blocks, Two, Into
  <2> HIDE DEF p, g, bs
  <2>5. Way(<<>>, link[p].tx, link[s].rx, 0, bs)
    BY <2>2, <2>3, <2>4
  <2> DEFINE tx == link[p].tx
             to == link'[p].tx
             rx == link[s].rx
             ro == link'[s].rx
  <2>6. /\ to.state = tx.state /\ to.msg = tx.msg /\ to.offset = tx.offset
        /\ to.blockSize = tx.blockSize /\ to.blockCount = tx.blockCount
        /\ ro.state = rx.state /\ ro.length = rx.length /\ ro.offset = rx.offset
        /\ ro.blockCount = rx.blockCount
    BY <1>3, <2>1
  <2> HIDE DEF tx, to, rx, ro
  <2>7. Way(<<>>, tx, rx, 0, bs)
    BY <2>5 DEF tx, rx
  <2>8. Way(<<>>, to, ro, 0, bs)
    BY <2>1, <2>6, <2>7, WayAged
  <2> QED
    BY <2>8 DEF to, ro, p, bs
<1>6. ASSUME setup.prompt, Blocks, NEW s \in Sides
      PROVE  /\ IsSeq(chan'[s]) /\ IsSeq(chan'[Peer(s)])
             /\ Into(chan'[s], link'[Peer(s)], link'[s], chan'[Peer(s)], Cfg[s].blockSize)
  <2>1. Peer(s) \in Sides
    BY Others
  <2>2. chan[s] = <<>> /\ chan[Peer(s)] = <<>> /\ link[s].fcPending = NoFc
    BY <1>1, <1>6, <2>1, SettledOwesNothing
  <2>3. Count(chan'[Peer(s)], "FC") + Pend(link'[s].fcPending) = 0
    BY <1>1, <1>3, <2>2, CountNothing DEF Pend
  <2>4. IsSeq(chan'[s]) /\ IsSeq(chan'[Peer(s)])
    BY <1>1, <2>2, NoElement
  <2>5. Into(chan'[s], link'[Peer(s)], link'[s], chan'[Peer(s)], Cfg[s].blockSize)
    BY <1>1, <1>5, <1>6, <2>2, <2>3 DEF Into
  <2> QED
    BY <2>4, <2>5
<1>7. ASSUME setup.prompt, Blocks, NEW s \in Sides
      PROVE  Two(chan'[s], chan'[Peer(s)], link'[s], link'[Peer(s)], Cfg[s].blockSize, Cfg[Peer(s)].blockSize)
  <2>1. Peer(s) \in Sides /\ Peer(Peer(s)) = s
    BY Others
  <2>2. Into(chan'[Peer(s)], link'[s], link'[Peer(s)], chan'[s], Cfg[Peer(s)].blockSize)
    BY <1>6, <1>7, <2>1
  <2> QED
    BY <1>6, <1>7, <2>2 DEF Two
<1>8. Domains' /\ IsSeq(sent'["tester"])
  BY <1>1 DEF Paths, Domains
<1> QED
  BY <1>2, <1>4, <1>7, <1>8 DEF Paths, Blocks

LEMMA InitBInv == Init => BInv
<1> SUFFICES ASSUME Init PROVE BInv
  OBVIOUS
<1>1. /\ setup \in Setups
      /\ DOMAIN link = Sides /\ DOMAIN chan = Sides /\ DOMAIN sent = Sides /\ DOMAIN delivered = Sides
      /\ \A s \in Sides : link[s] = InitialLink /\ chan[s] = <<>> /\ sent[s] = <<>>
  BY DEF Init
<1>2. /\ InitialLink.tx = IdleTx /\ InitialLink.rx = IdleRx /\ InitialLink.fcPending = NoFc
      /\ IdleTx.state = "IDLE" /\ IdleRx.state = "IDLE"
  BY DEF InitialLink, IdleTx, IdleRx
<1>3. LinkOK(InitialLink)
  BY IdleOK
<1>4. ASSUME NEW s PROVE Sound(s, InitialLink)
  BY <1>2, <1>3 DEF Sound, Sender, Receiver
<1>5. ASSUME NEW s, NEW bs PROVE Carried(s, bs, <<>>)
  <2> DEFINE q == <<>>
  <2>1. IsSeq(q) /\ Len(q) = 0
    BY NoElement
  <2> HIDE DEF q
  <2>2. Carried(s, bs, q)
    BY <2>1 DEF Carried
  <2> QED
    BY <2>2 DEF q
<1>6. ASSUME NEW bs \in Nat, NEW cs \in Nat
      PROVE  Two(<<>>, <<>>, InitialLink, InitialLink, bs, cs)
  <2> DEFINE q == <<>>
             g == Count(q, "FC") + Pend(NoFc)
  <2>1. IsSeq(q) /\ Len(q) = 0
    BY NoElement
  <2>2. Count(q, "CF") = 0 /\ Count(q, "FF") = 0 /\ g = 0
    BY CountNothing DEF Pend
  <2> HIDE DEF q
  <2>3. Ahead(q, IdleTx)
    BY <2>1 DEF Ahead
  <2> HIDE DEF g
  <2>4. ASSUME NEW n \in Nat PROVE Way(q, IdleTx, IdleRx, g, n)
    BY <1>2, <2>1, <2>2, <2>3 DEF Way, Block
  <2>5. ASSUME NEW n \in Nat PROVE Into(q, InitialLink, InitialLink, q, n)
    BY <1>2, <2>4 DEF Into, g
  <2>6. Two(q, q, InitialLink, InitialLink, bs, cs)
    BY <2>1, <2>5 DEF Two
  <2> QED
    BY <2>6 DEF q
<1>7. ASSUME NEW s \in Sides
      PROVE  /\ Peer(s) \in Sides
             /\ Cfg[s].blockSize \in Nat /\ Cfg[Peer(s)].blockSize \in Nat
  BY <1>1, Others, PairAssumption DEF Cfg
<1>8. Paths
  <2>1. IsSeq(sent["tester"])
    BY <1>1, NoElement, SideNames
  <2>2. ASSUME NEW s \in Sides
        PROVE  Sound(s, link[s]) /\ Carried(Peer(s), Cfg[Peer(s)].blockSize, chan[s])
    BY <1>1, <1>4, <1>5
  <2> QED
    BY <1>1, <2>1, <2>2 DEF Paths, Domains
<1>9. Blocks
  <2> SUFFICES ASSUME NEW s \in Sides
               PROVE  Two(chan[s], chan[Peer(s)], link[s], link[Peer(s)],
                          Cfg[s].blockSize, Cfg[Peer(s)].blockSize)
    BY DEF Blocks
  <2>1. Two(<<>>, <<>>, InitialLink, InitialLink, Cfg[s].blockSize, Cfg[Peer(s)].blockSize)
    BY <1>6, <1>7
  <2> QED
    BY <1>1, <1>7, <2>1
<1> QED
  BY <1>1, <1>8, <1>9 DEF BInv

LEMMA NextBInv == BInv /\ [Next]_vars => BInv'
<1> SUFFICES ASSUME BInv, [Next]_vars PROVE BInv'
  OBVIOUS
<1>1. setup \in Setups /\ Paths /\ (setup.prompt => Blocks)
  BY DEF BInv
<1>2. CASE SendRequest
  <2>1. setup' = setup
    BY <1>2 DEF SendRequest
  <2> QED
    BY <1>1, <1>2, <2>1, SendRequestPaths DEF BInv
<1>3. ASSUME NEW s \in Sides, Receive(s) PROVE BInv'
  <2>1. setup' = setup
    BY <1>3 DEF Receive
  <2> QED
    BY <1>1, <1>3, <2>1, ReceivePaths DEF BInv
<1>4. ASSUME NEW s \in Sides, Poll(s) PROVE BInv'
  <2>1. setup' = setup
    BY <1>4 DEF Poll
  <2> QED
    BY <1>1, <1>4, <2>1, PollPaths DEF BInv
<1>5. ASSUME NEW s \in Sides, Lose(s) PROVE BInv'
  <2>1. setup' = setup
    BY <1>5 DEF Lose
  <2> QED
    BY <1>1, <1>5, <2>1, LosePaths DEF BInv
<1>6. CASE Tick
  <2>1. setup' = setup
    BY <1>6 DEF Tick
  <2> QED
    BY <1>1, <1>6, <2>1, TickPaths DEF BInv
<1>7. CASE UNCHANGED vars
  <2>1. link' = link /\ chan' = chan /\ sent' = sent /\ delivered' = delivered /\ setup' = setup
    BY <1>7 DEF vars
  <2>2. Paths' /\ (setup'.prompt => Blocks')
    BY <1>1, <2>1 DEF Paths, Blocks, Domains, Cfg
  <2> QED
    BY <1>1, <2>1, <2>2 DEF BInv
<1> QED
  BY <1>2, <1>3, <1>4, <1>5, <1>6, <1>7 DEF Next

LEMMA BlocksRespect == BInv => BlockRespected
<1> SUFFICES ASSUME BInv, NEW s \in Sides, setup.prompt, Cfg[s].blockSize /= 0,
                    link[s].rx.state = "RECEIVING"
             PROVE  link[s].rx.blockCount + Cardinality({k \in DOMAIN chan[s] : chan[s][k].pci = "CF"})
                        <= Cfg[s].blockSize
  BY DEF BlockRespected
<1> DEFINE q == chan[s]
           bs == Cfg[s].blockSize
           tx == link[Peer(s)].tx
           rx == link[s].rx
           g == Count(chan[Peer(s)], "FC") + Pend(link[s].fcPending)
           c == Count(q, "CF")
<1>1. bs \in Nat /\ IsSeq(q)
  BY KnownOf DEF BInv
<1>2. Cardinality({k \in DOMAIN q : q[k].pci = "CF"}) = c
  BY <1>1, CfsCounted
<1>3. Way(q, tx, rx, g, bs)
  BY DEF BInv, Blocks, Two, Into
<1> HIDE DEF q, bs, tx, g
<1>4. Block(tx, rx, c, Count(q, "FF"), g, bs)
  BY <1>3 DEF Way
<1> HIDE DEF rx, c
<1>5. rx.state = "RECEIVING"
  BY DEF rx
<1>6. /\ c \in Nat /\ InBlock(tx, rx, c, Count(q, "FF"), g, bs)
      /\ tx.state = "SEND_CF" => tx.blockCount \in Nat /\ tx.blockCount < bs
  BY <1>4, <1>5 DEF Block
<1>7. rx.blockCount + c <= bs
  BY <1>1, <1>6 DEF InBlock
<1> QED
  BY <1>2, <1>7 DEF q, bs, rx

\* As long as frames and polls are faster than a unit of time, a receiver never
\* gets a Consecutive Frame beyond the block its Flow Control allowed, whatever
\* the bus loses and the drivers refuse, for every configuration, every frame size
\* and every length of the messages.
THEOREM BlockRespectedCorrect == Spec => []BlockRespected
BY InitBInv, NextBInv, BlocksRespect, PTL DEF Spec
=============================================================================
