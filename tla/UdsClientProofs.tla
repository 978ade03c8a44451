--------------------------- MODULE UdsClientProofs ---------------------------
(***************************************************************************)
(* The C++ tester, for every timing, every set of calls and scenarios, and *)
(* every amount of loss and delay: whose response a call takes, and how    *)
(* long it may wait.                                                       *)
(***************************************************************************)
EXTENDS UdsClient, TLAPS

-----------------------------------------------------------------------------
(* Sequences.                                                              *)

IsSeq(s) == \E S : s \in Seq(S)

\* The empty sequence.
LEMMA NoElement == IsSeq(<<>>) /\ Len(<<>>) = 0
<1>1. <<>> \in Seq({})
  OBVIOUS
<1> QED
  BY <1>1 DEF IsSeq

\* A sequence of one element.
LEMMA OneElement == ASSUME NEW x PROVE IsSeq(<<x>>) /\ <<x>> /= <<>> /\ Len(<<x>>) = 1 /\ <<x>>[1] = x
<1>1. <<x>> \in Seq({x})
  OBVIOUS
<1> QED
  BY <1>1 DEF IsSeq

\* The indices of a sequence.
LEMMA Indices == ASSUME NEW s, IsSeq(s) PROVE Len(s) \in Nat /\ DOMAIN s = 1 .. Len(s)
<1>1. PICK S : s \in Seq(S)
  BY DEF IsSeq
<1> QED
  BY <1>1

\* What concatenation keeps of its parts.
LEMMA Concatenated ==
    ASSUME NEW s, IsSeq(s), NEW t, IsSeq(t)
    PROVE  /\ IsSeq(s \o t)
           /\ Len(s \o t) = Len(s) + Len(t)
           /\ \A k \in 1 .. Len(s) : (s \o t)[k] = s[k]
           /\ \A k \in 1 .. Len(t) : (s \o t)[Len(s) + k] = t[k]
<1>1. PICK S : s \in Seq(S)
  BY DEF IsSeq
<1>2. PICK T : t \in Seq(T)
  BY DEF IsSeq
<1> DEFINE U == S \cup T
<1>3. s \in Seq(U) /\ t \in Seq(U)
  BY <1>1, <1>2
<1> HIDE DEF U
<1>4. s \o t \in Seq(U)
  BY <1>3
<1> QED
  BY <1>3, <1>4 DEF IsSeq

\* Sequences with the same elements are the same.
LEMMA SameSeq ==
    ASSUME NEW s, IsSeq(s), NEW t, IsSeq(t), Len(s) = Len(t), \A k \in 1 .. Len(s) : s[k] = t[k]
    PROVE  s = t
<1>1. PICK S : s \in Seq(S)
  BY DEF IsSeq
<1>2. PICK T : t \in Seq(T)
  BY DEF IsSeq
<1>3. s = [k \in 1 .. Len(s) |-> s[k]] /\ t = [k \in 1 .. Len(t) |-> t[k]]
  BY <1>1, <1>2
<1> QED
  BY <1>3

\* Concatenation with the empty sequence.
LEMMA WithNothing == ASSUME NEW s, IsSeq(s) PROVE <<>> \o s = s /\ s \o <<>> = s
<1> DEFINE t == <<>> \o s
           u == s \o <<>>
<1>1. Len(s) \in Nat
  BY Indices
<1>2. IsSeq(t) /\ Len(t) = 0 + Len(s) /\ \A k \in 1 .. Len(s) : t[0 + k] = s[k]
  BY NoElement, Concatenated
<1>3. IsSeq(u) /\ Len(u) = Len(s) + 0 /\ \A k \in 1 .. Len(s) : u[k] = s[k]
  BY NoElement, Concatenated
<1> HIDE DEF t, u
<1>4. t = s
  <2>1. Len(t) = Len(s) /\ \A k \in 1 .. Len(t) : t[k] = s[k]
    BY <1>1, <1>2
  <2> QED
    BY <1>2, <2>1, SameSeq
<1>5. u = s
  <2>1. Len(u) = Len(s) /\ \A k \in 1 .. Len(u) : u[k] = s[k]
    BY <1>1, <1>3
  <2> QED
    BY <1>3, <2>1, SameSeq
<1> QED
  BY <1>4, <1>5 DEF t, u

\* A sequence without its first element.
LEMMA TailOf ==
    ASSUME NEW s, IsSeq(s), s /= <<>>
    PROVE  /\ IsSeq(Tail(s)) /\ Len(s) \in Nat \ {0} /\ Len(Tail(s)) = Len(s) - 1
           /\ Head(s) = s[1]
           /\ \A k \in 1 .. Len(s) - 1 : Tail(s)[k] = s[k + 1]
           /\ Tail(s) = <<>> <=> Len(s) = 1
<1>1. PICK S : s \in Seq(S)
  BY DEF IsSeq
<1>2. Tail(s) \in Seq(S) /\ Len(Tail(s)) = Len(s) - 1
  BY <1>1
<1>3. Tail(s) = <<>> <=> Len(s) = 1
  BY <1>1, <1>2
<1> QED
  BY <1>1, <1>2, <1>3 DEF IsSeq

\* A sequence with one more element.
LEMMA Appended ==
    ASSUME NEW s, IsSeq(s), NEW x
    PROVE  /\ IsSeq(Append(s, x)) /\ Len(Append(s, x)) = Len(s) + 1
           /\ \A k \in 1 .. Len(s) : Append(s, x)[k] = s[k]
           /\ Append(s, x)[Len(s) + 1] = x
<1>1. PICK S : s \in Seq(S)
  BY DEF IsSeq
<1> DEFINE T == S \cup {x}
<1>2. s \in Seq(T) /\ x \in T
  BY <1>1
<1> HIDE DEF T
<1>3. Append(s, x) \in Seq(T)
  BY <1>2
<1> QED
  BY <1>2, <1>3 DEF IsSeq

-----------------------------------------------------------------------------
(* How long a call waits.                                                  *)

\* The time the call may have spent before the wait that is under way: P2 for the
\* first, P2* for each of the others.
Spent(p) == IF p = 0 THEN 0 ELSE P2 + (p - 1) * P2Star

WaitInv ==
    /\ pending \in 0 .. MaxPending
    /\ timeout = IF pending = 0 THEN P2 ELSE P2Star
    /\ age \in 0 .. timeout
    /\ waited \in Nat /\ waited <= Spent(pending) + age

\* Another response-pending adds the wait that it ends.
LEMMA SpentGrows ==
    ASSUME NEW p \in Nat
    PROVE  /\ Spent(p) \in Nat
           /\ Spent(p + 1) = Spent(p) + IF p = 0 THEN P2 ELSE P2Star
<1>1. P2 \in Nat /\ P2Star \in Nat
  BY ClientAssumption
<1>2. Spent(1) = P2 /\ Spent(0) = 0
  <2>1. (1 - 1) * P2Star = 0
    BY <1>1
  <2> QED
    BY <2>1, <1>1 DEF Spent
<1>3. ASSUME p /= 0 PROVE Spent(p) \in Nat /\ Spent(p + 1) = Spent(p) + P2Star
  <2>1. PICK q \in Nat : p = q + 1
    <3>1. p - 1 \in Nat /\ p = (p - 1) + 1
      BY <1>3
    <3> QED
      BY <3>1
  <2>2. q * P2Star \in Nat /\ (q + 1) * P2Star = q * P2Star + P2Star
    BY <1>1
  <2>3. Spent(p) = P2 + q * P2Star /\ Spent(p + 1) = P2 + (q + 1) * P2Star
    <3>1. p - 1 = q /\ (p + 1) - 1 = q + 1 /\ p + 1 /= 0
      BY <2>1
    <3> QED
      BY <1>3, <3>1 DEF Spent
  <2> QED
    BY <1>1, <2>2, <2>3
<1> QED
  BY <1>1, <1>2, <1>3

\* The waits of as many response-pendings as the client accepts fit its patience.
LEMMA SpentBound ==
    ASSUME NEW p \in 0 .. MaxPending
    PROVE  Spent(p) + (IF p = 0 THEN P2 ELSE P2Star) <= Patience
<1>1. P2 \in Nat /\ P2Star \in Nat /\ MaxPending \in Nat
  BY ClientAssumption
<1>2. PICK d \in Nat : MaxPending = p + d
  <2>1. MaxPending - p \in Nat /\ MaxPending = p + (MaxPending - p)
    BY <1>1
  <2> QED
    BY <2>1
<1>3. (p + d) * P2Star = p * P2Star + d * P2Star /\ p * P2Star \in Nat /\ d * P2Star \in Nat
  BY <1>1
<1>4. Spent(p + 1) = P2 + p * P2Star
  <2>1. p + 1 /= 0 /\ (p + 1) - 1 = p
    BY <1>1
  <2> QED
    BY <2>1 DEF Spent
<1>5. Spent(p + 1) <= Patience
  BY <1>1, <1>2, <1>3, <1>4 DEF Patience
<1> QED
  BY <1>5, SpentGrows

\* A call that begins, or one that has returned, has not waited.
LEMMA NothingWaited == ASSUME NewLocals PROVE WaitInv'
<1>1. P2 \in Nat /\ MaxPending \in Nat
  BY ClientAssumption
<1> QED
  BY <1>1 DEF NewLocals, WaitInv, Spent

LEMMA WaitInit == Init => WaitInv
BY ClientAssumption DEF Init, WaitInv, Spent

\* Each action keeps the time waited within what has been granted.
LEMMA WaitStep == WaitInv /\ [Next]_vars => WaitInv'
<1> SUFFICES ASSUME WaitInv, [Next]_vars PROVE WaitInv'
  OBVIOUS
<1>1. ASSUME UNCHANGED <<timeout, pending, age, waited>> PROVE WaitInv'
  BY <1>1 DEF WaitInv
<1>2. CASE UserCalls
  BY <1>2, NothingWaited DEF UserCalls, Call
<1>3. CASE Receive
  <2>1. CASE TakePending
    <3>1. CASE pending < MaxPending
      <4>1. pending' = pending + 1 /\ timeout' = P2Star /\ age' = 0 /\ waited' = waited
        BY <2>1, <3>1 DEF TakePending
      <4>2. pending \in Nat /\ pending + 1 \in 0 .. MaxPending /\ P2Star \in Nat /\ MaxPending \in Nat
        BY <3>1, ClientAssumption DEF WaitInv
      <4>3. Spent(pending + 1) = Spent(pending) + timeout /\ Spent(pending) \in Nat
        BY <4>2, SpentGrows DEF WaitInv
      <4>4. waited <= Spent(pending + 1) + 0
        <5>1. timeout \in Nat
          BY ClientAssumption DEF WaitInv
        <5> QED
          BY <4>3, <5>1 DEF WaitInv
      <4> QED
        BY <4>1, <4>2, <4>4 DEF WaitInv
    <3>2. CASE ~(pending < MaxPending)
      BY <2>1, <3>2, NothingWaited DEF TakePending, Return
    <3> QED
      BY <3>1, <3>2
  <2>2. CASE ~TakePending
    <3>1. NewLocals
      BY <1>3, <2>2 DEF Receive, TakePositive, Return
    <3> QED
      BY <3>1, NothingWaited
  <2> QED
    BY <2>1, <2>2
<1>4. CASE ReceiveNothing
  BY <1>4, NothingWaited DEF ReceiveNothing, Return
<1>5. CASE EcuPending \/ EcuAnswers \/ Deliver \/ Lose \/ Report
  BY <1>1, <1>5 DEF EcuPending, EcuAnswers, Deliver, Lose, Report, callVars
<1>6. CASE Tick
  <2>1. CASE busy
    <3>1. age < timeout /\ age' = age + 1 /\ waited' = Least(waited + 1, Patience + 1)
          /\ UNCHANGED <<timeout, pending>>
      BY <1>6, <2>1 DEF Tick
    <3>2. timeout \in Nat /\ Spent(pending) \in Nat
      BY ClientAssumption, SpentGrows DEF WaitInv
    <3>3. waited + 1 <= Spent(pending) + (age + 1) /\ age + 1 \in 0 .. timeout
      <4>1. age \in 0 .. timeout /\ waited \in Nat /\ waited <= Spent(pending) + age
        BY DEF WaitInv
      <4> QED
        BY <3>1, <3>2, <4>1
    <3>4. waited' = waited + 1
      <4>1. Spent(pending) + timeout <= Patience
        BY SpentBound DEF WaitInv
      <4>2. Patience \in Nat
        BY ClientAssumption DEF Patience
      <4> QED
        BY <3>1, <3>2, <3>3, <4>1, <4>2 DEF WaitInv, Least
    <3> QED
      BY <3>1, <3>3, <3>4 DEF WaitInv
  <2>2. CASE ~busy
    BY <1>1, <1>6, <2>2 DEF Tick
  <2> QED
    BY <2>1, <2>2
<1>7. CASE UNCHANGED vars
  BY <1>1, <1>7 DEF vars, callVars
<1> QED
  BY <1>2, <1>3, <1>4, <1>5, <1>6, <1>7 DEF Next

\* However often the ECU asks for time, request() returns within P2 + maxPending * P2*.
THEOREM BoundedWaitCorrect == Spec => []BoundedWait
<1>1. WaitInv => BoundedWait
  <2> SUFFICES ASSUME WaitInv PROVE waited <= Patience
    BY DEF BoundedWait
  <2>1. Spent(pending) + timeout <= Patience /\ Spent(pending) \in Nat /\ timeout \in Nat
    BY SpentBound, SpentGrows, ClientAssumption DEF WaitInv
  <2>2. Patience \in Nat
    BY ClientAssumption DEF Patience
  <2> QED
    BY <2>1, <2>2 DEF WaitInv
<1> QED
  BY <1>1, WaitInit, WaitStep, PTL DEF Spec

-----------------------------------------------------------------------------
(* Whose response a call takes.                                            *)

\* No ECU answers the request c sends.
Quiet(c) == c.req = testerPresentSuppressed.req

\* The ECU has the request of the call that waits still to answer.
Awaited == asked /= <<>> /\ ~Quiet(asked[Len(asked)].call)

\* A response-pending to the call c.
AsksForTime(m, c) ==
    /\ m.response.type = "neg" /\ m.response.sid = c.req.sid
    /\ m.response.nrc = RESPONSE_PENDING

\* All messages of s are of the call that waits and ask for time, but perhaps the
\* last, which is its answer unless the answer is still to come.
OfCall(s, more) ==
    \A k \in 1 .. Len(s) : busy /\ s[k].for = calls /\ (k < Len(s) \/ more => AsksForTime(s[k], call))

\* The transport and the ECU hold nothing but the call that waits, and before it requests
\* that are not answered.
OwnInv ==
    /\ IsSeq(asked) /\ IsSeq(net) /\ IsSeq(inbox)
    /\ setup \in Setups
    /\ ~overdue =>
         /\ \A k \in 1 .. Len(asked) :
               \/ Quiet(asked[k].call)
               \/ busy /\ k = Len(asked) /\ asked[k].for = calls /\ asked[k].call = call
         /\ OfCall(net, Awaited)
         /\ OfCall(inbox, Awaited \/ net /= <<>>)
         /\ OwnResponses

\* 3E 80 is a right request, and a right one with the suppress bit has no response.
LEMMA QuietLength ==
    ASSUME NEW r, r.sid = 62, r.length = 2, r.sub = 0, r.suppress, NEW u, NEW functional
    PROVE  ProcessRequest(u, r, functional).length = 0
<1>1. Dispatch(u, r) = TesterPresent([u EXCEPT !.age = 0], r)
  BY DEF Dispatch
<1>2. Dispatch(u, r) = Positive([u EXCEPT !.age = 0], 2, TRUE)
  BY <1>1 DEF TesterPresent
<1>3. Dispatch(u, r).nrc = 0 /\ Dispatch(u, r).suppress
  BY <1>2 DEF Positive
<1> QED
  BY <1>3 DEF ProcessRequest

\* The ECU does not answer 3E 80, in any state.
LEMMA QuietAnswer ==
    ASSUME NEW e, NEW c, NEW n, Quiet(c)
    PROVE  Answer(e, c, n).messages = <<>>
<1>1. c.req = [sid |-> 62, length |-> 2, sub |-> 0, suppress |-> TRUE, allGroups |-> TRUE,
               mask |-> {}, dids |-> <<>>, matching |-> 0, listed |-> 0]
  BY DEF Quiet, testerPresentSuppressed, ApiCall, Req
<1>2. ASSUME NEW m
      PROVE  /\ [c.req EXCEPT !.matching = m, !.listed = m].sid = 62
             /\ [c.req EXCEPT !.matching = m, !.listed = m].length = 2
             /\ [c.req EXCEPT !.matching = m, !.listed = m].sub = 0
             /\ [c.req EXCEPT !.matching = m, !.listed = m].suppress
  BY <1>1
<1>3. Processed(e, c.req, c.functional).response = None
  <2> DEFINE m == Len(Listed(e, c.req))
             r == [c.req EXCEPT !.matching = m, !.listed = m]
             o == ProcessRequest(e.server, r, c.functional)
  <2>1. o.length = 0
    <3>1. r.sid = 62 /\ r.length = 2 /\ r.sub = 0 /\ r.suppress
      BY <1>2
    <3> HIDE DEF r
    <3> QED
      BY <3>1, QuietLength DEF o
  <2> HIDE DEF o
  <2>2. Processed(e, c.req, c.functional).response
           = IF o.length = 0 THEN None
             ELSE IF o.nrc /= 0 THEN [type |-> "neg", sid |-> c.req.sid, nrc |-> o.nrc]
             ELSE [type |-> "pos", sid |-> c.req.sid, body |-> Body(e, c.req)]
    BY Zenon DEF Processed, o
  <2> QED
    BY <2>1, <2>2
<1>4. send(e, c.req, c.functional).response = None
  BY <1>3 DEF send
<1> QED
  BY <1>4 DEF Answer

\* There is one answer at most, to the call that is answered.
LEMMA OneAnswer ==
    ASSUME NEW e, NEW c, NEW n
    PROVE  \/ Answer(e, c, n).messages = <<>>
           \/ \E m : m.for = n /\ Answer(e, c, n).messages = <<m>>
<1>1. ASSUME NEW r, NEW t PROVE Message(n, r, t).for = n
  BY DEF Message
<1> QED
  BY <1>1 DEF Answer

\* Without an entry for the call, and without messages, nothing is left.
LEMMA OwnInit == Init => OwnInv
<1> SUFFICES ASSUME Init PROVE OwnInv
  OBVIOUS
<1>1. asked = <<>> /\ net = <<>> /\ inbox = <<>> /\ result = None /\ setup \in Setups
  BY DEF Init
<1> QED
  BY <1>1, NoElement DEF OwnInv, OfCall, OwnResponses

\* Nothing that OwnInv speaks of has changed but, perhaps, the bounds.
LEMMA OwnKept ==
    ASSUME OwnInv, UNCHANGED <<asked, net, inbox, busy, call, calls, result, overdue, setup>>
    PROVE  OwnInv'
BY DEF OwnInv, OfCall, Awaited, Quiet, OwnResponses, Own

\* While nobody waits, and no call gave up too early, only requests without an
\* answer are under way.
LEMMA NobodyWaits ==
    ASSUME OwnInv, ~overdue, ~busy
    PROVE  /\ \A k \in 1 .. Len(asked) : Quiet(asked[k].call)
           /\ ~Awaited /\ net = <<>> /\ inbox = <<>>
<1>1. \A k \in 1 .. Len(asked) : Quiet(asked[k].call)
  BY DEF OwnInv
<1>2. Len(net) = 0 /\ Len(inbox) = 0
  BY Indices DEF OwnInv, OfCall
<1>3. net = <<>> /\ inbox = <<>>
  BY <1>2, TailOf DEF OwnInv
<1>4. ~Awaited
  BY <1>1, TailOf DEF OwnInv, Awaited
<1> QED
  BY <1>1, <1>3, <1>4

\* A call begins with an empty transport.
LEMMA OwnCall ==
    ASSUME OwnInv, NEW c \in CallsOf(setup), Call(c)
    PROVE  OwnInv'
<1>1. /\ ~busy /\ call' = c /\ calls' = calls + 1
      /\ UNCHANGED <<overdue, net, setup>>
  BY DEF Call
<1>2. c.api = "testerPresentSuppressed" => Quiet(c)
  BY SuppressedAssumption DEF OwnInv, Quiet
<1>3. ASSUME ~overdue
      PROVE  /\ \A k \in 1 .. Len(asked) : Quiet(asked[k].call)
             /\ ~Awaited /\ net = <<>> /\ inbox = <<>>
  BY <1>1, <1>3, NobodyWaits
<1>4. CASE setup.simulated /\ busy' = (c.api /= "testerPresentSuppressed") /\ result' = None
  <2> DEFINE messages == Answer(ecu, c, calls + 1).messages
  <2>1. inbox' = inbox \o messages /\ asked' = asked
    BY <1>4 DEF Call
  <2>2. messages = <<>> \/ \E m : m.for = calls + 1 /\ messages = <<m>>
    BY OneAnswer
  <2>3. c.api = "testerPresentSuppressed" => messages = <<>>
    BY <1>2, QuietAnswer
  <2> HIDE DEF messages
  <2>4. IsSeq(inbox')
    BY <2>1, <2>2, NoElement, OneElement, Concatenated DEF OwnInv
  <2>5. ASSUME ~overdue
        PROVE  inbox' = <<>> \/ (busy' /\ Len(inbox') = 1 /\ inbox'[1].for = calls')
    <3>1. <<>> \o <<>> = <<>>
      OBVIOUS
    <3>2. ASSUME NEW m PROVE <<>> \o <<m>> = <<m>>
      BY OneElement, WithNothing
    <3>3. inbox = <<>>
      BY <1>3, <2>5
    <3>4. CASE messages = <<>>
      BY <2>1, <3>1, <3>3, <3>4
    <3>5. ASSUME NEW m, m.for = calls + 1, messages = <<m>> PROVE busy' /\ Len(inbox') = 1 /\ inbox'[1].for = calls'
      <4>1. inbox' = <<m>> /\ messages /= <<>>
        BY <2>1, <3>2, <3>3, <3>5, OneElement
      <4> QED
        BY <1>1, <1>4, <2>3, <3>5, <4>1, OneElement
    <3> QED
      BY <2>2, <3>4, <3>5
  <2>6. ASSUME ~overdue PROVE OfCall(net, Awaited)' /\ OfCall(inbox, Awaited \/ net /= <<>>)'
    <3>1. ~Awaited' /\ net' = <<>>
      BY <1>1, <1>3, <2>1, <2>6 DEF Awaited, Quiet
    <3>2. CASE inbox' = <<>>
      BY <3>1, <3>2, NoElement DEF OfCall
    <3>3. CASE busy' /\ Len(inbox') = 1 /\ inbox'[1].for = calls'
      BY <3>1, <3>3, NoElement DEF OfCall
    <3> QED
      BY <2>5, <2>6, <3>2, <3>3
  <2> QED
    BY <1>1, <1>3, <1>4, <2>1, <2>4, <2>6 DEF OwnInv, Quiet, OwnResponses
<1>5. CASE /\ busy' = (c.api /= "testerPresentSuppressed") /\ result' = None
           /\ inbox' = inbox /\ asked' = Append(asked, [for |-> calls + 1, call |-> c])
  <2> DEFINE e == [for |-> calls + 1, call |-> c]
  <2>1. inbox' = inbox /\ asked' = Append(asked, e)
    BY <1>5
  <2>2. /\ IsSeq(asked') /\ Len(asked') = Len(asked) + 1 /\ Len(asked) \in Nat
        /\ \A k \in 1 .. Len(asked) : asked'[k] = asked[k]
        /\ asked'[Len(asked')] = e /\ e.for = calls' /\ e.call = call'
    BY <1>1, <2>1, Appended, Indices DEF OwnInv
  <2> HIDE DEF e
  <2>3. ASSUME ~overdue, NEW k \in 1 .. Len(asked')
        PROVE  \/ Quiet(asked'[k].call)
               \/ busy' /\ k = Len(asked') /\ asked'[k].for = calls' /\ asked'[k].call = call'
    <3>1. CASE k \in 1 .. Len(asked)
      BY <1>3, <2>2, <2>3, <3>1
    <3>2. CASE k = Len(asked')
      <4>1. ~busy' => Quiet(c)
        BY <1>2, <1>5
      <4> QED
        BY <1>1, <2>2, <3>2, <4>1
    <3> QED
      BY <2>2, <3>1, <3>2
  <2>4. ASSUME ~overdue PROVE OfCall(net, Awaited)' /\ OfCall(inbox, Awaited \/ net /= <<>>)'
    BY <1>1, <1>3, <2>1, <2>4, NoElement DEF OfCall
  <2> QED
    BY <1>1, <1>5, <2>1, <2>2, <2>3, <2>4 DEF OwnInv, Quiet, OwnResponses
<1>6. CASE ~busy' /\ result'.message = None /\ UNCHANGED <<asked, inbox>>
  <2>1. ASSUME ~overdue PROVE OfCall(net, Awaited)' /\ OfCall(inbox, Awaited \/ net /= <<>>)'
    BY <1>1, <1>3, <1>6, <2>1, NoElement DEF OfCall
  <2> QED
    BY <1>1, <1>3, <1>6, <2>1 DEF OwnInv, Quiet, OwnResponses
<1>7. \/ setup.simulated /\ busy' = (c.api /= "testerPresentSuppressed") /\ result' = None
      \/ /\ busy' = (c.api /= "testerPresentSuppressed") /\ result' = None
         /\ inbox' = inbox /\ asked' = Append(asked, [for |-> calls + 1, call |-> c])
      \/ ~busy' /\ result'.message = None /\ UNCHANGED <<asked, inbox>>
  BY DEF Call
<1> QED
  BY <1>4, <1>5, <1>6, <1>7

\* A call that gives up has left something behind, or nothing was under way.
LEMMA OwnGivesUp ==
    ASSUME OwnInv, busy, IsSeq(inbox'), Return("timeout", <<>>, None),
           \A k \in 1 .. Len(inbox') : ~overdue => inbox'[k].for = calls,
           UNCHANGED <<asked, net, setup>>
    PROVE  OwnInv'
<1>1. /\ ~busy' /\ result'.message = None /\ UNCHANGED <<call, calls>>
      /\ overdue' = \/ overdue
                    \/ \E m \in Range(asked) \cup Range(net \o inbox') : m.for = calls
  BY DEF Return
<1>2. ASSUME ~overdue', NEW k \in 1 .. Len(asked) PROVE Quiet(asked[k].call)
  <2>1. asked[k] \in Range(asked)
    BY Indices DEF OwnInv, Range
  <2> QED
    BY <1>1, <1>2, <2>1 DEF OwnInv
<1>3. ASSUME ~overdue', NEW m, m.for = calls, m \in Range(net \o inbox') PROVE FALSE
  BY <1>1, <1>3
<1> DEFINE all == net \o inbox'
<1>4. /\ IsSeq(all) /\ Len(all) = Len(net) + Len(inbox')
      /\ \A k \in 1 .. Len(net) : all[k] = net[k]
      /\ \A k \in 1 .. Len(inbox') : all[Len(net) + k] = inbox'[k]
  BY Concatenated DEF OwnInv
<1>5. Range(all) = {all[k] : k \in 1 .. Len(all)}
  BY <1>4, Indices DEF Range
<1>6. Len(net) \in Nat /\ Len(inbox') \in Nat
  BY Indices DEF OwnInv
<1> HIDE DEF all
<1>7. (\A k \in 1 .. Len(net) : net[k] \in Range(all)) /\ \A k \in 1 .. Len(inbox') : inbox'[k] \in Range(all)
  <2>1. ASSUME NEW k \in 1 .. Len(net) PROVE net[k] \in Range(all)
    <3>1. k \in 1 .. Len(all) /\ all[k] = net[k]
      BY <1>4, <1>6
    <3> QED
      BY <1>5, <3>1
  <2>2. ASSUME NEW k \in 1 .. Len(inbox') PROVE inbox'[k] \in Range(all)
    <3>1. Len(net) + k \in 1 .. Len(net) + Len(inbox')
      BY <1>6
    <3>2. Len(all) = Len(net) + Len(inbox') /\ all[Len(net) + k] = inbox'[k]
      BY <1>4
    <3> QED
      BY <1>5, <3>1, <3>2
  <2> QED
    BY <2>1, <2>2
<1>8. ASSUME ~overdue' PROVE Len(net) = 0 /\ Len(inbox') = 0
  <2>1. ~overdue
    BY <1>1, <1>8
  <2>2. ASSUME NEW k \in 1 .. Len(net) PROVE FALSE
    BY <1>3, <1>7, <1>8, <2>1, <2>2 DEF OwnInv, OfCall, all
  <2>3. ASSUME NEW k \in 1 .. Len(inbox') PROVE FALSE
    BY <1>3, <1>7, <1>8, <2>1, <2>3 DEF all
  <2> QED
    BY <1>6, <2>2, <2>3
<1>9. ASSUME ~overdue' PROVE OfCall(net, Awaited)' /\ OfCall(inbox, Awaited \/ net /= <<>>)'
  BY <1>8, <1>9 DEF OfCall
<1> QED
  BY <1>1, <1>2, <1>9 DEF OwnInv, Quiet, OwnResponses

\* A call that takes a response that does not ask for time leaves nothing behind.
LEMMA OwnReturns ==
    ASSUME OwnInv, busy, inbox /= <<>>, inbox' = Tail(inbox), ~AsksForTime(Head(inbox), call),
           ~busy', result'.message = Head(inbox),
           overdue' <=> overdue, UNCHANGED <<asked, net, call, calls, setup>>
    PROVE  OwnInv'
<1>1. /\ IsSeq(inbox') /\ Len(inbox) \in Nat \ {0} /\ Len(inbox') = Len(inbox) - 1
      /\ Head(inbox) = inbox[1]
  BY TailOf DEF OwnInv
<1>2. ASSUME ~overdue
      PROVE  /\ Len(inbox) = 1 /\ ~Awaited /\ net = <<>> /\ Head(inbox).for = calls
  BY <1>1, <1>2 DEF OwnInv, OfCall
<1>3. ASSUME ~overdue, NEW k \in 1 .. Len(asked) PROVE Quiet(asked[k].call)
  <2>1. k = Len(asked) => asked /= <<>>
    BY NoElement
  <2> QED
    BY <1>2, <1>3, <2>1 DEF OwnInv, Awaited
<1>4. ASSUME ~overdue PROVE OfCall(net, Awaited)' /\ OfCall(inbox, Awaited \/ net /= <<>>)'
  BY <1>1, <1>2, <1>4, NoElement DEF OfCall
<1> QED
  BY <1>1, <1>2, <1>3, <1>4 DEF OwnInv, Quiet, OwnResponses, Own

\* One turn of the loop with a response.
LEMMA OwnReceive == ASSUME OwnInv, Receive PROVE OwnInv'
<1>1. busy /\ inbox /= <<>> /\ inbox' = Tail(inbox) /\ UNCHANGED <<asked, net, setup>>
  BY DEF Receive, ecuVars
<1>2. /\ IsSeq(inbox') /\ Len(inbox) \in Nat \ {0} /\ Len(inbox') = Len(inbox) - 1
      /\ Head(inbox) = inbox[1]
      /\ \A k \in 1 .. Len(inbox) - 1 : inbox'[k] = inbox[k + 1]
  BY <1>1, TailOf DEF OwnInv
<1>3. \A k \in 1 .. Len(inbox') : ~overdue => inbox'[k].for = calls
  BY <1>2 DEF OwnInv, OfCall
<1>4. CASE AsksForTime(Head(inbox), call)
  <2>1. TakePending
    <3>1. /\ Head(inbox).response.type = "neg" /\ Head(inbox).response.sid = call.req.sid
          /\ Head(inbox).response.nrc = RESPONSE_PENDING
      BY <1>4 DEF AsksForTime
    <3> QED
      BY <3>1 DEF Receive
  <2>2. CASE pending < MaxPending
    <3>1. UNCHANGED <<busy, call, calls, result, overdue>>
      BY <2>1, <2>2 DEF TakePending
    <3>2. ASSUME ~overdue PROVE OfCall(net, Awaited)' /\ OfCall(inbox, Awaited \/ net /= <<>>)'
      <4>1. OfCall(net, Awaited) /\ OfCall(inbox, Awaited \/ net /= <<>>)
        BY <3>2 DEF OwnInv
      <4>2. Awaited' = Awaited
        BY <1>1 DEF Awaited, Quiet
      <4>3. OfCall(net, Awaited)'
        BY <1>1, <3>1, <4>1, <4>2 DEF OfCall
      <4>4. ASSUME NEW k \in 1 .. Len(inbox')
            PROVE  /\ busy /\ inbox'[k].for = calls
                   /\ k < Len(inbox') \/ Awaited \/ net /= <<>> => AsksForTime(inbox'[k], call)
        <5>1. k + 1 \in 1 .. Len(inbox) /\ inbox'[k] = inbox[k + 1]
              /\ (k < Len(inbox') => k + 1 < Len(inbox))
          BY <1>2
        <5> QED
          BY <4>1, <5>1 DEF OfCall
      <4>5. OfCall(inbox, Awaited \/ net /= <<>>)'
        BY <1>1, <3>1, <4>2, <4>4 DEF OfCall
      <4> QED
        BY <4>3, <4>5
    <3> QED
      BY <1>1, <1>2, <3>1, <3>2 DEF OwnInv, Quiet, OwnResponses, Own
  <2>3. CASE ~(pending < MaxPending)
    <3>1. Return("timeout", <<>>, None)
      BY <2>1, <2>3 DEF TakePending
    <3> QED
      BY <1>1, <1>2, <1>3, <3>1, OwnGivesUp
  <2> QED
    BY <2>2, <2>3
<1>5. CASE ~AsksForTime(Head(inbox), call)
  <2>1. \E kind \in {"negative", "ok", "malformed"} : \E value : Return(kind, value, Head(inbox))
    BY <1>5 DEF Receive, AsksForTime, IsNegative, TakePositive
  <2>2. ~busy' /\ result'.message = Head(inbox) /\ (overdue' <=> overdue)
        /\ UNCHANGED <<call, calls>>
    BY <2>1 DEF Return
  <2> QED
    BY <1>1, <1>5, <2>2, OwnReturns
<1> QED
  BY <1>4, <1>5

\* ... and with none.
LEMMA OwnReceiveNothing == ASSUME OwnInv, ReceiveNothing PROVE OwnInv'
<1>1. busy /\ inbox' = <<>> /\ Return("timeout", <<>>, None) /\ UNCHANGED <<asked, net, setup>>
  BY DEF ReceiveNothing, ecuVars
<1> QED
  BY <1>1, NoElement, OwnGivesUp

\* The ECU works on the first request: it is that of the call that waits, or has no answer.
LEMMA FirstAsked ==
    ASSUME OwnInv, asked /= <<>>
    PROVE  /\ IsSeq(Tail(asked)) /\ Len(Tail(asked)) = Len(asked) - 1 /\ Len(asked) \in Nat \ {0}
           /\ \A k \in 1 .. Len(asked) - 1 : Tail(asked)[k] = asked[k + 1]
           /\ ~overdue /\ ~Quiet(Head(asked).call) =>
                 /\ busy /\ Len(asked) = 1 /\ Head(asked).for = calls /\ Head(asked).call = call
                 /\ Awaited
<1>1. /\ IsSeq(Tail(asked)) /\ Len(Tail(asked)) = Len(asked) - 1 /\ Len(asked) \in Nat \ {0}
      /\ \A k \in 1 .. Len(asked) - 1 : Tail(asked)[k] = asked[k + 1]
      /\ Head(asked) = asked[1]
  BY TailOf DEF OwnInv
<1>2. ASSUME ~overdue, ~Quiet(Head(asked).call)
      PROVE  busy /\ Len(asked) = 1 /\ Head(asked).for = calls /\ Head(asked).call = call /\ Awaited
  <2>1. 1 \in 1 .. Len(asked) /\ ~Quiet(asked[1].call)
    BY <1>1, <1>2
  <2>2. busy /\ 1 = Len(asked) /\ asked[1].for = calls /\ asked[1].call = call
    BY <1>2, <2>1 DEF OwnInv
  <2> QED
    BY <1>1, <2>1, <2>2 DEF Awaited
<1> QED
  BY <1>1, <1>2

LEMMA OwnEcuPending == ASSUME OwnInv, EcuPending PROVE OwnInv'
<1> DEFINE m == Message(Head(asked).for,
                        [type |-> "neg", sid |-> Head(asked).call.req.sid, nrc |-> RESPONSE_PENDING], <<>>)
<1>1. /\ asked /= <<>> /\ ~Head(asked).call.req.suppress /\ net' = Append(net, m)
      /\ UNCHANGED <<asked, inbox, busy, call, calls, result, overdue, setup>>
  BY DEF EcuPending, callVars
<1>2. ~Quiet(Head(asked).call)
  <2>1. testerPresentSuppressed.req.suppress
    BY DEF testerPresentSuppressed, ApiCall, Req
  <2> QED
    BY <1>1, <2>1 DEF Quiet
<1>3. m.for = Head(asked).for /\ m.response.type = "neg" /\ m.response.sid = Head(asked).call.req.sid
      /\ m.response.nrc = RESPONSE_PENDING
  BY DEF Message
<1> HIDE DEF m
<1>4. /\ IsSeq(net') /\ Len(net') = Len(net) + 1 /\ Len(net) \in Nat
      /\ \A k \in 1 .. Len(net) : net'[k] = net[k]
      /\ net'[Len(net) + 1] = m
  BY <1>1, Appended, Indices DEF OwnInv
<1>5. Awaited' = Awaited
  BY <1>1 DEF Awaited, Quiet
<1>6. ASSUME ~overdue PROVE OfCall(net, Awaited)' /\ OfCall(inbox, Awaited \/ net /= <<>>)'
  <2>1. busy /\ Head(asked).for = calls /\ Head(asked).call = call /\ Awaited
    BY <1>1, <1>2, <1>6, FirstAsked
  <2>2. m.for = calls /\ AsksForTime(m, call)
    BY <1>3, <2>1 DEF AsksForTime
  <2>3. OfCall(net, TRUE) /\ OfCall(inbox, TRUE)
    BY <1>6, <2>1 DEF OwnInv, OfCall
  <2>4. \A k \in 1 .. Len(net') : net'[k].for = calls /\ AsksForTime(net'[k], call)
    BY <1>4, <2>2, <2>3 DEF OfCall
  <2> QED
    BY <1>1, <2>1, <2>3, <2>4 DEF OfCall
<1>7. ASSUME ~overdue, NEW k \in 1 .. Len(asked')
      PROVE  \/ Quiet(asked'[k].call)
             \/ busy' /\ k = Len(asked') /\ asked'[k].for = calls' /\ asked'[k].call = call'
  BY <1>1, <1>7 DEF OwnInv
<1>8. (~overdue => OwnResponses) => (~overdue => OwnResponses)'
  BY <1>1, Zenon DEF OwnResponses, Own
<1>9. /\ IsSeq(asked)' /\ IsSeq(net)' /\ IsSeq(inbox)'
      /\ (setup \in Setups)' /\ (overdue' <=> overdue)
  BY <1>1, <1>4 DEF OwnInv
<1> QED
  BY <1>6, <1>7, <1>8, <1>9, Zenon DEF OwnInv

LEMMA OwnEcuAnswers == ASSUME OwnInv, EcuAnswers PROVE OwnInv'
<1> DEFINE messages == Answer(ecu, Head(asked).call, Head(asked).for).messages
<1>1. /\ asked /= <<>> /\ asked' = Tail(asked) /\ net' = net \o messages
      /\ UNCHANGED <<inbox, busy, call, calls, result, overdue, setup>>
  BY DEF EcuAnswers, callVars
<1>2. /\ IsSeq(asked') /\ Len(asked') = Len(asked) - 1 /\ Len(asked) \in Nat \ {0}
      /\ \A k \in 1 .. Len(asked) - 1 : asked'[k] = asked[k + 1]
  BY <1>1, FirstAsked
<1>3. \/ messages = <<>>
      \/ \E m : m.for = Head(asked).for /\ messages = <<m>>
  BY OneAnswer
<1>4. Quiet(Head(asked).call) => messages = <<>>
  BY QuietAnswer
<1> HIDE DEF messages
<1>5. /\ IsSeq(net') /\ Len(net) \in Nat /\ Len(net') = Len(net) + Len(messages)
      /\ \A k \in 1 .. Len(net) : net'[k] = net[k]
      /\ \A k \in 1 .. Len(messages) : net'[Len(net) + k] = messages[k]
  <2>1. IsSeq(messages)
    BY <1>3, NoElement, OneElement
  <2>2. IsSeq(net) /\ Len(net) \in Nat
    BY Indices DEF OwnInv
  <2> QED
    BY <1>1, <2>1, <2>2, Concatenated
<1>6. ASSUME ~overdue, NEW k \in 1 .. Len(asked')
      PROVE  \/ Quiet(asked'[k].call)
             \/ busy' /\ k = Len(asked') /\ asked'[k].for = calls' /\ asked'[k].call = call'
  <2>1. k + 1 \in 1 .. Len(asked) /\ asked'[k] = asked[k + 1] /\ (k = Len(asked') <=> k + 1 = Len(asked))
    BY <1>2
  <2> QED
    BY <1>1, <1>6, <2>1 DEF OwnInv
<1>7. ASSUME ~overdue PROVE OfCall(net, Awaited)' /\ OfCall(inbox, Awaited \/ net /= <<>>)'
  <2>1. OfCall(net, Awaited) /\ OfCall(inbox, Awaited \/ net /= <<>>)
    BY <1>7 DEF OwnInv
  <2>2. CASE messages = <<>>
    <3>1. net' = net
      BY <1>1, <2>2, WithNothing DEF OwnInv
    <3>2. Awaited' => Awaited
      <4>1. ASSUME asked' /= <<>> PROVE asked'[Len(asked')] = asked[Len(asked)]
        <5>1. Len(asked') \in Nat \ {0}
          BY <1>2, <4>1, TailOf
        <5>2. Len(asked') \in 1 .. Len(asked) - 1 /\ Len(asked') + 1 = Len(asked)
          BY <1>2, <5>1
        <5> QED
          BY <1>2, <5>2
      <4> QED
        BY <1>1, <4>1 DEF Awaited, Quiet
    <3> QED
      BY <1>1, <2>1, <3>1, <3>2 DEF OfCall
  <2>3. ASSUME NEW m, m.for = Head(asked).for, messages = <<m>>, ~Quiet(Head(asked).call)
        PROVE  OfCall(net, Awaited)' /\ OfCall(inbox, Awaited \/ net /= <<>>)'
    <3>1. busy /\ Len(asked) = 1 /\ m.for = calls /\ Awaited
      BY <1>1, <1>7, <2>3, FirstAsked
    <3>2. ~Awaited'
      <4>1. asked' = <<>>
        BY <1>2, <3>1, TailOf
      <4> QED
        BY <4>1 DEF Awaited
    <3>3. Len(messages) = 1 /\ messages[1] = m
      BY <2>3, OneElement
    <3>4. Len(net') = Len(net) + 1 /\ net'[Len(net) + 1] = m
      BY <1>5, <3>3
    <3>5. OfCall(net, TRUE) /\ OfCall(inbox, TRUE)
      BY <2>1, <3>1 DEF OfCall
    <3>6. \A k \in 1 .. Len(net') : net'[k].for = calls /\ (k < Len(net') => AsksForTime(net'[k], call))
      BY <1>5, <3>1, <3>4, <3>5 DEF OfCall
    <3> QED
      BY <1>1, <3>1, <3>2, <3>5, <3>6 DEF OfCall
  <2> QED
    BY <1>3, <1>4, <2>2, <2>3
<1>8. (~overdue => OwnResponses) => (~overdue => OwnResponses)'
  BY <1>1, Zenon DEF OwnResponses, Own
<1>9. /\ IsSeq(asked)' /\ IsSeq(net)' /\ IsSeq(inbox)'
      /\ (setup \in Setups)' /\ (overdue' <=> overdue)
  BY <1>1, <1>2, <1>5 DEF OwnInv
<1> QED
  BY <1>6, <1>7, <1>8, <1>9, Zenon DEF OwnInv

\* The transport keeps the order.
LEMMA OwnDeliver == ASSUME OwnInv, Deliver PROVE OwnInv'
<1>1. /\ net /= <<>> /\ inbox' = Append(inbox, Head(net)) /\ net' = Tail(net)
      /\ UNCHANGED <<asked, busy, call, calls, result, overdue, setup>>
  BY DEF Deliver, callVars
<1>2. /\ IsSeq(net') /\ Len(net) \in Nat \ {0} /\ Len(net') = Len(net) - 1 /\ Head(net) = net[1]
      /\ \A k \in 1 .. Len(net) - 1 : net'[k] = net[k + 1]
      /\ net' = <<>> <=> Len(net) = 1
  BY <1>1, TailOf DEF OwnInv
<1>3. /\ IsSeq(inbox') /\ Len(inbox) \in Nat /\ Len(inbox') = Len(inbox) + 1
      /\ \A k \in 1 .. Len(inbox) : inbox'[k] = inbox[k]
      /\ inbox'[Len(inbox) + 1] = Head(net)
  BY <1>1, Appended, Indices DEF OwnInv
<1>4. ASSUME ~overdue PROVE OfCall(net, Awaited)' /\ OfCall(inbox, Awaited \/ net /= <<>>)'
  <2>1. OfCall(net, Awaited) /\ OfCall(inbox, TRUE)
    BY <1>1, <1>4 DEF OwnInv, OfCall
  <2>2. Awaited' = Awaited
    BY <1>1 DEF Awaited, Quiet
  <2>3. \A k \in 1 .. Len(net') : busy /\ net'[k].for = calls /\ (k < Len(net') \/ Awaited => AsksForTime(net'[k], call))
    <3> SUFFICES ASSUME NEW k \in 1 .. Len(net')
                 PROVE  busy /\ net'[k].for = calls /\ (k < Len(net') \/ Awaited => AsksForTime(net'[k], call))
      OBVIOUS
    <3>1. k + 1 \in 1 .. Len(net) /\ net'[k] = net[k + 1] /\ (k < Len(net') => k + 1 < Len(net))
      BY <1>2
    <3> QED
      BY <2>1, <3>1 DEF OfCall
  <2>4. /\ busy /\ Head(net).for = calls
        /\ Awaited \/ net' /= <<>> => AsksForTime(Head(net), call)
    BY <1>2, <2>1 DEF OfCall
  <2>5. \A k \in 1 .. Len(inbox') :
           /\ busy /\ inbox'[k].for = calls
           /\ k < Len(inbox') \/ Awaited \/ net' /= <<>> => AsksForTime(inbox'[k], call)
    BY <1>3, <2>1, <2>4 DEF OfCall
  <2>6. OfCall(net, Awaited)'
    BY <1>1, <2>2, <2>3 DEF OfCall
  <2>7. OfCall(inbox, Awaited \/ net /= <<>>)'
    <3>1. UNCHANGED <<busy, call, calls>>
      BY <1>1
    <3>2. ASSUME NEW k \in 1 .. Len(inbox')
          PROVE  /\ busy' /\ inbox'[k].for = calls'
                 /\ k < Len(inbox') \/ Awaited' \/ net' /= <<>> => AsksForTime(inbox'[k], call')
      BY <2>2, <2>5, <3>1
    <3> QED
      BY <3>2 DEF OfCall
  <2> QED
    BY <2>6, <2>7
<1> QED
  BY <1>1, <1>2, <1>3, <1>4 DEF OwnInv, Quiet, OwnResponses, Own

LEMMA OwnLose == ASSUME OwnInv, Lose PROVE OwnInv'
<1>1. /\ net /= <<>> /\ net' = Tail(net)
      /\ UNCHANGED <<asked, inbox, busy, call, calls, result, overdue, setup>>
  BY DEF Lose, callVars
<1>2. /\ IsSeq(net') /\ Len(net) \in Nat \ {0} /\ Len(net') = Len(net) - 1
      /\ \A k \in 1 .. Len(net) - 1 : net'[k] = net[k + 1]
  BY <1>1, TailOf DEF OwnInv
<1>3. ASSUME ~overdue PROVE OfCall(net, Awaited)' /\ OfCall(inbox, Awaited \/ net /= <<>>)'
  <2>1. OfCall(net, Awaited) /\ OfCall(inbox, TRUE)
    BY <1>1, <1>3 DEF OwnInv, OfCall
  <2>2. Awaited' = Awaited
    BY <1>1 DEF Awaited, Quiet
  <2>3. \A k \in 1 .. Len(net') : busy /\ net'[k].for = calls /\ (k < Len(net') \/ Awaited => AsksForTime(net'[k], call))
    <3> SUFFICES ASSUME NEW k \in 1 .. Len(net')
                 PROVE  busy /\ net'[k].for = calls /\ (k < Len(net') \/ Awaited => AsksForTime(net'[k], call))
      OBVIOUS
    <3>1. k + 1 \in 1 .. Len(net) /\ net'[k] = net[k + 1] /\ (k < Len(net') => k + 1 < Len(net))
      BY <1>2
    <3> QED
      BY <2>1, <3>1 DEF OfCall
  <2> QED
    BY <1>1, <2>1, <2>2, <2>3 DEF OfCall
<1> QED
  BY <1>1, <1>2, <1>3 DEF OwnInv, Quiet, OwnResponses, Own

LEMMA OwnStep == OwnInv /\ [Next]_vars => OwnInv'
<1> SUFFICES ASSUME OwnInv, [Next]_vars PROVE OwnInv'
  OBVIOUS
<1>1. CASE UserCalls
  BY <1>1, OwnCall DEF UserCalls
<1>2. CASE Receive
  BY <1>2, OwnReceive
<1>3. CASE ReceiveNothing
  BY <1>3, OwnReceiveNothing
<1>4. CASE EcuPending
  BY <1>4, OwnEcuPending
<1>5. CASE EcuAnswers
  BY <1>5, OwnEcuAnswers
<1>6. CASE Deliver
  BY <1>6, OwnDeliver
<1>7. CASE Lose
  BY <1>7, OwnLose
<1>8. CASE Report
  BY <1>8, OwnKept DEF Report, callVars
<1>9. CASE Tick
  BY <1>9, OwnKept DEF Tick
<1>10. CASE UNCHANGED vars
  BY <1>10, OwnKept DEF vars, ecuVars, callVars
<1> QED
  BY <1>1, <1>2, <1>3, <1>4, <1>5, <1>6, <1>7, <1>8, <1>9, <1>10 DEF Next

\* request() does not look for old responses, and yet a call takes its own response or none,
\* as long as no earlier call gave up on an answer still to come.
THEOREM OwnResponsesCorrect == Spec => []OwnResponses
<1>1. OwnInv => OwnResponses
  BY DEF OwnInv, OwnResponses
<1> QED
  BY <1>1, OwnInit, OwnStep, PTL DEF Spec

==============================================================================
