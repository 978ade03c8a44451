------------------------------ MODULE UdsClient ------------------------------
(***************************************************************************)
(* The C++ diagnostic tester: UdsClient (uds_client.cpp) over ITransport,  *)
(* and the regression scenarios (scenario.cpp) that call it.               *)
(*                                                                         *)
(* The transport is one of two.  SimulatedEcu answers inside send(), and   *)
(* receive() returns at once with what there is.  A remote ECU (external)  *)
(* works on the requests in order, may ask for time with NRC 0x78, and its *)
(* responses travel in order but may be late or lost.                      *)
(***************************************************************************)
EXTENDS SimulatedEcu

CONSTANTS
    P2, P2Star, MaxPending,   \* ClientTiming
    Setups                    \* circumstances: records [simulated, prompt : BOOLEAN,
                              \* losses, reports : Nat, calls : a set, maxCalls : Nat,
                              \* scenario : a sequence of steps]: the user makes any
                              \* maxCalls of the calls, unless it runs a scenario

ASSUME ClientAssumption ==
    /\ P2 \in Nat \ {0} /\ P2Star \in Nat \ {0} /\ MaxPending \in Nat
    /\ \A u \in Setups : u.simulated \in BOOLEAN /\ u.prompt \in BOOLEAN
                         /\ u.losses \in Nat /\ u.reports \in Nat /\ u.maxCalls \in Nat

VARIABLES
    ecu,                \* the state of the ECU
    asked,              \* requests the remote ECU has not answered: [for, call]
    pendings,           \* NRC 0x78 sent for the first of them
    net,                \* responses under way
    inbox,              \* responses receive() can return (m_responses)
    busy,               \* a call of request() waits in receive()
    call, calls,        \* the call made last, and the number of calls made
    timeout, pending,   \* locals of request()
    age,                \* time spent in this receive()
    waited,             \* ghost: time spent in this call, up to Patience + 1
    result,             \* what the call returned, with the response it took, or None
    overdue,            \* ghost: some call gave up while its answer was still to come
    losses, reports, setup

callVars == <<busy, call, calls, timeout, pending, age, waited, result, overdue>>
ecuVars == <<ecu, asked, pendings, net>>
vars == <<ecuVars, inbox, callVars, losses, reports, setup>>

-----------------------------------------------------------------------------
(* Requests and calls.                                                     *)

Req(sid, length, sub) ==
    [sid |-> sid, length |-> length, sub |-> sub, suppress |-> FALSE, allGroups |-> TRUE,
     mask |-> {}, dids |-> <<>>, matching |-> 0, listed |-> 0]
ApiCall(api, req) == [api |-> api, req |-> req, functional |-> FALSE, specs |-> <<>>]
Functional(c) == [c EXCEPT !.functional = TRUE]

startSession(s)  == ApiCall("startSession", Req(16, 2, s))
testerPresent    == ApiCall("testerPresent", Req(62, 2, 0))
testerPresentSuppressed ==
    ApiCall("testerPresentSuppressed", [Req(62, 2, 0) EXCEPT !.suppress = TRUE])
ecuReset(t)      == ApiCall("ecuReset", Req(17, 2, t))
readDid(d)       == ApiCall("readDid", [Req(34, 3, 0) EXCEPT !.dids = <<d>>])
readDids(specs)  ==   \* specs: a sequence of DidSpec
    [ApiCall("readDids", [Req(34, 1 + 2 * Len(specs), 0) EXCEPT
                              !.dids = [k \in DOMAIN specs |-> specs[k].id]])
        EXCEPT !.specs = specs]
readDtcCount(m)  == ApiCall("readDtcCount", [Req(25, 3, 1) EXCEPT !.mask = m])
readDtcs(m)      == ApiCall("readDtcs", [Req(25, 3, 2) EXCEPT !.mask = m])
clearAllDtcs     == ApiCall("clearAllDtcs", Req(20, 4, 0))
unknownService   == ApiCall("request", Req(133, 2, 0))

DidSpec(id, length) == [id |-> id, length |-> length]
kSoftwareVersionLength == 10

\* Faulty variant: the client still expects one byte of speed.
kAllDidsStale ==
    << DidSpec(kDidSoftwareVersion, kSoftwareVersionLength), DidSpec(kDidVehicleSpeed, 1),
       DidSpec(kDidActiveFaults, 1) >>

\* The table of the client: its own, it only mirrors DidLength, that of the server.
kAllDids ==
    << DidSpec(kDidSoftwareVersion, kSoftwareVersionLength), DidSpec(kDidVehicleSpeed, 2),
       DidSpec(kDidActiveFaults, 1) >>

\* The calls a user may make in the setup u.
CallsOf(u) == u.calls \cup {s.call : s \in Range(u.scenario)}

\* The request that is sent without waiting is 3E 80, which no ECU answers.
ASSUME SuppressedAssumption ==
    \A u \in Setups : \A c \in CallsOf(u) :
        c.api = "testerPresentSuppressed" => c.req = testerPresentSuppressed.req

-----------------------------------------------------------------------------
(* Decoding of a positive response: [ok, value].                           *)

Malformed == [ok |-> FALSE, value |-> <<>>]
Ok(value) == [ok |-> TRUE, value |-> value]
Checked(condition, value) == IF condition THEN Ok(value) ELSE Malformed

\* Past the DID d at pos, by the first entry of the call's table for d.
AfterDid(specs, pos, d) == pos + 2 + specs[SelectInSeq(specs, LAMBDA s : s.id = d)].length

\* The loop of readDids over the body b.
DidValues(b, specs) ==
    LET ids == {s.id : s \in Range(specs)}
        from[pos \in 1 .. Len(b) + 1] ==
          IF pos > Len(b) THEN Ok(<<>>)
          ELSE IF pos + 1 > Len(b) THEN Malformed
          ELSE LET d == <<b[pos], b[pos + 1]>>
                   next == AfterDid(specs, pos, d)
               IN  IF d \notin ids \/ next > Len(b) + 1 THEN Malformed
                   ELSE Checked(from[next].ok,
                                <<[id |-> d, data |-> SubSeq(b, pos + 2, next - 1)]>>
                                   \o from[next].value)
    IN  from[1]

\* parseDtcRecords.
DtcRecords(b) ==
    Checked(Len(b) % 4 = 0,
            [k \in 1 .. Len(b) \div 4 |-> [code |-> b[4 * k - 3], status |-> b[4 * k]]])

Decoded(c, b) ==
    CASE c.api = "startSession" ->
            Checked(Len(b) = 5 /\ b[1] = c.req.sub, <<b[2] * 256 + b[3], (b[4] * 256 + b[5]) * 10>>)
      [] c.api = "testerPresent" -> Checked(Len(b) = 1 /\ b[1] = 0, <<>>)
      [] c.api = "ecuReset" -> Checked(Len(b) >= 1 /\ b[1] = c.req.sub, <<>>)
      [] c.api = "readDid" ->
            Checked(Len(b) >= 2 /\ <<b[1], b[2]>> = c.req.dids[1], SubSeq(b, 3, Len(b)))
      [] c.api = "readDids" -> DidValues(b, c.specs)
      [] c.api = "readDtcCount" -> Checked(Len(b) = 5 /\ b[1] = 1, <<b[4] * 256 + b[5]>>)
      [] c.api = "readDtcs" ->
            IF Len(b) >= 2 /\ b[1] = 2 THEN DtcRecords(SubSeq(b, 3, Len(b))) ELSE Malformed
      [] c.api = "clearAllDtcs" -> Checked(Len(b) = 0, <<>>)
      [] OTHER -> Ok(b)

\* What a right answer to c says of the ECU, whatever its bytes.
Truth(e, c) ==
    CASE c.api = "startSession" -> <<50, 5000>>
      [] c.api = "readDid" -> DidData(e, c.req.dids[1])
      [] c.api = "readDids" ->
            [k \in DOMAIN KnownDids(c.req) |->
                [id |-> KnownDids(c.req)[k], data |-> DidData(e, KnownDids(c.req)[k])]]
      [] c.api = "readDtcCount" ->
            <<Cardinality({i \in Dtc!Index : Dtc!Matches(e.status[i], c.req.mask)})>>
      [] c.api = "readDtcs" -> Listed(e, c.req)
      [] OTHER -> <<>>

-----------------------------------------------------------------------------
(* The scenarios.  A step is [call, expect]: "ok", "zero" (a count of no   *)
(* DTC), "silence", or an NRC.                                             *)

Step(c, expect) == [call |-> c, expect |-> expect, nrc |-> 0]
StepNrc(c, nrc) == [call |-> c, expect |-> "nrc", nrc |-> nrc]

runRegressionScenario ==
    << Step(testerPresent, "ok"), Step(readDid(kDidSoftwareVersion), "ok"),
       Step(readDid(kDidVehicleSpeed), "ok"), Step(readDids(kAllDids), "ok"),
       StepNrc(unknownService, SERVICE), StepNrc(readDid(<<18, 52>>), OUT_OF_RANGE),
       StepNrc(ecuReset(1), SUBFUNC_IN_SESSION), Step(readDtcs(Dtc!Bits), "ok"),
       Step(startSession(3), "ok"), Step(clearAllDtcs, "ok"),
       Step(readDtcCount({"CDTC"}), "zero"), Step(startSession(1), "ok"),
       Step(Functional(testerPresent), "ok"), Step(Functional(unknownService), "silence") >>

runResetScenario == << Step(startSession(3), "ok"), Step(ecuReset(1), "ok") >>

\* Recorder: expectOk, expectNrc, expectSilence and the count.
Passed(s, r) ==
    CASE s.expect = "ok" -> r.kind = "ok"
      [] s.expect = "zero" -> r.kind = "ok" /\ r.value = <<0>>
      [] s.expect = "nrc" -> r.kind = "negative" /\ r.value = <<s.nrc>>
      [] s.expect = "silence" -> r.kind = "timeout"

Least(a, b) == IF a <= b THEN a ELSE b

-----------------------------------------------------------------------------
(* The client.                                                             *)

Patience == P2 + MaxPending * P2Star

Init ==
    /\ ecu = powerOn /\ asked = <<>> /\ pendings = 0 /\ net = <<>> /\ inbox = <<>>
    /\ busy = FALSE /\ call = testerPresent /\ calls = 0
    /\ timeout = P2 /\ pending = 0 /\ age = 0 /\ waited = 0
    /\ result = None /\ overdue = FALSE
    /\ losses = 0 /\ reports = 0 /\ setup \in Setups

Message(n, response, truth) == [for |-> n, response |-> response, truth |-> truth]

\* What the ECU in the state e answers to the call c, the n-th.
Answer(e, c, n) ==
    LET s == send(e, c.req, c.functional)
    IN  [ecu |-> s.ecu,
         messages |-> IF s.response = None THEN <<>>
                      ELSE <<Message(n, s.response, Truth(e, c))>>]

NewLocals == timeout' = P2 /\ pending' = 0 /\ age' = 0 /\ waited' = 0

Return(kind, value, message) ==
    /\ busy' = FALSE
    /\ result' = [kind |-> kind, value |-> value, message |-> message]
    /\ overdue' = \/ overdue
                  \/ kind = "timeout" /\ \E m \in Range(asked) \cup Range(net \o inbox') : m.for = calls
    /\ NewLocals
    /\ UNCHANGED <<call, calls>>

\* The next step of the scenario, or any call.
MayCall(c) ==
    IF setup.scenario /= <<>>
    THEN calls < Len(setup.scenario) /\ c = setup.scenario[calls + 1].call
    ELSE calls < setup.maxCalls /\ c \in setup.calls

\* request() up to its loop; testerPresentSuppressed only sends.
Call(c) ==
    /\ ~busy /\ MayCall(c)
    /\ call' = c /\ calls' = calls + 1
    /\ NewLocals
    /\ UNCHANGED <<overdue, pendings, net, reports, setup>>
    /\ \/ /\ busy' = (c.api /= "testerPresentSuppressed") /\ result' = None
          /\ IF setup.simulated
             THEN \E s \in {Answer(ecu, c, calls + 1)} :
                     ecu' = s.ecu /\ inbox' = inbox \o s.messages /\ UNCHANGED asked
             ELSE /\ asked' = Append(asked, [for |-> calls + 1, call |-> c])
                  /\ UNCHANGED <<ecu, inbox>>
          /\ UNCHANGED losses
       \/ /\ ~setup.simulated /\ losses < setup.losses /\ losses' = losses + 1
          /\ busy' = FALSE
          /\ result' = [kind |-> "sendFailed", value |-> <<>>, message |-> None]
          /\ UNCHANGED <<ecu, asked, inbox>>

UserCalls == \E c \in CallsOf(setup) : Call(c)

RESPONSE_PENDING == 120
IsNegative(r) == r.type = "neg" /\ r.sid = call.req.sid

\* Faulty variants: 0x78 ends the request; 0x78 is not counted.
TakePendingAsFinal ==
    Return("negative", <<RESPONSE_PENDING>>, Head(inbox))
TakePendingUncounted ==
    /\ timeout' = P2Star /\ age' = 0
    /\ UNCHANGED <<busy, call, calls, pending, waited, result, overdue>>

\* The ECU needs more time; the loop gives up after MaxPending of these.
TakePending ==
    IF pending < MaxPending
    THEN /\ pending' = pending + 1 /\ timeout' = P2Star /\ age' = 0
         /\ UNCHANGED <<busy, call, calls, waited, result, overdue>>
    ELSE Return("timeout", <<>>, None)

TakePositive ==
    \E d \in {Decoded(call, Head(inbox).response.body)} :
        Return(IF d.ok THEN "ok" ELSE "malformed", d.value, Head(inbox))

\* One turn of the loop of request(), with a response.
Receive ==
    /\ busy /\ inbox /= <<>>
    /\ inbox' = Tail(inbox)
    /\ LET r == Head(inbox).response
       IN  \/ IsNegative(r) /\ r.nrc = RESPONSE_PENDING /\ TakePending
           \/ IsNegative(r) /\ r.nrc /= RESPONSE_PENDING /\ Return("negative", <<r.nrc>>, Head(inbox))
           \/ r.type = "pos" /\ r.sid = call.req.sid /\ TakePositive
           \/ r.sid /= call.req.sid /\ Return("malformed", <<>>, Head(inbox))
    /\ UNCHANGED <<ecuVars, losses, reports, setup>>

\* ... and with none: the simulation does not wait.
ReceiveNothing ==
    /\ busy /\ inbox = <<>>
    /\ setup.simulated \/ age >= timeout
    /\ inbox' = inbox /\ Return("timeout", <<>>, None)
    /\ UNCHANGED <<ecuVars, losses, reports, setup>>

-----------------------------------------------------------------------------
(* The remote ECU and its transport, the monitors and time.                *)

\* The ECU asks for time only when it is going to answer; a prompt one no more
\* often than the client accepts.
EcuPending ==
    /\ asked /= <<>> /\ ~Head(asked).call.functional /\ ~Head(asked).call.req.suppress
    /\ pendings < (IF setup.prompt THEN MaxPending ELSE MaxPending + 1)
    /\ pendings' = pendings + 1
    /\ net' = Append(net, Message(Head(asked).for,
                                  [type |-> "neg", sid |-> Head(asked).call.req.sid,
                                   nrc |-> RESPONSE_PENDING], <<>>))
    /\ UNCHANGED <<ecu, asked, inbox, callVars, losses, reports, setup>>

EcuAnswers ==
    /\ asked /= <<>>
    /\ \E s \in {Answer(ecu, Head(asked).call, Head(asked).for)} :
          ecu' = s.ecu /\ net' = net \o s.messages
    /\ asked' = Tail(asked) /\ pendings' = 0
    /\ UNCHANGED <<inbox, callVars, losses, reports, setup>>

Deliver ==
    /\ net /= <<>>
    /\ inbox' = Append(inbox, Head(net)) /\ net' = Tail(net)
    /\ UNCHANGED <<ecu, asked, pendings, callVars, losses, reports, setup>>

Lose ==
    /\ net /= <<>> /\ losses < setup.losses
    /\ losses' = losses + 1 /\ net' = Tail(net)
    /\ UNCHANGED <<ecu, asked, pendings, inbox, callVars, reports, setup>>

\* A monitor reports: between calls on the simulated ECU, at any time on the
\* other; before the scenario only, which wants no confirmed DTC after its clear.
Report ==
    /\ reports < setup.reports /\ reports' = reports + 1
    /\ setup.simulated => ~busy
    /\ setup.scenario /= <<>> => calls = 0
    /\ \E i \in Dtc!Index, failed \in BOOLEAN : ecu' = reportMonitor(ecu, i, failed)
    /\ UNCHANGED <<asked, pendings, net, inbox, callVars, losses, setup>>

\* A unit of time.  In a prompt setup the transport takes none, and the ECU less
\* than the client waits.  The scenario pauses nowhere; S3 does not run while the
\* ECU works on a request.
Tick ==
    /\ busy => ~setup.simulated /\ inbox = <<>> /\ age < timeout
    /\ setup.scenario /= <<>> => busy
    /\ setup.prompt => net = <<>> /\ (asked /= <<>> => busy /\ age + 1 < timeout)
    /\ IF busy THEN age' = age + 1 /\ waited' = Least(waited + 1, Patience + 1)
               ELSE UNCHANGED <<age, waited>>
    /\ ecu' = (IF asked = <<>> THEN advanceTime(ecu) ELSE ecu)
    /\ UNCHANGED <<asked, pendings, net, inbox, busy, call, calls, timeout, pending, result,
                   overdue, losses, reports, setup>>

Next ==
    \/ UserCalls \/ Receive \/ ReceiveNothing
    \/ EcuPending \/ EcuAnswers \/ Deliver \/ Lose \/ Report \/ Tick

Spec == Init /\ [][Next]_vars

-----------------------------------------------------------------------------
(* Properties.                                                             *)

Own == result /= None /\ result.message /= None /\ result.message.for = calls

\* request() does not look for old responses.  A call still never takes another
\* call's response for its own unless an earlier call gave up on an ECU that
\* was going to answer: refusals, suppressed responses, functional requests,
\* 0x78 and lost frames leave nothing behind in the transport.
OwnResponses == result /= None /\ result.message /= None /\ ~overdue => Own

\* Client and server agree on every format: a positive response to a call's own
\* request decodes, and to what the ECU's state was when it answered; so do the
\* DIDs of a read of several, whose response carries no lengths: each side has
\* its own table of these.
Understood ==
    Own /\ result.message.response.type = "pos" =>
        result.kind = "ok" /\ (call.api \in {"request"} \/ result.value = result.message.truth)

\* However often the ECU asks for time, a call returns within
\* P2 + maxPending * P2*.
BoundedWait == waited <= Patience

\* On the simulated ECU, and on a prompt one that loses nothing, every step of
\* the regression and reset scenarios passes whatever the monitors reported
\* before.  The regression scenario leaves the ECU in the default session, as
\* scenario.hpp:31 says of it, and so does the reset at the end of the other.
ScenarioPasses ==
    setup.scenario /= <<>> /\ setup.prompt /\ losses = 0 /\ calls > 0 /\ ~busy =>
        /\ Passed(setup.scenario[calls], result)
        /\ calls \in {Len(runRegressionScenario), Len(setup.scenario)} =>
               ecu.server.session = "default"
=============================================================================
