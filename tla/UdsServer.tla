----------------------------- MODULE UdsServer -----------------------------
(***************************************************************************)
(* The UDS server (src/common/uds/uds_server.c) as operators on its state: *)
(* the session, the time since the last request (s_lastRequestMs read      *)
(* through the clock) and the reset that waits for its response.           *)
(*                                                                         *)
(* A request is a record: sid, length in bytes, sub-function without the   *)
(* suppress bit, suppress, and the fields its service reads.  A service    *)
(* returns its NRC (0: positive), the length of the positive response, the *)
(* suppress flag and the new state.                                        *)
(***************************************************************************)
EXTENDS Naturals, Sequences, Functions

CONSTANTS
    S3,           \* UDS_S3_SERVER_MS, in units of time
    RespMax,      \* bytes of the response buffer
    DidLength,    \* bytes of each configured DID: [configured DIDs -> Nat]
    DtcCount      \* entries of the DTC table

ASSUME ServerAssumption ==
    /\ S3 \in Nat \ {0} /\ RespMax \in Nat /\ DtcCount \in Nat
    /\ DidLength \in [DOMAIN DidLength -> Nat]

INCORRECT_LENGTH   == 19    \* NRC 0x13
SUBFUNCTION        == 18    \* 0x12
RESPONSE_TOO_LONG  == 20    \* 0x14
OUT_OF_RANGE       == 49    \* 0x31
SUBFUNC_IN_SESSION == 126   \* 0x7E
SERVICE_IN_SESSION == 127   \* 0x7F
SERVICE            == 17    \* 0x11

InitialServer == [session |-> "default", age |-> 0, pendingReset |-> "none"]

\* Nothing wrong; the response has n bytes, fewer if the buffer ends earlier.
Positive(u, n, suppress) ==
    [nrc |-> 0, length |-> IF n \in 0 .. RespMax THEN n ELSE RespMax, suppress |-> suppress,
     server |-> u]
Refuse(u, nrc) == [nrc |-> nrc, length |-> 0, suppress |-> FALSE, server |-> u]

-----------------------------------------------------------------------------
(* Services.                                                               *)

SessionControl(u, r) ==
    CASE r.length /= 2 -> Refuse(u, INCORRECT_LENGTH)
      [] r.length = 2 /\ r.sub \notin {1, 3} -> Refuse(u, SUBFUNCTION)
      [] OTHER -> Positive([u EXCEPT !.session = IF r.sub = 1 THEN "default" ELSE "extended"],
                           6, r.suppress)

\* Faulty variant: a reset is accepted in any session.
EcuResetAnySession(u, r) ==
    CASE r.length /= 2 -> Refuse(u, INCORRECT_LENGTH)
      [] r.length = 2 /\ r.sub \notin {1, 3} -> Refuse(u, SUBFUNCTION)
      [] OTHER -> Positive([u EXCEPT !.pendingReset = IF r.sub = 1 THEN "hard" ELSE "soft"],
                           2, r.suppress)

EcuReset(u, r) ==
    CASE r.length /= 2 -> Refuse(u, INCORRECT_LENGTH)
      [] r.length = 2 /\ r.sub \notin {1, 3} -> Refuse(u, SUBFUNCTION)
      [] r.length = 2 /\ r.sub \in {1, 3} /\ u.session /= "extended" ->
            Refuse(u, SUBFUNC_IN_SESSION)
      [] OTHER -> Positive([u EXCEPT !.pendingReset = IF r.sub = 1 THEN "hard" ELSE "soft"],
                           2, r.suppress)

\* DtcMgr_ClearAll runs in the positive case.
ClearDtc(u, r) ==
    CASE r.length /= 4 -> Refuse(u, INCORRECT_LENGTH)
      [] r.length = 4 /\ ~r.allGroups -> Refuse(u, OUT_OF_RANGE)
      [] OTHER -> Positive(u, 1, FALSE)

\* r.matching entries match the mask: the two queries of 19 02 are separate
\* critical sections, so the list may have fewer or more records than counted.
ReadDtc(u, r) ==
    LET maxRecords == IF RespMax <= 3 THEN 0 ELSE (RespMax - 3) \div 4
        listed == IF r.listed <= maxRecords THEN r.listed ELSE maxRecords
    IN  CASE r.length < 2 -> Refuse(u, INCORRECT_LENGTH)
          [] r.length >= 2 /\ r.sub \notin {1, 2} -> Refuse(u, SUBFUNCTION)
          [] r.length >= 2 /\ r.sub \in {1, 2} /\ r.length /= 3 -> Refuse(u, INCORRECT_LENGTH)
          [] r.length = 3 /\ r.sub = 1 -> Positive(u, 6, FALSE)
          [] r.length = 3 /\ r.sub = 2 /\ r.matching > maxRecords -> Refuse(u, RESPONSE_TOO_LONG)
          [] OTHER -> Positive(u, 3 + 4 * listed, FALSE)

KnownDids(r) == SelectSeq(r.dids, LAMBDA d : d \in DOMAIN DidLength)
DidBytes(dids) == FoldFunction(LAMBDA d, n : n + 2 + DidLength[d], 1, dids)

\* Unknown DIDs are skipped; the answer is refused when none is known.
ReadDid(u, r) ==
    LET known == KnownDids(r)
        total == DidBytes(known)
    IN  CASE r.length < 3 \/ (r.length - 1) % 2 /= 0 -> Refuse(u, INCORRECT_LENGTH)
          [] r.length >= 3 /\ (r.length - 1) % 2 = 0 /\ known /= <<>> /\ total > RespMax ->
                Refuse(u, RESPONSE_TOO_LONG)
          [] r.length >= 3 /\ (r.length - 1) % 2 = 0 /\ known = <<>> -> Refuse(u, OUT_OF_RANGE)
          [] OTHER -> Positive(u, total, FALSE)

TesterPresent(u, r) ==
    CASE r.length /= 2 -> Refuse(u, INCORRECT_LENGTH)
      [] r.length = 2 /\ r.sub /= 0 -> Refuse(u, SUBFUNCTION)
      [] OTHER -> Positive(u, 2, r.suppress)

SuppressedForFunctional ==
    {SERVICE, SUBFUNCTION, OUT_OF_RANGE, SUBFUNC_IN_SESSION, SERVICE_IN_SESSION}

\* Any request restarts S3, a refused one too.
Dispatch(u, r) ==
    LET v == [u EXCEPT !.age = 0]
    IN  CASE r.sid = 16 -> SessionControl(v, r)
          [] r.sid = 17 -> EcuReset(v, r)
          [] r.sid = 20 -> ClearDtc(v, r)
          [] r.sid = 25 -> ReadDtc(v, r)
          [] r.sid = 34 -> ReadDid(v, r)
          [] r.sid = 62 -> TesterPresent(v, r)
          [] OTHER -> Refuse(v, SERVICE)

\* Uds_ProcessRequest: the new state, the NRC and the length of
\* the response (0: none).  r.length is not 0.
ProcessRequest(u, r, functional) ==
    LET s == Dispatch(u, r)
        length == IF s.nrc = 0 THEN (IF s.suppress THEN 0 ELSE s.length)
                  ELSE IF (functional /\ s.nrc \in SuppressedForFunctional) \/ RespMax < 3 THEN 0
                  ELSE 3
    IN  [server |-> s.server, nrc |-> s.nrc, length |-> length]

\* Faulty variant: the session lasts one unit of time too long (age stops at S3).
ServerMainLate(u) ==
    IF u.session /= "default" /\ u.age > S3 THEN [u EXCEPT !.session = "default"] ELSE u

\* Uds_MainFunction: S3 without a request ends the session.
ServerMain(u) ==
    IF u.session /= "default" /\ u.age >= S3 THEN [u EXCEPT !.session = "default"] ELSE u

\* Faulty variant: the request stays pending.
ServerResetAgain(u) == [u EXCEPT !.session = "default"]

\* Uds_ExecutePendingReset, up to the call of ecuReset.
ServerReset(u) == [u EXCEPT !.pendingReset = "none", !.session = "default"]

ServerAged(u) == [u EXCEPT !.age = IF @ < S3 THEN @ + 1 ELSE @]
=============================================================================
