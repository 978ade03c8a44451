-------------------------------- MODULE Crc8 --------------------------------
(***************************************************************************)
(* CRC-8 SAE-J1850 (src/common/e2e/crc8.c) and the layout of a protected   *)
(* frame (e2e.c).  A byte is the set of the positions of its ones, 7 the   *)
(* most significant, so that ^ is the symmetric difference.                *)
(***************************************************************************)
LOCAL INSTANCE Naturals
LOCAL INSTANCE Sequences
LOCAL INSTANCE SequencesExt

Byte == SUBSET (0 .. 7)
Xor(a, b) == (a \union b) \ (a \intersect b)

\* The byte of a number below 256.
ByteOf(n) == {b \in 0 .. 7 : (n \div 2^b) % 2 = 1}

CRC8_POLY == ByteOf(29)     \* 0x1D
CRC8_INIT == ByteOf(255)
CRC8_XOR_OUT == ByteOf(255)

\* One bit of the inner loop.  Faulty variant: an 8-bit rotation.
NextBitRotated(crc) == {(b + 1) % 8 : b \in crc}
NextBit(crc) ==
    LET shifted == {b + 1 : b \in crc \ {7}}
    IN  IF 7 \in crc THEN Xor(shifted, CRC8_POLY) ELSE shifted

\* The inner loop, for every value of crc.
EightBits == [crc \in Byte |-> FoldLeft(LAMBDA c, bit : NextBit(c), crc, [bit \in 1 .. 8 |-> bit])]

Crc8_SaeJ1850(data) ==
    Xor(FoldLeft(LAMBDA crc, byte : EightBits[Xor(crc, byte)], CRC8_INIT, data), CRC8_XOR_OUT)

-----------------------------------------------------------------------------

E2E_FRAME_LEN == 8
E2E_CRC_BYTE == 7           \* counted from 0; the counter is in the byte before

\* E2e_Protect and the CRC of E2e_Check, on the bytes of a frame.
Protect(payload) == Append(payload, Crc8_SaeJ1850(payload))
CrcRight(frame) ==
    Crc8_SaeJ1850(SubSeq(frame, 1, E2E_CRC_BYTE)) = frame[E2E_CRC_BYTE + 1]

-----------------------------------------------------------------------------
(* What the CRC is for.                                                    *)

\* The bits of a frame in the order they are sent, from 0.
Bits == 0 .. 8 * E2E_FRAME_LEN - 1

\* The frame with the bits of the error inverted.
Damaged(frame, error) ==
    [k \in 1 .. E2E_FRAME_LEN |->
        Xor(frame[k], {7 - (bit % 8) : bit \in {e \in error : e \div 8 = k - 1}})]

\* One or two bits anywhere, or any bits among eight in a row.
Errors ==
    {{a, b} : a, b \in Bits}
        \union UNION {{{a} \union later : later \in SUBSET ((a + 1 .. a + 7) \intersect Bits)} : a \in Bits}

Payloads == {[k \in 1 .. E2E_CRC_BYTE |-> {}],
             [k \in 1 .. E2E_CRC_BYTE |-> IF k = 1 THEN ByteOf(9) ELSE IF k = 2 THEN ByteOf(196)
                                          ELSE IF k = E2E_CRC_BYTE THEN ByteOf(15) ELSE {}]}

\* What E2e.tla takes for granted of "crc": the frame is accepted as it was
\* protected, and rejected with one or two wrong bits or a burst of up to eight,
\* wherever they are, the CRC's own bits included.  That this is the CRC of the
\* catalogue shows in its check value, for "123456789" (test_e2e.c:26).
CrcDetects ==
    \A payload \in Payloads :
        LET frame == Protect(payload)
        IN  /\ CrcRight(frame)
            /\ \A error \in Errors : ~CrcRight(Damaged(frame, error))
            /\ Crc8_SaeJ1850([k \in 1 .. 9 |-> ByteOf(48 + k)]) = ByteOf(75)
=============================================================================
