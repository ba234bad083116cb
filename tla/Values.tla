------------------------------- MODULE Values -------------------------------
(***************************************************************************)
(* How src/components/modbustcp_controller packs numbers into registers    *)
(* and coils and gets them out again: number_to_payload(),                 *)
(* payload_to_number(), the bit masks and the packing of coils.            *)
(*                                                                         *)
(* An integer of the program is the set of the positions of its bits: a    *)
(* byte is a subset of 0 .. 7, a register of 0 .. 15 and an int64_t, in    *)
(* two's complement, of 0 .. 63.  Masks are intersections, shifts move the *)
(* elements and no width is lost.                                          *)
(***************************************************************************)
EXTENDS Integers, Sequences, FiniteSets

\* the numbers of an unsigned type of that many bits
UInt(width) == 0 .. 2^width - 1

Byte == SUBSET (0 .. 7)
Word == SUBSET (0 .. 15)

WordTypes == {"U_WORD", "S_WORD"}
DWordTypes == {"U_DWORD", "U_DWORD_R", "S_DWORD", "S_DWORD_R", "FP32", "FP32_R"}
QWordTypes == {"U_QWORD", "U_QWORD_R", "S_QWORD", "S_QWORD_R"}
ValueTypes == WordTypes \cup DWordTypes \cup QWordTypes
SignedTypes == {"S_WORD", "S_DWORD", "S_DWORD_R", "S_QWORD", "S_QWORD_R"}
LowWordFirst == {"U_DWORD_R", "S_DWORD_R", "FP32_R", "U_QWORD_R", "S_QWORD_R"}

\* TYPE_REGISTER_MAP: the registers a value takes
RegisterCount(type) ==
    IF type \in WordTypes THEN 1 ELSE IF type \in DWordTypes THEN 2 ELSE 4

Width(type) == 16 * RegisterCount(type)

\* the bits of a natural number below 65536
Bits(n) == {i \in 0 .. 15 : (n \div 2^i) % 2 = 1}

ShiftLeft(bits, n) == {b + n : b \in bits}
ShiftRight(bits, n) == {b - n : b \in {c \in bits : c >= n}}

\* variant: without & 0xFFFF
WordAtUnmasked(value, k) == ShiftRight(value, 16 * k)

\* the 16 bits of value that begin at position 16 * k
WordAt(value, k) == ShiftRight(value, 16 * k) \cap (0 .. 15)

\* the high byte and then the low byte
TwoBytes(word) == <<ShiftRight(word, 8), word \cap (0 .. 7)>>

\* a signed integer of the given width, as an int64_t
SignExtend(bits, width) ==
    IF width - 1 \in bits THEN bits \cup (width .. 63) ELSE bits

\* the int64_t values that a type can hold
Fits(value, type) ==
    LET bits == value \cap (0 .. Width(type) - 1)
    IN  value = IF type \in SignedTypes THEN SignExtend(bits, Width(type)) ELSE bits
-----------------------------------------------------------------------------
(* From numbers to registers.                                              *)

\* number_to_payload(), high word first but for the _R types
NumberToPayload(value, type) ==
    LET n == RegisterCount(type)
    IN  [k \in 1 .. n |-> WordAt(value, IF type \in LowWordFirst THEN k - 1 ELSE n - k)]

\* the payload of a command that writes registers, two bytes for each word
WordsAsBytes(words) ==
    [k \in 1 .. 2 * Len(words) |->
        TwoBytes(words[(k + 1) \div 2])[IF k % 2 = 1 THEN 1 ELSE 2]]

\* the payload of a command that writes coils, the first in the lowest bit
CoilsAsBytes(states) ==
    [k \in 1 .. (Len(states) + 7) \div 8 |->
        {b \in 0 .. 7 : 8 * (k - 1) + b + 1 \in {i \in DOMAIN states : states[i]}}]
-----------------------------------------------------------------------------
(* From the data of a response to numbers.                                 *)

\* get_data(): n bytes from offset on, the highest first
GetData(data, offset, n) ==
    UNION {ShiftLeft(data[offset + i], 8 * (n - i)) : i \in 1 .. n}

\* mask_and_shift_by_rightbit() for a type of the given width: the bits of
\* data in the mask, moved to the right end.  The mask has 32 bits, and a
\* narrower data is extended to them first.
MaskAndShift(data, mask, width) ==
    LET inMask == mask \cap (0 .. width - 1)
        lowest == CHOOSE b \in inMask : \A c \in inMask : b <= c
    IN  IF mask = 0 .. 31 THEN data \cap (0 .. width - 1)
        ELSE IF inMask = {} THEN {}
        ELSE ShiftRight(data \cap mask, lowest) \cap (0 .. width - 1)

\* variant: only the halves of the value change places
SwapHalves(value, n) ==
    UNION {ShiftLeft(WordAt(value, k), 16 * ((k + n \div 2) % n)) : k \in 0 .. n - 1}

\* the words of a value in the opposite order
SwapWords(value, n) ==
    UNION {ShiftLeft(WordAt(value, k), 16 * (n - 1 - k)) : k \in 0 .. n - 1}

\* payload_to_number(): 0 when the response is too short
PayloadToNumber(data, type, offset, mask) ==
    LET n == RegisterCount(type)
        width == Width(type)
        received == GetData(data, offset, 2 * n)
        value == IF type \in LowWordFirst THEN SwapWords(received, n) ELSE received
        number == IF type \in SignedTypes THEN SignExtend(value, width) ELSE value
    IN  IF Len(data) - offset < 2 * n THEN {}
        ELSE IF type \in QWordTypes THEN value   \* the mask is ignored
        ELSE LET masked == MaskAndShift(number \cap (0 .. 31), mask, width)
             IN  IF type \in SignedTypes THEN SignExtend(masked, width) ELSE masked

\* coil_from_vector(): coil 9 is bit 1 of the second byte
CoilFromVector(coil, data) == coil % 8 \in data[coil \div 8 + 1]

\* the state of a switch or binary sensor on a register
MaskedState(data, offset, mask) == GetData(data, offset, 2) \cap mask # {}
=============================================================================
