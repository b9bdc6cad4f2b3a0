------------------------------- MODULE Varint -------------------------------
(***************************************************************************)
(* The compressed integers of windgent/bytearray.cc: writeUint32/64 put    *)
(* the low Group bits of the value into each byte, with a continuation bit *)
(* on all but the last, and writeInt32/64 fold the sign into bit 0 first.  *)
(* In the code Group is 7 and Width is 32 or 64.                           *)
(***************************************************************************)
EXTENDS Integers, Sequences

CONSTANTS Group, Width

ASSUME WidthAssumption == Group \in Nat \ {0} /\ Width \in Nat \ {0}

Words == 0..2^Width - 1
SignedWords == -(2^(Width - 1))..2^(Width - 1) - 1

\* (uint32_t)(-val) * 2 - 1, which wraps for the most negative number.
EncodeZigzag(val) ==
    IF val < 0 THEN (((-val) % 2^Width) * 2 - 1) % 2^Width ELSE val * 2

\* (val >> 1) ^ -(val & 1), read as a signed number.
DecodeZigzag(val) == IF val % 2 = 0 THEN val \div 2 ELSE -(val \div 2) - 1

\* The bytes of value: 0x80 is set in all but the last.
WriteUint[value \in Nat] ==
    IF value >= 2^Group
    THEN <<(value % 2^Group) + 2^Group>> \o WriteUint[value \div 2^Group]
    ELSE <<value>>

\* The loop of readUint32/64 stops at a byte without 0x80, or when i reaches
\* Width; bits shifted past Width are lost.
ReadUint(bytes) ==
    LET from[k \in Nat] ==
            LET b == bytes[k + 1]
                bits == ((b % 2^Group) * 2^(k * Group)) % 2^Width
            IN  IF k * Group >= Width THEN 0
                ELSE IF b < 2^Group THEN bits
                ELSE bits + from[k + 1]
    IN  from[0]

\* The size of tmp[] in writeUint32 (5 bytes) and writeUint64 (10 bytes).
TmpSize == (Width + Group - 1) \div Group
=============================================================================
