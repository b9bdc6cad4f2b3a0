------------------------------- MODULE Fields -------------------------------
(***************************************************************************)
(* What the typed calls of windgent/bytearray.cc put into the string, and  *)
(* make of bytes: integers of a fixed number of bytes in the order of      *)
(* m_endian (windgent/endian.h), compressed integers (Varint), and strings *)
(* behind their length.  A field is [type, val], where val is a number or, *)
(* for a string, the sequence of its bytes.                                *)
(***************************************************************************)
EXTENDS Varint, SequencesExt

CONSTANTS
    FixedSize,     \* sizeof of the fixed integers: 2, 4 or 8 in the code
    HostLittle     \* is WINDGENT_BYTE_ORDER WINDGENT_LITTLE_ENDIAN?

ASSUME FieldsAssumption == FixedSize \in Nat \ {0} /\ HostLittle \in BOOLEAN

Base == 2^(Group + 1)      \* values of a byte
FixedWords == Base^FixedSize
Field(type, val) == [type |-> type, val |-> val]

\* A number as the host keeps it in memory, and back.
LowFirst(v) == [i \in 1..FixedSize |-> (v \div Base^(i - 1)) % Base]
ToMemory(v) == IF HostLittle THEN LowFirst(v) ELSE Reverse(LowFirst(v))
FromMemory(s) == FoldRight(LAMBDA b, n : b + Base * n, IF HostLittle THEN s ELSE Reverse(s), 0)

byteswap(s) == Reverse(s)

WriteFuint(v, little) ==
    IF little # HostLittle THEN byteswap(ToMemory(v)) ELSE ToMemory(v)

\* Mutant: only the writer swaps the bytes.
ReadFuintUnswapped(s, little) == FromMemory(SubSeq(s, 1, FixedSize))

ReadFuint(s, little) ==
    LET v == SubSeq(s, 1, FixedSize)
    IN FromMemory(IF little = HostLittle THEN v ELSE byteswap(v))

\* The signed calls: two's complement.
ToUnsigned(v) == v % FixedWords
ToSigned(v) == IF 2 * v >= FixedWords THEN v - FixedWords ELSE v

\* What a write call appends.  The length of a string is cut to the integer's size.
WriteField(f, little) ==
    CASE f.type = "fuint" -> WriteFuint(f.val, little)
      [] f.type = "fint" -> WriteFuint(ToUnsigned(f.val), little)
      [] f.type = "uint" -> WriteUint[f.val]
      [] f.type = "int" -> WriteUint[EncodeZigzag(f.val)]
      [] f.type = "stringF" -> WriteFuint(Len(f.val) % FixedWords, little) \o f.val
      [] f.type = "stringVint" -> WriteUint[Len(f.val)] \o f.val

\* n bytes of s behind the first k.
Behind(s, k, n) == SubSeq(s, k + 1, k + n)
=============================================================================
