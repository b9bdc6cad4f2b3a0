------------------------------ MODULE FlatBytes ------------------------------
(***************************************************************************)
(* What a ByteArray promises: one string of bytes with a position, as if   *)
(* it were a file.  The blocks it is kept in do not show.                  *)
(***************************************************************************)
EXTENDS Integers, Sequences

CONSTANTS
    Byte,       \* what a byte can hold
    Buffers,    \* what is written, a set of non-empty sequences
    MaxSize     \* bound: length of the string

VARIABLES
    data,       \* the bytes, of which there are m_size
    pos,        \* the position
    out         \* what the last call returned: bytes, or an exception

flatVars == <<data, pos, out>>

\* The exception std::out_of_range, told apart from every sequence of bytes.
OutOfRange == <<-1>>

Init == data = <<>> /\ pos = 0 /\ out = <<>>

\* Bytes are replaced from the position on, and added behind the end.
Write(s) ==
    /\ data' = SubSeq(data, 1, pos) \o s \o SubSeq(data, pos + Len(s) + 1, Len(data))
    /\ pos' = pos + Len(s)
    /\ out' = <<>>

Read(n) ==
    \/ /\ n <= Len(data) - pos
       /\ out' = SubSeq(data, pos + 1, pos + n)
       /\ pos' = pos + n
       /\ UNCHANGED data
    \/ /\ n > Len(data) - pos
       /\ out' = OutOfRange
       /\ UNCHANGED <<data, pos>>

\* Behind the end nothing is promised about the bytes that come into view, nor
\* about how far the position may go.
SetPosition(p) ==
    \/ /\ p <= Len(data)
       /\ pos' = p /\ out' = <<>> /\ UNCHANGED data
    \/ /\ p > Len(data)
       /\ \E rest \in [1..p - Len(data) -> Byte] : data' = data \o rest
       /\ pos' = p /\ out' = <<>>
    \/ /\ p > Len(data)
       /\ out' = OutOfRange /\ UNCHANGED <<data, pos>>

Clear == data' = <<>> /\ pos' = 0 /\ out' = <<>>

Next ==
    \/ \E s \in Buffers : Write(s)
    \/ \E n \in 0..MaxSize + 1 : Read(n)
    \/ \E p \in 0..MaxSize + 1 : SetPosition(p)
    \/ Clear

Spec == Init /\ [][Next]_flatVars
=============================================================================
