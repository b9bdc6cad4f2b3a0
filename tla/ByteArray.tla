----------------------------- MODULE ByteArray -----------------------------
(***************************************************************************)
(* windgent/bytearray.{h,cc}: a string of bytes kept in a chain of blocks. *)
(* m_cur is the block of m_position, null when the position is at the end  *)
(* of the last block.  One step is one call, except that write and read    *)
(* take one step per pass of their loop; nothing else happens in between.  *)
(* A call that has reached m_cur->size with a null m_cur takes no further  *)
(* step: the program has crashed.                                          *)
(***************************************************************************)
EXTENDS Fields

CONSTANTS
    m_blocksize,
    Written,        \* numbers that are written, by writeUint and by writeFuint
    StringLens,     \* lengths of the strings that are written
    Junk,           \* what an uninitialised byte holds
    MaxRead,        \* bound: bytes read, or made room for, by one call
    MaxCapacity     \* bound: capacity a write may lead to

ASSUME BlockAssumption == m_blocksize \in Nat \ {0}
ASSUME ByteBounds == MaxCapacity \in Nat /\ MaxRead \in 0..MaxCapacity + 1
ASSUME ByteValues == /\ Written \subseteq Words /\ Junk \notin 0..Base - 1
                     /\ StringLens \subseteq 0..Base - 1

VARIABLES
    m_endian,       \* is it WINDGENT_LITTLE_ENDIAN?
    nodes,          \* the blocks from m_root on, as functions of the offset
    m_position, m_capacity, m_size,
    m_cur,          \* number of the block, 0 for null
    op,             \* the call in its loop: "none", "write" or "read"
    npos, ncap,     \* its local variables
    buf,            \* bytes left to write, or read so far
    size,           \* bytes left
    out             \* what the last call returned

loopVars == <<op, npos, ncap, buf, size>>
vars == <<m_endian, nodes, m_position, m_capacity, m_size, m_cur, op, npos, ncap, buf, size, out>>

Byte == (0..Base - 1) \cup {Junk}
Offsets == 0..m_blocksize - 1

\* The fields that are written, and their bytes in either order.
Fields == {Field(type, v) : type \in {"uint", "fuint"}, v \in Written}
          \cup {Field(type, [i \in 1..n |-> i]) : type \in {"stringF", "stringVint"},
                                                  n \in StringLens}
Buffers == {WriteField(f, little) : f \in Fields, little \in BOOLEAN}
ASSUME BuffersAssumption == Buffers \subseteq Seq(Byte) \ {<<>>}

\* The exception std::out_of_range, told apart from every sequence of bytes, and
\* the end of a call that dereferences a null block.
OutOfRange == <<-1>>
NullBlock == <<-2>>

TypeOK ==
    /\ m_endian \in BOOLEAN
    /\ nodes \in Seq([Offsets -> Byte])
    /\ m_position \in Nat /\ m_capacity \in Nat /\ m_size \in Nat
    /\ m_cur \in 0..Len(nodes)
    /\ op \in {"none", "write", "read"}
    /\ npos \in Offsets /\ ncap \in 0..m_blocksize
    /\ buf \in Seq(Byte) /\ size \in Nat
    /\ out \in Seq(Byte) \cup {OutOfRange}

NewNode == [o \in Offsets |-> Junk]

Init ==
    /\ m_endian = FALSE
    /\ nodes = <<NewNode>>
    /\ m_position = 0 /\ m_capacity = m_blocksize /\ m_size = 0
    /\ m_cur = 1
    /\ op = "none" /\ npos = 0 /\ ncap = m_blocksize /\ buf = <<>> /\ size = 0
    /\ out = <<>>

-----------------------------------------------------------------------------
\* m_cur->next
NextNode(k, chain) == IF k < Len(chain) THEN k + 1 ELSE 0

GetReadSize == m_size - m_position
GetCapacity == m_capacity - m_position

\* Blocks that addCapacity(n) adds: ceil(1.0 * size / m_blocksize)
BlockCount(n) ==
    IF GetCapacity >= n THEN 0
    ELSE (n - GetCapacity + m_blocksize - 1) \div m_blocksize

\* addCapacity: m_cur moves to the first new block if it was null.
GrowBy(blocks) ==
    /\ nodes' = nodes \o [i \in 1..blocks |-> NewNode]
    /\ m_capacity' = m_capacity + blocks * m_blocksize
    /\ m_cur' = IF blocks > 0 /\ GetCapacity = 0 THEN Len(nodes) + 1 ELSE m_cur

AddCapacity(n) ==
    /\ op = "none"
    /\ m_position + n <= MaxCapacity
    /\ GrowBy(BlockCount(n))
    /\ out' = <<>>
    /\ UNCHANGED <<m_endian, m_position, m_size, loopVars>>

\* Where the loops of write and read start, m_cur->size being read on the way.
Enter(call, bytes, n) ==
    /\ op' = call
    /\ npos' = m_position % m_blocksize
    /\ ncap' = m_blocksize - (m_position % m_blocksize)
    /\ buf' = bytes /\ size' = n

\* write, up to its loop
Write(s) ==
    /\ op = "none"
    /\ m_position + Len(s) <= MaxCapacity
    /\ GrowBy(BlockCount(Len(s)))
    /\ Enter("write", s, Len(s))
    /\ out' = <<>>
    /\ UNCHANGED <<m_endian, m_position, m_size>>

\* read, up to its loop; out_of_range leaves everything as it was.  m_cur->size
\* is read before anything else, also when there is nothing to copy.
Read(n) ==
    /\ op = "none"
    /\ \/ /\ n <= GetReadSize /\ m_cur # 0
          /\ IF n > 0 THEN Enter("read", <<>>, n) ELSE UNCHANGED loopVars
          /\ out' = <<>>
       \/ /\ n <= GetReadSize /\ m_cur = 0
          /\ Enter("read", <<>>, n) /\ UNCHANGED out
       \/ /\ n > GetReadSize
          /\ out' = OutOfRange /\ UNCHANGED loopVars
    /\ UNCHANGED <<m_endian, nodes, m_position, m_capacity, m_size, m_cur>>

\* One pass of a loop: n bytes are copied, and m_cur moves to the next block
\* when they reach the end of its block.
Pass(n) ==
    /\ m_position' = m_position + n
    /\ size' = size - n
    /\ m_cur' = IF npos + n = m_blocksize THEN NextNode(m_cur, nodes) ELSE m_cur
    /\ npos' = 0 /\ ncap' = m_blocksize
    /\ op' = IF n = size THEN "none" ELSE op

\* Mutant: the source does not move on with the position.
WritePassRepeats ==
    /\ op = "write" /\ m_cur # 0
    /\ LET n == IF ncap >= size THEN size ELSE ncap
       IN  /\ nodes' = [nodes EXCEPT ![m_cur] =
                          [o \in Offsets |-> IF o \in npos..npos + n - 1
                                             THEN buf[o - npos + 1] ELSE @[o]]]
           /\ Pass(n)
           /\ m_size' = IF n = size /\ m_position + n > m_size THEN m_position + n ELSE m_size
    /\ UNCHANGED <<m_endian, m_capacity, buf, out>>

\* A pass of write's loop; behind the last one m_size follows the position.
WritePass ==
    /\ op = "write" /\ m_cur # 0
    /\ LET n == IF ncap >= size THEN size ELSE ncap
       IN  /\ nodes' = [nodes EXCEPT ![m_cur] =
                          [o \in Offsets |-> IF o \in npos..npos + n - 1
                                             THEN buf[o - npos + 1] ELSE @[o]]]
           /\ buf' = SubSeq(buf, n + 1, Len(buf))
           /\ Pass(n)
           /\ m_size' = IF n = size /\ m_position + n > m_size THEN m_position + n ELSE m_size
    /\ UNCHANGED <<m_endian, m_capacity, out>>

\* n bytes of block k from offset o on
Bytes(k, o, n) == [i \in 1..n |-> nodes[k][o + i - 1]]

\* A pass of read's loop.
ReadPass ==
    /\ op = "read" /\ m_cur # 0
    /\ LET n == IF ncap >= size THEN size ELSE ncap
           bytes == buf \o Bytes(m_cur, npos, n)
       IN  /\ Pass(n)
           /\ buf' = IF n = size THEN <<>> ELSE bytes
           /\ out' = IF n = size THEN bytes ELSE out
    /\ UNCHANGED <<m_endian, nodes, m_capacity, m_size>>

\* Mutant: a position at the end of a block stays in that block.
SeekStays(val) == IF val = 0 THEN 1 ELSE (val - 1) \div m_blocksize + 1

\* The block setPosition walks to: blocks are left while val exceeds their
\* size, and once more when it equals it.
Seek(val) ==
    LET walked == IF val > m_blocksize THEN (val - 1) \div m_blocksize ELSE 0
        cur == walked + 1
    IN  IF val - walked * m_blocksize = m_blocksize THEN NextNode(cur, nodes) ELSE cur

SetPosition(val) ==
    /\ op = "none"
    /\ \/ /\ val <= m_capacity
          /\ m_position' = val
          /\ m_size' = IF val > m_size THEN val ELSE m_size
          /\ m_cur' = Seek(val)
          /\ out' = <<>>
       \/ /\ val > m_capacity
          /\ out' = OutOfRange /\ UNCHANGED <<m_position, m_size, m_cur>>
    /\ UNCHANGED <<m_endian, nodes, m_capacity, loopVars>>

\* clear: the first block is kept, with its bytes.
Clear ==
    /\ op = "none"
    /\ nodes' = <<nodes[1]>>
    /\ m_position' = 0 /\ m_size' = 0 /\ m_capacity' = m_blocksize
    /\ m_cur' = 1
    /\ out' = <<>>
    /\ UNCHANGED <<m_endian, loopVars>>

SetIsLittleEndian(val) ==
    /\ op = "none"
    /\ m_endian' = val
    /\ UNCHANGED <<nodes, m_position, m_capacity, m_size, m_cur, loopVars, out>>

-----------------------------------------------------------------------------
(* Calls that only look *)

\* A pass of read's loop on copies of its variables, as in read(buf, n, pos).
CopyPass(s) ==
    LET n == IF m_blocksize - s.npos >= s.left THEN s.left ELSE m_blocksize - s.npos
    IN [cur |-> IF s.npos + n = m_blocksize THEN NextNode(s.cur, nodes) ELSE s.cur,
        npos |-> 0, left |-> s.left - n, bytes |-> s.bytes \o Bytes(s.cur, s.npos, n)]

\* The whole loop, from block cur on.  Every pass copies a byte, so n passes are
\* enough, and one with nothing left copies nothing.
Copy(cur, pos, n) ==
    LET pass[j \in 0..n] ==
            IF j = 0
            THEN [cur |-> cur, npos |-> pos % m_blocksize, left |-> n, bytes |-> <<>>]
            ELSE CopyPass(pass[j - 1])
    IN  pass[n]

\* read(buf, n, pos) starts at m_cur, whatever pos is.
ReadAt(pos, n) == Copy(m_cur, pos, n).bytes

\* Mutant: toString() copies from the start of the block.
toStringFromBlock == IF GetReadSize = 0 THEN <<>> ELSE ReadAt(0, GetReadSize)

toString == IF GetReadSize = 0 THEN <<>> ELSE ReadAt(m_position, GetReadSize)

-----------------------------------------------------------------------------
(* The typed read calls: one read() after the other, on copies of m_cur and
   m_position, with the bytes read so far *)

Reader == [cur |-> m_cur, pos |-> m_position, bytes |-> <<>>]
Broken(r) == r.bytes \in {OutOfRange, NullBlock}

\* read(buf, n); an exception leaves the typed call too.
ReadMore(r, n) ==
    IF Broken(r) THEN r
    ELSE IF n > m_size - r.pos THEN [r EXCEPT !.bytes = OutOfRange]
    ELSE IF r.cur = 0 THEN [r EXCEPT !.bytes = NullBlock]
    ELSE LET copy == Copy(r.cur, r.pos, n)
         IN [cur |-> copy.cur, pos |-> r.pos + n, bytes |-> r.bytes \o copy.bytes]

\* readUint32/64: byte by byte, up to one without 0x80 or until i reaches Width.
ReadUintBytes(r) ==
    LET after[k \in 0..TmpSize] ==
            IF k = 0 THEN r
            ELSE LET q == after[k - 1]
                 IN IF k > 1 /\ (Broken(q) \/ Last(q.bytes) < 2^Group) THEN q ELSE ReadMore(q, 1)
    IN after[TmpSize]

\* readString*: behind the length comes read(&str[0], n), for n = 0 too.
ReadString(r, n) ==
    LET q == ReadMore(r, n)
    IN <<IF Broken(q) THEN q.bytes ELSE Behind(q.bytes, Len(r.bytes), n), q>>

\* What the read call of the type returns, and the reader behind it.
ReadField(type) ==
    LET fixed == ReadMore(Reader, FixedSize)
        compressed == ReadUintBytes(Reader)
    IN CASE type = "fuint" -> <<ReadFuint(fixed.bytes, m_endian), fixed>>
         [] type = "fint" -> <<ToSigned(ReadFuint(fixed.bytes, m_endian)), fixed>>
         [] type = "uint" -> <<ReadUint(compressed.bytes), compressed>>
         [] type = "int" -> <<DecodeZigzag(ReadUint(compressed.bytes)), compressed>>
         [] type = "stringF" -> ReadString(fixed, ReadFuint(fixed.bytes, m_endian))
         [] type = "stringVint" -> ReadString(compressed, ReadUint(compressed.bytes))

-----------------------------------------------------------------------------
Next ==
    \/ \E f \in Fields : Write(WriteField(f, m_endian))
    \/ \E val \in BOOLEAN : SetIsLittleEndian(val)
    \/ \E n \in 0..MaxRead : Read(n)
    \/ \E n \in 1..MaxRead : AddCapacity(n)
    \/ WritePass
    \/ ReadPass
    \/ \E val \in 0..MaxCapacity + 1 : SetPosition(val)
    \/ Clear

Spec == Init /\ [][Next]_vars

-----------------------------------------------------------------------------
(* Properties *)

\* Where byte p of the string is kept.
BlockOf(p) == p \div m_blocksize + 1
ByteAt(p) == nodes[BlockOf(p)][p % m_blocksize]
Data(from, n) == [i \in 1..n |-> ByteAt(from + i - 1)]

\* m_cur is null in the middle of a call that uses it.
Crashed == op # "none" /\ m_cur = 0

\* m_cur is the block of position p, null only at the very end.
CurFor(p) == IF p = m_capacity THEN 0 ELSE BlockOf(p)

\* m_cur is the block of the position in every state, inside the loops too, and
\* no call but a read of nothing at the very end dereferences null.
CurIsPosition ==
    /\ m_cur = CurFor(m_position)
    /\ Crashed => op = "read" /\ size = 0

\* getReadSize() and getCapacity() never wrap below zero, and m_capacity counts
\* the blocks of the chain.
SizesAgree ==
    /\ m_capacity = Len(nodes) * m_blocksize /\ m_position <= m_capacity
    /\ op = "none" => m_position <= m_size /\ m_size <= m_capacity

\* After any calls the four fields that describe the chain of blocks fit each
\* other and the chain, as every loop of write, read and setPosition relies on.
ChainIsSound == CurIsPosition /\ SizesAgree

\* toString(), which starts at m_cur, returns the readable bytes and nothing else.
ToStringIsData == op = "none" => toString = Data(m_position, GetReadSize)

\* All numbers that a field can hold, with their bytes.
Numbers == {Field("uint", v) : v \in Words} \cup {Field("int", v) : v \in SignedWords}
           \cup {Field("fuint", v) : v \in 0..FixedWords - 1}
           \cup {Field("fint", ToSigned(v)) : v \in 0..FixedWords - 1}
Encoded == [little \in BOOLEAN |-> {<<f, WriteField(f, little)>> : f \in Numbers}]

\* The readable bytes, up to the first one that nobody wrote.
Readable ==
    LET s == Data(m_position, GetReadSize)
        junk == SelectInSeq(s, LAMBDA b : b = Junk)
    IN IF junk = 0 THEN s ELSE SubSeq(s, 1, junk - 1)

\* Does the call of the type return val, and go on behind the bytes w?
ReadsBack(f, w) ==
    LET result == ReadField(f.type)
    IN  /\ result[1] = f.val
        /\ result[2].pos = m_position + Len(w) /\ result[2].cur = CurFor(result[2].pos)

IsString(f) == f.type \in {"stringF", "stringVint"}

\* Where the string at the position starts with what one of the typed calls writes
\* for a value, the matching call returns that value and goes on behind it, whatever
\* bytes follow, across the blocks, down to the most negative number and in either
\* byte order; except for an empty string whose length ends at the end of the last
\* block.  No compressed number overruns tmp[].
FieldsReadBack ==
    op = "none" =>
        LET s == Readable
            readsBack(f, w) ==
                IsPrefix(w, s) =>
                    \/ ReadsBack(f, w)
                    \/ IsString(f) /\ f.val = <<>> /\ m_position + Len(w) = m_capacity
        IN  /\ \A e \in Encoded[m_endian] : readsBack(e[1], e[2])
            /\ \A type \in {"stringF", "stringVint"}, k \in 0..Len(s) : \A n \in 0..(Len(s) - k) :
                  LET f == Field(type, Behind(s, k, n)) IN readsBack(f, WriteField(f, m_endian))
            /\ \A v \in Words : Len(WriteUint[v]) <= TmpSize

\* An empty string is read back wherever it stands (bytearray.h: strings are read
\* by the length they were written with).
EmptyStringReadsBack ==
    op = "none" =>
        \A type \in {"stringF", "stringVint"} :
            LET f == Field(type, <<>>)
                w == WriteField(f, m_endian)
            IN  IsPrefix(w, Readable) => ReadsBack(f, w)

\* read(buf, n, pos) reads from pos on (bytearray.h), wherever the position is.
ReadAtStartsThere ==
    op = "none" =>
        \A pos \in 0..m_size : \A n \in 1..GetReadSize :
            pos + n <= m_size /\ BlockOf(pos + n - 1) = BlockOf(pos) /\ m_cur # 0
                => ReadAt(pos, n) = Data(pos, n)

\* The string that the blocks stand for.  What a loop has left to do counts as
\* done: the bytes left to write are already in place, those left to read
\* already returned.
FlatPosition == m_position + size
FlatSize == IF op = "write" /\ FlatPosition > m_size THEN FlatPosition ELSE m_size
FlatData ==
    [i \in 1..FlatSize |->
        IF op = "write" /\ i - 1 \in m_position..FlatPosition - 1
        THEN buf[i - m_position] ELSE ByteAt(i - 1)]
FlatOut == IF op = "read" /\ ~Crashed THEN buf \o Data(m_position, size) ELSE out

Flat == INSTANCE FlatBytes WITH
    data <- FlatData, pos <- FlatPosition, out <- FlatOut, MaxSize <- MaxCapacity

\* write, read, setPosition, clear and addCapacity implement one string with a
\* position, whatever the block size and however a call crosses the blocks, until
\* a call crashes; a read of nothing that does not crash returns nothing.
ImplementsFlatBytes == Flat!Spec
=============================================================================
