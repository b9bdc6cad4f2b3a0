-------------------------- MODULE ByteArrayProofs --------------------------
(***************************************************************************)
(* Proofs about ByteArray, for any block size, any fields and any lengths: *)
(* the chain of blocks and its cursor fit each other, the calls implement  *)
(* one string with a position (FlatBytes), and toString returns it.        *)
(***************************************************************************)
EXTENDS ByteArray, SequenceTheorems, WellFoundedInduction, NaturalsInduction, TLAPS

TypeInv ==
    /\ m_endian \in BOOLEAN
    /\ nodes \in Seq([Offsets -> Byte]) /\ Len(nodes) >= 1
    /\ m_position \in Nat /\ m_capacity \in Nat /\ m_size \in Nat
    /\ m_cur \in Nat
    /\ op \in {"none", "write", "read"}
    /\ npos \in Nat /\ ncap \in Nat
    /\ buf \in Seq(Byte) /\ size \in Nat

\* Inside a loop that goes on there is something left to do, room for it in the
\* blocks, and the local variables are the place in the current block; between calls
\* nothing is left.
LoopInv ==
    /\ m_size <= m_capacity
    /\ op = "none" => size = 0 /\ m_position <= m_size
    /\ op # "none" => /\ m_cur # 0 => size >= 1
                      /\ m_position + size <= m_capacity
                      /\ npos = m_position % m_blocksize
                      /\ ncap = m_blocksize - (m_position % m_blocksize)
    /\ op = "write" => Len(buf) = size
    /\ op = "read" => m_position + size <= m_size

ChainInv == TypeInv /\ ChainIsSound /\ LoopInv

-----------------------------------------------------------------------------
(* Blocks and offsets *)

LEMMA DivMod ==
    ASSUME NEW p \in Nat
    PROVE  /\ p \div m_blocksize \in Nat /\ p % m_blocksize \in Offsets
           /\ p = (p \div m_blocksize) * m_blocksize + (p % m_blocksize)
  BY BlockAssumption DEF Offsets

LEMMA BlocksApart ==
    ASSUME NEW q \in Nat, NEW r \in Nat, q < r
    PROVE  q * m_blocksize + m_blocksize <= r * m_blocksize
  BY BlockAssumption

LEMMA BlockTimes ==
    ASSUME NEW q \in Nat
    PROVE  q * m_blocksize \in Nat /\ (q + 1) * m_blocksize = q * m_blocksize + m_blocksize
  BY BlockAssumption

\* A position has one block and one offset.
LEMMA DivUnique ==
    ASSUME NEW q \in Nat, NEW o \in Offsets
    PROVE  /\ (q * m_blocksize + o) \div m_blocksize = q
           /\ (q * m_blocksize + o) % m_blocksize = o
  <1>1. PICK p \in Nat : p = q * m_blocksize + o
    BY BlockAssumption DEF Offsets
  <1>2. PICK d \in Nat, m \in Offsets : d = p \div m_blocksize /\ m = p % m_blocksize
    BY DivMod
  <1>3. q * m_blocksize + o = d * m_blocksize + m
    BY <1>1, <1>2, DivMod
  <1>4. ~(q < d) /\ ~(d < q)
    BY <1>3, BlocksApart, BlockAssumption DEF Offsets
  <1>5. q = d
    BY <1>4
  <1>6. o = m
    BY <1>3, <1>5, BlockAssumption DEF Offsets
  <1> QED
    BY <1>1, <1>2, <1>5, <1>6

\* The block of a position inside the first n blocks is one of them.
LEMMA BlockInside ==
    ASSUME NEW p \in Nat, NEW n \in Nat, p < n * m_blocksize
    PROVE  BlockOf(p) \in 1..n
  <1>1. PICK d \in Nat, o \in Offsets : d = p \div m_blocksize /\ p = d * m_blocksize + o
    BY DivMod
  <1>2. d < n
    <2>1. CASE n < d
      BY <1>1, <2>1, BlocksApart, BlockAssumption DEF Offsets
    <2>2. CASE n = d
      BY <1>1, <2>2, BlockTimes DEF Offsets
    <2> QED
      BY <2>1, <2>2
  <1> QED
    BY <1>1, <1>2 DEF BlockOf

-----------------------------------------------------------------------------
(* addCapacity *)

\* ceil() leaves room for n bytes behind the position.
LEMMA EnoughBlocks ==
    ASSUME ChainInv, NEW n \in Nat
    PROVE  /\ BlockCount(n) \in Nat
           /\ m_position + n <= m_capacity + BlockCount(n) * m_blocksize
           /\ BlockCount(n) = 0 => m_position + n <= m_capacity
  <1>1. m_position \in Nat /\ m_capacity \in Nat /\ m_position <= m_capacity
    BY DEF ChainInv, TypeInv, ChainIsSound, SizesAgree
  <1>2. CASE m_capacity - m_position >= n
    <2>1. BlockCount(n) = 0
      BY <1>2 DEF BlockCount, GetCapacity
    <2> QED
      BY <1>1, <1>2, <2>1, BlockTimes
  <1>3. CASE ~(m_capacity - m_position >= n)
    <2>1. PICK x \in Nat : x = n - (m_capacity - m_position) /\ x >= 1
      BY <1>1, <1>3
    <2>2. PICK y \in Nat : y = n - (m_capacity - m_position) + m_blocksize - 1
      BY <2>1, <1>1, BlockAssumption
    <2>3. y = x + m_blocksize - 1
      BY <2>1, <2>2, <1>1, BlockAssumption
    <2>4. BlockCount(n) = y \div m_blocksize
      BY <1>3, <2>2 DEF BlockCount, GetCapacity
    <2>5. PICK k \in Nat, o \in Offsets : k = y \div m_blocksize /\ y = k * m_blocksize + o
      BY DivMod
    <2>6. k * m_blocksize \in Nat /\ k * m_blocksize >= x
      BY <2>1, <2>3, <2>5, BlockTimes, BlockAssumption DEF Offsets
    <2>7. k # 0
      <3>1. 0 * m_blocksize = 0
        BY BlockAssumption
      <3> QED
        BY <2>1, <2>6, <3>1
    <2> QED
      BY <1>1, <2>1, <2>4, <2>5, <2>6, <2>7
  <1> QED
    BY <1>2, <1>3

\* New blocks are chained behind the old ones, and m_cur is the block of the
\* position, which has n bytes of room.
LEMMA GrowEffect ==
    ASSUME ChainInv, NEW n \in Nat, GrowBy(BlockCount(n))
    PROVE  /\ nodes' \in Seq([Offsets -> Byte]) /\ Len(nodes') >= Len(nodes)
           /\ \A j \in 1..Len(nodes) : nodes'[j] = nodes[j]
           /\ m_capacity' \in Nat /\ m_capacity' = Len(nodes') * m_blocksize
           /\ m_capacity <= m_capacity' /\ m_position + n <= m_capacity'
           /\ m_cur' \in Nat
           /\ m_cur' = IF m_position = m_capacity' THEN 0 ELSE BlockOf(m_position)
  <1>1. PICK k \in Nat : k = BlockCount(n)
    BY EnoughBlocks
  <1>2. /\ nodes' = nodes \o [i \in 1..k |-> NewNode]
        /\ m_capacity' = m_capacity + k * m_blocksize
        /\ m_cur' = IF k > 0 /\ m_capacity - m_position = 0 THEN Len(nodes) + 1 ELSE m_cur
    BY <1>1 DEF GrowBy, GetCapacity
  <1>3. PICK L \in Nat : L = Len(nodes)
    BY DEF ChainInv, TypeInv
  <1>4. /\ m_position \in Nat /\ m_capacity \in Nat /\ m_position <= m_capacity
        /\ m_capacity = L * m_blocksize /\ m_cur \in Nat
        /\ m_cur = IF m_position = m_capacity THEN 0 ELSE BlockOf(m_position)
    BY <1>3 DEF ChainInv, TypeInv, ChainIsSound, SizesAgree, CurIsPosition, CurFor, Crashed
  <1>5. PICK z : z = [i \in 1..k |-> NewNode]
    OBVIOUS
  <1>6. z \in Seq([Offsets -> Byte]) /\ Len(z) = k
    <2>1. NewNode \in [Offsets -> Byte]
      BY DEF NewNode, Byte
    <2>2. z \in [1..k -> [Offsets -> Byte]]
      BY <1>5, <2>1
    <2>3. z \in Seq([Offsets -> Byte])
      BY <2>2, SeqDef
    <2>4. DOMAIN z = 1..k
      BY <1>5
    <2> QED
      BY <2>3, <2>4
  <1>7. /\ nodes' \in Seq([Offsets -> Byte]) /\ Len(nodes') = L + k
        /\ \A j \in 1..L : nodes'[j] = nodes[j]
    <2>1. nodes \in Seq([Offsets -> Byte])
      BY DEF ChainInv, TypeInv
    <2>2. nodes' = nodes \o z
      BY <1>2, <1>5
    <2>3. /\ nodes' \in Seq([Offsets -> Byte]) /\ Len(nodes') = L + k
          /\ \A j \in 1..(L + k) : nodes'[j] = IF j <= L THEN nodes[j] ELSE z[j - L]
      BY <1>3, <1>6, <2>1, <2>2, ConcatProperties
    <2>4. \A j \in 1..L : j \in 1..(L + k) /\ j <= L
      OBVIOUS
    <2> QED
      BY <2>3, <2>4
  <1>8. k * m_blocksize \in Nat /\ L * m_blocksize + k * m_blocksize = (L + k) * m_blocksize
    BY BlockAssumption
  <1>9. m_capacity' \in Nat /\ m_capacity' = Len(nodes') * m_blocksize /\ m_capacity <= m_capacity'
    BY <1>2, <1>4, <1>7, <1>8
  <1>10. m_position + n <= m_capacity' /\ (k = 0 => m_capacity' = m_capacity)
    <2>1. 0 * m_blocksize = 0
      BY BlockAssumption
    <2> QED
      BY <1>1, <1>2, <1>4, <2>1, EnoughBlocks
  <1>11. k > 0 => m_capacity < m_capacity'
    BY <1>2, <1>4, <1>8, BlocksApart, BlockAssumption
  <1>12. BlockOf(L * m_blocksize) = L + 1
    <2>1. 0 \in Offsets /\ L * m_blocksize + 0 = L * m_blocksize
      BY BlockTimes, BlockAssumption DEF Offsets
    <2> QED
      BY <2>1, DivUnique DEF BlockOf
  <1>13. m_cur' \in Nat /\ m_cur' = IF m_position = m_capacity' THEN 0 ELSE BlockOf(m_position)
    <2>1. CASE k = 0
      BY <1>2, <1>4, <1>10, <2>1
    <2>2. CASE k > 0 /\ m_position = m_capacity
      BY <1>2, <1>3, <1>4, <1>11, <1>12, <2>2
    <2>3. CASE k > 0 /\ m_position # m_capacity
      BY <1>2, <1>4, <1>11, <2>3
    <2> QED
      BY <2>1, <2>2, <2>3
  <1> QED
    BY <1>3, <1>7, <1>9, <1>10, <1>13

-----------------------------------------------------------------------------
(* The loops and setPosition *)

\* The bytes of one pass.
Step == IF ncap >= size THEN size ELSE ncap

\* Where a loop is.
LEMMA LoopPlace ==
    ASSUME ChainInv, op # "none", m_cur # 0
    PROVE  /\ m_cur \in 1..Len(nodes) /\ npos \in Offsets
           /\ (m_cur - 1) * m_blocksize \in Nat
           /\ m_position = (m_cur - 1) * m_blocksize + npos
           /\ m_cur * m_blocksize = (m_cur - 1) * m_blocksize + m_blocksize
           /\ m_capacity = Len(nodes) * m_blocksize
           /\ ncap = m_blocksize - npos
           /\ Step \in Nat /\ Step >= 1 /\ Step <= size /\ npos + Step <= m_blocksize
           /\ Step < size => npos + Step = m_blocksize
  <1>1. /\ m_position \in Nat /\ m_capacity \in Nat /\ Len(nodes) \in Nat /\ size \in Nat
        /\ m_capacity = Len(nodes) * m_blocksize
        /\ size >= 1 /\ m_position + size <= m_capacity
        /\ npos = m_position % m_blocksize /\ ncap = m_blocksize - (m_position % m_blocksize)
        /\ m_cur = IF m_position = m_capacity THEN 0 ELSE BlockOf(m_position)
    BY DEF ChainInv, TypeInv, ChainIsSound, SizesAgree, CurIsPosition, CurFor, Crashed, LoopInv
  <1>2. m_position < m_capacity /\ m_cur = BlockOf(m_position)
    BY <1>1
  <1>3. m_cur \in 1..Len(nodes)
    BY <1>1, <1>2, BlockInside
  <1>4. PICK d \in Nat, o \in Offsets : /\ d = m_position \div m_blocksize /\ o = m_position % m_blocksize
                                        /\ m_position = d * m_blocksize + o
    BY <1>1, DivMod
  <1>5. m_cur = d + 1 /\ m_cur - 1 = d /\ npos = o /\ ncap = m_blocksize - npos
    BY <1>1, <1>2, <1>4 DEF BlockOf
  <1>6. d * m_blocksize \in Nat /\ (d + 1) * m_blocksize = d * m_blocksize + m_blocksize
    BY BlockTimes
  <1>7. /\ Step \in Nat /\ Step >= 1 /\ Step <= size /\ npos + Step <= m_blocksize
        /\ Step < size => npos + Step = m_blocksize
    BY <1>1, <1>5, BlockAssumption DEF Step, Offsets
  <1> QED
    BY <1>1, <1>3, <1>4, <1>5, <1>6, <1>7

\* A pass leaves m_cur at the block of the new position, and the local variables
\* ready for the next one.
LEMMA PassEffect ==
    ASSUME ChainInv, op # "none", m_cur # 0, Pass(Step)
    PROVE  /\ m_position' = m_position + Step /\ m_position' \in Nat
           /\ size' = size - Step /\ size' \in Nat
           /\ m_position' + size' = m_position + size
           /\ m_cur' \in Nat /\ npos' \in Nat /\ ncap' \in Nat
           /\ m_cur' = IF m_position' = m_capacity THEN 0 ELSE BlockOf(m_position')
           /\ op' = IF Step = size THEN "none" ELSE op
           /\ op' # "none" =>
                 /\ size' >= 1 /\ m_cur' # 0
                 /\ npos' = m_position' % m_blocksize
                 /\ ncap' = m_blocksize - (m_position' % m_blocksize)
  <1>1. PICK n \in Nat : n = Step /\ n >= 1 /\ n <= size /\ npos + n <= m_blocksize
                         /\ (n < size => npos + n = m_blocksize)
    BY LoopPlace
  <1>2. /\ m_position' = m_position + n /\ size' = size - n
        /\ m_cur' = IF npos + n = m_blocksize THEN NextNode(m_cur, nodes) ELSE m_cur
        /\ npos' = 0 /\ ncap' = m_blocksize
        /\ op' = IF n = size THEN "none" ELSE op
    BY <1>1 DEF Pass
  <1>3. PICK L \in Nat : L = Len(nodes)
    BY DEF ChainInv, TypeInv
  <1>31. PICK c \in 1..L : c = m_cur
    BY <1>3, LoopPlace
  <1>4. PICK b \in Nat : /\ b = (c - 1) * m_blocksize /\ m_position = b + npos
                         /\ c * m_blocksize = b + m_blocksize
    BY <1>31, LoopPlace
  <1>5. npos \in Offsets /\ m_capacity = L * m_blocksize /\ m_capacity \in Nat /\ m_position \in Nat
        /\ size \in Nat /\ m_position + size <= m_capacity
    BY <1>3, LoopPlace DEF ChainInv, TypeInv, LoopInv
  <1>6. c * m_blocksize <= L * m_blocksize /\ (c < L => c * m_blocksize < L * m_blocksize)
    <2>1. CASE c = L
      BY <1>4, <2>1, BlockAssumption
    <2>2. CASE c < L
      <3>1. c * m_blocksize + m_blocksize <= L * m_blocksize
        BY <2>2, BlocksApart
      <3>2. c * m_blocksize \in Nat /\ L * m_blocksize \in Nat
        BY BlockTimes
      <3> QED
        BY <3>1, <3>2, BlockAssumption
    <2> QED
      BY <2>1, <2>2
  <1>7. m_cur' \in Nat /\ m_cur' = IF m_position' = m_capacity THEN 0 ELSE BlockOf(m_position')
    <2>1. CASE npos + n = m_blocksize
      <3>1. m_position' = c * m_blocksize
        BY <1>2, <1>4, <1>5, <2>1 DEF Offsets
      <3>2. BlockOf(c * m_blocksize) = c + 1
        <4>1. 0 \in Offsets /\ c * m_blocksize + 0 = c * m_blocksize
          BY BlockTimes, BlockAssumption DEF Offsets
        <4> QED
          BY <4>1, DivUnique DEF BlockOf
      <3>3. m_cur' = IF c < L THEN c + 1 ELSE 0
        BY <1>2, <1>3, <1>31, <2>1 DEF NextNode
      <3>4. CASE c < L
        <4>1. m_position' # m_capacity
          BY <1>5, <1>6, <3>1, <3>4, BlockTimes
        <4> QED
          BY <3>1, <3>2, <3>3, <3>4, <4>1
      <3>5. CASE c = L
        BY <1>5, <3>1, <3>3, <3>5
      <3> QED
        BY <3>4, <3>5
    <2>2. CASE npos + n # m_blocksize
      <3>1. npos + n \in Offsets
        BY <1>1, <1>5, <2>2, BlockAssumption DEF Offsets
      <3>2. m_position' = (c - 1) * m_blocksize + (npos + n)
        BY <1>2, <1>4, <1>5, <3>1 DEF Offsets
      <3>3. BlockOf(m_position') = c
        BY <3>1, <3>2, DivUnique DEF BlockOf
      <3>4. m_position' < c * m_blocksize
        BY <1>4, <3>1, <3>2, BlockAssumption DEF Offsets
      <3>5. m_position' # m_capacity
        BY <1>1, <1>2, <1>4, <1>5, <1>6, <3>4, BlockTimes
      <3> QED
        BY <1>2, <1>31, <2>2, <3>3, <3>5
    <2> QED
      BY <2>1, <2>2
  <1>8. m_position' \in Nat /\ size' \in Nat /\ m_position' + size' = m_position + size
    BY <1>1, <1>2, <1>5
  <1>9. ASSUME n # size
        PROVE  /\ size' >= 1 /\ m_cur' # 0
               /\ npos' = m_position' % m_blocksize
               /\ ncap' = m_blocksize - (m_position' % m_blocksize)
    <2>1. n < size /\ npos + n = m_blocksize /\ size' >= 1
      BY <1>1, <1>2, <1>5, <1>9
    <2>2. m_position' = c * m_blocksize + 0 /\ 0 \in Offsets
      BY <1>2, <1>4, <1>5, <2>1, BlockAssumption DEF Offsets
    <2>3. m_position' % m_blocksize = 0
      BY <2>2, DivUnique
    <2>4. m_position' < m_capacity
      <3>1. m_position' + size' <= m_capacity
        <4>1. m_position + size <= m_capacity
          BY <1>5
        <4> QED
          BY <1>8, <4>1
      <3>2. m_position' \in Nat /\ size' \in Nat /\ m_capacity \in Nat
        BY <1>5, <1>8
      <3>3. PICK x \in Nat, y \in Nat, z \in Nat : x = m_position' /\ y = size' /\ z = m_capacity
        BY <3>2
      <3>4. y >= 1 /\ x + y <= z
        BY <2>1, <3>1, <3>3
      <3>5. x < z
        BY <3>4
      <3> QED
        BY <3>3, <3>5
    <2>5. m_cur' = BlockOf(m_position') /\ BlockOf(m_position') \in 1..L
      BY <1>5, <1>7, <1>8, <2>4, BlockInside
    <2> QED
      BY <1>2, <2>1, <2>3, <2>5, BlockAssumption
  <1> QED
    BY <1>1, <1>2, <1>7, <1>8, <1>9, BlockAssumption

\* setPosition walks to the block of the new position.
LEMMA SeekEffect ==
    ASSUME ChainInv, NEW val \in Nat, val <= m_capacity
    PROVE  Seek(val) \in Nat /\ Seek(val) = IF val = m_capacity THEN 0 ELSE BlockOf(val)
  <1>1. PICK L \in Nat : L = Len(nodes) /\ L >= 1 /\ m_capacity = L * m_blocksize
    BY DEF ChainInv, TypeInv, ChainIsSound, SizesAgree
  <1>2. PICK w \in Nat : w = IF val > m_blocksize THEN (val - 1) \div m_blocksize ELSE 0
    BY DivMod, BlockAssumption
  <1>3. Seek(val) = IF val - w * m_blocksize = m_blocksize
                    THEN (IF w + 1 < L THEN w + 1 + 1 ELSE 0) ELSE w + 1
    BY <1>1, <1>2 DEF Seek, NextNode
  <1>4. w * m_blocksize \in Nat /\ L * m_blocksize \in Nat
        /\ (w + 1) * m_blocksize = w * m_blocksize + m_blocksize
    BY BlockTimes
  <1>5. CASE val = 0
    <2>1. w = 0 /\ 0 * m_blocksize = 0
      BY <1>2, <1>5, BlockAssumption
    <2>2. Seek(val) = 1
      BY <1>3, <1>5, <2>1, BlockAssumption
    <2>3. 0 \in Offsets /\ 0 * m_blocksize + 0 = 0
      BY BlockAssumption DEF Offsets
    <2>4. 0 \div m_blocksize = 0
      BY <2>3, DivUnique
    <2>5. m_capacity # 0
      <3>1. 0 * m_blocksize + m_blocksize <= L * m_blocksize
        BY <1>1, BlocksApart
      <3> QED
        BY <1>1, <2>1, <3>1, BlockAssumption
    <2> QED
      BY <1>5, <2>2, <2>4, <2>5 DEF BlockOf
  <1>6. CASE val # 0
    <2>1. PICK r \in Nat : val = w * m_blocksize + r /\ r >= 1 /\ r <= m_blocksize
      <3>1. CASE val > m_blocksize
        <4>1. val - 1 \in Nat /\ w = (val - 1) \div m_blocksize
          BY <1>2, <3>1, BlockAssumption
        <4>2. PICK o \in Offsets : val - 1 = w * m_blocksize + o
          BY <4>1, DivMod
        <4>3. o + 1 \in Nat /\ val = w * m_blocksize + (o + 1) /\ o + 1 >= 1 /\ o + 1 <= m_blocksize
          BY <1>4, <4>2, BlockAssumption DEF Offsets
        <4> QED
          BY <4>3
      <3>2. CASE ~(val > m_blocksize)
        <4>1. w = 0 /\ 0 * m_blocksize = 0
          BY <1>2, <3>2, BlockAssumption
        <4> QED
          BY <1>6, <3>2, <4>1, BlockAssumption
      <3> QED
        BY <3>1, <3>2
    <2>2. CASE r = m_blocksize
      <3>1. val = (w + 1) * m_blocksize /\ val - w * m_blocksize = m_blocksize
        BY <1>4, <2>1, <2>2, BlockAssumption
      <3>2. BlockOf(val) = w + 1 + 1
        <4>1. 0 \in Offsets /\ (w + 1) * m_blocksize + 0 = val
          BY <3>1, BlockAssumption DEF Offsets
        <4>2. val \div m_blocksize = w + 1
          BY <4>1, DivUnique
        <4> QED
          BY <4>2 DEF BlockOf
      <3>3. CASE w + 1 < L
        <4>1. (w + 1) * m_blocksize + m_blocksize <= L * m_blocksize
          BY <3>3, BlocksApart
        <4>2. val # m_capacity
          BY <1>1, <1>4, <3>1, <4>1, BlockAssumption
        <4> QED
          BY <1>3, <3>1, <3>2, <3>3, <4>2
      <3>4. CASE w + 1 = L
        BY <1>1, <1>3, <3>1, <3>4
      <3>5. CASE L < w + 1
        <4>1. L * m_blocksize + m_blocksize <= (w + 1) * m_blocksize
          BY <3>5, BlocksApart
        <4> QED
          BY <1>1, <1>4, <3>1, <4>1, BlockAssumption
      <3> QED
        BY <3>3, <3>4, <3>5
    <2>3. CASE r < m_blocksize
      <3>1. r \in Offsets
        BY <2>3, BlockAssumption DEF Offsets
      <3>2. BlockOf(val) = w + 1
        BY <2>1, <3>1, DivUnique DEF BlockOf
      <3>3. val - w * m_blocksize = r
        BY <1>4, <2>1
      <3>4. Seek(val) = w + 1
        BY <1>3, <2>3, <3>3
      <3>5. val # m_capacity
        <4> SUFFICES ASSUME val = m_capacity PROVE FALSE
          OBVIOUS
        <4>1. L * m_blocksize = w * m_blocksize + r
          BY <1>1, <2>1
        <4>2. CASE L <= w
          <5>1. L * m_blocksize <= w * m_blocksize
            <6>1. CASE L < w
              BY <6>1, <1>4, BlocksApart, BlockAssumption
            <6> QED
              BY <6>1, <4>2, <1>4
          <5> QED
            BY <1>4, <2>1, <4>1, <5>1
        <4>3. CASE w < L
          BY <1>4, <2>1, <2>3, <4>1, <4>3, BlocksApart, BlockAssumption
        <4> QED
          BY <4>2, <4>3
      <3> QED
        BY <3>2, <3>4, <3>5
    <2> QED
      BY <2>1, <2>2, <2>3, BlockAssumption
  <1> QED
    BY <1>5, <1>6

-----------------------------------------------------------------------------
(* ChainInv is inductive *)

LEMMA InitChain == Init => ChainInv
  <1> SUFFICES ASSUME Init PROVE ChainInv
    OBVIOUS
  <1>1. NewNode \in [Offsets -> Byte]
    BY DEF NewNode, Byte
  <1>2. nodes \in Seq([Offsets -> Byte]) /\ Len(nodes) = 1
    BY <1>1 DEF Init
  <1>3. 0 \div m_blocksize = 0 /\ 1 * m_blocksize = m_blocksize
    <2>1. 0 \in Offsets /\ 0 * m_blocksize + 0 = 0
      BY BlockAssumption DEF Offsets
    <2> QED
      BY <2>1, DivUnique, BlockAssumption
  <1>4. buf \in Seq(Byte)
    BY DEF Init
  <1>5. TypeInv
    <2>1. /\ m_position \in Nat /\ m_capacity \in Nat /\ m_size \in Nat /\ m_cur \in Nat
          /\ npos \in Nat /\ ncap \in Nat /\ size \in Nat
      BY BlockAssumption DEF Init
    <2>2. m_endian \in BOOLEAN /\ op \in {"none", "write", "read"}
      BY DEF Init
    <2> QED
      BY <1>2, <1>4, <2>1, <2>2 DEF TypeInv
  <1>6. ChainIsSound
    BY <1>2, <1>3, BlockAssumption DEF Init, ChainIsSound, CurIsPosition, CurFor, Crashed, SizesAgree, BlockOf
  <1>7. LoopInv
    BY BlockAssumption DEF Init, LoopInv
  <1> QED
    BY <1>5, <1>6, <1>7 DEF ChainInv

LEMMA AddCapacityChain ==
    ASSUME ChainInv, NEW n \in Nat, AddCapacity(n)
    PROVE  ChainInv'
  <1>1. /\ op = "none" /\ GrowBy(BlockCount(n))
        /\ UNCHANGED <<m_endian, m_position, m_size, op, npos, ncap, buf, size>>
    BY DEF AddCapacity, loopVars
  <1>2. /\ nodes' \in Seq([Offsets -> Byte]) /\ Len(nodes') >= Len(nodes)
        /\ m_capacity' \in Nat /\ m_capacity' = Len(nodes') * m_blocksize
        /\ m_capacity <= m_capacity' /\ m_position + n <= m_capacity'
        /\ m_cur' \in Nat
        /\ m_cur' = IF m_position = m_capacity' THEN 0 ELSE BlockOf(m_position)
    BY <1>1, GrowEffect
  <1>3. BlockOf(m_position)' = BlockOf(m_position)
    BY <1>1 DEF BlockOf
  <1>4. TypeInv'
    BY <1>1, <1>2 DEF ChainInv, TypeInv
  <1>5. m_position' <= m_capacity' /\ m_size' <= m_capacity'
    BY <1>1, <1>2 DEF ChainInv, TypeInv, LoopInv
  <1>6. ChainIsSound'
    BY <1>1, <1>2, <1>3, <1>5 DEF ChainInv, LoopInv, ChainIsSound, CurIsPosition, CurFor, Crashed, SizesAgree
  <1>7. LoopInv'
    BY <1>1, <1>5 DEF ChainInv, LoopInv
  <1> QED
    BY <1>4, <1>6, <1>7 DEF ChainInv

LEMMA WriteChain ==
    ASSUME ChainInv, NEW s \in Seq(Byte) \ {<<>>}, Write(s)
    PROVE  ChainInv'
  <1>1. /\ op = "none" /\ GrowBy(BlockCount(Len(s)))
        /\ op' = "write" /\ npos' = m_position % m_blocksize
        /\ ncap' = m_blocksize - (m_position % m_blocksize)
        /\ buf' = s /\ size' = Len(s)
        /\ UNCHANGED <<m_endian, m_position, m_size>>
    BY DEF Write, Enter
  <1>2. Len(s) \in Nat /\ Len(s) >= 1
    <2>1. s \in Seq(Byte) /\ s # <<>>
      OBVIOUS
    <2> QED
      BY <2>1, EmptySeq
  <1>3. /\ nodes' \in Seq([Offsets -> Byte]) /\ Len(nodes') >= Len(nodes)
        /\ m_capacity' \in Nat /\ m_capacity' = Len(nodes') * m_blocksize
        /\ m_capacity <= m_capacity' /\ m_position + Len(s) <= m_capacity'
        /\ m_cur' \in Nat
        /\ m_cur' = IF m_position = m_capacity' THEN 0 ELSE BlockOf(m_position)
    BY <1>1, <1>2, GrowEffect
  <1>4. npos' \in Nat /\ ncap' \in Nat
    BY <1>1, DivMod, BlockAssumption DEF ChainInv, TypeInv, Offsets
  <1>5. TypeInv'
    BY <1>1, <1>2, <1>3, <1>4 DEF ChainInv, TypeInv
  <1>6. m_position' < m_capacity' /\ m_size' <= m_capacity' /\ m_position' + size' <= m_capacity'
    BY <1>1, <1>2, <1>3 DEF ChainInv, TypeInv, LoopInv
  <1>7. m_cur' = BlockOf(m_position) /\ BlockOf(m_position)' = BlockOf(m_position)
    BY <1>1, <1>3, <1>6 DEF BlockOf, ChainInv, TypeInv
  <1>8. m_cur' # 0
    BY <1>7, DivMod DEF BlockOf, ChainInv, TypeInv
  <1>9. ChainIsSound'
    <2>1. m_position' # m_capacity' /\ m_position' <= m_capacity'
      BY <1>1, <1>3, <1>6 DEF ChainInv, TypeInv
    <2> QED
      BY <1>1, <1>3, <1>7, <1>8, <2>1 DEF ChainIsSound, CurIsPosition, CurFor, Crashed, SizesAgree
  <1>10. LoopInv'
    BY <1>1, <1>2, <1>6 DEF LoopInv
  <1> QED
    BY <1>5, <1>9, <1>10 DEF ChainInv

LEMMA ReadChain ==
    ASSUME ChainInv, NEW n \in Nat, Read(n)
    PROVE  ChainInv'
  <1>1. op = "none" /\ UNCHANGED <<m_endian, nodes, m_position, m_capacity, m_size, m_cur>>
    BY DEF Read
  <1>2. BlockOf(m_position)' = BlockOf(m_position)
    BY <1>1 DEF BlockOf
  <1>3. CASE n <= m_size - m_position /\ Enter("read", <<>>, n) /\ (m_cur # 0 => n > 0)
    <2>1. /\ op' = "read" /\ npos' = m_position % m_blocksize
          /\ ncap' = m_blocksize - (m_position % m_blocksize)
          /\ buf' = <<>> /\ size' = n
      BY <1>3 DEF Enter
    <2>2. npos' \in Nat /\ ncap' \in Nat
      BY <2>1, DivMod, BlockAssumption DEF ChainInv, TypeInv, Offsets
    <2>3. buf' \in Seq(Byte)
      BY <2>1
    <2>4. TypeInv'
      BY <1>1, <2>1, <2>2, <2>3 DEF ChainInv, TypeInv
    <2>5. /\ m_size' <= m_capacity' /\ m_position' + size' <= m_capacity'
          /\ m_position' + size' <= m_size'
      BY <1>1, <1>3, <2>1 DEF ChainInv, TypeInv, LoopInv
    <2>6. m_cur = 0 => n = 0
      <3>1. m_position < m_capacity => m_cur # 0
        <4>1. PICK d \in Nat : d = m_position \div m_blocksize
          BY DivMod DEF ChainInv, TypeInv
        <4>2. m_position \in Nat /\ m_capacity \in Nat /\ m_cur = CurFor(m_position)
          BY DEF ChainInv, TypeInv, ChainIsSound, CurIsPosition
        <4> QED
          BY <4>1, <4>2 DEF CurFor, BlockOf
      <3>2. PICK p \in Nat, c \in Nat : p = m_position /\ c = m_capacity /\ p + n <= c
        BY <1>1, <2>1, <2>5 DEF ChainInv, TypeInv
      <3> QED
        BY <3>1, <3>2
    <2>7. ChainIsSound'
      BY <1>1, <1>2, <2>1, <2>6 DEF ChainInv, ChainIsSound, CurIsPosition, CurFor, Crashed, SizesAgree
    <2>8. LoopInv'
      BY <1>1, <1>3, <2>1, <2>5 DEF LoopInv
    <2> QED
      BY <2>4, <2>7, <2>8 DEF ChainInv
  <1>4. CASE UNCHANGED loopVars
    BY <1>1, <1>2, <1>4 DEF loopVars, ChainInv, TypeInv, ChainIsSound, CurIsPosition, CurFor, Crashed, SizesAgree, LoopInv
  <1> QED
    BY <1>3, <1>4 DEF Read, GetReadSize

LEMMA WritePassChain ==
    ASSUME ChainInv, WritePass
    PROVE  ChainInv'
  <1>1. /\ op = "write" /\ m_cur # 0 /\ Pass(Step)
        /\ nodes' = [nodes EXCEPT ![m_cur] =
                       [o \in Offsets |-> IF o \in npos..npos + Step - 1
                                          THEN buf[o - npos + 1] ELSE @[o]]]
        /\ buf' = SubSeq(buf, Step + 1, Len(buf))
        /\ m_size' = IF Step = size /\ m_position + Step > m_size THEN m_position + Step ELSE m_size
        /\ UNCHANGED <<m_endian, m_capacity>>
    BY DEF WritePass, Step
  <1>2. /\ m_cur \in 1..Len(nodes) /\ npos \in Offsets
        /\ Step \in Nat /\ Step >= 1 /\ Step <= size
        /\ buf \in Seq(Byte) /\ Len(buf) = size /\ size \in Nat
    BY <1>1, LoopPlace DEF ChainInv, TypeInv, LoopInv
  <1>3. PICK n \in Nat : n = Step
    BY <1>2
  <1>4. PICK block : block = [o \in Offsets |-> IF o \in npos..npos + n - 1
                                                THEN buf[o - npos + 1] ELSE nodes[m_cur][o]]
    OBVIOUS
  <1>5. nodes' = [nodes EXCEPT ![m_cur] = block]
    BY <1>1, <1>3, <1>4
  <1>6. block \in [Offsets -> Byte]
    <2>1. nodes[m_cur] \in [Offsets -> Byte]
      BY <1>2 DEF ChainInv, TypeInv
    <2>2. \A o \in Offsets : o \in npos..npos + n - 1 => o - npos + 1 \in 1..Len(buf)
      BY <1>2, <1>3, BlockAssumption DEF Offsets
    <2>3. \A o \in Offsets : o \in npos..npos + n - 1 => buf[o - npos + 1] \in Byte
      BY <1>2, <2>2
    <2> QED
      BY <1>4, <2>1, <2>3
  <1>7. nodes' \in Seq([Offsets -> Byte]) /\ Len(nodes') = Len(nodes)
    BY <1>2, <1>5, <1>6 DEF ChainInv, TypeInv
  <1>8. /\ m_position' = m_position + Step /\ m_position' \in Nat
        /\ size' = size - Step /\ size' \in Nat
        /\ m_position' + size' = m_position + size
        /\ m_cur' \in Nat /\ npos' \in Nat /\ ncap' \in Nat
        /\ m_cur' = IF m_position' = m_capacity THEN 0 ELSE BlockOf(m_position')
        /\ op' = IF Step = size THEN "none" ELSE op
        /\ op' # "none" =>
              /\ size' >= 1 /\ m_cur' # 0
              /\ npos' = m_position' % m_blocksize
              /\ ncap' = m_blocksize - (m_position' % m_blocksize)
    BY <1>1, PassEffect
  <1>9. buf' \in Seq(Byte) /\ Len(buf') = size'
    <2>1. n + 1 \in 1..size + 1 /\ size - (n + 1) + 1 = size - n
      BY <1>2, <1>3
    <2>2. \A i \in n + 1..size : buf[i] \in Byte
      BY <1>2, <1>3
    <2>3. buf' = SubSeq(buf, n + 1, size)
      BY <1>1, <1>2, <1>3
    <2>4. CASE n + 1 > size
      BY <1>2, <1>3, <1>8, <2>3, <2>4, SubSeqProperties
    <2>5. CASE n + 1 <= size
      BY <1>2, <1>3, <1>8, <2>3, <2>5, SubSeqProperties
    <2> QED
      BY <1>2, <1>3, <2>4, <2>5
  <1>10. m_capacity \in Nat /\ m_size \in Nat /\ m_size <= m_capacity /\ m_position + size <= m_capacity
         /\ m_capacity = Len(nodes) * m_blocksize /\ m_position \in Nat
    BY <1>1 DEF ChainInv, TypeInv, LoopInv, ChainIsSound, SizesAgree
  <1>11. /\ m_size' \in Nat /\ m_size' <= m_capacity /\ m_position' <= m_capacity
         /\ Step = size => m_position' <= m_size'
    <2>1. PICK c \in Nat : c = m_capacity
      BY <1>10
    <2>2. m_size \in Nat /\ m_size <= c /\ m_position + size <= c /\ m_position \in Nat
      BY <1>10, <2>1
    <2>3. /\ m_size' \in Nat /\ m_size' <= c /\ m_position' <= c
          /\ Step = size => m_position' <= m_size'
      BY <1>1, <1>2, <1>8, <2>2
    <2> QED
      BY <2>1, <2>3
  <1>12. op' \in {"none", "write"} /\ (op' = "none" <=> Step = size)
    BY <1>1, <1>8
  <1>13. TypeInv'
    BY <1>1, <1>7, <1>8, <1>9, <1>11, <1>12 DEF ChainInv, TypeInv
  <1>14. ChainIsSound'
    <2>1. BlockOf(m_position)' = BlockOf(m_position')
      BY DEF BlockOf
    <2>2. CurIsPosition'
      BY <1>1, <1>8, <2>1 DEF CurIsPosition, CurFor, Crashed
    <2>3. SizesAgree'
      BY <1>1, <1>7, <1>10, <1>11, <1>12 DEF SizesAgree
    <2> QED
      BY <2>2, <2>3 DEF ChainIsSound
  <1>15. LoopInv'
    <2>1. op' = "none" => size' = 0
      BY <1>2, <1>8, <1>12
    <2> QED
      BY <1>1, <1>8, <1>9, <1>10, <1>11, <1>12, <2>1 DEF LoopInv
  <1> QED
    BY <1>13, <1>14, <1>15 DEF ChainInv

LEMMA ReadPassChain ==
    ASSUME ChainInv, ReadPass
    PROVE  ChainInv'
  <1>1. /\ op = "read" /\ m_cur # 0 /\ Pass(Step)
        /\ buf' = IF Step = size THEN <<>> ELSE buf \o Bytes(m_cur, npos, Step)
        /\ UNCHANGED <<m_endian, nodes, m_capacity, m_size>>
    BY DEF ReadPass, Step
  <1>2. /\ m_cur \in 1..Len(nodes) /\ npos \in Offsets
        /\ Step \in Nat /\ Step >= 1 /\ Step <= size /\ npos + Step <= m_blocksize
        /\ buf \in Seq(Byte) /\ size \in Nat
    BY <1>1, LoopPlace DEF ChainInv, TypeInv
  <1>3. PICK n \in Nat : n = Step
    BY <1>2
  <1>4. Bytes(m_cur, npos, n) \in Seq(Byte)
    <2>1. nodes[m_cur] \in [Offsets -> Byte]
      BY <1>2 DEF ChainInv, TypeInv
    <2>2. \A i \in 1..n : npos + i - 1 \in Offsets
      BY <1>2, <1>3, BlockAssumption DEF Offsets
    <2>3. [i \in 1..n |-> nodes[m_cur][npos + i - 1]] \in [1..n -> Byte]
      BY <2>1, <2>2
    <2> QED
      BY <2>3, SeqDef DEF Bytes
  <1>5. buf' \in Seq(Byte)
    <2>1. buf \o Bytes(m_cur, npos, n) \in Seq(Byte)
      BY <1>2, <1>4, ConcatProperties
    <2> QED
      BY <1>1, <1>3, <2>1
  <1>6. /\ m_position' = m_position + Step /\ m_position' \in Nat
        /\ size' = size - Step /\ size' \in Nat
        /\ m_position' + size' = m_position + size
        /\ m_cur' \in Nat /\ npos' \in Nat /\ ncap' \in Nat
        /\ m_cur' = IF m_position' = m_capacity THEN 0 ELSE BlockOf(m_position')
        /\ op' = IF Step = size THEN "none" ELSE op
        /\ op' # "none" =>
              /\ size' >= 1 /\ m_cur' # 0
              /\ npos' = m_position' % m_blocksize
              /\ ncap' = m_blocksize - (m_position' % m_blocksize)
    BY <1>1, PassEffect
  <1>7. m_capacity \in Nat /\ m_size \in Nat /\ m_size <= m_capacity /\ m_position + size <= m_size
        /\ m_capacity = Len(nodes) * m_blocksize /\ m_position \in Nat
    BY <1>1 DEF ChainInv, TypeInv, LoopInv, ChainIsSound, SizesAgree
  <1>8. m_position' <= m_size /\ m_position' <= m_capacity /\ m_position' + size' <= m_capacity
    <2>1. PICK c \in Nat : c = m_capacity
      BY <1>7
    <2>2. m_size \in Nat /\ m_size <= c /\ m_position + size <= m_size /\ m_position \in Nat
      BY <1>7, <2>1
    <2>3. m_position' <= m_size /\ m_position' <= c /\ m_position' + size' <= c
      BY <1>2, <1>6, <2>2
    <2> QED
      BY <2>1, <2>3
  <1>9. op' \in {"none", "read"} /\ (op' = "none" <=> Step = size)
    BY <1>1, <1>6
  <1>10. TypeInv'
    BY <1>1, <1>5, <1>6, <1>7, <1>9 DEF ChainInv, TypeInv
  <1>11. ChainIsSound'
    <2>1. BlockOf(m_position)' = BlockOf(m_position')
      BY DEF BlockOf
    <2>2. CurIsPosition'
      BY <1>1, <1>6, <2>1 DEF CurIsPosition, CurFor, Crashed
    <2>3. SizesAgree'
      BY <1>1, <1>7, <1>8 DEF SizesAgree
    <2> QED
      BY <2>2, <2>3 DEF ChainIsSound
  <1>12. LoopInv'
    <2>1. op' = "none" => size' = 0
      BY <1>2, <1>6, <1>9
    <2>2. m_position' + size' <= m_size
      BY <1>6, <1>7
    <2> QED
      BY <1>1, <1>6, <1>7, <1>8, <1>9, <2>1, <2>2 DEF LoopInv
  <1> QED
    BY <1>10, <1>11, <1>12 DEF ChainInv

LEMMA SetPositionChain ==
    ASSUME ChainInv, NEW val \in Nat, SetPosition(val)
    PROVE  ChainInv'
  <1>1. op = "none" /\ UNCHANGED <<m_endian, nodes, m_capacity, op, npos, ncap, buf, size>>
    BY DEF SetPosition, loopVars
  <1>2. CASE /\ val <= m_capacity /\ m_position' = val
             /\ m_size' = IF val > m_size THEN val ELSE m_size
             /\ m_cur' = Seek(val)
    <2>1. m_cur' \in Nat /\ m_cur' = IF val = m_capacity THEN 0 ELSE BlockOf(val)
      BY <1>2, SeekEffect
    <2>2. BlockOf(m_position)' = BlockOf(val)
      BY <1>2 DEF BlockOf
    <2>3. m_size' \in Nat /\ m_size' <= m_capacity /\ val <= m_size'
      <3>1. PICK c \in Nat : c = m_capacity /\ m_size \in Nat /\ m_size <= c
        BY DEF ChainInv, TypeInv, LoopInv
      <3>2. m_size' \in Nat /\ m_size' <= c /\ val <= m_size'
        BY <1>2, <3>1
      <3> QED
        BY <3>1, <3>2
    <2>4. TypeInv'
      BY <1>1, <1>2, <2>1, <2>3 DEF ChainInv, TypeInv
    <2>5. ChainIsSound'
      BY <1>1, <1>2, <2>1, <2>2, <2>3 DEF ChainInv, ChainIsSound, CurIsPosition, CurFor, Crashed, SizesAgree
    <2>6. LoopInv'
      BY <1>1, <1>2, <2>3 DEF ChainInv, LoopInv
    <2> QED
      BY <2>4, <2>5, <2>6 DEF ChainInv
  <1>3. CASE UNCHANGED <<m_position, m_size, m_cur>>
    <2>1. BlockOf(m_position)' = BlockOf(m_position)
      BY <1>3 DEF BlockOf
    <2> QED
      BY <1>1, <1>3, <2>1 DEF ChainInv, TypeInv, ChainIsSound, CurIsPosition, CurFor, Crashed, SizesAgree, LoopInv
  <1> QED
    BY <1>2, <1>3 DEF SetPosition

LEMMA ClearChain ==
    ASSUME ChainInv, Clear
    PROVE  ChainInv'
  <1>1. /\ op = "none" /\ nodes' = <<nodes[1]>>
        /\ m_position' = 0 /\ m_size' = 0 /\ m_capacity' = m_blocksize /\ m_cur' = 1
        /\ UNCHANGED <<m_endian, op, npos, ncap, buf, size>>
    BY DEF Clear, loopVars
  <1>2. nodes[1] \in [Offsets -> Byte]
    BY DEF ChainInv, TypeInv
  <1>3. nodes' \in Seq([Offsets -> Byte]) /\ Len(nodes') = 1
    BY <1>1, <1>2
  <1>4. 0 \div m_blocksize = 0 /\ 1 * m_blocksize = m_blocksize
    <2>1. 0 \in Offsets /\ 0 * m_blocksize + 0 = 0
      BY BlockAssumption DEF Offsets
    <2> QED
      BY <2>1, DivUnique, BlockAssumption
  <1>5. TypeInv'
    BY <1>1, <1>3, BlockAssumption DEF ChainInv, TypeInv
  <1>6. ChainIsSound'
    BY <1>1, <1>3, <1>4, BlockAssumption DEF ChainIsSound, CurIsPosition, CurFor, Crashed, SizesAgree, BlockOf
  <1>7. LoopInv'
    BY <1>1, BlockAssumption DEF ChainInv, LoopInv
  <1> QED
    BY <1>5, <1>6, <1>7 DEF ChainInv

LEMMA UnchangedChain ==
    ASSUME ChainInv,
           UNCHANGED <<nodes, m_position, m_capacity, m_size, m_cur, op, npos, ncap, buf, size>>,
           m_endian' \in BOOLEAN
    PROVE  ChainInv'
  <1>1. BlockOf(m_position)' = BlockOf(m_position)
    BY DEF BlockOf
  <1> QED
    BY <1>1 DEF ChainInv, TypeInv, ChainIsSound, CurIsPosition, CurFor, Crashed, SizesAgree, LoopInv

\* What a typed call writes is one of the buffers, of at least one byte.
LEMMA FieldBytes ==
    ASSUME ChainInv, NEW f \in Fields
    PROVE  WriteField(f, m_endian) \in Buffers /\ WriteField(f, m_endian) \in Seq(Byte) \ {<<>>}
  <1>1. m_endian \in BOOLEAN
    BY DEF ChainInv, TypeInv
  <1>2. WriteField(f, m_endian) \in Buffers
    BY <1>1 DEF Buffers
  <1> QED
    BY <1>2, BuffersAssumption

LEMMA NextChain == ChainInv /\ [Next]_vars => ChainInv'
  <1> SUFFICES ASSUME ChainInv, [Next]_vars PROVE ChainInv'
    OBVIOUS
  <1>1. ASSUME NEW f \in Fields, Write(WriteField(f, m_endian)) PROVE ChainInv'
    BY <1>1, FieldBytes, WriteChain
  <1>2. ASSUME NEW val \in BOOLEAN, SetIsLittleEndian(val) PROVE ChainInv'
    BY <1>2, UnchangedChain DEF SetIsLittleEndian, loopVars
  <1>3. ASSUME NEW n \in 0..MaxRead, Read(n) PROVE ChainInv'
    BY <1>3, ReadChain, ByteBounds
  <1>4. ASSUME NEW n \in 1..MaxRead, AddCapacity(n) PROVE ChainInv'
    BY <1>4, AddCapacityChain, ByteBounds
  <1>5. CASE WritePass
    BY <1>5, WritePassChain
  <1>6. CASE ReadPass
    BY <1>6, ReadPassChain
  <1>7. ASSUME NEW val \in 0..MaxCapacity + 1, SetPosition(val) PROVE ChainInv'
    BY <1>7, SetPositionChain, ByteBounds
  <1>8. CASE Clear
    BY <1>8, ClearChain
  <1>9. CASE UNCHANGED vars
    BY <1>9, UnchangedChain DEF vars, ChainInv, TypeInv
  <1> QED
    BY <1>1, <1>2, <1>3, <1>4, <1>5, <1>6, <1>7, <1>8, <1>9 DEF Next

LEMMA ChainAlways == Spec => []ChainInv
  BY InitChain, NextChain, PTL DEF Spec

\* Whatever the block size and however calls cross the blocks, m_cur is the block of
\* the position, null only at the very end and never inside a loop of write or read,
\* m_capacity counts the blocks, and no size wraps below zero.
THEOREM ChainCorrect == Spec => []ChainIsSound
  <1>1. ChainInv => ChainIsSound
    BY DEF ChainInv
  <1> QED
    BY <1>1, ChainAlways, PTL

-----------------------------------------------------------------------------
(* The string that the blocks stand for *)

LEMMA ByteOfPlace ==
    ASSUME NEW k \in Nat, NEW o \in Offsets
    PROVE  ByteAt(k * m_blocksize + o) = nodes[k + 1][o]
  <1>1. PICK p \in Nat : p = k * m_blocksize + o
    BY BlockTimes DEF Offsets
  <1>2. p \div m_blocksize = k /\ p % m_blocksize = o
    BY <1>1, DivUnique
  <1>3. ByteAt(p) = nodes[k + 1][o]
    BY <1>2 DEF ByteAt, BlockOf
  <1> QED
    BY <1>1, <1>3

LEMMA BytesTyped ==
    ASSUME ChainInv, NEW p \in Nat, p < m_capacity
    PROVE  ByteAt(p) \in Byte
  <1>1. m_capacity = Len(nodes) * m_blocksize /\ Len(nodes) \in Nat
    BY DEF ChainInv, TypeInv, ChainIsSound, SizesAgree
  <1>2. BlockOf(p) \in 1..Len(nodes)
    BY <1>1, BlockInside
  <1>3. nodes[BlockOf(p)] \in [Offsets -> Byte]
    BY <1>2 DEF ChainInv, TypeInv
  <1>4. p % m_blocksize \in Offsets
    BY DivMod
  <1> QED
    BY <1>3, <1>4 DEF ByteAt

FlatShape ==
    /\ FlatPosition \in Nat /\ FlatSize \in Nat
    /\ FlatPosition <= FlatSize /\ FlatSize <= m_capacity
    /\ FlatData \in Seq(Byte) /\ Len(FlatData) = FlatSize

LEMMA FlatShaped == ChainInv => FlatShape
  <1> SUFFICES ASSUME ChainInv PROVE FlatShape
    OBVIOUS
  <1>1. /\ m_position \in Nat /\ size \in Nat /\ m_size \in Nat /\ m_capacity \in Nat
        /\ op \in {"none", "write", "read"} /\ buf \in Seq(Byte)
    BY DEF ChainInv, TypeInv
  <1>2. PICK P \in Nat, c \in Nat : P = FlatPosition /\ c = m_capacity
    BY <1>1 DEF FlatPosition
  <1>3. /\ P = m_position + size /\ m_size <= c
        /\ op = "write" => P <= c /\ Len(buf) = size
        /\ op # "write" => P <= m_size
    BY <1>1, <1>2 DEF FlatPosition, ChainInv, LoopInv
  <1>4. PICK F \in Nat : F = FlatSize
    BY <1>1, <1>2 DEF FlatSize
  <1>5. F = IF op = "write" /\ P > m_size THEN P ELSE m_size
    BY <1>2, <1>4 DEF FlatSize
  <1>6. P <= F /\ F <= c
    BY <1>1, <1>3, <1>5
  <1>7. PICK d : d = FlatData
    OBVIOUS
  <1>8. d = [i \in 1..F |-> IF op = "write" /\ i - 1 \in m_position..P - 1
                            THEN buf[i - m_position] ELSE ByteAt(i - 1)]
    BY <1>2, <1>4, <1>7 DEF FlatData
  <1>9. \A i \in 1..F : ByteAt(i - 1) \in Byte
    <2> TAKE i \in 1..F
    <2>1. i - 1 \in Nat /\ i - 1 < c
      BY <1>6
    <2> QED
      BY <1>2, <2>1, BytesTyped
  <1>10. \A i \in 1..F : op = "write" /\ i - 1 \in m_position..P - 1 => buf[i - m_position] \in Byte
    <2>1. \A i \in 1..F : op = "write" /\ i - 1 \in m_position..P - 1 => i - m_position \in 1..Len(buf)
      BY <1>1, <1>3
    <2> QED
      BY <1>1, <2>1, ElementOfSeq
  <1>11. d \in [1..F -> Byte]
    BY <1>8, <1>9, <1>10
  <1>12. d \in Seq(Byte) /\ Len(d) = F
    <2>1. d \in Seq(Byte)
      BY <1>11, SeqDef
    <2> QED
      BY <1>11, <2>1
  <1> QED
    BY <1>2, <1>4, <1>6, <1>7, <1>12 DEF FlatShape

LEMMA FlatShapedNext == ChainInv' => FlatShape'
  BY FlatShaped, PTL

\* Outside a write the string is what the blocks hold.
LEMMA FlatAt ==
    ASSUME NEW i \in 1..FlatSize, op # "write"
    PROVE  FlatData[i] = ByteAt(i - 1)
  BY DEF FlatData

LEMMA Prefix ==
    ASSUME NEW T, NEW d \in Seq(T), NEW P \in Nat, P <= Len(d)
    PROVE  /\ SubSeq(d, 1, P) \in Seq(T) /\ Len(SubSeq(d, 1, P)) = P
           /\ \A i \in 1..P : SubSeq(d, 1, P)[i] = d[i]
  <1>1. \A i \in 1..P : d[i] \in T
    OBVIOUS
  <1>2. PICK a : a = SubSeq(d, 1, P)
    OBVIOUS
  <1>3. /\ a \in Seq(T) /\ Len(a) = IF 1 <= P THEN P - 1 + 1 ELSE 0
        /\ \A i \in 1..P - 1 + 1 : a[i] = d[1 + i - 1]
    BY <1>1, <1>2, SubSeqProperties
  <1>4. Len(a) = P /\ \A i \in 1..P : a[i] = d[i]
    BY <1>3
  <1> QED
    BY <1>2, <1>3, <1>4

LEMMA Suffix ==
    ASSUME NEW T, NEW d \in Seq(T), NEW q \in Nat
    PROVE  /\ SubSeq(d, q + 1, Len(d)) \in Seq(T)
           /\ Len(SubSeq(d, q + 1, Len(d))) = IF q <= Len(d) THEN Len(d) - q ELSE 0
           /\ \A i \in 1..Len(d) - q : SubSeq(d, q + 1, Len(d))[i] = d[q + i]
  <1>1. PICK m \in Nat : m = Len(d)
    OBVIOUS
  <1>2. \A i \in q + 1..m : d[i] \in T
    BY <1>1
  <1>3. PICK b : b = SubSeq(d, q + 1, m)
    OBVIOUS
  <1>4. q + 1 \in Int /\ m \in Int
    OBVIOUS
  <1>5. /\ b \in Seq(T) /\ Len(b) = IF q + 1 <= m THEN m - (q + 1) + 1 ELSE 0
        /\ \A i \in 1..m - (q + 1) + 1 : b[i] = d[q + 1 + i - 1]
    BY <1>2, <1>3, <1>4, SubSeqProperties
  <1>6. m - (q + 1) + 1 = m - q /\ \A i \in 1..m - q : q + 1 + i - 1 = q + i
    OBVIOUS
  <1>7. Len(b) = IF q <= m THEN m - q ELSE 0
    BY <1>5, <1>6
  <1>8. \A i \in 1..m - q : b[i] = d[q + i]
    BY <1>5, <1>6
  <1> QED
    BY <1>1, <1>3, <1>5, <1>7, <1>8

\* Three sequences, one behind the other.
Joins(t, a, s, b, T) ==
    /\ t \in Seq(T) /\ Len(t) = Len(a) + Len(s) + Len(b)
    /\ \A i \in 1..Len(a) + Len(s) + Len(b) :
          t[i] = IF i <= Len(a) THEN a[i]
                 ELSE IF i <= Len(a) + Len(s) THEN s[i - Len(a)]
                 ELSE b[i - (Len(a) + Len(s))]

LEMMA Joined ==
    ASSUME NEW T, NEW a \in Seq(T), NEW s \in Seq(T), NEW b \in Seq(T)
    PROVE  Joins(a \o s \o b, a, s, b, T)
  <1>1. PICK u : u = a \o s
    OBVIOUS
  <1>2. /\ u \in Seq(T) /\ Len(u) = Len(a) + Len(s)
        /\ \A i \in 1..Len(a) + Len(s) : u[i] = IF i <= Len(a) THEN a[i] ELSE s[i - Len(a)]
    BY <1>1, ConcatProperties
  <1>3. u \in Seq(T)
    BY <1>2
  <1>4. PICK t : t = u \o b
    OBVIOUS
  <1>5. /\ t \in Seq(T) /\ Len(t) = Len(u) + Len(b)
        /\ \A i \in 1..Len(u) + Len(b) : t[i] = IF i <= Len(u) THEN u[i] ELSE b[i - Len(u)]
    BY <1>3, <1>4, ConcatProperties
  <1>6. Len(t) = Len(a) + Len(s) + Len(b)
    BY <1>2, <1>5
  <1>7. Len(a) \in Nat /\ Len(s) \in Nat /\ Len(b) \in Nat
    OBVIOUS
  <1>8. ASSUME NEW i \in 1..Len(a) + Len(s) + Len(b)
        PROVE  t[i] = IF i <= Len(a) THEN a[i]
                      ELSE IF i <= Len(a) + Len(s) THEN s[i - Len(a)]
                      ELSE b[i - (Len(a) + Len(s))]
    <2>1. CASE i <= Len(a) + Len(s)
      <3>1. t[i] = u[i]
        BY <1>2, <1>5, <2>1
      <3>2. u[i] = IF i <= Len(a) THEN a[i] ELSE s[i - Len(a)]
        BY <1>2, <1>7, <2>1
      <3> QED
        BY <2>1, <3>1, <3>2
    <2>2. CASE ~(i <= Len(a) + Len(s))
      <3>1. t[i] = b[i - (Len(a) + Len(s))]
        BY <1>2, <1>5, <2>2
      <3> QED
        BY <1>7, <2>2, <3>1
    <2> QED
      BY <2>1, <2>2
  <1>9. Joins(t, a, s, b, T)
    BY <1>5, <1>6, <1>8 DEF Joins
  <1> QED
    BY <1>1, <1>4, <1>9, Zenon

\* The part of d behind P is replaced by s, and what does not fit is added.
IsSplice(e, d, s, P) ==
    /\ Len(e) = IF P + Len(s) > Len(d) THEN P + Len(s) ELSE Len(d)
    /\ \A i \in 1..Len(e) : e[i] = IF i - 1 \in P..P + Len(s) - 1 THEN s[i - P] ELSE d[i]

LEMMA Splice ==
    ASSUME NEW T, NEW d \in Seq(T), NEW s \in Seq(T), NEW e \in Seq(T),
           NEW P \in Nat, NEW n \in Nat, NEW m \in Nat,
           Len(s) = n, Len(d) = m, P <= m, IsSplice(e, d, s, P)
    PROVE  e = SubSeq(d, 1, P) \o s \o SubSeq(d, P + Len(s) + 1, Len(d))
  <1>1. P + n \in Nat
    OBVIOUS
  <1>2. PICK q \in Nat : q = P + n
    BY <1>1
  <1>3. PICK l \in Nat : l = IF q <= m THEN m - q ELSE 0
    <2>1. (IF q <= m THEN m - q ELSE 0) \in Nat
      OBVIOUS
    <2> QED
      BY <2>1
  <1>4. PICK a, b : a = SubSeq(d, 1, P) /\ b = SubSeq(d, q + 1, Len(d))
    OBVIOUS
  <1>5. a \in Seq(T) /\ Len(a) = P /\ \A i \in 1..P : a[i] = d[i]
    BY <1>4, Prefix
  <1>6. /\ b \in Seq(T) /\ Len(b) = IF q <= Len(d) THEN Len(d) - q ELSE 0
        /\ \A i \in 1..Len(d) - q : b[i] = d[q + i]
    BY <1>4, Suffix
  <1>7. Len(b) = l /\ \A i \in 1..l : b[i] = d[q + i]
    <2>1. Len(b) = l
      BY <1>3, <1>6
    <2>2. \A i \in 1..l : i \in 1..Len(d) - q
      BY <1>3
    <2> QED
      BY <1>6, <2>1, <2>2
  <1>8. PICK t : t = a \o s \o b
    OBVIOUS
  <1>9. /\ t \in Seq(T) /\ Len(t) = q + l
        /\ \A i \in 1..q + l :
              t[i] = IF i <= P THEN a[i] ELSE IF i <= q THEN s[i - P] ELSE b[i - q]
    <2>1. a \in Seq(T) /\ b \in Seq(T) /\ Len(a) = P /\ Len(b) = l /\ P + Len(s) = q
      BY <1>2, <1>5, <1>6, <1>7
    <2>2. /\ t \in Seq(T) /\ Len(t) = Len(a) + Len(s) + Len(b)
          /\ \A i \in 1..Len(a) + Len(s) + Len(b) :
                t[i] = IF i <= Len(a) THEN a[i]
                       ELSE IF i <= Len(a) + Len(s) THEN s[i - Len(a)]
                       ELSE b[i - (Len(a) + Len(s))]
      <3>1. Joins(a \o s \o b, a, s, b, T)
        BY <2>1, Joined
      <3>2. Joins(t, a, s, b, T)
        BY <1>8, <3>1, Zenon
      <3> QED
        BY <3>2 DEF Joins
    <2> QED
      BY <2>1, <2>2
  <1>10. Len(e) = q + l
    <2>1. Len(e) = IF P + n > m THEN P + n ELSE m
      BY DEF IsSplice
    <2> QED
      BY <1>2, <1>3, <2>1
  <1>11. ASSUME NEW i \in 1..q + l PROVE e[i] = t[i]
    <2>1. e[i] = IF i - 1 \in P..q - 1 THEN s[i - P] ELSE d[i]
      <3>1. i \in 1..Len(e)
        BY <1>10
      <3>2. e[i] = IF i - 1 \in P..P + n - 1 THEN s[i - P] ELSE d[i]
        BY <3>1 DEF IsSplice
      <3> QED
        BY <1>2, <3>2
    <2>2. CASE i <= P
      <3>1. e[i] = d[i] /\ a[i] = d[i] /\ t[i] = a[i]
        BY <1>5, <1>9, <2>1, <2>2
      <3> QED
        BY <3>1
    <2>3. CASE ~(i <= P) /\ i <= q
      <3>1. i - 1 \in P..q - 1
        BY <2>3
      <3>2. e[i] = s[i - P] /\ t[i] = s[i - P]
        BY <1>9, <2>1, <2>3, <3>1
      <3> QED
        BY <3>2
    <2>4. CASE ~(i <= P) /\ ~(i <= q)
      <3>1. i - q \in 1..l /\ q + (i - q) = i /\ i - 1 \notin P..q - 1
        BY <2>4
      <3>2. e[i] = d[i] /\ t[i] = b[i - q] /\ b[i - q] = d[q + (i - q)]
        BY <1>7, <1>9, <2>1, <2>4, <3>1
      <3> QED
        BY <3>1, <3>2
    <2> QED
      BY <2>2, <2>3, <2>4
  <1>12. e = t
    BY <1>9, <1>10, <1>11, SeqEqual
  <1> QED
    BY <1>2, <1>4, <1>8, <1>12

-----------------------------------------------------------------------------
(* Every call is a step of FlatBytes, every pass of a loop leaves the string alone *)

LEMMA InitFlat == Init => Flat!Init
  <1> SUFFICES ASSUME Init PROVE Flat!Init
    OBVIOUS
  <1>1. op = "none" /\ m_position = 0 /\ size = 0 /\ m_size = 0 /\ out = <<>>
    BY DEF Init
  <1>2. FlatPosition = 0 /\ FlatSize = 0 /\ FlatOut = <<>>
    BY <1>1 DEF FlatPosition, FlatSize, FlatOut, Crashed
  <1>3. FlatData \in Seq(Byte) /\ Len(FlatData) = 0
    BY <1>2, InitChain, FlatShaped DEF FlatShape
  <1>4. FlatData = <<>>
    BY <1>3, EmptySeq
  <1> QED
    BY <1>2, <1>4 DEF Flat!Init

\* Old blocks keep their bytes when new ones are chained behind them.
LEMMA OldBytes ==
    ASSUME ChainInv, \A j \in 1..Len(nodes) : nodes'[j] = nodes[j],
           NEW p \in Nat, p < m_capacity
    PROVE  ByteAt(p)' = ByteAt(p)
  <1>1. m_capacity = Len(nodes) * m_blocksize /\ Len(nodes) \in Nat
    BY DEF ChainInv, TypeInv, ChainIsSound, SizesAgree
  <1>2. BlockOf(p) \in 1..Len(nodes)
    BY <1>1, BlockInside
  <1>3. nodes'[BlockOf(p)] = nodes[BlockOf(p)]
    BY <1>2
  <1>4. BlockOf(p)' = BlockOf(p)
    BY DEF BlockOf
  <1> QED
    BY <1>3, <1>4 DEF ByteAt

LEMMA WriteFlat ==
    ASSUME ChainInv, ChainInv', NEW s \in Seq(Byte) \ {<<>>}, Write(s)
    PROVE  Flat!Write(s)
  <1>1. /\ op = "none" /\ GrowBy(BlockCount(Len(s)))
        /\ op' = "write" /\ buf' = s /\ size' = Len(s) /\ out' = <<>>
        /\ m_position' = m_position /\ m_size' = m_size
    BY DEF Write, Enter
  <1>2. /\ size = 0 /\ m_position \in Nat /\ m_size \in Nat /\ m_capacity \in Nat
        /\ m_position <= m_size /\ m_size <= m_capacity
    BY <1>1 DEF ChainInv, TypeInv, LoopInv
  <1>3. s \in Seq(Byte)
    OBVIOUS
  <1>4. Len(s) \in Nat
    BY <1>3
  <1>5. PICK n \in Nat : Len(s) = n
    BY <1>4
  <1>6. PICK P \in Nat, m \in Nat : m_position = P /\ m_size = m /\ P <= m
    BY <1>2
  <1>7. FlatPosition = P /\ FlatSize = m
    BY <1>1, <1>2, <1>6 DEF FlatPosition, FlatSize
  <1>8. FlatPosition' = P + n /\ FlatSize' = IF P + n > m THEN P + n ELSE m
    BY <1>1, <1>5, <1>6 DEF FlatPosition, FlatSize
  <1>9. PICK d, e : d = FlatData /\ e = FlatData'
    OBVIOUS
  <1>10. d \in Seq(Byte) /\ Len(d) = m
    BY <1>7, <1>9, FlatShaped DEF FlatShape
  <1>11. e \in Seq(Byte) /\ Len(e) = IF P + n > m THEN P + n ELSE m
    BY <1>8, <1>9, FlatShapedNext DEF FlatShape
  <1>12. ASSUME NEW i \in 1..Len(e)
         PROVE  e[i] = IF i - 1 \in P..P + n - 1 THEN s[i - P] ELSE d[i]
    <2>1. i \in 1..FlatSize'
      BY <1>8, <1>11
    <2>2. e[i] = IF i - 1 \in P..P + n - 1 THEN s[i - P] ELSE ByteAt(i - 1)'
      BY <1>1, <1>6, <1>8, <1>9, <2>1 DEF FlatData
    <2>3. ASSUME i - 1 \notin P..P + n - 1
          PROVE  i \in 1..m
      BY <1>6, <1>11, <2>3
    <2>4. ASSUME i - 1 \notin P..P + n - 1
          PROVE  ByteAt(i - 1)' = d[i]
      <3>1. i \in 1..m /\ i \in 1..FlatSize
        BY <1>7, <2>3, <2>4
      <3>2. i - 1 \in Nat /\ i - 1 < m_capacity
        BY <1>2, <1>6, <3>1
      <3>3. \A j \in 1..Len(nodes) : nodes'[j] = nodes[j]
        BY <1>1, <1>4, GrowEffect
      <3>4. ByteAt(i - 1)' = ByteAt(i - 1)
        BY <3>2, <3>3, OldBytes
      <3>5. d[i] = ByteAt(i - 1)
        BY <1>1, <1>9, <3>1, FlatAt
      <3> QED
        BY <3>4, <3>5
    <2> QED
      BY <2>2, <2>4
  <1>13. IsSplice(e, d, s, P)
    BY <1>5, <1>10, <1>11, <1>12 DEF IsSplice
  <1>14. e = SubSeq(d, 1, P) \o s \o SubSeq(d, P + Len(s) + 1, Len(d))
    BY <1>3, <1>5, <1>6, <1>10, <1>11, <1>13, Splice
  <1>15. FlatOut' = <<>>
    BY <1>1 DEF FlatOut, Crashed
  <1> QED
    BY <1>5, <1>7, <1>8, <1>9, <1>14, <1>15 DEF Flat!Write

LEMMA AddCapacityFlat ==
    ASSUME ChainInv, ChainInv', NEW n \in Nat, AddCapacity(n)
    PROVE  Flat!SetPosition(m_position) /\ m_position \in 0..MaxCapacity + 1
  <1>1. /\ op = "none" /\ GrowBy(BlockCount(n)) /\ m_position + n <= MaxCapacity /\ out' = <<>>
        /\ UNCHANGED <<m_position, m_size, op, size>>
    BY DEF AddCapacity, loopVars
  <1>2. /\ size = 0 /\ m_position \in Nat /\ m_size \in Nat /\ m_capacity \in Nat
        /\ m_position <= m_size /\ m_size <= m_capacity
    BY <1>1 DEF ChainInv, TypeInv, LoopInv
  <1>3. /\ FlatPosition = m_position /\ FlatPosition' = m_position
        /\ FlatSize = m_size /\ FlatSize' = m_size /\ FlatOut' = <<>>
    BY <1>1, <1>2 DEF FlatPosition, FlatSize, FlatOut, Crashed
  <1>4. FlatData' = FlatData
    <2>1. \A j \in 1..Len(nodes) : nodes'[j] = nodes[j]
      BY <1>1, GrowEffect
    <2>2. ASSUME NEW i \in 1..m_size PROVE ByteAt(i - 1)' = ByteAt(i - 1)
      <3>1. i - 1 \in Nat /\ i - 1 < m_capacity
        BY <1>2
      <3> QED
        BY <2>1, <3>1, OldBytes
    <2>3. FlatData = [i \in 1..m_size |-> ByteAt(i - 1)]
      BY <1>1, <1>3 DEF FlatData
    <2>4. FlatData' = [i \in 1..m_size |-> ByteAt(i - 1)']
      BY <1>1, <1>3 DEF FlatData
    <2> QED
      BY <2>2, <2>3, <2>4
  <1>5. Len(FlatData) = m_size
    BY <1>3, FlatShaped DEF FlatShape
  <1>6. m_position \in 0..MaxCapacity + 1
    BY <1>1, <1>2, ByteBounds
  <1> QED
    BY <1>2, <1>3, <1>4, <1>5, <1>6 DEF Flat!SetPosition

LEMMA ReadFlat ==
    ASSUME ChainInv, ChainInv', NEW n \in Nat, Read(n)
    PROVE  Flat!Read(n) \/ UNCHANGED Flat!flatVars
  <1>1. op = "none" /\ UNCHANGED <<nodes, m_position, m_size, m_cur>>
    BY DEF Read
  <1>2. /\ size = 0 /\ m_position \in Nat /\ m_size \in Nat /\ m_position <= m_size
    BY <1>1 DEF ChainInv, TypeInv, LoopInv
  <1>3. PICK P \in Nat, m \in Nat : m_position = P /\ m_size = m /\ P <= m
    BY <1>2
  <1>4. FlatPosition = P /\ FlatSize = m
    BY <1>1, <1>2, <1>3 DEF FlatPosition, FlatSize
  <1>5. FlatData \in Seq(Byte) /\ Len(FlatData) = m
    BY <1>4, FlatShaped DEF FlatShape
  <1>6. FlatData = [i \in 1..m |-> ByteAt(i - 1)]
    BY <1>1, <1>4 DEF FlatData
  <1>7. ASSUME op' # "write" PROVE FlatData' = FlatData
    <2>1. FlatSize' = m
      BY <1>1, <1>3, <1>7 DEF FlatSize
    <2>2. FlatData' = [i \in 1..m |-> ByteAt(i - 1)']
      BY <1>7, <2>1 DEF FlatData
    <2>3. \A i \in 1..m : ByteAt(i - 1)' = ByteAt(i - 1)
      BY <1>1 DEF ByteAt, BlockOf
    <2> QED
      BY <1>6, <2>2, <2>3
  <1>8. CASE n <= m - P /\ m_cur # 0 /\ Enter("read", <<>>, n)
    <2>1. op' = "read" /\ buf' = <<>> /\ size' = n /\ m_cur' # 0
      BY <1>1, <1>8 DEF Enter
    <2>2. FlatPosition' = P + n
      BY <1>1, <1>3, <2>1 DEF FlatPosition
    <2>3. PICK r : r = [i \in 1..n |-> ByteAt(P + i - 1)]
      OBVIOUS
    <2>4. Data(m_position, size)' = r
      <3>1. Data(m_position, size)' = [i \in 1..n |-> ByteAt(P + i - 1)']
        BY <1>1, <1>3, <2>1 DEF Data
      <3>2. \A i \in 1..n : ByteAt(P + i - 1)' = ByteAt(P + i - 1)
        BY <1>1 DEF ByteAt, BlockOf
      <3> QED
        BY <2>3, <3>1, <3>2
    <2>5. PICK d : d = FlatData
      OBVIOUS
    <2>6. d \in Seq(Byte) /\ Len(d) = m /\ \A i \in 1..m : d[i] = ByteAt(i - 1)
      BY <1>5, <1>6, <2>5
    <2>7. \A i \in 1..n : P + i \in 1..m /\ (P + i) - 1 = P + i - 1
      BY <1>8
    <2>8. \A i \in 1..n : r[i] = d[P + i]
      BY <2>3, <2>6, <2>7
    <2>9. r \in Seq(Byte) /\ Len(r) = n
      <3>1. \A i \in 1..m : d[i] \in Byte
        BY <2>6
      <3>2. \A i \in 1..n : r[i] \in Byte
        BY <2>7, <2>8, <3>1
      <3>3. r \in [1..n -> Byte]
        BY <2>3, <3>2
      <3>4. r \in Seq(Byte)
        BY <3>3, SeqDef
      <3> QED
        BY <3>3, <3>4
    <2>10. FlatOut' = r
      <3>1. FlatOut' = <<>> \o r
        BY <2>1, <2>4 DEF FlatOut, Crashed
      <3> QED
        BY <2>9, <3>1, ConcatEmptySeq
    <2>11. PICK t : t = SubSeq(d, P + 1, P + n)
      OBVIOUS
    <2>12. t \in Seq(Byte) /\ Len(t) = n /\ \A i \in 1..n : t[i] = d[P + i]
      <3>1. P + 1 \in Int /\ P + n \in Int
        OBVIOUS
      <3>2. \A i \in P + 1..P + n : d[i] \in Byte
        BY <1>8, <2>6
      <3>3. /\ t \in Seq(Byte)
            /\ Len(t) = IF P + 1 <= P + n THEN P + n - (P + 1) + 1 ELSE 0
            /\ \A i \in 1..P + n - (P + 1) + 1 : t[i] = d[P + 1 + i - 1]
        BY <2>11, <3>1, <3>2, SubSeqProperties
      <3>4. P + n - (P + 1) + 1 = n /\ \A i \in 1..n : P + 1 + i - 1 = P + i
        OBVIOUS
      <3> QED
        BY <3>3, <3>4
    <2>13. r = t
      <3>1. r \in Seq(Byte) /\ t \in Seq(Byte) /\ Len(r) = Len(t)
        BY <2>9, <2>12
      <3>2. \A i \in 1..Len(r) : r[i] = t[i]
        BY <2>8, <2>9, <2>12
      <3> QED
        BY <3>1, <3>2, SeqEqual
    <2>14. FlatData' = FlatData
      BY <1>7, <2>1
    <2> QED
      BY <1>4, <1>5, <1>8, <2>2, <2>5, <2>10, <2>11, <2>13, <2>14 DEF Flat!Read
  <1>9. CASE n > m - P /\ out' = OutOfRange /\ UNCHANGED loopVars
    <2>1. op' = "none" /\ size' = size
      BY <1>1, <1>9 DEF loopVars
    <2>2. FlatPosition' = FlatPosition /\ FlatOut' = OutOfRange /\ FlatData' = FlatData
      BY <1>1, <1>7, <1>9, <2>1 DEF FlatPosition, FlatOut, Crashed
    <2> QED
      BY <1>4, <1>5, <1>9, <2>2 DEF Flat!Read, Flat!OutOfRange, OutOfRange
  <1>10. CASE n = 0 /\ out' = <<>> /\ UNCHANGED loopVars
    <2>1. op' = "none" /\ size' = size
      BY <1>1, <1>10 DEF loopVars
    <2>2. FlatPosition' = P /\ FlatOut' = <<>> /\ FlatData' = FlatData
      BY <1>1, <1>3, <1>2, <1>7, <1>10, <2>1 DEF FlatPosition, FlatOut
    <2>3. SubSeq(FlatData, P + 1, P + 0) = <<>>
      <3>1. PICK d : d = FlatData /\ d \in Seq(Byte)
        BY <1>5
      <3>2. SubSeq(d, P + 1, P) = <<>>
        BY <3>1, SubSeqEmpty
      <3> QED
        BY <3>1, <3>2
    <2> QED
      BY <1>3, <1>4, <1>5, <1>10, <2>2, <2>3 DEF Flat!Read
  <1>11. CASE m_cur = 0 /\ Enter("read", <<>>, n) /\ UNCHANGED out
    <2>1. op' = "read" /\ size' = n /\ m_cur' = 0
      BY <1>1, <1>11 DEF Enter
    <2>2. n = 0
      BY <2>1 DEF ChainInv, ChainIsSound, CurIsPosition, Crashed
    <2>3. FlatPosition' = FlatPosition /\ FlatOut' = out' /\ FlatOut = out /\ FlatData' = FlatData
      BY <1>1, <1>2, <1>7, <2>1, <2>2 DEF FlatPosition, FlatOut, Crashed
    <2> QED
      BY <1>11, <2>3 DEF Flat!flatVars
  <1> QED
    BY <1>3, <1>8, <1>9, <1>10, <1>11 DEF Read, GetReadSize

LEMMA SetPositionFlat ==
    ASSUME ChainInv, ChainInv', NEW val \in Nat, SetPosition(val)
    PROVE  Flat!SetPosition(val)
  <1>1. op = "none" /\ op' = "none" /\ size' = size /\ nodes' = nodes /\ m_capacity' = m_capacity
    BY DEF SetPosition, loopVars
  <1>2. /\ size = 0 /\ m_position \in Nat /\ m_size \in Nat /\ m_capacity \in Nat
        /\ m_position <= m_size /\ m_size <= m_capacity
    BY <1>1 DEF ChainInv, TypeInv, LoopInv
  <1>3. PICK m \in Nat, c \in Nat : m_size = m /\ m_capacity = c /\ m <= c
    BY <1>2
  <1>4. FlatSize = m /\ FlatSize' = m_size' /\ FlatOut' = out'
    BY <1>1, <1>3 DEF FlatSize, FlatOut, Crashed
  <1>5. FlatData \in Seq(Byte) /\ Len(FlatData) = m
    BY <1>4, FlatShaped DEF FlatShape
  <1>6. FlatData = [i \in 1..m |-> ByteAt(i - 1)] /\ FlatData' = [i \in 1..m_size' |-> ByteAt(i - 1)']
    BY <1>1, <1>4 DEF FlatData
  <1>7. ASSUME NEW p PROVE ByteAt(p)' = ByteAt(p)
    BY <1>1 DEF ByteAt, BlockOf
  <1>8. CASE val <= c /\ m_position' = val /\ out' = <<>>
             /\ m_size' = IF val > m THEN val ELSE m
    <2>1. FlatPosition' = val
      BY <1>1, <1>2, <1>8 DEF FlatPosition
    <2>2. CASE val <= m
      <3>1. m_size' = m
        BY <1>8, <2>2
      <3>2. FlatData' = FlatData
        BY <1>6, <1>7, <3>1
      <3> QED
        BY <1>4, <1>5, <1>8, <2>1, <2>2, <3>2 DEF Flat!SetPosition
    <2>3. CASE val > m
      <3>1. m_size' = val
        BY <1>8, <2>3
      <3>2. PICK r : r = [i \in 1..val - m |-> ByteAt(m + i - 1)]
        OBVIOUS
      <3>3. r \in [1..val - m -> Byte]
        <4>1. ASSUME NEW i \in 1..val - m PROVE ByteAt(m + i - 1) \in Byte
          <5>1. m + i - 1 \in Nat /\ m + i - 1 < c
            BY <1>8, <2>3
          <5> QED
            BY <1>3, <5>1, BytesTyped
        <4> QED
          BY <3>2, <4>1
      <3>4. r \in Seq(Byte) /\ Len(r) = val - m
        <4>1. val - m \in Nat
          BY <2>3
        <4>2. r \in Seq(Byte)
          BY <3>3, <4>1, SeqDef
        <4> QED
          BY <3>3, <4>1, <4>2
      <3>5. PICK d, e : d = FlatData /\ e = FlatData'
        OBVIOUS
      <3>6. d \in Seq(Byte) /\ Len(d) = m /\ \A i \in 1..m : d[i] = ByteAt(i - 1)
        BY <1>5, <1>6, <3>5
      <3>7. e \in Seq(Byte) /\ Len(e) = val
        BY <1>4, <3>1, <3>5, FlatShapedNext DEF FlatShape
      <3>8. \A i \in 1..val : e[i] = ByteAt(i - 1)
        BY <1>6, <1>7, <3>1, <3>5
      <3>9. PICK t : t = d \o r
        OBVIOUS
      <3>10. d \in Seq(Byte) /\ r \in Seq(Byte)
        BY <3>4, <3>6
      <3>11. /\ t \in Seq(Byte) /\ Len(t) = Len(d) + Len(r)
             /\ \A i \in 1..Len(d) + Len(r) : t[i] = IF i <= Len(d) THEN d[i] ELSE r[i - Len(d)]
        BY <3>9, <3>10, ConcatProperties
      <3>12. Len(t) = val /\ \A i \in 1..val : t[i] = IF i <= m THEN d[i] ELSE r[i - m]
        <4>1. Len(d) + Len(r) = val
          BY <3>4, <3>6, <2>3
        <4> QED
          BY <3>6, <3>11, <4>1
      <3>13. ASSUME NEW i \in 1..val PROVE e[i] = t[i]
        <4>1. CASE i <= m
          BY <3>6, <3>8, <3>12, <4>1
        <4>2. CASE ~(i <= m)
          <5>1. i - m \in 1..val - m /\ m + (i - m) - 1 = i - 1
            BY <4>2
          <5>2. r[i - m] = ByteAt(m + (i - m) - 1)
            BY <3>2, <5>1
          <5> QED
            BY <3>8, <3>12, <4>2, <5>1, <5>2
        <4> QED
          BY <4>1, <4>2
      <3>14. e = t
        BY <3>7, <3>11, <3>12, <3>13, SeqEqual
      <3>15. \E rest \in [1..val - m -> Byte] : FlatData' = FlatData \o rest
        BY <3>3, <3>5, <3>9, <3>14
      <3> QED
        BY <1>4, <1>5, <1>8, <2>1, <2>3, <3>15 DEF Flat!SetPosition
    <2> QED
      BY <2>2, <2>3
  <1>9. CASE val > c /\ out' = OutOfRange /\ UNCHANGED <<m_position, m_size>>
    <2>1. val > m
      BY <1>3, <1>9
    <2>2. FlatPosition' = FlatPosition /\ m_size' = m
      BY <1>1, <1>3, <1>9 DEF FlatPosition
    <2>3. FlatData' = FlatData
      BY <1>6, <1>7, <2>2
    <2> QED
      BY <1>4, <1>5, <1>9, <2>1, <2>2, <2>3 DEF Flat!SetPosition, Flat!OutOfRange, OutOfRange
  <1> QED
    BY <1>3, <1>8, <1>9 DEF SetPosition

LEMMA ClearFlat ==
    ASSUME ChainInv, ChainInv', Clear
    PROVE  Flat!Clear
  <1>1. op' = "none" /\ size' = 0 /\ m_position' = 0 /\ m_size' = 0 /\ out' = <<>>
    BY DEF Clear, loopVars, ChainInv, LoopInv
  <1>2. FlatPosition' = 0 /\ FlatSize' = 0 /\ FlatOut' = <<>>
    BY <1>1 DEF FlatPosition, FlatSize, FlatOut, Crashed
  <1>3. FlatData' \in Seq(Byte) /\ Len(FlatData') = 0
    BY <1>2, FlatShapedNext DEF FlatShape
  <1>4. FlatData' = <<>>
    BY <1>3, EmptySeq
  <1> QED
    BY <1>2, <1>4 DEF Flat!Clear

LEMMA StutterFlat ==
    ASSUME UNCHANGED <<nodes, m_position, m_size, m_cur, op, buf, size, out>>
    PROVE  UNCHANGED Flat!flatVars
  <1>1. FlatPosition' = FlatPosition
    BY DEF FlatPosition
  <1>2. FlatSize' = FlatSize
    BY <1>1 DEF FlatSize
  <1>3. ASSUME NEW p PROVE ByteAt(p)' = ByteAt(p)
    BY DEF ByteAt, BlockOf
  <1>4. FlatData' = FlatData
    BY <1>1, <1>2, <1>3 DEF FlatData
  <1>5. Data(m_position, size)' = Data(m_position, size)
    BY <1>3 DEF Data
  <1>6. FlatOut' = FlatOut
    BY <1>5 DEF FlatOut, Crashed
  <1> QED
    BY <1>1, <1>4, <1>6 DEF Flat!flatVars

\* A pass of write changes the bytes from the position on, and no other.
LEMMA WrittenBytes ==
    ASSUME ChainInv, WritePass, NEW p \in Nat, p < m_capacity
    PROVE  ByteAt(p)' = IF p \in m_position..m_position + Step - 1
                        THEN buf[p - m_position + 1] ELSE ByteAt(p)
  <1>1. /\ op = "write" /\ m_cur # 0
        /\ nodes' = [nodes EXCEPT ![m_cur] =
                       [o \in Offsets |-> IF o \in npos..npos + Step - 1
                                          THEN buf[o - npos + 1] ELSE nodes[m_cur][o]]]
    BY DEF WritePass, Step
  <1>2. PICK L \in Nat : Len(nodes) = L
    BY DEF ChainInv, TypeInv
  <1>3. PICK n \in Nat : n = Step /\ n >= 1 /\ npos + n <= m_blocksize
    BY <1>1, LoopPlace
  <1>4. PICK c \in 1..L : c = m_cur
    BY <1>1, <1>2, LoopPlace
  <1>5. PICK b \in Nat : b = (c - 1) * m_blocksize /\ m_position = b + npos
    BY <1>1, <1>4, LoopPlace
  <1>6. PICK a \in Offsets : a = npos
    BY <1>1, LoopPlace
  <1>7. PICK k \in Nat, o \in Offsets : p = k * m_blocksize + o
    BY DivMod
  <1>8. ByteAt(p) = nodes[k + 1][o]
    BY <1>7, ByteOfPlace
  <1>9. ByteAt(p)' = nodes'[k + 1][o]
    <2>1. p \div m_blocksize = k /\ p % m_blocksize = o
      BY <1>7, DivUnique
    <2> QED
      BY <2>1 DEF ByteAt, BlockOf
  <1>10. k + 1 \in 1..L
    <2>1. m_capacity = L * m_blocksize
      BY <1>2 DEF ChainInv, ChainIsSound, SizesAgree
    <2>2. BlockOf(p) \in 1..L
      BY <2>1, BlockInside
    <2>3. BlockOf(p) = k + 1
      BY <1>7, DivUnique DEF BlockOf
    <2> QED
      BY <2>2, <2>3
  <1>11. DOMAIN nodes = 1..L
    BY <1>2 DEF ChainInv, TypeInv
  <1>12. CASE k + 1 = c
    <2>1. p = b + o /\ m_position = b + a
      <3>1. k = c - 1
        BY <1>12
      <3> QED
        BY <1>5, <1>6, <1>7, <3>1
    <2>2. nodes'[k + 1][o] = IF o \in a..a + n - 1 THEN buf[o - a + 1] ELSE nodes[k + 1][o]
      BY <1>1, <1>3, <1>4, <1>6, <1>10, <1>11, <1>12
    <2>3. a \in Nat /\ o \in Nat
      BY BlockAssumption DEF Offsets
    <2>4. o \in a..a + n - 1 <=> p \in m_position..m_position + n - 1
      BY <2>1, <2>3
    <2>5. o - a + 1 = p - m_position + 1
      BY <2>1, <2>3
    <2> QED
      BY <1>3, <1>8, <1>9, <2>2, <2>4, <2>5
  <1>13. CASE k + 1 # c
    <2>1. nodes'[k + 1] = nodes[k + 1]
      BY <1>1, <1>4, <1>10, <1>11, <1>13
    <2>2. p \notin m_position..m_position + n - 1
      <3>1. a \in Nat /\ o \in Nat /\ o < m_blocksize /\ a + n <= m_blocksize /\ m_position = b + a
        BY <1>3, <1>5, <1>6, BlockAssumption DEF Offsets
      <3>2. k * m_blocksize \in Nat /\ m_blocksize \in Nat
        BY BlockTimes, BlockAssumption
      <3>3. CASE k < c - 1
        <4>1. k * m_blocksize + m_blocksize <= b
          BY <1>5, <3>3, BlocksApart
        <4>2. p < b
          BY <1>7, <3>1, <3>2, <4>1
        <4> QED
          BY <3>1, <4>2
      <3>4. CASE c - 1 < k
        <4>1. b + m_blocksize <= k * m_blocksize
          BY <1>5, <3>4, BlocksApart
        <4>2. m_position + n <= p
          BY <1>7, <3>1, <3>2, <4>1
        <4> QED
          BY <3>1, <4>2
      <3> QED
        BY <1>13, <3>3, <3>4
    <2> QED
      BY <1>3, <1>8, <1>9, <2>1, <2>2
  <1> QED
    BY <1>12, <1>13

LEMMA WritePassFlat ==
    ASSUME ChainInv, ChainInv', WritePass
    PROVE  UNCHANGED Flat!flatVars
  <1>1. /\ op = "write" /\ m_cur # 0 /\ Pass(Step) /\ out' = out
        /\ buf' = SubSeq(buf, Step + 1, Len(buf))
        /\ m_size' = IF Step = size /\ m_position + Step > m_size THEN m_position + Step ELSE m_size
    BY DEF WritePass, Step
  <1>2. /\ m_position' = m_position + Step /\ size' = size - Step
        /\ m_position' + size' = m_position + size
        /\ op' = IF Step = size THEN "none" ELSE op
    BY <1>1, PassEffect
  <1>3. PICK n \in Nat : n = Step /\ n <= size
    BY <1>1, LoopPlace
  <1>4. PICK P \in Nat, z \in Nat, m \in Nat : m_position = P /\ size = z /\ m_size = m
    BY DEF ChainInv, TypeInv
  <1>5. FlatPosition = P + z /\ FlatPosition' = P + z
    BY <1>2, <1>4 DEF FlatPosition
  <1>6. FlatSize' = FlatSize
    <2>1. FlatSize = IF P + z > m THEN P + z ELSE m
      BY <1>1, <1>4, <1>5 DEF FlatSize
    <2>2. CASE n = z
      <3>1. op' = "none" /\ m_size' = IF P + z > m THEN P + z ELSE m
        BY <1>1, <1>2, <1>3, <1>4, <2>2
      <3> QED
        BY <2>1, <3>1 DEF FlatSize
    <2>3. CASE n # z
      <3>1. op' = "write" /\ m_size' = m
        BY <1>1, <1>2, <1>3, <1>4, <2>3
      <3> QED
        BY <1>5, <2>1, <3>1 DEF FlatSize
    <2> QED
      BY <2>2, <2>3
  <1>7. PICK F \in Nat : FlatSize = F /\ F <= m_capacity
    BY FlatShaped DEF FlatShape
  <1>8. buf \in Seq(Byte) /\ Len(buf) = z
    BY <1>1, <1>4 DEF ChainInv, TypeInv, LoopInv
  <1>9. \A i \in 1..z - n : buf'[i] = buf[n + i]
    <2>1. buf' = SubSeq(buf, n + 1, Len(buf))
      BY <1>1, <1>3
    <2>2. buf \in Seq(Byte)
      BY <1>8
    <2>3. \A i \in 1..Len(buf) - n : buf'[i] = buf[n + i]
      BY <2>1, <2>2, Suffix
    <2> QED
      BY <1>8, <2>3
  <1>10. FlatData = [i \in 1..F |-> IF i - 1 \in P..P + z - 1 THEN buf[i - P] ELSE ByteAt(i - 1)]
    BY <1>1, <1>4, <1>5, <1>7 DEF FlatData
  <1>11. FlatData' = [i \in 1..F |-> IF op' = "write" /\ i - 1 \in P + n..P + z - 1
                                     THEN buf'[i - (P + n)] ELSE ByteAt(i - 1)']
    BY <1>2, <1>3, <1>4, <1>5, <1>6, <1>7 DEF FlatData
  <1>12. ASSUME NEW i \in 1..F
         PROVE  (IF op' = "write" /\ i - 1 \in P + n..P + z - 1
                 THEN buf'[i - (P + n)] ELSE ByteAt(i - 1)')
                = (IF i - 1 \in P..P + z - 1 THEN buf[i - P] ELSE ByteAt(i - 1))
    <2>1. i - 1 \in Nat /\ i - 1 < m_capacity
      <3>1. m_capacity \in Nat
        BY DEF ChainInv, TypeInv
      <3> QED
        BY <1>7, <3>1
    <2>2. ByteAt(i - 1)' = IF i - 1 \in P..P + n - 1 THEN buf[i - 1 - P + 1] ELSE ByteAt(i - 1)
      BY <1>3, <1>4, <2>1, WrittenBytes
    <2>3. n <= z /\ (n # z => op' = "write")
      BY <1>1, <1>2, <1>3, <1>4
    <2>4. CASE i - 1 \in P + n..P + z - 1
      <3>1. op' = "write" /\ i - (P + n) \in 1..z - n /\ n + (i - (P + n)) = i - P
        BY <2>3, <2>4
      <3>2. buf'[i - (P + n)] = buf[i - P]
        BY <1>9, <3>1
      <3>3. i - 1 \in P..P + z - 1
        BY <2>4
      <3> QED
        BY <2>4, <3>1, <3>2, <3>3
    <2>5. CASE i - 1 \in P..P + n - 1
      <3>1. i - 1 - P + 1 = i - P /\ i - 1 \in P..P + z - 1 /\ i - 1 \notin P + n..P + z - 1
        BY <2>3, <2>5
      <3> QED
        BY <2>2, <2>5, <3>1
    <2>6. CASE i - 1 \notin P..P + z - 1
      <3>1. i - 1 \notin P + n..P + z - 1 /\ i - 1 \notin P..P + n - 1
        BY <2>3, <2>6
      <3> QED
        BY <2>2, <2>6, <3>1
    <2> QED
      BY <2>3, <2>4, <2>5, <2>6
  <1>13. FlatData' = FlatData
    BY <1>10, <1>11, <1>12
  <1>14. FlatOut' = FlatOut
    BY <1>1, <1>2 DEF FlatOut, Crashed
  <1> QED
    BY <1>5, <1>13, <1>14 DEF Flat!flatVars

\* What a pass of read copies is the next part of the string.
LEMMA CopiedBytes ==
    ASSUME ChainInv, op # "none", m_cur # 0
    PROVE  Bytes(m_cur, npos, Step) = Data(m_position, Step)
  <1>1. PICK n \in Nat : n = Step /\ npos + n <= m_blocksize
    BY LoopPlace
  <1>2. PICK k \in Nat : k = m_cur - 1 /\ m_position = k * m_blocksize + npos
    <2>1. m_cur - 1 \in Nat
      BY LoopPlace DEF ChainInv, TypeInv
    <2> QED
      BY <2>1, LoopPlace
  <1>3. PICK a \in Offsets : a = npos
    BY LoopPlace
  <1>4. k + 1 = m_cur /\ k * m_blocksize \in Nat
    BY <1>2, BlockTimes DEF ChainInv, TypeInv
  <1>5. ASSUME NEW i \in 1..n
        PROVE  nodes[m_cur][a + i - 1] = ByteAt(m_position + i - 1)
    <2>1. a + i - 1 \in Offsets
      BY <1>1, <1>3, BlockAssumption DEF Offsets
    <2>2. m_position + i - 1 = k * m_blocksize + (a + i - 1)
      BY <1>2, <1>3, <1>4, BlockAssumption DEF Offsets
    <2> QED
      BY <1>4, <2>1, <2>2, ByteOfPlace
  <1> QED
    BY <1>1, <1>3, <1>5 DEF Bytes, Data

LEMMA DataTyped ==
    ASSUME ChainInv, NEW p \in Nat, NEW n \in Nat, p + n <= m_capacity
    PROVE  Data(p, n) \in Seq(Byte) /\ Len(Data(p, n)) = n
  <1>1. PICK r : r = [i \in 1..n |-> ByteAt(p + i - 1)]
    OBVIOUS
  <1>2. ASSUME NEW i \in 1..n PROVE ByteAt(p + i - 1) \in Byte
    <2>1. p + i - 1 \in Nat /\ p + i - 1 < m_capacity
      <3>1. m_capacity \in Nat
        BY DEF ChainInv, TypeInv
      <3> QED
        BY <3>1
    <2> QED
      BY <2>1, BytesTyped
  <1>3. r \in [1..n -> Byte]
    BY <1>1, <1>2
  <1>4. r \in Seq(Byte)
    BY <1>3, SeqDef
  <1>5. Len(r) = n
    BY <1>3, <1>4
  <1> QED
    BY <1>1, <1>4, <1>5 DEF Data

\* The string in two parts.
LEMMA DataParts ==
    ASSUME ChainInv, NEW p \in Nat, NEW n \in Nat, NEW l \in Nat, p + n + l <= m_capacity
    PROVE  Data(p, n) \o Data(p + n, l) = Data(p, n + l)
  <1>1. PICK c \in Nat : c = m_capacity /\ p + n + l <= c
    BY DEF ChainInv, TypeInv
  <1>2. p + n \in Nat /\ n + l \in Nat /\ p + n <= c /\ (p + n) + l <= c /\ p + (n + l) <= c
    BY <1>1
  <1>3. PICK a, b, d : a = Data(p, n) /\ b = Data(p + n, l) /\ d = Data(p, n + l)
    OBVIOUS
  <1>4. a \in Seq(Byte) /\ Len(a) = n
    BY <1>1, <1>2, <1>3, DataTyped
  <1>5. b \in Seq(Byte) /\ Len(b) = l
    BY <1>1, <1>2, <1>3, DataTyped
  <1>6. d \in Seq(Byte) /\ Len(d) = n + l
    BY <1>1, <1>2, <1>3, DataTyped
  <1>7. /\ \A i \in 1..n : a[i] = ByteAt(p + i - 1)
        /\ \A i \in 1..l : b[i] = ByteAt(p + n + i - 1)
        /\ \A i \in 1..n + l : d[i] = ByteAt(p + i - 1)
    BY <1>3 DEF Data
  <1>8. PICK t : t = a \o b
    OBVIOUS
  <1>9. a \in Seq(Byte) /\ b \in Seq(Byte)
    BY <1>4, <1>5
  <1>10. /\ t \in Seq(Byte) /\ Len(t) = Len(a) + Len(b)
         /\ \A i \in 1..Len(a) + Len(b) : t[i] = IF i <= Len(a) THEN a[i] ELSE b[i - Len(a)]
    BY <1>8, <1>9, ConcatProperties
  <1>11. Len(t) = n + l /\ \A i \in 1..n + l : t[i] = IF i <= n THEN a[i] ELSE b[i - n]
    BY <1>4, <1>5, <1>10
  <1>12. ASSUME NEW i \in 1..n + l PROVE t[i] = d[i]
    <2>1. CASE i <= n
      BY <1>7, <1>11, <2>1
    <2>2. CASE ~(i <= n)
      <3>1. i - n \in 1..l /\ p + n + (i - n) - 1 = p + i - 1
        BY <2>2
      <3>2. t[i] = b[i - n] /\ b[i - n] = ByteAt(p + n + (i - n) - 1)
        BY <1>7, <1>11, <2>2, <3>1
      <3> QED
        BY <1>7, <3>1, <3>2
    <2> QED
      BY <2>1, <2>2
  <1>13. t = d
    BY <1>6, <1>10, <1>11, <1>12, SeqEqual
  <1> QED
    BY <1>3, <1>8, <1>13

\* Concatenation is associative.
Regroups(Q) == \A a, x, y \in Q : (a \o x) \o y = a \o (x \o y)

LEMMA SeqRegroups == \A U : Regroups(Seq(U))
  BY ConcatAssociative, Zenon DEF Regroups

LEMMA ReadPassFlat ==
    ASSUME ChainInv, ChainInv', ReadPass
    PROVE  UNCHANGED Flat!flatVars
  <1>1. /\ op = "read" /\ m_cur # 0 /\ Pass(Step) /\ nodes' = nodes /\ m_size' = m_size
        /\ buf' = IF Step = size THEN <<>> ELSE buf \o Bytes(m_cur, npos, Step)
        /\ out' = IF Step = size THEN buf \o Bytes(m_cur, npos, Step) ELSE out
    BY DEF ReadPass, Step
  <1>2. /\ m_position' = m_position + Step /\ size' = size - Step
        /\ m_position' + size' = m_position + size
        /\ op' = IF Step = size THEN "none" ELSE op
        /\ op' # "none" => m_cur' # 0
    BY <1>1, PassEffect
  <1>3. PICK n \in Nat : n = Step /\ n <= size
    BY <1>1, LoopPlace
  <1>4. PICK P \in Nat, z \in Nat : m_position = P /\ size = z /\ P + z <= m_capacity
    BY <1>1 DEF ChainInv, TypeInv, LoopInv
  <1>5. FlatPosition' = FlatPosition
    BY <1>2 DEF FlatPosition
  <1>6. op' # "write"
    BY <1>1, <1>2
  <1>7. ASSUME NEW p PROVE ByteAt(p)' = ByteAt(p)
    BY <1>1 DEF ByteAt, BlockOf
  <1>8. FlatData' = FlatData
    <2>1. FlatSize' = FlatSize
      BY <1>1, <1>6 DEF FlatSize
    <2>2. FlatData = [i \in 1..FlatSize |-> ByteAt(i - 1)]
      BY <1>1 DEF FlatData
    <2>3. FlatData' = [i \in 1..FlatSize |-> ByteAt(i - 1)']
      BY <1>6, <2>1 DEF FlatData
    <2> QED
      BY <1>7, <2>2, <2>3
  <1>9. Bytes(m_cur, npos, Step) = Data(P, n)
    BY <1>1, <1>3, <1>4, CopiedBytes
  <1>10. FlatOut = buf \o Data(P, z)
    BY <1>1, <1>4 DEF FlatOut, Crashed
  <1>11. CASE n = z
    <2>1. FlatOut' = buf \o Data(P, z)
      BY <1>1, <1>2, <1>3, <1>4, <1>9, <1>11 DEF FlatOut, Crashed
    <2> QED
      BY <1>5, <1>8, <1>10, <2>1 DEF Flat!flatVars
  <1>12. CASE n # z
    <2>1. PICK l \in Nat : l = z - n /\ n + l = z /\ P + n + l <= m_capacity
      <3>1. z - n \in Nat /\ n + (z - n) = z /\ P + n + (z - n) = P + z
        BY <1>3, <1>4
      <3> QED
        BY <1>4, <3>1
    <2>2. /\ op' = "read" /\ buf' = buf \o Data(P, n) /\ m_position' = P + n /\ size' = l
          /\ m_cur' # 0
      BY <1>1, <1>2, <1>3, <1>4, <1>9, <1>12, <2>1
    <2>3. Data(m_position, size)' = Data(P + n, l)
      BY <1>7, <2>2 DEF Data
    <2>4. FlatOut' = (buf \o Data(P, n)) \o Data(P + n, l)
      BY <2>2, <2>3 DEF FlatOut, Crashed
    <2>5. Data(P, n) \o Data(P + n, l) = Data(P, z)
      <3>1. P + n + l <= m_capacity
        BY <2>1
      <3>2. Data(P, n) \o Data(P + n, l) = Data(P, n + l)
        BY <3>1, DataParts
      <3> QED
        BY <2>1, <3>2
    <2>6. buf \in Seq(Byte) /\ Data(P, n) \in Seq(Byte) /\ Data(P + n, l) \in Seq(Byte)
      <3>1. P + n \in Nat /\ P + n <= m_capacity
        <4>1. m_capacity \in Nat
          BY DEF ChainInv, TypeInv
        <4> QED
          BY <2>1, <4>1
      <3> QED
        BY <2>1, <3>1, DataTyped DEF ChainInv, TypeInv
    <2>7. (buf \o Data(P, n)) \o Data(P + n, l) = buf \o (Data(P, n) \o Data(P + n, l))
      <3>1. Regroups(Seq(Byte))
        BY SeqRegroups, Zenon
      <3> QED
        BY <2>6, <3>1, Zenon DEF Regroups
    <2> QED
      BY <1>5, <1>8, <1>10, <2>4, <2>5, <2>7 DEF Flat!flatVars
  <1> QED
    BY <1>11, <1>12

LEMMA NextFlat == ChainInv /\ ChainInv' /\ [Next]_vars => [Flat!Next]_Flat!flatVars
  <1> SUFFICES ASSUME ChainInv, ChainInv', [Next]_vars PROVE [Flat!Next]_Flat!flatVars
    OBVIOUS
  <1>1. ASSUME NEW f \in Fields, Write(WriteField(f, m_endian)) PROVE Flat!Next
    BY <1>1, FieldBytes, WriteFlat DEF Flat!Next
  <1>2. ASSUME NEW val \in BOOLEAN, SetIsLittleEndian(val) PROVE UNCHANGED Flat!flatVars
    BY <1>2, StutterFlat DEF SetIsLittleEndian, loopVars
  <1>3. ASSUME NEW n \in 0..MaxRead, Read(n) PROVE [Flat!Next]_Flat!flatVars
    <2>1. n \in 0..MaxCapacity + 1 /\ n \in Nat
      BY ByteBounds
    <2> QED
      BY <1>3, <2>1, ReadFlat DEF Flat!Next
  <1>4. ASSUME NEW n \in 1..MaxRead, AddCapacity(n) PROVE Flat!Next
    <2>1. n \in Nat
      BY ByteBounds
    <2> QED
      BY <1>4, <2>1, AddCapacityFlat DEF Flat!Next
  <1>5. CASE WritePass
    BY <1>5, WritePassFlat
  <1>6. CASE ReadPass
    BY <1>6, ReadPassFlat
  <1>7. ASSUME NEW val \in 0..MaxCapacity + 1, SetPosition(val) PROVE Flat!Next
    BY <1>7, SetPositionFlat, ByteBounds DEF Flat!Next
  <1>8. CASE Clear
    BY <1>8, ClearFlat DEF Flat!Next
  <1>9. CASE UNCHANGED vars
    BY <1>9, StutterFlat DEF vars
  <1> QED
    BY <1>1, <1>2, <1>3, <1>4, <1>5, <1>6, <1>7, <1>8, <1>9 DEF Next

\* The calls of ByteArray, a read of nothing among them, implement one string with a
\* position, for any block size: each call is one step of FlatBytes, taken when it
\* begins, and the passes of its loop over the blocks do not show.  A call that
\* crashes, which only a read of nothing at the end of the last block does, returns
\* nothing and is the last one.
THEOREM FlatBytesCorrect == Spec => ImplementsFlatBytes
  <1>1. Init => Flat!Init
    BY InitFlat
  <1>2. ChainInv /\ ChainInv' /\ [Next]_vars => [Flat!Next]_Flat!flatVars
    BY NextFlat
  <1> QED
    BY <1>1, <1>2, ChainAlways, PTL DEF Spec, ImplementsFlatBytes, Flat!Spec

-----------------------------------------------------------------------------
(* toString *)

\* A set of natural numbers has a smallest one, which is what Min chooses.
LEMMA MinOfNats ==
    ASSUME NEW I, I \subseteq Nat, I # {}
    PROVE  Min(I) \in I /\ \A y \in I : Min(I) <= y
  <1> DEFINE lt == OpToRel(<, Nat)
  <1>1. PICK x \in I : \A y \in I : ~(<<y, x>> \in lt)
    <2> HIDE DEF lt
    <2>1. IsWellFoundedOn(lt, Nat)
      BY NatLessThanWellFounded DEF lt
    <2> QED
      BY <2>1, WFMin, Zenon
  <1>2. \A y \in I : x <= y
    <2> SUFFICES ASSUME NEW y \in I PROVE x <= y
      OBVIOUS
    <2>1. ~(y < x)
      BY <1>1 DEF lt, OpToRel
    <2> QED
      BY <2>1
  <1> QED
    BY <1>1, <1>2 DEF Min

\* The bytes of a block from the place of p on are those of the string from p on.
LEMMA BytesData ==
    ASSUME NEW p \in Nat, NEW n \in Nat, (p % m_blocksize) + n <= m_blocksize
    PROVE  Bytes(BlockOf(p), p % m_blocksize, n) = Data(p, n)
  <1>1. PICK k \in Nat, a \in Offsets : /\ k = p \div m_blocksize /\ a = p % m_blocksize
                                        /\ p = k * m_blocksize + a
    BY DivMod
  <1>2. k * m_blocksize \in Nat /\ a + n <= m_blocksize
    BY <1>1, BlockTimes
  <1>3. ASSUME NEW i \in 1..n
        PROVE  nodes[k + 1][a + i - 1] = ByteAt(p + i - 1)
    <2>1. a + i - 1 \in Offsets
      BY <1>2, BlockAssumption DEF Offsets
    <2>2. p + i - 1 = k * m_blocksize + (a + i - 1)
      BY <1>1, <1>2, BlockAssumption DEF Offsets
    <2> QED
      BY <2>1, <2>2, ByteOfPlace
  <1> QED
    BY <1>1, <1>3 DEF Bytes, Data, BlockOf

\* The block behind the one of p.
LEMMA NextPlace ==
    ASSUME ChainInv, NEW p \in Nat, NEW n \in Nat, (p % m_blocksize) + n = m_blocksize,
           p + n < m_capacity
    PROVE  NextNode(BlockOf(p), nodes) = BlockOf(p + n) /\ (p + n) % m_blocksize = 0
  <1>1. PICK k \in Nat, a \in Offsets : /\ k = p \div m_blocksize /\ a = p % m_blocksize
                                        /\ p = k * m_blocksize + a
    BY DivMod
  <1>2. /\ k * m_blocksize \in Nat /\ k + 1 \in Nat
        /\ (k + 1) * m_blocksize = k * m_blocksize + m_blocksize
    BY BlockTimes
  <1>3. p + n = (k + 1) * m_blocksize + 0 /\ 0 \in Offsets /\ p + n \in Nat
    BY <1>1, <1>2, BlockAssumption DEF Offsets
  <1>4. (p + n) \div m_blocksize = k + 1 /\ (p + n) % m_blocksize = 0
    <2>1. PICK q \in Nat : q = k + 1
      BY <1>2
    <2>2. p + n = q * m_blocksize + 0
      BY <1>3, <2>1
    <2>3. (q * m_blocksize + 0) \div m_blocksize = q /\ (q * m_blocksize + 0) % m_blocksize = 0
      BY <1>3, DivUnique
    <2> QED
      BY <2>1, <2>2, <2>3
  <1>5. BlockOf(p) = k + 1 /\ BlockOf(p + n) = (k + 1) + 1
    BY <1>1, <1>4 DEF BlockOf
  <1>6. PICK L \in Nat : L = Len(nodes) /\ m_capacity = L * m_blocksize
    BY DEF ChainInv, TypeInv, ChainIsSound, SizesAgree
  <1>7. (k + 1) + 1 \in 1..L
    BY <1>3, <1>5, <1>6, BlockInside
  <1>8. k + 1 < L
    BY <1>6, <1>7
  <1> QED
    BY <1>4, <1>5, <1>6, <1>8 DEF NextNode

\* The local copies s have d of the n bytes behind the position, and are at the
\* place of the next one.
CopyAt(s, n, d) ==
    /\ d \in 0..n /\ s.left = n - d /\ s.bytes = Data(m_position, d)
    /\ s.npos \in Offsets
    /\ d < n => s.cur = BlockOf(m_position + d) /\ s.npos = (m_position + d) % m_blocksize

\* A pass copies at least a byte, as long as one is left, and stays at its place.
LEMMA PassCopies ==
    ASSUME ChainInv, NEW n \in Nat, m_position + n <= m_capacity,
           NEW d \in Nat, NEW s, CopyAt(s, n, d)
    PROVE  \E e \in Nat : /\ CopyAt(CopyPass(s), n, e)
                          /\ e >= d /\ (d < n => e > d)
  <1>1. PICK P \in Nat, C \in Nat : P = m_position /\ C = m_capacity /\ P + n <= C
    BY DEF ChainInv, TypeInv
  <1>2. PICK o \in Offsets : o = s.npos
    BY DEF CopyAt
  <1>3. PICK l \in Nat : l = s.left /\ d + l = n
    <2>1. n - d \in Nat /\ d + (n - d) = n
      BY DEF CopyAt
    <2> QED
      BY <2>1 DEF CopyAt
  <1>4. PICK k \in Nat : /\ k = (IF m_blocksize - o >= l THEN l ELSE m_blocksize - o)
                         /\ k <= l /\ o + k <= m_blocksize
                         /\ (k < l => o + k = m_blocksize) /\ (l > 0 => k > 0)
    <2>1. PICK r \in Nat : r = m_blocksize - o /\ r > 0 /\ o + r = m_blocksize /\ o \in Nat
      BY BlockAssumption DEF Offsets
    <2>2. CASE r >= l
      <3>1. o + l <= m_blocksize
        BY <2>1, <2>2, BlockAssumption
      <3> QED
        BY <2>1, <2>2, <3>1
    <2>3. CASE ~(r >= l)
      <3>1. r <= l /\ o + r <= m_blocksize
        BY <2>1, <2>3, BlockAssumption
      <3> QED
        BY <2>1, <2>3, <3>1
    <2> QED
      BY <2>2, <2>3
  <1>5. PICK t : t = CopyPass(s)
    OBVIOUS
  <1>6. /\ t.cur = IF o + k = m_blocksize THEN NextNode(s.cur, nodes) ELSE s.cur
        /\ t.npos = 0 /\ t.left = l - k
        /\ t.bytes = s.bytes \o Bytes(s.cur, o, k)
    BY <1>2, <1>3, <1>4, <1>5 DEF CopyPass
  <1>7. PICK e \in Nat : e = d + k /\ e <= n /\ l - k = n - e
    BY <1>3, <1>4
  <1>8. P + d \in Nat /\ (P + d) + k = P + e /\ P + e <= C
    BY <1>1, <1>7
  <1>9. t.bytes = Data(P, e)
    <2>1. s.bytes = Data(P, d)
      BY <1>1 DEF CopyAt
    <2>2. Bytes(s.cur, o, k) = Data(P + d, k)
      <3>1. CASE d < n
        <4>1. s.cur = BlockOf(P + d) /\ o = (P + d) % m_blocksize
          BY <1>1, <1>2, <3>1 DEF CopyAt
        <4> QED
          BY <1>4, <1>8, <4>1, BytesData
      <3>2. CASE ~(d < n)
        <4>1. k = 0
          BY <1>3, <1>4, <3>2
        <4> QED
          BY <4>1 DEF Bytes, Data
      <3> QED
        BY <3>1, <3>2
    <2>3. P + d + k <= m_capacity
      BY <1>1, <1>8
    <2>4. Data(P, d) \o Data(P + d, k) = Data(P, d + k)
      BY <2>3, DataParts
    <2> QED
      BY <1>6, <1>7, <2>1, <2>2, <2>4
  <1>10. ASSUME e < n PROVE t.cur = BlockOf(P + e) /\ t.npos = (P + e) % m_blocksize
    <2>1. o + k = m_blocksize /\ d < n /\ P + e < C
      BY <1>1, <1>3, <1>4, <1>7, <1>10
    <2>2. s.cur = BlockOf(P + d) /\ o = (P + d) % m_blocksize
      BY <1>1, <1>2, <2>1 DEF CopyAt
    <2>3. PICK p \in Nat : p = P + d /\ p + k = P + e
      BY <1>8
    <2>4. NextNode(BlockOf(p), nodes) = BlockOf(p + k) /\ (p + k) % m_blocksize = 0
      <3>1. (p % m_blocksize) + k = m_blocksize /\ p + k < m_capacity
        BY <1>1, <2>1, <2>2, <2>3
      <3> QED
        BY <3>1, NextPlace
    <2> QED
      BY <1>6, <2>1, <2>2, <2>3, <2>4
  <1>11. e \in 0..n /\ 0 \in Offsets
    BY <1>7, BlockAssumption DEF Offsets
  <1>12. CopyAt(t, n, e)
    BY <1>1, <1>6, <1>7, <1>9, <1>10, <1>11 DEF CopyAt
  <1>13. e >= d /\ (d < n => e > d)
    BY <1>3, <1>4, <1>7
  <1> QED
    BY <1>5, <1>12, <1>13

\* The passes from a on: the recursive function of ReadAt exists.
LEMMA PassesExist ==
    ASSUME NEW a, NEW n \in Nat
    PROVE  \E f : f = [j \in 0..n |-> IF j = 0 THEN a ELSE CopyPass(f[j - 1])]
  <1> DEFINE B == {m \in 0..n : ~\E f : f = [j \in 0..m |-> IF j = 0 THEN a ELSE CopyPass(f[j - 1])]}
  <1> SUFFICES B = {}
    BY n \in 0..n
  <1> SUFFICES ASSUME B # {} PROVE FALSE
    OBVIOUS
  <1>1. PICK m \in B : \A y \in B : m <= y
    <2>1. B \subseteq Nat
      OBVIOUS
    <2> HIDE DEF B
    <2> QED
      BY <2>1, MinOfNats
  <1>2. m \in Nat /\ m <= n
    OBVIOUS
  <1>3. m # 0
    <2> SUFFICES ASSUME m = 0 PROVE FALSE
      OBVIOUS
    <2>1. PICK f : f = [j \in 0..0 |-> a]
      OBVIOUS
    <2>2. f = [j \in 0..0 |-> IF j = 0 THEN a ELSE CopyPass(f[j - 1])]
      BY <2>1
    <2> QED
      BY <2>2
  <1>4. m - 1 \in 0..n /\ ~(m <= m - 1)
    BY <1>2, <1>3
  <1>5. m - 1 \notin B
    BY <1>1, <1>4
  <1>6. PICK f : f = [j \in 0..(m - 1) |-> IF j = 0 THEN a ELSE CopyPass(f[j - 1])]
    BY <1>4, <1>5
  <1>7. PICK g : g = [j \in 0..m |-> IF j = m THEN CopyPass(f[m - 1]) ELSE f[j]]
    OBVIOUS
  <1>8. ASSUME NEW j \in 0..m PROVE g[j] = IF j = 0 THEN a ELSE CopyPass(g[j - 1])
    <2>1. CASE j = m
      <3>1. m - 1 \in 0..m /\ m - 1 # m
        BY <1>2, <1>3
      <3>2. g[m] = CopyPass(f[m - 1]) /\ g[m - 1] = f[m - 1]
        BY <1>2, <1>7, <3>1
      <3> QED
        BY <1>3, <2>1, <3>2
    <2>2. CASE j = 0
      <3>1. 0 \in 0..(m - 1) /\ 0 \in 0..m /\ 0 # m
        BY <1>2, <1>3
      <3> QED
        BY <1>6, <1>7, <2>2, <3>1
    <2>3. CASE j # m /\ j # 0
      <3>1. j \in 0..(m - 1) /\ j - 1 \in 0..m /\ j - 1 # m
        BY <1>2, <2>3
      <3>2. g[j] = f[j] /\ g[j - 1] = f[j - 1]
        BY <1>7, <2>3, <3>1
      <3>3. f[j] = CopyPass(f[j - 1])
        BY <1>6, <2>3, <3>1
      <3> QED
        BY <2>3, <3>2, <3>3
    <2> QED
      BY <2>1, <2>2, <2>3
  <1>9. g = [j \in 0..m |-> IF j = 0 THEN a ELSE CopyPass(g[j - 1])]
    BY <1>7, <1>8
  <1> QED
    BY <1>9

\* read(buf, n, pos) returns the n bytes behind the position, if they are there.
LEMMA ReadAtData ==
    ASSUME ChainInv, NEW n \in Nat, n > 0, m_position + n <= m_capacity
    PROVE  ReadAt(m_position, n) = Data(m_position, n)
  <1>1. PICK a : a = [cur |-> m_cur, npos |-> m_position % m_blocksize, left |-> n, bytes |-> <<>>]
    OBVIOUS
  <1>2. PICK f : /\ f = [j \in 0..n |-> IF j = 0 THEN a ELSE CopyPass(f[j - 1])]
                 /\ ReadAt(m_position, n) = f[n].bytes
    <2> DEFINE Q(f) == f = [j \in 0..n |-> IF j = 0 THEN a ELSE CopyPass(f[j - 1])]
    <2>1. \E f : Q(f)
      BY PassesExist
    <2>2. Q(CHOOSE f : Q(f))
      <3> HIDE DEF Q
      <3> QED
        BY <2>1
    <2>3. ReadAt(m_position, n) = (CHOOSE f : Q(f))[n].bytes
      BY <1>1, Zenon DEF ReadAt, Copy
    <2> QED
      BY <2>2, <2>3
  <1>3. f[0] = a /\ \A j \in 1..n : f[j] = CopyPass(f[j - 1])
    BY <1>2
  <1>4. CopyAt(a, n, 0)
    <2>1. m_position \in Nat /\ m_capacity \in Nat
      BY DEF ChainInv, TypeInv
    <2>2. m_cur = BlockOf(m_position)
      BY <2>1 DEF ChainInv, ChainIsSound, CurIsPosition, CurFor, Crashed
    <2>3. m_position + 0 = m_position /\ n - 0 = n /\ 0 \in 0..n /\ m_position % m_blocksize \in Offsets
      BY <2>1, DivMod
    <2>4. Data(m_position, 0) = <<>>
      BY DEF Data
    <2> QED
      BY <1>1, <2>2, <2>3, <2>4 DEF CopyAt
  <1> DEFINE B == {j \in 0..n : ~\E d \in Nat : d >= j /\ CopyAt(f[j], n, d)}
  <1>5. B = {}
    <2> SUFFICES ASSUME B # {} PROVE FALSE
      OBVIOUS
    <2>1. PICK m \in B : \A y \in B : m <= y
      <3>1. B \subseteq Nat
        OBVIOUS
      <3> HIDE DEF B
      <3> QED
        BY <3>1, MinOfNats
    <2>2. m # 0
      BY <1>3, <1>4
    <2>3. m \in Nat /\ m - 1 \in 0..n /\ ~(m <= m - 1) /\ m \in 1..n
      BY <2>2
    <2>4. m - 1 \notin B
      BY <2>1, <2>3
    <2>5. PICK d \in Nat : d >= m - 1 /\ CopyAt(f[m - 1], n, d)
      BY <2>3, <2>4
    <2>6. PICK e \in Nat : CopyAt(f[m], n, e) /\ e >= d /\ (d < n => e > d)
      BY <1>3, <2>3, <2>5, PassCopies
    <2>7. d <= n
      BY <2>5 DEF CopyAt
    <2>8. e >= m
      BY <2>3, <2>5, <2>6, <2>7
    <2> QED
      BY <2>6, <2>8
  <1>6. PICK d \in Nat : d >= n /\ CopyAt(f[n], n, d)
    <2>1. n \in 0..n
      OBVIOUS
    <2> QED
      BY <1>5, <2>1
  <1>7. d = n /\ f[n].bytes = Data(m_position, d)
    BY <1>6 DEF CopyAt
  <1> QED
    BY <1>2, <1>7

\* toString() returns the readable bytes and nothing else, for any block size and
\* wherever the position is.
THEOREM ToStringCorrect == Spec => []ToStringIsData
  <1>1. ChainInv => ToStringIsData
    <2> SUFFICES ASSUME ChainInv, op = "none" PROVE toString = Data(m_position, GetReadSize)
      BY DEF ToStringIsData
    <2>1. PICK p \in Nat, z \in Nat, c \in Nat : /\ p = m_position /\ z = m_size /\ c = m_capacity
                                                 /\ p <= z /\ z <= c
      BY DEF ChainInv, TypeInv, LoopInv
    <2>2. PICK n \in Nat : n = GetReadSize /\ p + n <= c
      <3>1. z - p \in Nat /\ p + (z - p) = z
        BY <2>1
      <3> QED
        BY <2>1, <3>1 DEF GetReadSize
    <2>3. CASE n = 0
      BY <2>2, <2>3 DEF toString, Data
    <2>4. CASE n # 0
      <3>1. n > 0 /\ m_position + n <= m_capacity
        BY <2>1, <2>2, <2>4
      <3> QED
        BY <2>2, <2>4, <3>1, ReadAtData DEF toString
    <2> QED
      BY <2>3, <2>4
  <1> QED
    BY <1>1, ChainAlways, PTL
=============================================================================
