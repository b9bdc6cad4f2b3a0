----------------------------- MODULE HttpProofs -----------------------------
(***************************************************************************)
(* Proofs about HttpClient and HttpServer, which read the same messages    *)
(* (HttpMessage).  Of the client, for any fibers, with the pool or         *)
(* without, any connections, limits and answers, in any number of pieces:  *)
(* who has a connection, what m_total counts, and that an answer belongs   *)
(* to its request.  Of the server, for any sessions and any changes to the *)
(* dispatch: that a request is read as it was sent, and that a servlet     *)
(* that was taken back answers nothing.                                    *)
(***************************************************************************)
EXTENDS HttpClient, HttpServer, FiniteSetTheorems, SequenceTheorems, WellFoundedInduction,
        NaturalsInduction, TLAPS

-----------------------------------------------------------------------------
(* Who has a connection *)

\* The types of what decides who has a connection; m_total might be negative.
TypeInt ==
    /\ clock \in 0..MaxClock
    /\ m_conns \in Seq(Conns) /\ m_total \in Int
    /\ pc \in [All -> PCs]
    /\ invalid \in [All -> SUBSET Conns]
    /\ conn \in [All -> Conns \cup {NoConn}]
    /\ m_createTime \in [Conns -> Nat]

\* A fiber has a connection from getConnection to releasePtr, and connections to
\* delete only between the two halves of getConnection, which the pool's do.
PlaceOK(f) ==
    /\ pc[f] \in {"idle", "get", "connect"} => conn[f] = NoConn
    /\ pc[f] \in {"send", "recv", "release", "push"} => conn[f] \in Conns
    /\ pc[f] # "sweep" => invalid[f] = {}
    /\ f \in Direct => pc[f] \notin {"get", "sweep", "push"}
PlaceInv == \A f \in All : PlaceOK(f)

\* No connection is in two places: twice in the list, with two fibers, with one as
\* its connection and to be deleted, or in the list and with a fiber.
Once == \A i, j \in DOMAIN m_conns : m_conns[i] = m_conns[j] => i = j
NotPooled(f) == conn[f] \notin Pooled /\ invalid[f] \cap Pooled = {}
Apart(f, g) ==
    /\ conn[f] # NoConn => conn[f] \notin invalid[g] /\ (f # g => conn[g] # conn[f])
    /\ f # g => invalid[f] \cap invalid[g] = {}
HeldInv ==
    /\ Once
    /\ \A f \in All : NotPooled(f)
    /\ \A f, g \in All : Apart(f, g)

\* A connection that somebody has is not free to be made anew.
AliveInv ==
    /\ \A i \in DOMAIN m_conns : m_conns[i] \notin Free
    /\ \A f \in All : conn[f] \notin Free /\ invalid[f] \cap Free = {}

\* The connections that m_total counts.
Counted == Pooled \cup {conn[f] : f \in {g \in Fibers : conn[g] # NoConn}}
                  \cup UNION {invalid[f] : f \in Fibers}

IInv == TypeInt /\ PlaceInv /\ HeldInv /\ AliveInv /\ TotalCounts

-----------------------------------------------------------------------------
(* Lemmas *)

\* A set of natural numbers has a smallest one, which is what Min chooses.
LEMMA MinOfNats ==
    ASSUME NEW I, I \subseteq Nat, I # {}
    PROVE  Min(I) \in I /\ \A y \in I : Min(I) <= y
  <1> DEFINE lt == OpToRel(<, Nat)
  <1>1. PICK x \in I : \A y \in I : ~(<<y, x>> \in lt)
    <2> HIDE DEF lt
    <2>1. IsWellFoundedOn(lt, Nat)
      BY NatLessThanWellFounded DEF lt
    <2> QED
      BY <2>1, WFMin, Zenon
  <1>2. \A y \in I : x <= y
    <2> SUFFICES ASSUME NEW y \in I PROVE x <= y
      OBVIOUS
    <2>1. ~(y < x)
      BY <1>1 DEF lt, OpToRel
    <2> QED
      BY <2>1
  <1> QED
    BY <1>1, <1>2 DEF Min

\* The scan of getConnection ends at a place of the list, or finds none.
LEMMA FirstUsableType ==
    ASSUME m_conns \in Seq(Conns), NEW now
    PROVE  FirstUsable(now) \in 0..Len(m_conns)
  <1> DEFINE I == {i \in 1..Len(m_conns) : Usable(m_conns[i], now)}
  <1>1. Len(m_conns) \in Nat /\ I \subseteq Nat
    OBVIOUS
  <1>2. FirstUsable(now) = IF I # {} THEN Min(I) ELSE 0
    BY DEF FirstUsable, SelectInSeq
  <1>3. I # {} => Min(I) \in I
    <2> HIDE DEF I
    <2> QED
      BY <1>1, MinOfNats
  <1> QED
    BY <1>1, <1>2, <1>3

\* m_total counts finitely many connections.
LEMMA CountedFinite ==
    ASSUME TypeInt
    PROVE  /\ IsFiniteSet(Conns) /\ Counted \subseteq Conns
           /\ IsFiniteSet(Counted) /\ Cardinality(Counted) \in Nat
  <1>1. IsFiniteSet(Conns)
    BY ClientBounds, FS_Interval DEF Conns
  <1>2. Fibers \subseteq All
    BY DEF All
  <1>3. Pooled \subseteq Conns
    BY DEF TypeInt, Pooled
  <1>4. Counted \subseteq Conns
    BY <1>2, <1>3 DEF TypeInt, Counted
  <1> QED
    BY <1>1, <1>4, FS_Subset, FS_CardinalityType

\* The count is TotalCounts.
LEMMA TotalIsCounted == TotalCounts <=> m_total = Cardinality(Counted)
  BY DEF TotalCounts, Counted

\* A step that leaves list, connections and counts alone.
LEMMA Quiet ==
    ASSUME IInv, clock' \in 0..MaxClock, pc' \in [All -> PCs], PlaceInv',
           UNCHANGED <<m_conns, m_total, invalid, conn, m_createTime>>
    PROVE  IInv'
  <1>1. TypeInt'
    BY DEF IInv, TypeInt
  <1>2. Pooled' = Pooled /\ Free' = Free
    BY DEF Pooled, Free
  <1>3. HeldInv'
    BY <1>2 DEF IInv, HeldInv, Once, NotPooled, Apart
  <1>4. AliveInv'
    BY <1>2 DEF IInv, AliveInv
  <1>5. TotalCounts'
    BY <1>2 DEF IInv, TotalCounts
  <1> QED
    BY <1>1, <1>3, <1>4, <1>5 DEF IInv

LEMMA InitInv == Init => IInv
  <1> SUFFICES ASSUME Init PROVE IInv
    OBVIOUS
  <1>1. TypeInt /\ PlaceInv /\ HeldInv /\ AliveInv
    <2>1. TypeInt
      BY ClientBounds DEF Init, TypeInt, PCs, Never
    <2>2. PlaceInv
      BY DEF Init, PlaceInv, PlaceOK
    <2>3. Pooled = {} /\ Free = Conns /\ NoConn \notin Conns
      BY DEF Init, Pooled, Free, Conns, NoConn
    <2>4. HeldInv
      BY <2>3 DEF Init, HeldInv, Once, NotPooled, Apart
    <2>5. AliveInv
      BY <2>3 DEF Init, AliveInv
    <2> QED
      BY <2>1, <2>2, <2>4, <2>5
  <1>2. Counted = {}
    <2>1. Pooled = {}
      BY DEF Init, Pooled
    <2>2. {g \in Fibers : conn[g] # NoConn} = {}
      BY DEF Init, All
    <2>3. \A f \in Fibers : invalid[f] = {}
      BY DEF Init, All
    <2> QED
      BY <2>1, <2>2, <2>3 DEF Counted
  <1>3. TotalCounts
    BY <1>2, TotalIsCounted, FS_EmptySet DEF Init
  <1> QED
    BY <1>1, <1>3 DEF IInv

-----------------------------------------------------------------------------
(* The steps *)

\* The steps of requests that have no part in the pool.
LEMMA QuietSteps ==
    ASSUME IInv, NEW f \in All,
           \/ Begin(f) \/ ConnectFails(f) \/ Send(f)
           \/ Read(f) \/ Parse(f) \/ ReadEOF(f) \/ Timeout(f)
    PROVE  IInv'
  <1>1. CASE Begin(f)
    <2>1. pc' \in [All -> PCs] /\ PlaceInv'
      BY <1>1, PoolAssumption DEF Begin, Go, IInv, TypeInt, PCs, PlaceInv, PlaceOK, All
    <2>2. UNCHANGED <<clock, m_conns, m_total, invalid, conn, m_createTime>>
      BY <1>1 DEF Begin, poolVars, connVars
    <2> QED
      BY <2>1, <2>2, Quiet DEF IInv, TypeInt
  <1>2. CASE ConnectFails(f)
    <2>1. pc' \in [All -> PCs] /\ PlaceInv'
      BY <1>2 DEF ConnectFails, Go, IInv, TypeInt, PCs, PlaceInv, PlaceOK, localVars
    <2>2. UNCHANGED <<clock, m_conns, m_total, invalid, conn, m_createTime>>
      BY <1>2 DEF ConnectFails, poolVars, localVars, connVars
    <2> QED
      BY <2>1, <2>2, Quiet DEF IInv, TypeInt
  <1>3. CASE Send(f)
    <2>1. pc' \in [All -> PCs] /\ PlaceInv'
      BY <1>3 DEF Send, Go, IInv, TypeInt, PCs, PlaceInv, PlaceOK
    <2>2. UNCHANGED <<clock, m_conns, m_total, invalid, conn, m_createTime>>
      BY <1>3 DEF Send, poolVars, connVars
    <2> QED
      BY <2>1, <2>2, Quiet DEF IInv, TypeInt
  <1>4. ASSUME pc[f] = "recv", NEW r, Received(f, r) PROVE IInv'
    <2>1. pc' = pc \/ Go(f, "release")
      BY <1>4 DEF Received
    <2>2. UNCHANGED <<clock, m_conns, m_total, invalid, conn, m_createTime>>
      BY <1>4 DEF Received, poolVars
    <2>3. pc' \in [All -> PCs] /\ PlaceInv'
      BY <1>4, <2>1, <2>2 DEF Go, IInv, TypeInt, PCs, PlaceInv, PlaceOK
    <2> QED
      BY <2>2, <2>3, Quiet DEF IInv, TypeInt
  <1>5. CASE Read(f)
    BY <1>4, <1>5 DEF Read
  <1>6. CASE Parse(f)
    BY <1>4, <1>6 DEF Parse
  <1>7. CASE ReadEOF(f)
    BY <1>4, <1>7 DEF ReadEOF
  <1>8. CASE Timeout(f)
    BY <1>4, <1>8 DEF Timeout
  <1> QED
    BY <1>1, <1>2, <1>3, <1>5, <1>6, <1>7, <1>8

\* getConnection: what leaves the list goes to the fiber, to use or to delete.
LEMMA GetStep ==
    ASSUME IInv, NEW f \in All, Get(f)
    PROVE  IInv'
  <1> USE DEF IInv
  <1>1. PICK i \in 0..Len(m_conns) : i = FirstUsable(now_ms[f])
    BY FirstUsableType DEF TypeInt
  <1>2. PICK n \in Nat : n = Len(m_conns)
    BY DEF TypeInt
  <1>3. PICK last \in 0..n : last = IF i = 0 THEN n ELSE i
    BY <1>1, <1>2
  <1>4. PICK taken : taken = {m_conns[k] : k \in 1..last}
    OBVIOUS
  <1>5. PICK c : c = IF i = 0 THEN NoConn ELSE m_conns[i]
    OBVIOUS
  <1>6. /\ pc[f] = "get"
        /\ conn' = [conn EXCEPT ![f] = c]
        /\ invalid' = [invalid EXCEPT ![f] = taken \ {conn'[f]}]
        /\ m_conns' = SubSeq(m_conns, last + 1, n)
        /\ pc' = [pc EXCEPT ![f] = "sweep"]
        /\ UNCHANGED <<clock, m_total, m_createTime>>
    BY <1>1, <1>2, <1>3, <1>4, <1>5 DEF Get, Go, connVars
  <1>7. /\ DOMAIN m_conns = 1..n /\ \A k \in 1..n : m_conns[k] \in Conns
        /\ DOMAIN m_conns' = 1..(n - last)
        /\ \A k \in 1..(n - last) : m_conns'[k] = m_conns[k + last] /\ k + last \in 1..n
        /\ m_conns' \in Seq(Conns)
    <2>1. m_conns \in Seq(Conns) /\ DOMAIN m_conns = 1..n /\ \A k \in 1..n : m_conns[k] \in Conns
      BY <1>2 DEF TypeInt
    <2>2. \A k \in (last + 1)..n : m_conns[k] \in Conns
      BY <2>1, <1>3
    <2>3. /\ m_conns' \in Seq(Conns)
          /\ Len(m_conns') = IF last + 1 <= n THEN n - (last + 1) + 1 ELSE 0
          /\ \A k \in 1..(n - (last + 1) + 1) : m_conns'[k] = m_conns[last + 1 + k - 1]
      <3>1. last + 1 \in Int /\ n \in Int
        BY <1>3
      <3> QED
        BY <2>2, <3>1, <1>6, SubSeqProperties
    <2>4. Len(m_conns') = n - last /\ \A k \in 1..(n - last) : m_conns'[k] = m_conns[last + k]
      <3>1. \A k \in 1..(n - last) : last + 1 + k - 1 = last + k
        BY <1>3
      <3>2. n - (last + 1) + 1 = n - last
        BY <1>3
      <3> QED
        BY <2>3, <3>1, <3>2, <1>3
    <2>5. DOMAIN m_conns' = 1..(n - last)
      BY <2>3, <2>4
    <2>6. \A k \in 1..(n - last) : last + k = k + last /\ k + last \in 1..n
      BY <1>3
    <2> QED
      BY <2>1, <2>3, <2>4, <2>5, <2>6
  <1>8. NoConn \notin Conns
    BY DEF NoConn, Conns
  <1>9. taken \subseteq Conns /\ c \in taken \cup {NoConn}
    BY <1>1, <1>2, <1>3, <1>4, <1>5, <1>7
  <1>10. conn'[f] = c /\ invalid'[f] = taken \ {c} /\ conn[f] = NoConn /\ invalid[f] = {}
    BY <1>6 DEF TypeInt, PlaceInv, PlaceOK
  <1>11. \A g \in All \ {f} : conn'[g] = conn[g] /\ invalid'[g] = invalid[g] /\ pc'[g] = pc[g]
    BY <1>6 DEF TypeInt
  <1>12. TypeInt'
    <2>1. c \in Conns \cup {NoConn} /\ taken \ {c} \subseteq Conns
      BY <1>9
    <2> QED
      BY <1>6, <1>7, <1>10, <2>1 DEF TypeInt, PCs
  <1>13. PlaceInv'
    <2>1. PlaceOK(f)'
      BY <1>6, <1>10 DEF PlaceInv, PlaceOK, TypeInt
    <2>2. \A g \in All \ {f} : PlaceOK(g)'
      BY <1>11 DEF PlaceInv, PlaceOK
    <2> QED
      BY <2>1, <2>2 DEF PlaceInv
  <1>14. Once'
    <2> SUFFICES ASSUME NEW j \in 1..(n - last), NEW k \in 1..(n - last), m_conns'[j] = m_conns'[k]
                 PROVE  j = k
      BY <1>7 DEF Once
    <2>1. j + last = k + last
      BY <1>7 DEF HeldInv, Once
    <2> QED
      BY <2>1, <1>3
  <1>15. Pooled = taken \cup Pooled' /\ taken \cap Pooled' = {}
    <2>1. Pooled' \subseteq Pooled
      BY <1>7 DEF Pooled
    <2>2. taken \subseteq Pooled
      BY <1>3, <1>4, <1>7 DEF Pooled
    <2>3. ASSUME NEW j \in 1..n PROVE m_conns[j] \in taken \cup Pooled'
      <3>1. CASE j <= last
        BY <3>1, <1>3, <1>4
      <3>2. CASE j > last
        <4>1. j - last \in 1..(n - last) /\ (j - last) + last = j
          BY <3>2, <1>3
        <4>2. m_conns'[j - last] = m_conns[j]
          BY <4>1, <1>7
        <4> QED
          BY <4>1, <4>2, <1>7 DEF Pooled
      <3> QED
        BY <3>1, <3>2, <1>3
    <2>4. ASSUME NEW j \in 1..last, NEW k \in 1..(n - last), m_conns[j] = m_conns'[k] PROVE FALSE
      <3>0. /\ j \in DOMAIN m_conns /\ k + last \in DOMAIN m_conns
            /\ m_conns'[k] = m_conns[k + last]
        BY <1>3, <1>7
      <3>1. j = k + last
        BY <2>4, <3>0 DEF HeldInv, Once
      <3> QED
        BY <3>1, <1>3
    <2>5. Pooled = {m_conns[j] : j \in 1..n} /\ Pooled' = {m_conns'[k] : k \in 1..(n - last)}
      BY <1>7 DEF Pooled
    <2>6. taken \cap Pooled' = {}
      BY <2>4, <2>5, <1>4
    <2>7. Pooled \subseteq taken \cup Pooled'
      BY <2>3, <2>5
    <2> QED
      BY <2>1, <2>2, <2>6, <2>7
  <1>16. \A g \in All : NotPooled(g)'
    <2>1. NotPooled(f)'
      <3>1. NoConn \notin Pooled'
        BY <1>7, <1>8 DEF Pooled
      <3> QED
        BY <1>9, <1>10, <1>15, <3>1 DEF NotPooled
    <2>2. \A g \in All \ {f} : NotPooled(g)'
      BY <1>11, <1>15 DEF HeldInv, NotPooled
    <2> QED
      BY <2>1, <2>2
  <1>17. \A g, h \in All : Apart(g, h)'
    <2>1. \A g \in All \ {f} : conn[g] \notin taken /\ invalid[g] \cap taken = {}
      BY <1>15 DEF HeldInv, NotPooled
    <2>2. Apart(f, f)'
      BY <1>10 DEF Apart
    <2>3. \A g \in All \ {f} : Apart(f, g)' /\ Apart(g, f)'
      BY <1>9, <1>10, <1>11, <2>1 DEF Apart
    <2>4. \A g, h \in All \ {f} : Apart(g, h)'
      BY <1>11 DEF HeldInv, Apart
    <2> QED
      BY <2>2, <2>3, <2>4
  <1>18. AliveInv'
    <2>1. Free' = Free
      BY <1>6 DEF Free
    <2>2. \A x \in Pooled : x \notin Free
      BY DEF AliveInv, Pooled
    <2>3. \A k \in DOMAIN m_conns' : m_conns'[k] \notin Free
      BY <1>7, <2>2 DEF AliveInv
    <2>4. conn'[f] \notin Free /\ invalid'[f] \cap Free = {}
      BY <1>8, <1>9, <1>10, <1>15, <2>2 DEF Free
    <2>5. \A g \in All \ {f} : conn'[g] \notin Free /\ invalid'[g] \cap Free = {}
      BY <1>11 DEF AliveInv
    <2> QED
      BY <2>1, <2>3, <2>4, <2>5 DEF AliveInv
  <1>19. Counted' = Counted
    <2>1. f \in Fibers /\ Fibers \subseteq All
      BY <1>6 DEF PlaceInv, PlaceOK, All
    <2>2. ASSUME NEW x PROVE x \in Counted' <=> x \in Counted
      <3>1. x \in Counted <=> \/ x \in Pooled
                              \/ \E g \in Fibers : conn[g] # NoConn /\ x = conn[g]
                              \/ \E g \in Fibers : x \in invalid[g]
        BY DEF Counted
      <3>2. x \in Counted' <=> \/ x \in Pooled'
                               \/ \E g \in Fibers : conn'[g] # NoConn /\ x = conn'[g]
                               \/ \E g \in Fibers : x \in invalid'[g]
        BY DEF Counted
      <3>3. x \in Pooled <=> \/ x \in Pooled'
                             \/ conn'[f] # NoConn /\ x = conn'[f]
                             \/ x \in invalid'[f]
        BY <1>8, <1>9, <1>10, <1>15
      <3> QED
        BY <3>1, <3>2, <3>3, <2>1, <1>10, <1>11
    <2> QED
      BY <2>2
  <1>20. TotalCounts'
    <2>1. TotalCounts' <=> m_total' = Cardinality(Counted')
      BY DEF TotalCounts, Counted
    <2> QED
      BY <1>6, <1>19, <2>1, TotalIsCounted
  <1> QED
    BY <1>12, <1>13, <1>14, <1>16, <1>17, <1>18, <1>20 DEF HeldInv

\* Once more what Counted is, element by element, before and after a step.
LEMMA CountedElements ==
    /\ \A x : x \in Counted <=> \/ x \in Pooled
                                \/ \E g \in Fibers : conn[g] # NoConn /\ x = conn[g]
                                \/ \E g \in Fibers : x \in invalid[g]
    /\ \A x : x \in Counted' <=> \/ x \in Pooled'
                                 \/ \E g \in Fibers : conn'[g] # NoConn /\ x = conn'[g]
                                 \/ \E g \in Fibers : x \in invalid'[g]
    /\ TotalCounts' <=> m_total' = Cardinality(Counted')
  BY DEF Counted, TotalCounts

\* The second half of getConnection deletes what the first took out, and nobody
\* else has any of it.
LEMMA SweepStep ==
    ASSUME IInv, NEW f \in All, Sweep(f)
    PROVE  IInv'
  <1> USE DEF IInv
  <1>1. PICK D : D = invalid[f]
    OBVIOUS
  <1>2. PICK place \in {"connect", "send"} : place = IF conn[f] = NoConn THEN "connect" ELSE "send"
    OBVIOUS
  <1>3. /\ pc[f] = "sweep" /\ pc' = [pc EXCEPT ![f] = place]
        /\ invalid' = [invalid EXCEPT ![f] = {}]
        /\ m_total' = m_total - Cardinality(D)
        /\ m_createTime' = [c \in Conns |-> IF c \in D THEN Never ELSE m_createTime[c]]
        /\ UNCHANGED <<clock, m_conns, conn>>
    BY <1>1, <1>2 DEF Sweep, Delete, Go
  <1>4. f \in Fibers /\ Fibers \subseteq All
    BY <1>3 DEF PlaceInv, PlaceOK, All
  <1>5. D \subseteq Conns /\ Never \in Nat
    BY <1>1, ClientBounds DEF TypeInt, Never
  <1>6. invalid'[f] = {} /\ \A g \in All \ {f} : invalid'[g] = invalid[g] /\ pc'[g] = pc[g]
    BY <1>3 DEF TypeInt
  <1>7. TypeInt'
    <2>1. m_total' \in Int
      <3>1. IsFiniteSet(D)
        BY <1>5, CountedFinite, FS_Subset
      <3>2. Cardinality(D) \in Nat
        BY <3>1, FS_CardinalityType
      <3> QED
        BY <1>3, <3>2 DEF TypeInt
    <2> QED
      BY <1>3, <1>5, <2>1 DEF TypeInt, PCs
  <1>8. PlaceInv'
    <2>1. PlaceOK(f)'
      BY <1>2, <1>3, <1>6 DEF PlaceInv, PlaceOK, TypeInt
    <2>2. \A g \in All \ {f} : PlaceOK(g)'
      BY <1>3, <1>6 DEF PlaceInv, PlaceOK
    <2> QED
      BY <2>1, <2>2 DEF PlaceInv
  <1>9. Pooled' = Pooled /\ D \cap Pooled = {}
    BY <1>1, <1>3 DEF HeldInv, NotPooled, Pooled
  <1>10. \A g \in All : (conn[g] # NoConn => conn[g] \notin D) /\ (g # f => invalid[g] \cap D = {})
    BY <1>1 DEF HeldInv, Apart
  <1>11. HeldInv'
    <2>1. Once'
      BY <1>3 DEF HeldInv, Once
    <2>2. \A g \in All : NotPooled(g)'
      BY <1>3, <1>6, <1>9 DEF HeldInv, NotPooled
    <2>3. \A g \in All : invalid'[g] \subseteq invalid[g]
      BY <1>6
    <2>4. \A g, h \in All : Apart(g, h)'
      BY <1>3, <2>3 DEF HeldInv, Apart
    <2> QED
      BY <2>1, <2>2, <2>4 DEF HeldInv
  <1>12. AliveInv'
    <2>1. \A c \in Conns : c \in Free' => c \in Free \/ c \in D
      BY <1>3 DEF Free
    <2>2. Free' \subseteq Conns /\ NoConn \notin Conns
      BY DEF Free, NoConn, Conns
    <2>3. \A i \in DOMAIN m_conns' : m_conns'[i] \notin Free'
      BY <1>3, <1>9, <2>1, <2>2 DEF AliveInv, Pooled
    <2>4. \A g \in All : conn'[g] \notin Free'
      BY <1>3, <1>10, <2>1, <2>2 DEF AliveInv
    <2>5. \A g \in All : invalid'[g] \cap Free' = {}
      BY <1>6, <1>10, <2>1, <2>2 DEF AliveInv
    <2> QED
      BY <2>3, <2>4, <2>5 DEF AliveInv
  <1>13. Counted' = Counted \ D /\ D \subseteq Counted
    <2>1. D \subseteq Counted
      BY <1>1, <1>4, CountedElements
    <2>2. ASSUME NEW x PROVE x \in Counted' <=> x \in Counted /\ x \notin D
      BY <1>1, <1>3, <1>4, <1>6, <1>9, <1>10, CountedElements
    <2> QED
      BY <2>1, <2>2
  <1>14. TotalCounts'
    <2>1. IsFiniteSet(Counted)
      BY CountedFinite
    <2>2. Cardinality(Counted \ D) = Cardinality(Counted) - Cardinality(Counted \cap D)
      BY <2>1, FS_Difference
    <2>3. Counted \cap D = D
      BY <1>13
    <2> QED
      BY <2>2, <2>3, <1>3, <1>13, CountedElements, TotalIsCounted
  <1> QED
    BY <1>7, <1>8, <1>11, <1>12, <1>14

\* A new connection is one that nobody has.
LEMMA ConnectStep ==
    ASSUME IInv, NEW f \in All, NEW c \in Conns, Connect(f, c)
    PROVE  IInv'
  <1> USE DEF IInv
  <1>1. /\ pc[f] = "connect" /\ pc' = [pc EXCEPT ![f] = "send"] /\ c \in Free
        /\ m_createTime' = [m_createTime EXCEPT ![c] = clock]
        /\ m_total' = IF f \in Fibers THEN m_total + 1 ELSE m_total
        /\ conn' = [conn EXCEPT ![f] = c]
        /\ UNCHANGED <<clock, m_conns, invalid>>
    BY DEF Connect, Go
  <1>2. conn[f] = NoConn /\ invalid[f] = {} /\ conn'[f] = c /\ c # NoConn
    BY <1>1 DEF PlaceInv, PlaceOK, TypeInt, Conns, NoConn
  <1>3. \A g \in All \ {f} : conn'[g] = conn[g] /\ pc'[g] = pc[g]
    BY <1>1 DEF TypeInt
  <1>4. TypeInt'
    BY <1>1, ClientBounds DEF TypeInt, PCs
  <1>5. PlaceInv'
    <2>1. PlaceOK(f)'
      BY <1>1, <1>2 DEF PlaceInv, PlaceOK, TypeInt
    <2>2. \A g \in All \ {f} : PlaceOK(g)'
      BY <1>1, <1>3 DEF PlaceInv, PlaceOK
    <2> QED
      BY <2>1, <2>2 DEF PlaceInv
  <1>6. Pooled' = Pooled /\ c \notin Pooled
    BY <1>1 DEF AliveInv, Pooled
  <1>7. \A g \in All : conn[g] # c /\ c \notin invalid[g]
    BY <1>1 DEF AliveInv
  <1>8. HeldInv'
    <2>1. Once'
      BY <1>1 DEF HeldInv, Once
    <2>2. \A g \in All : NotPooled(g)'
      BY <1>1, <1>2, <1>3, <1>6 DEF HeldInv, NotPooled
    <2>3. \A g, h \in All : Apart(g, h)'
      BY <1>1, <1>2, <1>3, <1>7 DEF HeldInv, Apart
    <2> QED
      BY <2>1, <2>2, <2>3 DEF HeldInv
  <1>9. AliveInv'
    <2>1. Free' = Free \ {c}
      BY <1>1, ClientBounds DEF Free, Never, TypeInt
    <2> QED
      BY <1>1, <1>2, <1>3, <2>1 DEF AliveInv
  <1>10. TotalCounts'
    <2>1. CASE f \in Fibers
      <3>1. Counted' = Counted \cup {c}
        <4>1. ASSUME NEW x PROVE x \in Counted' <=> x \in Counted \/ x = c
          <5>1. Fibers \subseteq All
            BY DEF All
          <5> QED
            BY <2>1, <5>1, <1>1, <1>2, <1>3, <1>6, CountedElements
        <4> QED
          BY <4>1
      <3>2. c \notin Counted
        <4>1. Fibers \subseteq All
          BY DEF All
        <4> QED
          BY <4>1, <1>6, <1>7, CountedElements
      <3>3. Cardinality(Counted \cup {c}) = Cardinality(Counted) + 1
        BY <3>2, CountedFinite, FS_AddElement
      <3> QED
        BY <2>1, <3>1, <3>3, <1>1, CountedElements, TotalIsCounted
    <2>2. CASE f \notin Fibers
      <3>1. Counted' = Counted
        <4>1. ASSUME NEW x PROVE x \in Counted' <=> x \in Counted
          <5>1. Fibers \subseteq All \ {f}
            BY <2>2 DEF All
          <5> QED
            BY <5>1, <1>1, <1>3, <1>6, CountedElements
        <4> QED
          BY <4>1
      <3> QED
        BY <2>2, <3>1, <1>1, CountedElements, TotalIsCounted
    <2> QED
      BY <2>1, <2>2
  <1> QED
    BY <1>4, <1>5, <1>8, <1>9, <1>10

\* The last reference goes away: the connection is deleted and, if it is the pool's,
\* uncounted, or the fiber keeps it until it is back in the list.
LEMMA ReleaseStep ==
    ASSUME IInv, NEW f \in All, Release(f)
    PROVE  IInv'
  <1> USE DEF IInv
  <1>1. PICK c : c = conn[f]
    OBVIOUS
  <1>2. /\ pc[f] = "release" /\ c \in Conns /\ c # NoConn /\ invalid[f] = {}
        /\ UNCHANGED <<clock, m_conns, invalid>>
    BY <1>1 DEF Release, PlaceInv, PlaceOK, Conns, NoConn
  <1>3. CASE f \in Fibers /\ Keeps(f)
    <2>1. pc' = [pc EXCEPT ![f] = "push"] /\ UNCHANGED <<m_total, m_createTime, conn>>
      BY <1>3 DEF Release, Go
    <2>2. pc' \in [All -> PCs]
      BY <2>1 DEF TypeInt, PCs
    <2>3. f \notin Direct
      BY <1>3, PoolAssumption
    <2>4. PlaceInv'
      BY <1>2, <2>1, <2>3 DEF PlaceInv, PlaceOK, TypeInt
    <2> QED
      BY <1>2, <2>1, <2>2, <2>4, Quiet DEF TypeInt
  <1>4. CASE ~(f \in Fibers /\ Keeps(f))
    <2>1. /\ m_createTime' = [d \in Conns |-> IF d \in {c} THEN Never ELSE m_createTime[d]]
          /\ m_total' = IF f \in Fibers THEN m_total - 1 ELSE m_total
          /\ conn' = [conn EXCEPT ![f] = NoConn]
          /\ pc' = [pc EXCEPT ![f] = "idle"]
      BY <1>1, <1>4 DEF Release, Delete, Go
    <2>2. conn'[f] = NoConn /\ \A g \in All \ {f} : conn'[g] = conn[g] /\ pc'[g] = pc[g]
      BY <2>1 DEF TypeInt
    <2>3. TypeInt'
      <3>1. Never \in Nat
        BY ClientBounds DEF Never
      <3> QED
        BY <1>2, <2>1, <3>1 DEF TypeInt, PCs
    <2>4. PlaceInv'
      <3>1. PlaceOK(f)'
        BY <1>2, <2>1, <2>2 DEF PlaceInv, PlaceOK, TypeInt
      <3>2. \A g \in All \ {f} : PlaceOK(g)'
        BY <1>2, <2>2 DEF PlaceInv, PlaceOK
      <3> QED
        BY <3>1, <3>2 DEF PlaceInv
    <2>5. Pooled' = Pooled /\ c \notin Pooled /\ NoConn \notin Pooled
      <3>1. Pooled \subseteq Conns /\ Pooled' = Pooled
        BY <1>2 DEF Pooled, TypeInt
      <3>2. NoConn \notin Conns
        BY DEF NoConn, Conns
      <3> QED
        BY <1>1, <3>1, <3>2 DEF HeldInv, NotPooled
    <2>6. \A g \in All : c \notin invalid[g] /\ (g # f => conn[g] # c)
      BY <1>1, <1>2 DEF HeldInv, Apart
    <2>7. HeldInv'
      <3>1. Once'
        BY <1>2 DEF HeldInv, Once
      <3>2. \A g \in All : NotPooled(g)'
        BY <1>2, <2>2, <2>5 DEF HeldInv, NotPooled
      <3>3. \A g, h \in All : Apart(g, h)'
        BY <1>2, <2>2 DEF HeldInv, Apart
      <3> QED
        BY <3>1, <3>2, <3>3 DEF HeldInv
    <2>8. AliveInv'
      <3>1. \A d : d \in Free' => d \in Conns /\ (d \in Free \/ d = c)
        BY <2>1 DEF Free
      <3>2. NoConn \notin Conns
        BY DEF NoConn, Conns
      <3>3. \A i \in DOMAIN m_conns' : m_conns'[i] \notin Free'
        BY <1>2, <2>5, <3>1 DEF AliveInv, Pooled
      <3>4. \A g \in All : conn'[g] \notin Free'
        BY <2>2, <2>6, <3>1, <3>2 DEF AliveInv
      <3>5. \A g \in All : invalid'[g] \cap Free' = {}
        BY <1>2, <2>6, <3>1 DEF AliveInv
      <3> QED
        BY <3>3, <3>4, <3>5 DEF AliveInv
    <2>9. Fibers \subseteq All
      BY DEF All
    <2>10. TotalCounts'
      <3>1. CASE f \in Fibers
        <4>1. Counted' = Counted \ {c} /\ c \in Counted
          <5>1. c \in Counted
            BY <1>1, <1>2, <3>1, CountedElements
          <5>2. ASSUME NEW x PROVE x \in Counted' <=> x \in Counted /\ x # c
            BY <1>1, <1>2, <3>1, <2>2, <2>5, <2>6, <2>9, CountedElements
          <5> QED
            BY <5>1, <5>2
        <4>2. Cardinality(Counted \ {c}) = Cardinality(Counted) - 1
          BY <4>1, CountedFinite, FS_RemoveElement
        <4> QED
          BY <3>1, <4>1, <4>2, <2>1, CountedElements, TotalIsCounted
      <3>2. CASE f \notin Fibers
        <4>1. ASSUME NEW x PROVE x \in Counted' <=> x \in Counted
          BY <1>2, <3>2, <2>2, <2>5, <2>9, CountedElements
        <4>2. Counted' = Counted
          BY <4>1
        <4> QED
          BY <3>2, <4>2, <2>1, CountedElements, TotalIsCounted
      <3> QED
        BY <3>1, <3>2
    <2> QED
      BY <2>3, <2>4, <2>7, <2>8, <2>10
  <1> QED
    BY <1>3, <1>4

\* releasePtr: the connection goes from the fiber to the end of the list.
LEMMA PushBackStep ==
    ASSUME IInv, NEW f \in All, PushBack(f)
    PROVE  IInv'
  <1> USE DEF IInv
  <1>1. PICK c : c = conn[f]
    OBVIOUS
  <1>2. /\ pc[f] = "push" /\ c \in Conns /\ c # NoConn /\ invalid[f] = {}
        /\ pc' = [pc EXCEPT ![f] = "idle"]
        /\ m_conns' = Append(m_conns, c)
        /\ conn' = [conn EXCEPT ![f] = NoConn]
        /\ UNCHANGED <<clock, m_total, invalid, m_createTime>>
    BY <1>1 DEF PushBack, Go, connVars, PlaceInv, PlaceOK, Conns, NoConn
  <1>3. conn'[f] = NoConn /\ \A g \in All \ {f} : conn'[g] = conn[g] /\ pc'[g] = pc[g]
    BY <1>2 DEF TypeInt
  <1>4. f \in Fibers /\ Fibers \subseteq All
    BY <1>2 DEF PlaceInv, PlaceOK, All
  <1>5. PICK n \in Nat : n = Len(m_conns)
    BY DEF TypeInt
  <1>6. /\ m_conns' \in Seq(Conns) /\ DOMAIN m_conns = 1..n /\ DOMAIN m_conns' = 1..(n + 1)
        /\ m_conns'[n + 1] = c /\ \A i \in 1..n : m_conns'[i] = m_conns[i]
    BY <1>2, <1>5 DEF TypeInt
  <1>7. TypeInt'
    BY <1>2, <1>6 DEF TypeInt, PCs
  <1>8. PlaceInv'
    <2>1. PlaceOK(f)'
      BY <1>2, <1>3 DEF PlaceInv, PlaceOK, TypeInt
    <2>2. \A g \in All \ {f} : PlaceOK(g)'
      BY <1>2, <1>3 DEF PlaceInv, PlaceOK
    <2> QED
      BY <2>1, <2>2 DEF PlaceInv
  <1>9. c \notin Pooled /\ \A g \in All : c \notin invalid[g] /\ (g # f => conn[g] # c)
    BY <1>1, <1>2 DEF HeldInv, NotPooled, Apart
  <1>10. Pooled' = Pooled \cup {c}
    <2>1. Pooled = {m_conns[i] : i \in 1..n} /\ Pooled' = {m_conns'[i] : i \in 1..(n + 1)}
      BY <1>6 DEF Pooled
    <2>2. \A i \in 1..(n + 1) : i \in 1..n \/ i = n + 1
      OBVIOUS
    <2>3. 1..n \subseteq 1..(n + 1) /\ n + 1 \in 1..(n + 1)
      OBVIOUS
    <2> QED
      BY <2>1, <2>2, <2>3, <1>6
  <1>11. NoConn \notin Pooled'
    <2>1. NoConn \notin Conns
      BY DEF NoConn, Conns
    <2>2. \A i \in 1..(n + 1) : m_conns'[i] \in Conns
      BY <1>6
    <2> QED
      BY <1>6, <2>1, <2>2 DEF Pooled
  <1>12. Once'
    <2> SUFFICES ASSUME NEW i \in 1..(n + 1), NEW j \in 1..(n + 1), m_conns'[i] = m_conns'[j]
                 PROVE  i = j
      BY <1>6 DEF Once
    <2>1. CASE i \in 1..n /\ j \in 1..n
      BY <2>1, <1>6 DEF HeldInv, Once
    <2>2. \A k \in 1..n : m_conns'[k] # c
      BY <1>6, <1>9 DEF Pooled
    <2> QED
      BY <2>1, <2>2, <1>6
  <1>13. \A g \in All : NotPooled(g)'
    BY <1>2, <1>3, <1>9, <1>10, <1>11 DEF HeldInv, NotPooled
  <1>14. \A g, h \in All : Apart(g, h)'
    BY <1>2, <1>3 DEF HeldInv, Apart
  <1>15. AliveInv'
    <2>1. Free' = Free /\ NoConn \notin Free /\ c \notin Free
      BY <1>1, <1>2 DEF AliveInv, Free, Conns, NoConn
    <2>2. \A i \in 1..n : m_conns[i] \notin Free
      BY <1>6 DEF AliveInv
    <2>3. \A i \in DOMAIN m_conns' : m_conns'[i] \notin Free'
      BY <1>6, <2>1, <2>2
    <2>4. \A g \in All : conn'[g] \notin Free' /\ invalid'[g] \cap Free' = {}
      BY <1>2, <1>3, <2>1 DEF AliveInv
    <2> QED
      BY <2>3, <2>4 DEF AliveInv
  <1>16. TotalCounts'
    <2>1. ASSUME NEW x PROVE x \in Counted' <=> x \in Counted
      BY <1>1, <1>2, <1>3, <1>4, <1>10, CountedElements
    <2>2. Counted' = Counted
      BY <2>1
    <2> QED
      BY <2>2, <1>2, CountedElements, TotalIsCounted
  <1> QED
    BY <1>7, <1>8, <1>12, <1>13, <1>14, <1>15, <1>16 DEF HeldInv

-----------------------------------------------------------------------------
(* The theorems *)

\* Who has which connection, and what m_total counts, in every reachable state.
THEOREM PoolCorrect == Spec => []IInv
  <1>1. IInv /\ [Next]_vars => IInv'
    <2> SUFFICES ASSUME IInv, [Next]_vars PROVE IInv'
      OBVIOUS
    <2>1. ASSUME NEW f \in All, Begin(f) PROVE IInv'
      BY <2>1, QuietSteps
    <2>2. ASSUME NEW f \in All, FiberStep(f) PROVE IInv'
      BY <2>2, QuietSteps, GetStep, SweepStep, ConnectStep, ReleaseStep, PushBackStep
         DEF FiberStep
    <2>3. ASSUME UNCHANGED <<poolVars, pc, localVars, connVars>>, clock' \in 0..MaxClock
          PROVE  IInv'
      <3>1. UNCHANGED <<m_conns, m_total, pc, invalid, conn, m_createTime>>
        BY <2>3 DEF poolVars, localVars, connVars
      <3>2. PlaceInv'
        BY <3>1 DEF IInv, PlaceInv, PlaceOK
      <3> QED
        BY <2>3, <3>1, <3>2, Quiet DEF IInv, TypeInt
    <2>4. clock \in 0..MaxClock
      BY DEF IInv, TypeInt
    <2>5. ASSUME NEW c \in Conns, PeerClose(c) PROVE IInv'
      BY <2>3, <2>4, <2>5 DEF PeerClose
    <2>6. ASSUME NEW c \in Conns, NEW f \in All, Respond(c, f) PROVE IInv'
      <3>1. UNCHANGED <<clock, poolVars, pc, localVars, connVars>>
        BY <2>6 DEF Respond
      <3> QED
        BY <2>3, <2>4, <3>1
    <2>7. ASSUME Tick PROVE IInv'
      <3>1. clock' \in 0..MaxClock
        BY <2>4, <2>7, ClientBounds DEF Tick
      <3> QED
        BY <2>3, <2>7, <3>1 DEF Tick
    <2>8. ASSUME UNCHANGED vars PROVE IInv'
      BY <2>3, <2>4, <2>8 DEF vars, poolVars, localVars, connVars
    <2> QED
      BY <2>1, <2>2, <2>5, <2>6, <2>7, <2>8 DEF Next
  <1> QED
    BY <1>1, InitInv, PTL DEF Spec

\* The pool hands a connection to one fiber at a time and deletes none that
\* somebody uses: releasePtr, getConnection and the deletions outside its lock
\* never have the same connection twice.
THEOREM HeldOnceCorrect == Spec => []ConnHeldOnce
  <1>1. IInv => ConnHeldOnce
    BY DEF IInv, HeldInv, Once, NotPooled, Apart, ConnHeldOnce
  <1> QED
    BY <1>1, PoolCorrect, PTL

\* m_total, counted up and down outside the lock, is exact between any two steps.
THEOREM TotalCorrect == Spec => []TotalCounts
  <1>1. IInv => TotalCounts
    BY DEF IInv
  <1> QED
    BY <1>1, PoolCorrect, PTL

-----------------------------------------------------------------------------
(* Messages with a body of fixed length *)

\* m_close behind the first k tokens: the Connection field is the second.
CloseAfter(close, k) == IF k < 2 THEN TRUE ELSE close

\* The receiver behind the first k tokens of a message with a body of n bytes.
Taken(id, close, n, k) ==
    IF k < 3 THEN Receiver("head", <<>>, <<>>, 0, CloseAfter(close, k))
    ELSE Receiver(IF k = n + 3 THEN "done" ELSE "fixed", <<>>, Bytes(id, 0, k - 3), n + 3 - k, close)

\* The tokens of a message with a body of fixed length.
LEMMA FixedTokens ==
    ASSUME NEW id, NEW close \in BOOLEAN, NEW n \in Nat
    PROVE  LET w == FixedWire(id, close, n) IN
           /\ \E T : w \in Seq(T)
           /\ Len(w) = n + 3
           /\ w[1] = Line /\ w[2] = Connection(close) /\ w[3] = Fixed(n)
           /\ \A i \in 4..n + 3 : w[i] = <<"byte", id, i - 3>>
  <1> DEFINE a == <<Line, Connection(close), Fixed(n)>>
             b == Bytes(id, 0, n)
             T == {Line, Connection(close), Fixed(n)} \cup {<<"byte", id, i>> : i \in 1..n}
  <1>1. a \in Seq(T) /\ Len(a) = 3 /\ a[1] = Line /\ a[2] = Connection(close) /\ a[3] = Fixed(n)
    <2> HIDE DEF T
    <2>1. Line \in T /\ Connection(close) \in T /\ Fixed(n) \in T
      BY DEF T
    <2> QED
      BY <2>1
  <1>2. b \in Seq(T) /\ Len(b) = n /\ \A i \in 1..n : b[i] = <<"byte", id, i>>
    <2>1. b \in [1..n -> T] /\ \A i \in 1..n : b[i] = <<"byte", id, i>>
      BY DEF Bytes
    <2> HIDE DEF T, b
    <2> QED
      BY <2>1
  <1> HIDE DEF a, b, T
  <1>3. FixedWire(id, close, n) = a \o b
    BY DEF FixedWire, a, b
  <1>4. /\ a \o b \in Seq(T) /\ Len(a \o b) = Len(a) + Len(b)
        /\ \A i \in 1..Len(a) + Len(b) : (a \o b)[i] = IF i <= Len(a) THEN a[i] ELSE b[i - Len(a)]
    BY <1>1, <1>2, ConcatProperties
  <1> QED
    BY <1>1, <1>2, <1>3, <1>4

\* The first n bytes of a body are the first m and those behind them.
LEMMA BytesConcat ==
    ASSUME NEW id, NEW m \in Nat, NEW n \in Nat
    PROVE  Bytes(id, 0, m) \o Bytes(id, m, n) = Bytes(id, 0, m + n)
  <1> DEFINE T == {<<"byte", id, i>> : i \in Nat}
             a == Bytes(id, 0, m)
             b == Bytes(id, m, n)
             c == Bytes(id, 0, m + n)
  <1>1. /\ a \in [1..m -> T] /\ \A i \in 1..m : a[i] = <<"byte", id, i>>
        /\ b \in [1..n -> T] /\ \A i \in 1..n : b[i] = <<"byte", id, m + i>>
        /\ c \in [1..m + n -> T] /\ \A i \in 1..m + n : c[i] = <<"byte", id, i>>
    BY DEF Bytes
  <1> HIDE DEF T, a, b, c
  <1>2. /\ a \in Seq(T) /\ Len(a) = m
        /\ b \in Seq(T) /\ Len(b) = n
        /\ c \in Seq(T) /\ Len(c) = m + n
    BY <1>1
  <1>3. /\ a \o b \in Seq(T) /\ Len(a \o b) = m + n
        /\ \A i \in 1..m + n : (a \o b)[i] = IF i <= m THEN a[i] ELSE b[i - m]
    BY <1>2, ConcatProperties
  <1>4. ASSUME NEW i \in 1..m + n PROVE (a \o b)[i] = c[i]
    <2>1. CASE i <= m
      <3>1. i \in 1..m
        BY <2>1
      <3> QED
        BY <1>1, <1>3, <2>1, <3>1
    <2>2. CASE ~(i <= m)
      <3>1. i - m \in 1..n /\ m + (i - m) = i
        BY <2>2
      <3> QED
        BY <1>1, <1>3, <2>2, <3>1
    <2> QED
      BY <2>1, <2>2
  <1>5. a \o b = c
    BY <1>2, <1>3, <1>4, SeqEqual
  <1> QED
    BY <1>5 DEF a, b, c

\* Bytes of a message are the bytes of its body.
LEMMA FixedBytes ==
    ASSUME NEW id, NEW close \in BOOLEAN, NEW n \in Nat,
           NEW k \in 3..n + 3, NEW j \in 0..n + 3 - k
    PROVE  SubSeq(FixedWire(id, close, n), k + 1, k + j) = Bytes(id, k - 3, j)
  <1> DEFINE w == FixedWire(id, close, n)
             T == {<<"byte", id, i>> : i \in Nat}
             s == SubSeq(w, k + 1, k + j)
             b == Bytes(id, k - 3, j)
  <1>1. \A i \in k + 1..k + j : w[i] = <<"byte", id, i - 3>> /\ w[i] \in T
    <2>1. \A i \in 4..n + 3 : w[i] = <<"byte", id, i - 3>>
      BY FixedTokens
    <2>2. \A i \in k + 1..k + j : i \in 4..n + 3 /\ i - 3 \in Nat
      OBVIOUS
    <2> QED
      BY <2>1, <2>2
  <1>2. b \in [1..j -> T] /\ \A i \in 1..j : b[i] = <<"byte", id, (k - 3) + i>>
    BY DEF Bytes
  <1> HIDE DEF T, w
  <1>3. /\ s \in Seq(T) /\ Len(s) = (IF k + 1 <= k + j THEN (k + j) - (k + 1) + 1 ELSE 0)
        /\ \A i \in 1..(k + j) - (k + 1) + 1 : s[i] = w[(k + 1) + i - 1]
    BY <1>1, SubSeqProperties
  <1> HIDE DEF s, b
  <1>4. Len(s) = j /\ b \in Seq(T) /\ Len(b) = j
    BY <1>2, <1>3
  <1>5. ASSUME NEW i \in 1..j PROVE s[i] = b[i]
    <2>1. /\ i \in 1..(k + j) - (k + 1) + 1 /\ (k + 1) + i - 1 \in k + 1..k + j
          /\ ((k + 1) + i - 1) - 3 = (k - 3) + i
      OBVIOUS
    <2> QED
      BY <1>1, <1>2, <1>3, <2>1
  <1>6. s = b
    BY <1>3, <1>4, <1>5, SeqEqual
  <1> QED
    BY <1>6 DEF s, b, w

\* What the first loop makes of the tokens of such a message.
LEMMA FixedHead ==
    ASSUME NEW id, NEW close \in BOOLEAN, NEW n \in 0..Word - 1,
           NEW k \in 0..2, NEW j \in 1..n + 3 - k
    PROVE  ParseHead(Taken(id, close, n, k), SubSeq(FixedWire(id, close, n), k + 1, k + j))
           = Taken(id, close, n, k + j)
  <1> DEFINE w == FixedWire(id, close, n)
             s == SubSeq(w, k + 1, k + j)
             r == Taken(id, close, n, k)
             I == {i \in 1..Len(s) : s[i][1] \in {"fixed", "chunked"}}
             end == IF I # {} THEN Min(I) ELSE 0
             hclose == IF Contains(s, Connection(TRUE)) THEN TRUE
                       ELSE IF Contains(s, Connection(FALSE)) THEN FALSE ELSE r.close
             h == [r EXCEPT !.close = hclose]
             rest == SubSeq(s, end + 1, Len(s))
  <1>0. n \in Nat /\ Word \in Nat
    BY RadixAssumption
  <1>1. ParseHead(r, s) = IF end = 0 THEN h
                          ELSE IF s[end] = Chunked THEN Receiver("size", rest, <<>>, 0, h.close)
                          ELSE Content(h, s[end][2], rest)
    BY Zenon DEF ParseHead, SelectInSeq
  <1>2. /\ Len(w) = n + 3
        /\ w[1] = Line /\ w[2] = Connection(close) /\ w[3] = Fixed(n)
        /\ \A i \in 4..n + 3 : w[i] = <<"byte", id, i - 3>>
    BY <1>0, FixedTokens
  <1>3. PICK T : w \in Seq(T)
    BY <1>0, FixedTokens
  <1>4. s \in Seq(T) /\ Len(s) = j /\ \A i \in 1..j : s[i] = w[k + i]
    <2> HIDE DEF w
    <2>1. \A i \in k + 1..k + j : w[i] \in T
      BY <1>0, <1>2, <1>3
    <2>2. k + 1 \in Int /\ k + j \in Int
      OBVIOUS
    <2>3. /\ s \in Seq(T) /\ Len(s) = (IF k + 1 <= k + j THEN (k + j) - (k + 1) + 1 ELSE 0)
          /\ \A i \in 1..(k + j) - (k + 1) + 1 : s[i] = w[(k + 1) + i - 1]
      BY <2>1, <2>2, SubSeqProperties
    <2> HIDE DEF s
    <2>4. Len(s) = j
      BY <2>3
    <2>5. ASSUME NEW i \in 1..j PROVE s[i] = w[k + i]
      <3>1. i \in 1..(k + j) - (k + 1) + 1 /\ (k + 1) + i - 1 = k + i
        OBVIOUS
      <3> QED
        BY <2>3, <3>1
    <2> QED
      BY <2>3, <2>4, <2>5
  <1> DEFINE v == CloseAfter(close, k)
             u == CloseAfter(close, k + j)
  <1>5. /\ r = Receiver("head", <<>>, <<>>, 0, v) /\ r.close = v
        /\ k + j < 3 => Taken(id, close, n, k + j) = Receiver("head", <<>>, <<>>, 0, u)
    <2>1. r = Receiver("head", <<>>, <<>>, 0, v)
      BY DEF Taken
    <2>2. k + j < 3 => Taken(id, close, n, k + j) = Receiver("head", <<>>, <<>>, 0, u)
      BY DEF Taken
    <2> HIDE DEF v, r
    <2> QED
      BY <2>1, <2>2 DEF Receiver
  <1>55. /\ k < 2 => v = TRUE
         /\ k = 2 => v = close
         /\ k + j < 2 => u = TRUE
         /\ k + j = 2 => u = close
    <2>1. (k = 2 => ~(k < 2)) /\ (k + j = 2 => ~(k + j < 2))
      OBVIOUS
    <2> QED
      BY <2>1, Zenon DEF CloseAfter
  <1> HIDE DEF w, s, r, u, v
  <1>6. \A i \in 1..j :
           \/ (k + i = 1 /\ s[i] = Line)
           \/ (k + i = 2 /\ s[i] = Connection(close))
           \/ (k + i = 3 /\ s[i] = Fixed(n))
           \/ (k + i \in 4..n + 3 /\ s[i] = <<"byte", id, k + i - 3>>)
    <2> SUFFICES ASSUME NEW i \in 1..j
                 PROVE  \/ (k + i = 1 /\ s[i] = Line)
                        \/ (k + i = 2 /\ s[i] = Connection(close))
                        \/ (k + i = 3 /\ s[i] = Fixed(n))
                        \/ (k + i \in 4..n + 3 /\ s[i] = <<"byte", id, k + i - 3>>)
      OBVIOUS
    <2>1. k + i \in {1, 2, 3} \/ k + i \in 4..n + 3
      BY <1>0
    <2>2. s[i] = w[k + i]
      BY <1>4
    <2> QED
      BY <1>2, <2>1, <2>2
  <1>7. \A i \in 1..j : s[i][1] \in {"fixed", "chunked"} <=> k + i = 3
    BY <1>6 DEF Line, Connection, Fixed
  <1>8. \A i \in 1..j, b \in BOOLEAN : s[i] = Connection(b) <=> k + i = 2 /\ b = close
    <2> SUFFICES ASSUME NEW i \in 1..j, NEW b \in BOOLEAN
                 PROVE  s[i] = Connection(b) <=> k + i = 2 /\ b = close
      OBVIOUS
    <2>1. Connection(b)[1] = "connection" /\ Line[1] = "line" /\ Fixed(n)[1] = "fixed"
      BY DEF Connection, Line, Fixed
    <2>2. <<"byte", id, k + i - 3>>[1] = "byte"
      OBVIOUS
    <2>3. CASE k + i = 2
      BY <1>6, <2>3 DEF Connection
    <2>4. CASE k + i # 2
      BY <1>6, <2>1, <2>2, <2>4
    <2> QED
      BY <2>3, <2>4
  <1>9. hclose = IF k < 2 /\ k + j >= 2 THEN close ELSE r.close
    <2>1. \A b \in BOOLEAN : Contains(s, Connection(b)) <=> (k < 2 /\ k + j >= 2 /\ b = close)
      <3> SUFFICES ASSUME NEW b \in BOOLEAN
                   PROVE  Contains(s, Connection(b)) <=> (k < 2 /\ k + j >= 2 /\ b = close)
        OBVIOUS
      <3>1. ASSUME Contains(s, Connection(b)) PROVE k < 2 /\ k + j >= 2 /\ b = close
        BY <1>4, <1>8, <3>1 DEF Contains
      <3>2. ASSUME k < 2, k + j >= 2, b = close PROVE Contains(s, Connection(b))
        <4>1. 2 - k \in 1..j /\ k + (2 - k) = 2
          BY <3>2
        <4> QED
          BY <1>4, <1>8, <3>2, <4>1 DEF Contains
      <3> QED
        BY <3>1, <3>2
    <2> QED
      BY <2>1
  <1>10. CASE k + j < 3
    <2>1. I = {}
      BY <1>4, <1>7, <1>10
    <2>2. ParseHead(r, s) = h
      BY <1>1, <2>1
    <2> HIDE DEF hclose
    <2>3. hclose = u
      <3>1. CASE k + j = 1
        <4>1. k < 2 /\ k + j < 2 /\ ~(k + j >= 2)
          BY <3>1
        <4> QED
          BY <1>5, <1>55, <1>9, <4>1, Zenon
      <3>2. CASE k + j = 2
        <4>1. k < 2 /\ k + j >= 2
          BY <3>2
        <4> QED
          BY <1>55, <1>9, <3>2, <4>1, Zenon
      <3> QED
        BY <1>10, <3>1, <3>2
    <2>4. h = Receiver("head", <<>>, <<>>, 0, u)
      BY <1>5, <2>3 DEF Receiver
    <2> QED
      BY <1>5, <1>10, <2>2, <2>4 DEF r, s, w
  <1>11. CASE k + j >= 3
    <2> DEFINE t == k + j - 3
    <2>1. I = {3 - k}
      BY <1>4, <1>7, <1>11
    <2>2. end = 3 - k
      <3>1. Min({3 - k}) = 3 - k
        BY DEF Min
      <3> QED
        BY <2>1, <3>1
    <2> HIDE DEF end, I
    <2>3. s[end] = Fixed(n) /\ Fixed(n)[2] = n /\ Fixed(n) # Chunked
      <3>1. s[3 - k] = Fixed(n)
        BY <1>6, <1>11
      <3>2. Fixed(n)[1] = "fixed" /\ Chunked[1] = "chunked" /\ Fixed(n)[2] = n
        BY DEF Fixed, Chunked
      <3> QED
        BY <2>2, <3>1, <3>2
    <2> HIDE DEF hclose
    <2>4. hclose = close
      BY <1>5, <1>55, <1>9, <1>11
    <2>5. h.close = close
      BY <1>5, <2>4 DEF Receiver
    <2> HIDE DEF h
    <2>6. rest = Bytes(id, 0, t)
      <3>1. rest = SubSeq(w, 4, k + j)
        <4>1. end + 1 = 4 - k /\ end + 1 \in 1..j + 1
          BY <1>11, <2>2
        <4>2. rest = SubSeq(SubSeq(w, k + 1, k + j), 4 - k, j)
          BY <1>4, <4>1 DEF s
        <4> HIDE DEF rest
        <4>3. CASE j < 4 - k
          <5>1. k + j < 4 /\ k + j \in Int /\ 4 - k \in Int /\ j \in Int
            BY <4>3
          <5>2. SubSeq(w, 4, k + j) = <<>> /\ SubSeq(SubSeq(w, k + 1, k + j), 4 - k, j) = <<>>
            BY <4>3, <5>1, SubSeqEmpty
          <5> QED
            BY <4>2, <5>2
        <4>4. CASE ~(j < 4 - k)
          <5>1. /\ k + 1 \in 1..Len(w) /\ k + j \in 1..Len(w)
                /\ 4 - k \in 1..(k + j) - (k + 1) + 1 /\ j \in 1..(k + j) - (k + 1) + 1
                /\ (k + 1) + (4 - k) - 1 = 4 /\ (k + 1) + j - 1 = k + j
            BY <1>0, <1>2, <4>4
          <5>2. SubSeq(SubSeq(w, k + 1, k + j), 4 - k, j)
                = SubSeq(w, (k + 1) + (4 - k) - 1, (k + 1) + j - 1)
            BY <1>3, <5>1, SubSeqOfSubSeq
          <5> QED
            BY <4>2, <5>1, <5>2
        <4> QED
          BY <4>3, <4>4
      <3>2. t \in 0..n /\ k + j = 3 + t
        BY <1>0, <1>11
      <3> HIDE DEF rest
      <3>3. SubSeq(w, 3 + 1, 3 + t) = Bytes(id, 3 - 3, t)
        <4>1. 3 \in 3..n + 3 /\ t \in 0..n + 3 - 3
          BY <1>0, <3>2
        <4> HIDE DEF t
        <4> QED
          BY <1>0, <4>1, FixedBytes DEF w
      <3> QED
        BY <3>1, <3>2, <3>3
    <2>7. ParseHead(r, s) = Content(h, n, rest)
      BY <1>1, <1>11, <2>2, <2>3
    <2> HIDE DEF rest
    <2>8. t \in 0..n /\ k + j = t + 3
      BY <1>0, <1>11
    <2> HIDE DEF t
    <2>9. Len(rest) = t /\ SubSeq(rest, 1, t) = rest
      <3> DEFINE B == {<<"byte", id, i>> : i \in Nat}
      <3>1. rest \in [1..t -> B]
        BY <1>0, <2>6, <2>8 DEF Bytes
      <3> HIDE DEF B
      <3>2. rest \in Seq(B) /\ Len(rest) = t
        BY <1>0, <2>8, <3>1
      <3> QED
        BY <3>2, SubSeqFull
    <2>10. (n - t) % Word = n - t
      BY <1>0, <2>8, RadixAssumption
    <2>11. Content(h, n, rest) = Receiver(IF t = n THEN "done" ELSE "fixed", <<>>, rest, n - t, close)
      <3>1. CASE n = 0
        <4>1. t = 0 /\ rest = <<>>
          BY <2>6, <2>8, <3>1 DEF Bytes
        <4> QED
          BY <2>5, <3>1, <4>1 DEF Content
      <3>2. CASE n # 0
        <4>1. (n - t = 0 <=> t = n) /\ (IF n < t THEN n ELSE t) = t
          BY <1>0, <2>8
        <4>2. Content(h, n, rest) = Receiver(IF n - t = 0 THEN "done" ELSE "fixed", <<>>,
                                             SubSeq(rest, 1, IF n < t THEN n ELSE t), n - t, close)
          BY <2>5, <2>9, <2>10, <3>2 DEF Content
        <4> QED
          BY <2>9, <4>1, <4>2
      <3> QED
        BY <3>1, <3>2
    <2>12. Taken(id, close, n, k + j)
           = Receiver(IF t = n THEN "done" ELSE "fixed", <<>>, Bytes(id, 0, t), n - t, close)
      <3>1. ~(k + j < 3) /\ k + j - 3 = t /\ n + 3 - (k + j) = n - t /\ (k + j = n + 3 <=> t = n)
        BY <1>0, <2>8
      <3> QED
        BY <3>1 DEF Taken
    <2> QED
      BY <2>6, <2>7, <2>11, <2>12 DEF r, s, w
  <1> QED
    BY <1>10, <1>11

\* Reading the rest of a stream: the tokens behind k, up to e.
LEMMA StreamCut ==
    ASSUME NEW T, NEW w \in Seq(T), NEW e \in 0..Len(w), NEW k \in 0..e, NEW j \in 0..e - k
    PROVE  LET s == SubSeq(w, k + 1, e) IN
           /\ Len(s) = e - k
           /\ SubSeq(s, 1, j) = SubSeq(w, k + 1, k + j)
           /\ SubSeq(s, j + 1, Len(s)) = SubSeq(w, k + j + 1, e)
  <1> DEFINE s == SubSeq(w, k + 1, e)
  <1>0. Len(w) \in Nat /\ \A i \in 1..Len(w) : w[i] \in T
    OBVIOUS
  <1>1. /\ s \in Seq(T) /\ Len(s) = e - k
        /\ \A i \in 1..e - k : s[i] = w[k + i]
    BY <1>0
  <1> HIDE DEF s
  <1>2. ASSUME NEW a \in 0..e - k, NEW b \in a..e - k
        PROVE  SubSeq(s, a + 1, b) = SubSeq(w, k + a + 1, k + b)
    <2> DEFINE x == SubSeq(s, a + 1, b)
               y == SubSeq(w, k + a + 1, k + b)
    <2>1. /\ x \in Seq(T) /\ Len(x) = b - a
          /\ \A i \in 1..b - a : x[i] = s[a + i]
      BY <1>1
    <2>2. /\ y \in Seq(T) /\ Len(y) = b - a
          /\ \A i \in 1..b - a : y[i] = w[k + a + i]
      BY <1>0
    <2>3. \A i \in 1..b - a : a + i \in 1..e - k
      OBVIOUS
    <2> HIDE DEF x, y
    <2>4. ASSUME NEW i \in 1..b - a PROVE x[i] = y[i]
      <3>1. x[i] = s[a + i] /\ y[i] = w[k + a + i]
        BY <2>1, <2>2
      <3>2. s[a + i] = w[k + (a + i)]
        BY <1>1, <2>3
      <3>3. k + (a + i) = k + a + i
        OBVIOUS
      <3> QED
        BY <3>1, <3>2, <3>3
    <2>5. x = y
      BY <2>1, <2>2, <2>4, SeqEqual
    <2> QED
      BY <2>5 DEF x, y
  <1>3. SubSeq(s, 1, j) = SubSeq(w, k + 1, k + j)
    <2>1. 0 \in 0..e - k /\ j \in 0..e - k
      BY <1>0
    <2>2. SubSeq(s, 0 + 1, j) = SubSeq(w, k + 0 + 1, k + j)
      BY <1>2, <2>1
    <2> QED
      BY <2>2
  <1>4. SubSeq(s, j + 1, Len(s)) = SubSeq(w, k + j + 1, e)
    <2>1. j \in 0..e - k /\ e - k \in j..e - k /\ k + (e - k) = e
      BY <1>0
    <2>2. SubSeq(s, j + 1, e - k) = SubSeq(w, k + j + 1, k + (e - k))
      BY <1>2, <2>1
    <2> QED
      BY <1>1, <2>1, <2>2
  <1> QED
    BY <1>1, <1>3, <1>4 DEF s

\* Whatever k tokens have been read and whatever j come next: the receiver is what
\* it would have been if they had come at once.
LEMMA FixedReceive ==
    ASSUME NEW id, NEW close \in BOOLEAN, NEW n \in 0..Word - 1,
           NEW k \in 0..n + 2, NEW j \in 1..n + 3 - k
    PROVE  Receive(Taken(id, close, n, k), SubSeq(FixedWire(id, close, n), k + 1, k + j))
           = Taken(id, close, n, k + j)
  <1> DEFINE s == SubSeq(FixedWire(id, close, n), k + 1, k + j)
             r == Taken(id, close, n, k)
  <1>0. n \in Nat /\ Word \in Nat
    BY RadixAssumption
  <1>1. CASE k < 3
    <2>1. r.at = "head"
      BY <1>1 DEF Taken, Receiver
    <2>2. k \in 0..2
      BY <1>1
    <2>3. Receive(r, s) = ParseHead(r, s)
      BY <2>1 DEF Receive
    <2> QED
      BY <2>2, <2>3, FixedHead
  <1>2. CASE ~(k < 3)
    <2> DEFINE b == Bytes(id, 0, k - 3)
    <2>0. k \in 3..n + 3 /\ j \in 0..n + 3 - k /\ k - 3 \in Nat /\ j \in Nat
      BY <1>0, <1>2
    <2>1. s = Bytes(id, k - 3, j)
      BY <1>0, <2>0, FixedBytes
    <2>2. r = Receiver("fixed", <<>>, b, n + 3 - k, close)
      <3>1. k # n + 3
        BY <1>0
      <3> QED
        BY <1>2, <3>1 DEF Taken
    <2>3. Len(s) = j
      <3> DEFINE B == {<<"byte", id, i>> : i \in Nat}
      <3>1. s \in [1..j -> B]
        <4> HIDE DEF s
        <4> QED
          BY <2>0, <2>1 DEF Bytes
      <3> HIDE DEF B, s
      <3> QED
        BY <3>1
    <2> HIDE DEF s, r
    <2>4. b \o s = Bytes(id, 0, k + j - 3)
      <3>1. (k - 3) + j = k + j - 3
        BY <1>2
      <3>2. Bytes(id, 0, k - 3) \o Bytes(id, k - 3, j) = Bytes(id, 0, (k - 3) + j)
        BY <2>0, BytesConcat
      <3> QED
        BY <2>1, <3>1, <3>2
    <2> HIDE DEF b
    <2>5. Receive(r, s) = Receiver(IF n + 3 - k = j THEN "done" ELSE "fixed", <<>>, b \o s, (n + 3 - k) - j, close)
      BY <2>2, <2>3 DEF Receive, ReadFixed, Receiver
    <2>6. /\ ~(k + j < 3) /\ (n + 3 - k = j <=> k + j = n + 3)
          /\ (n + 3 - k) - j = n + 3 - (k + j)
      BY <1>0, <1>2
    <2>7. Taken(id, close, n, k + j)
          = Receiver(IF k + j = n + 3 THEN "done" ELSE "fixed", <<>>,
                     Bytes(id, 0, k + j - 3), n + 3 - (k + j), close)
      BY <2>6 DEF Taken
    <2>8. Receive(r, s) = Taken(id, close, n, k + j)
      BY <2>4, <2>5, <2>6, <2>7
    <2> QED
      BY <2>8 DEF r, s
  <1> QED
    BY <1>1, <1>2

\* Where such a message may be asked for: all of the rest of it.
LEMMA FixedPlaces ==
    ASSUME NEW id, NEW close, NEW n \in Nat, NEW k \in 0..n + 3
    PROVE  LET r == Taken(id, close, n, k) IN
           /\ r.at = IF k < 3 THEN "head" ELSE IF k = n + 3 THEN "done" ELSE "fixed"
           /\ k >= 3 => r.body = Bytes(id, 0, k - 3) /\ r.close = close
           /\ Wanted(r, n + 3 - k) = n + 3 - k
  <1> DEFINE r == Taken(id, close, n, k)
  <1>1. CASE k < 3
    <2>1. r.at = "head" /\ ~(k >= 3)
      BY <1>1 DEF Taken, Receiver
    <2> QED
      BY <1>1, <2>1 DEF Wanted
  <1>2. CASE ~(k < 3)
    <2>1. r = Receiver(IF k = n + 3 THEN "done" ELSE "fixed", <<>>, Bytes(id, 0, k - 3), n + 3 - k, close)
      BY <1>2 DEF Taken
    <2>2. /\ r.at = (IF k = n + 3 THEN "done" ELSE "fixed") /\ r.left = n + 3 - k
          /\ r.body = Bytes(id, 0, k - 3) /\ r.close = close
      BY <2>1 DEF Receiver
    <2> HIDE DEF r
    <2>3. Wanted(r, n + 3 - k) = n + 3 - k
      BY <2>2 DEF Wanted
    <2> QED
      BY <1>2, <2>2, <2>3 DEF r
  <1> QED
    BY <1>1, <1>2

-----------------------------------------------------------------------------
(* Answers in chunks *)

\* The places of a message with a chunk of n bytes: behind the first size line,
\* and behind the chunk with its line end.  The last chunk takes 5 tokens more.
SizeEnd(n) == Len(Digits(n)) + 4
ChunkEnd(n) == SizeEnd(n) + n + 2

\* The number that one or two digits write.
LEMMA SizeOfDigits ==
    ASSUME NEW data, NEW m \in {1, 2}, \A i \in 1..m : data[i][2] \in Nat
    PROVE  SizeOf(data, m + 2) = IF m = 1 THEN data[1][2] ELSE Radix * data[1][2] + data[2][2]
  <1> DEFINE x == data[1][2]
             y == data[2][2]
             F(g) == [i \in 0..(m + 2) - 2 |-> IF i = 0 THEN 0 ELSE Radix * g[i - 1] + data[i][2]]
             g0 == [i \in 0..(m + 2) - 2 |-> IF i = 0 THEN 0 ELSE IF i = 1 THEN x ELSE Radix * x + y]
             v == CHOOSE g : g = F(g)
  <1>0. Radix \in Nat /\ x \in Nat /\ (m = 2 => y \in Nat) /\ (m + 2) - 2 = m
    BY RadixAssumption
  <1>1. g0 = F(g0)
    <2>1. ASSUME NEW i \in 0..(m + 2) - 2
          PROVE  g0[i] = IF i = 0 THEN 0 ELSE Radix * g0[i - 1] + data[i][2]
      <3>1. i \in {0, 1, 2}
        BY <1>0
      <3>2. CASE i = 0
        BY <3>2
      <3>3. CASE i = 1
        <4>1. 0 \in 0..(m + 2) - 2 /\ g0[0] = 0
          OBVIOUS
        <4>2. Radix * 0 + x = x
          BY <1>0
        <4> QED
          BY <3>3, <4>1, <4>2
      <3>4. CASE i = 2
        <4>1. 1 \in 0..(m + 2) - 2 /\ g0[1] = x
          BY <1>0
        <4> QED
          BY <3>4, <4>1
      <3> QED
        BY <3>1, <3>2, <3>3, <3>4
    <2> QED
      BY <2>1
  <1>2. v = F(v)
    <2> HIDE DEF F, g0
    <2> QED
      BY <1>1, Zenon
  <1>3. SizeOf(data, m + 2) = v[(m + 2) - 2]
    BY DEF SizeOf
  <1> HIDE DEF v
  <1>4. v[0] = 0
    <2>1. 0 \in 0..(m + 2) - 2
      OBVIOUS
    <2> QED
      BY <1>2, <2>1
  <1>5. v[1] = x
    <2>1. 1 \in 0..(m + 2) - 2 /\ 1 - 1 = 0 /\ 1 # 0
      OBVIOUS
    <2>2. v[1] = Radix * v[1 - 1] + x
      BY <1>2, <2>1
    <2> QED
      BY <1>0, <1>4, <2>1, <2>2
  <1>6. m = 2 => v[2] = Radix * x + y
    <2> SUFFICES ASSUME m = 2 PROVE v[2] = Radix * x + y
      OBVIOUS
    <2>1. 2 \in 0..(m + 2) - 2 /\ 2 - 1 = 1 /\ 2 # 0
      OBVIOUS
    <2>2. v[2] = Radix * v[2 - 1] + y
      BY <1>2, <2>1
    <2> QED
      BY <1>5, <2>1, <2>2
  <1> QED
    BY <1>0, <1>3, <1>5, <1>6

\* The digits of a size write it.
LEMMA DigitsWrite ==
    ASSUME NEW n \in Nat
    PROVE  /\ Digits(n) \in Seq({"digit"} \X Nat) /\ Len(Digits(n)) \in {1, 2}
           /\ \A i \in 1..Len(Digits(n)) : Digits(n)[i][1] = "digit" /\ Digits(n)[i][2] \in Nat
           /\ n = IF Len(Digits(n)) = 1 THEN Digits(n)[1][2]
                  ELSE Radix * Digits(n)[1][2] + Digits(n)[2][2]
  <1>0. Radix \in Nat /\ Radix > 1
    BY RadixAssumption
  <1>1. n \div Radix \in Nat /\ n % Radix \in Nat /\ n = Radix * (n \div Radix) + (n % Radix)
    BY <1>0
  <1>2. CASE n < Radix
    BY <1>2 DEF Digits, Digit
  <1>3. CASE ~(n < Radix)
    <2> DEFINE a == n \div Radix
               b == n % Radix
    <2> HIDE DEF a, b
    <2>1. a \in Nat /\ b \in Nat /\ n = Radix * a + b
      BY <1>1 DEF a, b
    <2>2. Digits(n) = <<<<"digit", a>>, <<"digit", b>>>>
      BY <1>3 DEF Digits, Digit, a, b
    <2>3. <<"digit", a>> \in {"digit"} \X Nat /\ <<"digit", b>> \in {"digit"} \X Nat
      BY <2>1
    <2>4. /\ Len(Digits(n)) = 2 /\ Digits(n)[1] = <<"digit", a>> /\ Digits(n)[2] = <<"digit", b>>
          /\ Digits(n) \in Seq({"digit"} \X Nat)
      BY <2>2, <2>3
    <2> QED
      BY <2>1, <2>4
  <1> QED
    BY <1>2, <1>3

\* What execute() makes of a buffer that begins with a size line: m digits and a
\* line end.
LEMMA SizeLine ==
    ASSUME NEW T, NEW data \in Seq(T), NEW m \in {1, 2}, m + 2 <= Len(data),
           \A i \in 1..m : data[i][1] = "digit" /\ data[i][2] \in Nat,
           data[m + 1] = CRLF[1], data[m + 2] = CRLF[2]
    PROVE  /\ EndOfSize(data) = m + 2 /\ IsSize(data, m + 2)
           /\ SizeOf(data, m + 2) = IF m = 1 THEN data[1][2] ELSE Radix * data[1][2] + data[2][2]
  <1> DEFINE I == {i \in 1..Len(data) : data[i] = CRLF[2]}
  <1>1. EndOfSize(data) = IF I # {} THEN Min(I) ELSE 0
    BY Zenon DEF EndOfSize, SelectInSeq
  <1>2. m + 2 \in I
    OBVIOUS
  <1>3. \A i \in I : i >= m + 2
    <2> SUFFICES ASSUME NEW i \in 1..m + 1 PROVE data[i] # CRLF[2]
      OBVIOUS
    <2>1. CRLF[2] = <<"lf">> /\ CRLF[1] = <<"cr">> /\ CRLF[2][1] = "lf" /\ CRLF[1][1] = "cr"
      BY DEF CRLF
    <2> QED
      BY <2>1
  <1>4. I \subseteq Nat
    OBVIOUS
  <1> HIDE DEF I
  <1>5. Min(I) = m + 2
    <2>1. Min(I) \in I /\ Min(I) <= m + 2
      BY <1>2, <1>4, MinOfNats
    <2>2. Min(I) \in Nat /\ Min(I) >= m + 2
      BY <1>3, <1>4, <2>1, Zenon
    <2>3. \A x \in Nat : x >= m + 2 /\ x <= m + 2 => x = m + 2
      OBVIOUS
    <2> QED
      BY <2>1, <2>2, <2>3, Zenon
  <1>6. EndOfSize(data) = m + 2
    BY <1>1, <1>2, <1>5
  <1>7. IsSize(data, m + 2)
    <2>1. PICK e : e = m + 2
      OBVIOUS
    <2>2. e > 2 /\ e - 2 = m
      BY <2>1
    <2>3. IsSize(data, e)
      BY <2>2, Zenon DEF IsSize
    <2> QED
      BY <2>1, <2>3
  <1>8. SizeOf(data, m + 2) = IF m = 1 THEN data[1][2] ELSE Radix * data[1][2] + data[2][2]
    BY SizeOfDigits
  <1> QED
    BY <1>6, <1>7, <1>8

\* The places of two sequences in their concatenation.
LEMMA Joined ==
    ASSUME NEW T, NEW s \in Seq(T), NEW t \in Seq(T)
    PROVE  /\ s \o t \in Seq(T) /\ Len(s \o t) = Len(s) + Len(t)
           /\ \A i \in 1..Len(s) : (s \o t)[i] = s[i]
           /\ \A i \in 1..Len(t) : (s \o t)[Len(s) + i] = t[i]
  <1> DEFINE m == Len(s)
             n == Len(t)
  <1>1. /\ s \o t \in Seq(T) /\ Len(s \o t) = m + n /\ m \in Nat /\ n \in Nat
        /\ \A i \in 1..m + n : (s \o t)[i] = IF i <= m THEN s[i] ELSE t[i - m]
    BY ConcatProperties
  <1> HIDE DEF m, n
  <1>2. ASSUME NEW i \in 1..m PROVE (s \o t)[i] = s[i]
    BY <1>1
  <1>3. ASSUME NEW i \in 1..n PROVE (s \o t)[m + i] = t[i]
    <2>1. m + i \in 1..m + n /\ ~(m + i <= m) /\ (m + i) - m = i
      BY <1>1
    <2> QED
      BY <1>1, <2>1
  <1> QED
    BY <1>1, <1>2, <1>3 DEF m, n

\* The tokens of a message in chunks.
LEMMA ChunkTokens ==
    ASSUME NEW id, NEW n \in Nat
    PROVE  LET w == ChunkedWire(id, n)
               d == Digits(n)
               B == SizeEnd(n)
               C == ChunkEnd(n)
           IN /\ \E T : w \in Seq(T)
              /\ Len(d) \in {1, 2} /\ B = Len(d) + 4 /\ C = B + n + 2 /\ Len(w) = C + 5
              /\ w[1] = Line /\ w[2] = Chunked
              /\ \A i \in 1..Len(d) : w[2 + i] = d[i]
              /\ w[B - 1] = CRLF[1] /\ w[B] = CRLF[2]
              /\ \A i \in 1..n : w[B + i] = <<"byte", id, i>>
              /\ w[C - 1] = CRLF[1] /\ w[C] = CRLF[2]
              /\ w[C + 1] = Digit(0) /\ w[C + 2] = CRLF[1] /\ w[C + 3] = CRLF[2]
              /\ w[C + 4] = CRLF[1] /\ w[C + 5] = CRLF[2]
  <1> DEFINE d == Digits(n)
             b == Bytes(id, 0, n)
             T == {Line, Chunked, CRLF[1], CRLF[2], Digit(0)} \cup {d[i] : i \in 1..Len(d)}
                  \cup {<<"byte", id, i>> : i \in 1..n}
             h == <<Line, Chunked>>
             z == <<Digit(0)>>
             e == Bytes(id, 0, 0)
  <1>0. Radix \in Nat /\ 0 < Radix
    BY RadixAssumption
  <1>1. d \in Seq(T) /\ Len(d) \in {1, 2}
    <2>1. \E S : d \in Seq(S)
      BY DigitsWrite
    <2>2. Len(d) \in {1, 2}
      BY DigitsWrite
    <2>3. \A i \in 1..Len(d) : d[i] \in T
      OBVIOUS
    <2> HIDE DEF d, T
    <2> QED
      BY <2>1, <2>2, <2>3
  <1>2. h \in Seq(T) /\ CRLF \in Seq(T) /\ z \in Seq(T)
    <2>1. Line \in T /\ Chunked \in T /\ <<"cr">> \in T /\ <<"lf">> \in T /\ Digit(0) \in T
      BY DEF CRLF
    <2> HIDE DEF T
    <2> QED
      BY <2>1 DEF CRLF
  <1>3. b \in Seq(T) /\ Len(b) = n /\ \A i \in 1..n : b[i] = <<"byte", id, i>>
    <2>1. b \in [1..n -> T] /\ \A i \in 1..n : b[i] = <<"byte", id, i>>
      BY DEF Bytes
    <2> HIDE DEF T, b, d
    <2> QED
      BY <2>1
  <1>4. e = <<>>
    BY DEF Bytes
  <1>5. Digits(0) = z
    BY <1>0 DEF Digits
  <1>6. Len(h) = 2 /\ Len(CRLF) = 2 /\ Len(z) = 1 /\ h[1] = Line /\ h[2] = Chunked /\ z[1] = Digit(0)
    BY DEF CRLF
  <1>7. ChunkedWire(id, n) = h \o (d \o CRLF \o b \o CRLF) \o (z \o CRLF \o e \o CRLF)
    BY <1>5 DEF ChunkedWire, Chunk
  <1> HIDE DEF d, b, T, h, z, e
  <1> DEFINE a1 == d \o CRLF
             a2 == a1 \o b
             a3 == a2 \o CRLF
             a4 == h \o a3
             c1 == z \o CRLF
             c2 == c1 \o e
             c3 == c2 \o CRLF
             w == a4 \o c3
             l == Len(d)
  <1> HIDE DEF a1, a2, a3, a4, c1, c2, c3, w, l
  <1>80. l \in Nat /\ l = Len(d) /\ 2 \in Nat /\ 1 \in Nat /\ 5 \in Nat
    BY <1>1 DEF l
  <1>81. l + 2 \in Nat /\ l + 2 + n \in Nat /\ l + n + 4 \in Nat /\ l + n + 6 \in Nat /\ 3 \in Nat
    BY <1>80
  <1>9. /\ a1 \in Seq(T) /\ Len(a1) = l + 2 /\ (\A i \in 1..l : a1[i] = d[i])
        /\ a1[l + 1] = CRLF[1] /\ a1[l + 2] = CRLF[2]
    <2>19. d \in Seq(T) /\ CRLF \in Seq(T)
      BY <1>1, <1>2, <1>6, <1>80
    <2>10. /\ a1 \in Seq(T) /\ Len(a1) = Len(d) + Len(CRLF)
           /\ \A i \in 1..Len(d) : a1[i] = d[i]
           /\ \A i \in 1..Len(CRLF) : a1[Len(d) + i] = CRLF[i]
      BY <2>19, Joined DEF a1
    <2>1. /\ a1 \in Seq(T) /\ Len(a1) = l + 2
          /\ \A i \in 1..l : a1[i] = d[i]
          /\ \A i \in 1..2 : a1[l + i] = CRLF[i]
      BY <1>1, <1>2, <1>6, <1>80, <2>10
    <2> QED
      BY <2>1
  <1>10. /\ a2 \in Seq(T) /\ Len(a2) = l + 2 + n /\ (\A i \in 1..l + 2 : a2[i] = a1[i])
         /\ \A i \in 1..n : a2[l + 2 + i] = <<"byte", id, i>>
    <2>19. a1 \in Seq(T) /\ b \in Seq(T)
      BY <1>3, <1>9, <1>81
    <2>10. /\ a2 \in Seq(T) /\ Len(a2) = Len(a1) + Len(b)
           /\ \A i \in 1..Len(a1) : a2[i] = a1[i]
           /\ \A i \in 1..Len(b) : a2[Len(a1) + i] = b[i]
      BY <2>19, Joined DEF a2
    <2>1. /\ a2 \in Seq(T) /\ Len(a2) = (l + 2) + n
          /\ \A i \in 1..l + 2 : a2[i] = a1[i]
          /\ \A i \in 1..n : a2[(l + 2) + i] = b[i]
      BY <1>3, <1>9, <1>81, <2>10
    <2> QED
      BY <1>3, <2>1
  <1>11. /\ a3 \in Seq(T) /\ Len(a3) = l + n + 4 /\ (\A i \in 1..l + 2 + n : a3[i] = a2[i])
         /\ a3[l + n + 3] = CRLF[1] /\ a3[l + n + 4] = CRLF[2]
    <2>19. a2 \in Seq(T) /\ CRLF \in Seq(T)
      BY <1>2, <1>6, <1>10, <1>80, <1>81
    <2>10. /\ a3 \in Seq(T) /\ Len(a3) = Len(a2) + Len(CRLF)
           /\ \A i \in 1..Len(a2) : a3[i] = a2[i]
           /\ \A i \in 1..Len(CRLF) : a3[Len(a2) + i] = CRLF[i]
      BY <2>19, Joined DEF a3
    <2>1. /\ a3 \in Seq(T) /\ Len(a3) = (l + 2 + n) + 2
          /\ \A i \in 1..l + 2 + n : a3[i] = a2[i]
          /\ \A i \in 1..2 : a3[(l + 2 + n) + i] = CRLF[i]
      BY <1>2, <1>6, <1>10, <1>80, <1>81, <2>10
    <2>2. (l + 2 + n) + 2 = l + n + 4 /\ (l + 2 + n) + 1 = l + n + 3
      BY <1>80
    <2>3. a3 \in Seq(T) /\ Len(a3) = l + n + 4 /\ (\A i \in 1..l + 2 + n : a3[i] = a2[i])
      BY <2>1, <2>2
    <2>4. a3[(l + 2 + n) + 1] = CRLF[1] /\ a3[(l + 2 + n) + 2] = CRLF[2]
      BY <2>1
    <2> QED
      BY <2>2, <2>3, <2>4
  <1>12. /\ a4 \in Seq(T) /\ Len(a4) = l + n + 6 /\ a4[1] = Line /\ a4[2] = Chunked
         /\ \A i \in 1..l + n + 4 : a4[2 + i] = a3[i]
    <2>19. h \in Seq(T) /\ a3 \in Seq(T)
      BY <1>2, <1>6, <1>11, <1>80, <1>81
    <2>10. /\ a4 \in Seq(T) /\ Len(a4) = Len(h) + Len(a3)
           /\ \A i \in 1..Len(h) : a4[i] = h[i]
           /\ \A i \in 1..Len(a3) : a4[Len(h) + i] = a3[i]
      BY <2>19, Joined DEF a4
    <2>1. /\ a4 \in Seq(T) /\ Len(a4) = 2 + (l + n + 4)
          /\ \A i \in 1..2 : a4[i] = h[i]
          /\ \A i \in 1..l + n + 4 : a4[2 + i] = a3[i]
      BY <1>2, <1>6, <1>11, <1>80, <1>81, <2>10
    <2>2. 2 + (l + n + 4) = l + n + 6
      BY <1>80
    <2> QED
      BY <1>6, <2>1, <2>2
  <1>13. /\ c3 \in Seq(T) /\ Len(c3) = 5 /\ c3[1] = Digit(0)
         /\ c3[2] = CRLF[1] /\ c3[3] = CRLF[2] /\ c3[4] = CRLF[1] /\ c3[5] = CRLF[2]
    <2>19. z \in Seq(T) /\ CRLF \in Seq(T)
      BY <1>2, <1>6, <1>80
    <2>10. /\ c1 \in Seq(T) /\ Len(c1) = Len(z) + Len(CRLF)
           /\ \A i \in 1..Len(z) : c1[i] = z[i]
           /\ \A i \in 1..Len(CRLF) : c1[Len(z) + i] = CRLF[i]
      BY <2>19, Joined DEF c1
    <2>1. /\ c1 \in Seq(T) /\ Len(c1) = 1 + 2
          /\ \A i \in 1..1 : c1[i] = z[i]
          /\ \A i \in 1..2 : c1[1 + i] = CRLF[i]
      BY <1>2, <1>6, <1>80, <2>10
    <2>2. c1 \in Seq(T) /\ Len(c1) = 3 /\ c1[1] = Digit(0) /\ c1[2] = CRLF[1] /\ c1[3] = CRLF[2]
      BY <1>6, <2>1
    <2>3. c2 = c1
      BY <1>4, <2>2, ConcatEmptySeq DEF c2
    <2>49. c1 \in Seq(T) /\ CRLF \in Seq(T)
      BY <1>2, <1>6, <1>80, <1>81, <2>2, <2>3
    <2>40. /\ c3 \in Seq(T) /\ Len(c3) = Len(c1) + Len(CRLF)
           /\ \A i \in 1..Len(c1) : c3[i] = c1[i]
           /\ \A i \in 1..Len(CRLF) : c3[Len(c1) + i] = CRLF[i]
      BY <2>49, <2>3, Joined DEF c3
    <2>4. /\ c3 \in Seq(T) /\ Len(c3) = 3 + 2
          /\ \A i \in 1..3 : c3[i] = c1[i]
          /\ \A i \in 1..2 : c3[3 + i] = CRLF[i]
      BY <1>2, <1>6, <1>80, <1>81, <2>2, <2>3, <2>40
    <2> QED
      BY <2>2, <2>4
  <1>14. /\ w \in Seq(T) /\ Len(w) = l + n + 11
         /\ \A i \in 1..l + n + 6 : w[i] = a4[i]
         /\ \A i \in 1..5 : w[l + n + 6 + i] = c3[i]
    <2>19. a4 \in Seq(T) /\ c3 \in Seq(T)
      BY <1>12, <1>13, <1>80, <1>81
    <2>10. /\ w \in Seq(T) /\ Len(w) = Len(a4) + Len(c3)
           /\ \A i \in 1..Len(a4) : w[i] = a4[i]
           /\ \A i \in 1..Len(c3) : w[Len(a4) + i] = c3[i]
      BY <2>19, Joined DEF w
    <2>1. /\ w \in Seq(T) /\ Len(w) = (l + n + 6) + 5
          /\ \A i \in 1..l + n + 6 : w[i] = a4[i]
          /\ \A i \in 1..5 : w[(l + n + 6) + i] = c3[i]
      BY <1>12, <1>13, <1>80, <1>81, <2>10
    <2>2. (l + n + 6) + 5 = l + n + 11
      BY <1>80
    <2> QED
      BY <2>1, <2>2
  <1>15. ChunkedWire(id, n) = w
    BY <1>7 DEF w, a4, a3, a2, a1, c3, c2, c1
  <1> DEFINE B == l + 4
             C == B + n + 2
  <1>16. SizeEnd(n) = B /\ ChunkEnd(n) = C
    BY <1>80 DEF SizeEnd, ChunkEnd, d
  <1> HIDE DEF w, l
  <1>17. l \in {1, 2} /\ C = l + n + 6
    BY <1>1 DEF l
  <1>18. w[1] = Line /\ w[2] = Chunked /\ \A i \in 1..l + n + 4 : w[2 + i] = a3[i]
    <2>1. 1 \in 1..l + n + 6 /\ 2 \in 1..l + n + 6 /\ \A i \in 1..l + n + 4 : 2 + i \in 1..l + n + 6
      BY <1>17
    <2> QED
      BY <1>12, <1>14, <2>1
  <1>19. \A i \in 1..l : w[2 + i] = d[i]
    <2>1. \A i \in 1..l : i \in 1..l + n + 4 /\ i \in 1..l + 2 + n /\ i \in 1..l + 2
      BY <1>17
    <2> QED
      BY <1>9, <1>10, <1>11, <1>18, <2>1
  <1>20. w[B - 1] = CRLF[1] /\ w[B] = CRLF[2]
    <2>1. /\ l + 1 \in 1..l + n + 4 /\ l + 1 \in 1..l + 2 + n /\ l + 1 \in 1..l + 2 /\ B - 1 = 2 + (l + 1)
          /\ l + 2 \in 1..l + n + 4 /\ l + 2 \in 1..l + 2 + n /\ l + 2 \in 1..l + 2 /\ B = 2 + (l + 2)
      BY <1>17
    <2> HIDE DEF B
    <2>2. w[2 + (l + 1)] = a3[l + 1] /\ w[2 + (l + 2)] = a3[l + 2]
      BY <1>18, <2>1
    <2>3. a3[l + 1] = CRLF[1] /\ a3[l + 2] = CRLF[2]
      BY <1>9, <1>10, <1>11, <2>1
    <2> QED
      BY <2>1, <2>2, <2>3, Zenon
  <1>21. ASSUME NEW i \in 1..n PROVE w[B + i] = <<"byte", id, i>>
    <2>1. l + 2 + i \in 1..l + n + 4 /\ l + 2 + i \in 1..l + 2 + n /\ B + i = 2 + (l + 2 + i)
      BY <1>17
    <2> HIDE DEF B
    <2> QED
      BY <1>10, <1>11, <1>18, <2>1
  <1>22. w[C - 1] = CRLF[1] /\ w[C] = CRLF[2]
    <2>1. /\ l + n + 3 \in 1..l + n + 4 /\ C - 1 = 2 + (l + n + 3)
          /\ l + n + 4 \in 1..l + n + 4 /\ C = 2 + (l + n + 4)
      BY <1>17
    <2> HIDE DEF C
    <2> QED
      BY <1>11, <1>18, <2>1
  <1>23. \A i \in 1..5 : w[C + i] = c3[i]
    BY <1>14, <1>17
  <1> HIDE DEF B, C
  <1>24. Len(w) = C + 5
    BY <1>14, <1>17
  <1>25. B = l + 4 /\ C = B + n + 2
    BY DEF B, C
  <1> QED
    <2>1. l = Len(Digits(n)) /\ d = Digits(n)
      BY DEF l, d
    <2>2. /\ w[C + 1] = Digit(0) /\ w[C + 2] = CRLF[1] /\ w[C + 3] = CRLF[2]
          /\ w[C + 4] = CRLF[1] /\ w[C + 5] = CRLF[2]
      BY <1>13, <1>23
    <2>3. \E S : w \in Seq(S)
      BY <1>14
    <2> QED
      BY <1>15, <1>16, <1>17, <1>18, <1>19, <1>20, <1>21, <1>22, <1>24, <1>25, <2>1, <2>2, <2>3, Zenon

\* Is k not inside a size line?
BetweenLines(n, k) == k \notin 3..SizeEnd(n) - 1 /\ k \notin ChunkEnd(n) + 1..ChunkEnd(n) + 2

\* The receiver r has read the first k tokens of a message with a chunk of n bytes:
\* it is in the head, has a buffer that begins with the first size line, fills the
\* chunk, has a buffer that begins with the last size line, fills the last line
\* end, or is through.
ChunkAt(id, n, k, r) ==
    LET w == ChunkedWire(id, n)
        B == SizeEnd(n)
        C == ChunkEnd(n)
        body == Bytes(id, 0, n)
    IN /\ BetweenLines(n, k)
       /\ \/ k < 2 /\ r = Receiver("head", <<>>, <<>>, 0, TRUE)
          \/ k >= 2 /\ r = Receiver("size", SubSeq(w, 3, k), <<>>, 0, TRUE)
          \/ k \in B..C - 1 /\ r = Receiver("chunk", <<>>, SubSeq(w, B + 1, k), C - k, TRUE)
          \/ k >= C /\ r = Receiver("size", SubSeq(w, C + 1, k), body, 0, TRUE)
          \/ k \in C + 3..C + 4
             /\ r = Receiver("last", <<>>, body \o SubSeq(w, C + 4, k), C + 5 - k, TRUE)
          \/ k = C + 5 /\ r = Receiver("done", <<>>, body, 0, TRUE)

\* The bytes of the chunk are the body.
LEMMA ChunkBody ==
    ASSUME NEW id, NEW n \in Nat
    PROVE  LET b == Bytes(id, 0, n) IN
           /\ SubSeq(ChunkedWire(id, n), SizeEnd(n) + 1, SizeEnd(n) + n) = b
           /\ (\E T : b \in Seq(T)) /\ Len(b) = n
  <1> DEFINE w == ChunkedWire(id, n)
             B == SizeEnd(n)
             T == {<<"byte", id, i>> : i \in 1..n}
             s == SubSeq(w, B + 1, B + n)
             b == Bytes(id, 0, n)
  <1>1. /\ Len(Digits(n)) \in {1, 2} /\ B = Len(Digits(n)) + 4
        /\ \A i \in 1..n : w[B + i] = <<"byte", id, i>>
    BY ChunkTokens
  <1>2. b \in [1..n -> T] /\ \A i \in 1..n : b[i] = <<"byte", id, i>>
    BY DEF Bytes
  <1>3. B \in Nat
    BY <1>1
  <1> HIDE DEF w, B
  <1>4. \A i \in 1..n : w[B + i] \in T
    BY <1>1
  <1> HIDE DEF T
  <1>5. \A i \in B + 1..B + n : w[i] \in T
    <2> SUFFICES ASSUME NEW i \in B + 1..B + n PROVE w[i] \in T
      OBVIOUS
    <2>1. i - B \in 1..n /\ B + (i - B) = i
      BY <1>3
    <2> QED
      BY <1>4, <2>1
  <1>6. /\ s \in Seq(T) /\ Len(s) = (IF B + 1 <= B + n THEN (B + n) - (B + 1) + 1 ELSE 0)
        /\ \A i \in 1..(B + n) - (B + 1) + 1 : s[i] = w[(B + 1) + i - 1]
    <2>1. B + 1 \in Int /\ B + n \in Int
      BY <1>3
    <2> QED
      BY <1>5, <2>1, SubSeqProperties
  <1> HIDE DEF s, b
  <1>7. Len(s) = n /\ b \in Seq(T) /\ Len(b) = n
    <2>1. (B + n) - (B + 1) + 1 = n /\ (~(B + 1 <= B + n) => n = 0)
      BY <1>3
    <2>2. Len(s) = n
      BY <1>6, <2>1
    <2> QED
      BY <1>2, <2>2
  <1>8. ASSUME NEW i \in 1..n PROVE s[i] = b[i]
    <2>1. i \in 1..(B + n) - (B + 1) + 1 /\ (B + 1) + i - 1 = B + i
      BY <1>3
    <2> QED
      BY <1>1, <1>2, <1>6, <2>1
  <1>9. s = b
    BY <1>6, <1>7, <1>8, SeqEqual
  <1> QED
    BY <1>7, <1>9 DEF s, b, w, B

\* A read that SplitsSize does not rule out ends between the lines again, if the
\* server wrote all but at most the last token.
LEMMA NoSplit ==
    ASSUME NEW id, NEW n \in Nat, NEW e \in ChunkEnd(n) + 4..ChunkEnd(n) + 5,
           NEW k \in 0..e, BetweenLines(n, k), NEW j \in 1..e - k,
           ~SplitsSize(SubSeq(ChunkedWire(id, n), k + 1, e), j)
    PROVE  BetweenLines(n, k + j)
  <1> DEFINE w == ChunkedWire(id, n)
             d == Len(Digits(n))
             B == SizeEnd(n)
             C == ChunkEnd(n)
             s == SubSeq(w, k + 1, e)
  <1>1. /\ \E T : w \in Seq(T)
        /\ d \in {1, 2} /\ B = d + 4 /\ C = B + n + 2 /\ Len(w) = C + 5
        /\ \A i \in 1..d : w[2 + i] = Digits(n)[i]
        /\ w[B - 1] = CRLF[1] /\ w[C + 1] = Digit(0) /\ w[C + 2] = CRLF[1]
    BY ChunkTokens
  <1>2. \A i \in 1..d : w[2 + i][1] = "digit"
    BY <1>1, DigitsWrite
  <1>3. w[C + 1][1] = "digit"
    BY <1>1 DEF Digit
  <1>4. PICK T : w \in Seq(T)
    BY <1>1
  <1>5. ~(/\ j < Len(s)
          /\ s[j][1] = "digit" \/ (j > 1 /\ s[j] = CRLF[1] /\ s[j - 1][1] = "digit"))
    BY DEF SplitsSize
  <1> HIDE DEF w, d, B, C
  <1>6. C \in Nat /\ B \in Nat /\ e \in C + 4..C + 5 /\ e \in Nat /\ k \in Nat /\ j \in Nat
    <2>1. e \in C + 4..C + 5
      BY DEF C
    <2> QED
      BY <1>1, <2>1
  <1>7. Len(s) = e - k /\ \A i \in 1..e - k : s[i] = w[k + i]
    <2>1. Len(w) \in Nat /\ e <= Len(w) /\ k <= e
      BY <1>1, <1>6
    <2> QED
      BY <1>4, <1>6, <2>1
  <1> HIDE DEF s
  <1>8. k \notin 3..B - 1 /\ k \notin C + 1..C + 2
    BY DEF BetweenLines, B, C
  <1>9. s[j] = w[k + j] /\ (j > 1 => s[j - 1] = w[k + j - 1])
    <2>1. j \in 1..e - k /\ (j > 1 => j - 1 \in 1..e - k /\ k + (j - 1) = k + j - 1)
      BY <1>6
    <2> QED
      BY <1>7, <2>1
  <1>10. k + j \notin 3..B - 1
    <2> SUFFICES ASSUME k + j \in 3..B - 1 PROVE FALSE
      OBVIOUS
    <2>1. j < Len(s)
      BY <1>1, <1>6, <1>7
    <2>2. CASE k + j < B - 1
      <3>1. (k + j) - 2 \in 1..d /\ 2 + ((k + j) - 2) = k + j
        BY <1>1, <1>6, <2>2
      <3> QED
        BY <1>2, <1>5, <1>9, <2>1, <3>1
    <2>3. CASE k + j = B - 1
      <3>1. k + j - 1 # k /\ j > 1
        BY <1>1, <1>6, <1>8, <2>3
      <3>2. d \in 1..d /\ 2 + d = k + j - 1
        BY <1>1, <1>6, <2>3
      <3>3. s[j - 1][1] = "digit"
        BY <1>2, <1>9, <3>1, <3>2
      <3> QED
        BY <1>1, <1>5, <1>9, <2>1, <2>3, <3>1, <3>3
    <2> QED
      BY <1>6, <2>2, <2>3
  <1>11. k + j \notin C + 1..C + 2
    <2> SUFFICES ASSUME k + j \in C + 1..C + 2 PROVE FALSE
      OBVIOUS
    <2>1. j < Len(s)
      BY <1>6, <1>7
    <2>2. CASE k + j = C + 1
      BY <1>3, <1>5, <1>9, <2>1, <2>2
    <2>3. CASE k + j = C + 2
      <3>1. j > 1 /\ k + j - 1 = C + 1
        BY <1>6, <1>8, <2>3
      <3>2. s[j - 1][1] = "digit"
        BY <1>3, <1>9, <3>1
      <3> QED
        BY <1>1, <1>5, <1>9, <2>1, <2>3, <3>1, <3>2
    <2> QED
      BY <1>6, <2>2, <2>3
  <1> QED
    BY <1>10, <1>11 DEF BetweenLines, B, C

\* Of the tokens of such a message only the second ends the head, and none is a
\* Connection field.
LEMMA ChunkTags ==
    ASSUME NEW id, NEW n \in Nat, NEW i \in 1..ChunkEnd(n) + 5
    PROVE  LET x == ChunkedWire(id, n)[i] IN
           /\ x[1] \in {"line", "chunked", "digit", "cr", "lf", "byte"}
           /\ x[1] = "chunked" <=> i = 2
  <1> DEFINE w == ChunkedWire(id, n)
             d == Len(Digits(n))
             B == SizeEnd(n)
             C == ChunkEnd(n)
  <1>1. /\ d \in {1, 2} /\ B = d + 4 /\ C = B + n + 2
        /\ w[1] = Line /\ w[2] = Chunked
        /\ \A m \in 1..d : w[2 + m] = Digits(n)[m]
        /\ w[B - 1] = CRLF[1] /\ w[B] = CRLF[2]
        /\ \A m \in 1..n : w[B + m] = <<"byte", id, m>>
        /\ w[C - 1] = CRLF[1] /\ w[C] = CRLF[2]
        /\ w[C + 1] = Digit(0) /\ w[C + 2] = CRLF[1] /\ w[C + 3] = CRLF[2]
        /\ w[C + 4] = CRLF[1] /\ w[C + 5] = CRLF[2]
    BY ChunkTokens
  <1>2. \A m \in 1..d : w[2 + m][1] = "digit"
    BY <1>1, DigitsWrite
  <1>3. \A m \in 1..n : w[B + m][1] = "byte"
    <2> SUFFICES ASSUME NEW m \in 1..n PROVE w[B + m][1] = "byte"
      OBVIOUS
    <2> HIDE DEF w, B
    <2>1. w[B + m] = <<"byte", id, m>>
      BY <1>1
    <2> QED
      BY <2>1
  <1>4. /\ Line[1] = "line" /\ Chunked[1] = "chunked" /\ Digit(0)[1] = "digit"
        /\ CRLF[1][1] = "cr" /\ CRLF[2][1] = "lf"
    BY DEF Line, Chunked, Digit, CRLF
  <1>5. i \in 1..C + 5
    OBVIOUS
  <1> HIDE DEF w, d, B, C
  <1>6. \/ i \in {1, 2} \/ i \in {B - 1, B} \/ i \in {C - 1, C} \/ i \in {C + 1, C + 2, C + 3, C + 4, C + 5}
        \/ (i - 2 \in 1..d /\ 2 + (i - 2) = i) \/ (i - B \in 1..n /\ B + (i - B) = i)
    BY <1>1, <1>5
  <1>7. w[i][1] \in {"line", "chunked", "digit", "cr", "lf", "byte"}
    <2>1. CASE i \in {1, 2}
      BY <1>1, <1>4, <2>1
    <2>2. CASE i \in {B - 1, B} \/ i \in {C - 1, C}
      BY <1>1, <1>4, <2>2
    <2>3. CASE i \in {C + 1, C + 2, C + 3, C + 4, C + 5}
      BY <1>1, <1>4, <2>3
    <2>4. CASE i - 2 \in 1..d /\ 2 + (i - 2) = i
      BY <1>2, <2>4
    <2>5. CASE i - B \in 1..n /\ B + (i - B) = i
      BY <1>3, <2>5
    <2> QED
      BY <1>6, <2>1, <2>2, <2>3, <2>4, <2>5
  <1>8. CASE i = 2
    BY <1>1, <1>4, <1>7, <1>8 DEF w
  <1>9. CASE i # 2
    <2>1. w[i][1] # "chunked"
      <3>1. CASE i = 1
        BY <1>1, <1>4, <3>1
      <3>2. CASE i \in {B - 1, B} \/ i \in {C - 1, C}
        BY <1>1, <1>4, <3>2
      <3>3. CASE i \in {C + 1, C + 2, C + 3, C + 4, C + 5}
        BY <1>1, <1>4, <3>3
      <3>4. CASE i - 2 \in 1..d /\ 2 + (i - 2) = i
        BY <1>2, <3>4
      <3>5. CASE i - B \in 1..n /\ B + (i - B) = i
        BY <1>3, <3>5
      <3> QED
        BY <1>6, <1>9, <3>1, <3>2, <3>3, <3>4, <3>5
    <2> QED
      BY <1>7, <1>9, <2>1 DEF w
  <1> QED
    BY <1>8, <1>9

\* What the first loop makes of it.
LEMMA ChunkHead ==
    ASSUME NEW id, NEW n \in Nat, NEW k \in 0..1, NEW j \in 1..ChunkEnd(n) + 5 - k
    PROVE  LET r == Receiver("head", <<>>, <<>>, 0, TRUE)
               w == ChunkedWire(id, n)
           IN ParseHead(r, SubSeq(w, k + 1, k + j))
              = IF k + j < 2 THEN r ELSE Receiver("size", SubSeq(w, 3, k + j), <<>>, 0, TRUE)
  <1> DEFINE w == ChunkedWire(id, n)
             C == ChunkEnd(n)
             s == SubSeq(w, k + 1, k + j)
             r == Receiver("head", <<>>, <<>>, 0, TRUE)
             I == {i \in 1..Len(s) : s[i][1] \in {"fixed", "chunked"}}
             end == IF I # {} THEN Min(I) ELSE 0
             hclose == IF Contains(s, Connection(TRUE)) THEN TRUE
                       ELSE IF Contains(s, Connection(FALSE)) THEN FALSE ELSE r.close
             h == [r EXCEPT !.close = hclose]
             rest == SubSeq(s, end + 1, Len(s))
  <1> SUFFICES ParseHead(r, s) = IF k + j < 2 THEN r ELSE Receiver("size", SubSeq(w, 3, k + j), <<>>, 0, TRUE)
    BY Zenon
  <1>1. ParseHead(r, s) = IF end = 0 THEN h
                          ELSE IF s[end] = Chunked THEN Receiver("size", rest, <<>>, 0, h.close)
                          ELSE Content(h, s[end][2], rest)
    BY Zenon DEF ParseHead, SelectInSeq
  <1>2. (\E T : w \in Seq(T)) /\ C \in Nat /\ Len(w) = C + 5 /\ w[2] = Chunked
    <2> DEFINE d == Len(Digits(n))
               B == SizeEnd(n)
    <2>1. /\ d \in {1, 2} /\ B = d + 4 /\ C = B + n + 2
          /\ (\E T : w \in Seq(T)) /\ Len(w) = C + 5 /\ w[2] = Chunked
      BY ChunkTokens
    <2> HIDE DEF w, C, d, B
    <2>2. C \in Nat
      BY <2>1
    <2> QED
      BY <2>1, <2>2
  <1>3. PICK T : w \in Seq(T)
    BY <1>2
  <1>4. \A i \in 1..C + 5 : /\ w[i][1] \in {"line", "chunked", "digit", "cr", "lf", "byte"}
                            /\ w[i][1] = "chunked" <=> i = 2
    BY ChunkTags
  <1>5. r.close = TRUE
    BY DEF Receiver
  <1>6. j \in 1..C + 5 - k
    OBVIOUS
  <1> HIDE DEF w, C, r
  <1>7. Len(s) = j /\ \A i \in 1..j : s[i] = w[k + i] /\ k + i \in 1..C + 5
    BY <1>2, <1>3, <1>6
  <1>8. \A i \in 1..j : /\ s[i][1] \in {"fixed", "chunked"} <=> k + i = 2
                        /\ s[i][1] # "connection"
    BY <1>4, <1>7
  <1>9. hclose = TRUE
    <2>1. \A b : Connection(b)[1] = "connection"
      BY DEF Connection
    <2>2. \A b : ~Contains(s, Connection(b))
      BY <1>7, <1>8, <2>1 DEF Contains
    <2> QED
      BY <1>5, <2>2
  <1> HIDE DEF hclose
  <1>10. h = r
    <2>1. h = [r EXCEPT !.close = TRUE]
      BY <1>9
    <2> HIDE DEF h
    <2> QED
      BY <2>1 DEF r, Receiver
  <1> HIDE DEF h
  <1>11. CASE k + j < 2
    <2>1. I = {}
      BY <1>7, <1>8, <1>11
    <2> QED
      BY <1>1, <1>10, <1>11, <2>1
  <1>12. CASE k + j >= 2
    <2>1. I = {2 - k}
      BY <1>7, <1>8, <1>12
    <2>2. end = 2 - k
      <3>1. Min({2 - k}) = 2 - k
        BY DEF Min
      <3> QED
        BY <2>1, <3>1
    <2> HIDE DEF end, I
    <2>3. end \in 1..j /\ k + end = 2 /\ end # 0
      BY <1>12, <2>2
    <2>4. s[end] = Chunked
      BY <1>2, <1>7, <2>3
    <2>5. rest = SubSeq(w, 3, k + j)
      <3>1. k + j \in 0..Len(w) /\ k \in 0..k + j /\ end \in 0..(k + j) - k /\ k + end + 1 = 3
        BY <1>2, <1>6, <2>3
      <3>2. SubSeq(s, end + 1, Len(s)) = SubSeq(w, k + end + 1, k + j)
        BY <1>3, <3>1, StreamCut
      <3> QED
        BY <3>1, <3>2
    <2> HIDE DEF rest
    <2>6. ParseHead(r, s) = Receiver("size", rest, <<>>, 0, TRUE)
      BY <1>1, <1>5, <1>10, <2>3, <2>4
    <2>7. ~(k + j < 2)
      BY <1>12
    <2> HIDE DEF s
    <2> QED
      BY <2>5, <2>6, <2>7
  <1>13. k + j < 2 \/ k + j >= 2
    OBVIOUS
  <1> HIDE DEF s, end, I, rest
  <1> QED
    BY <1>11, <1>12, <1>13

\* The places of such a message.
LEMMA ChunkPlaces ==
    ASSUME NEW id, NEW n \in Nat
    PROVE  LET w == ChunkedWire(id, n) IN
           /\ SizeEnd(n) \in 5..6 /\ ChunkEnd(n) = SizeEnd(n) + n + 2
           /\ SizeEnd(n) \in Nat /\ ChunkEnd(n) \in Nat
           /\ (\E T : w \in Seq(T)) /\ Len(w) = ChunkEnd(n) + 5
  <1> DEFINE w == ChunkedWire(id, n)
             d == Len(Digits(n))
             B == SizeEnd(n)
             C == ChunkEnd(n)
  <1>1. /\ d \in {1, 2} /\ B = d + 4 /\ C = B + n + 2
        /\ (\E T : w \in Seq(T)) /\ Len(w) = C + 5
    BY ChunkTokens
  <1> HIDE DEF w, d, B, C
  <1>2. B \in 5..6 /\ B \in Nat /\ C \in Nat
    BY <1>1
  <1> QED
    BY <1>1, <1>2 DEF w, B, C

\* Concatenation is associative.
Regroups(Q) == \A a, x, y \in Q : (a \o x) \o y = a \o (x \o y)

LEMMA SeqRegroups == \A U : Regroups(Seq(U))
  BY ConcatAssociative, Zenon DEF Regroups

\* What was read of w, from place i on, grows by what is read next.
Grows(body, w, i, k, e) ==
    (body \o SubSeq(w, i, k)) \o SubSeq(w, k + 1, e) = body \o SubSeq(w, i, e)

LEMMA TailGrows ==
    ASSUME NEW U, NEW body \in Seq(U), NEW w \in Seq(U),
           NEW i \in 1..Len(w) + 1, NEW k \in i - 1..Len(w), NEW e \in k..Len(w)
    PROVE  Grows(body, w, i, k, e)
  <1>1. SubSeq(w, i, k) \o SubSeq(w, k + 1, e) = SubSeq(w, i, e)
    BY ConcatAdjacentSubSeq
  <1>2. SubSeq(w, i, k) \in Seq(U) /\ SubSeq(w, k + 1, e) \in Seq(U)
    <2>1. /\ i \in 1..Len(w) + 1 /\ k \in Nat /\ k <= Len(w) /\ e \in Nat /\ e <= Len(w)
          /\ k + 1 \in 1..Len(w) + 1
      OBVIOUS
    <2> QED
      BY <2>1, SubSeqProperties
  <1>3. PICK Q : Q = Seq(U)
    OBVIOUS
  <1>4. Regroups(Q)
    BY <1>3, SeqRegroups, Zenon
  <1>5. PICK x, y, b, z : /\ x = SubSeq(w, i, k) /\ y = SubSeq(w, k + 1, e)
                          /\ b = body /\ z = SubSeq(w, i, e)
    BY Zenon
  <1>6. x \in Q /\ y \in Q /\ b \in Q /\ x \o y = z
    BY <1>1, <1>2, <1>3, <1>5, Zenon
  <1>7. (b \o x) \o y = b \o z
    BY <1>6, <1>4, Zenon DEF Regroups
  <1> QED
    BY <1>5, <1>7, Zenon DEF Grows

\* What a read() brings to a receiver of such a message.
LEMMA ChunkRead ==
    ASSUME NEW id, NEW n \in Nat \ {0}, NEW r, NEW k \in Nat,
           ChunkAt(id, n, k, r), MustRead(r),
           NEW j \in 1..ChunkEnd(n) + 5 - k, r.at \in {"chunk", "last"} => j <= r.left,
           BetweenLines(n, k + j)
    PROVE  ChunkAt(id, n, k + j, Receive(r, SubSeq(ChunkedWire(id, n), k + 1, k + j)))
  <1> DEFINE w == ChunkedWire(id, n)
             B == SizeEnd(n)
             C == ChunkEnd(n)
             body == Bytes(id, 0, n)
             s == SubSeq(w, k + 1, k + j)
  <1>1. /\ B \in 5..6 /\ C = B + n + 2 /\ B \in Nat /\ C \in Nat
        /\ (\E T : w \in Seq(T)) /\ Len(w) = C + 5
    BY ChunkPlaces
  <1>2. PICK T : w \in Seq(T)
    BY <1>1
  <1>3. /\ SubSeq(w, B + 1, B + n) = body /\ (\E S : body \in Seq(S)) /\ Len(body) = n
    BY ChunkBody
  <1>4. \/ k < 2 /\ r = Receiver("head", <<>>, <<>>, 0, TRUE)
        \/ k >= 2 /\ r = Receiver("size", SubSeq(w, 3, k), <<>>, 0, TRUE)
        \/ k \in B..C - 1 /\ r = Receiver("chunk", <<>>, SubSeq(w, B + 1, k), C - k, TRUE)
        \/ k >= C /\ r = Receiver("size", SubSeq(w, C + 1, k), body, 0, TRUE)
        \/ k \in C + 3..C + 4 /\ r = Receiver("last", <<>>, body \o SubSeq(w, C + 4, k), C + 5 - k, TRUE)
        \/ k = C + 5 /\ r = Receiver("done", <<>>, body, 0, TRUE)
    BY DEF ChunkAt
  <1> DEFINE P(q) == \/ k + j < 2 /\ q = Receiver("head", <<>>, <<>>, 0, TRUE)
                     \/ k + j >= 2 /\ q = Receiver("size", SubSeq(w, 3, k + j), <<>>, 0, TRUE)
                     \/ k + j \in B..C - 1 /\ q = Receiver("chunk", <<>>, SubSeq(w, B + 1, k + j), C - (k + j), TRUE)
                     \/ k + j >= C /\ q = Receiver("size", SubSeq(w, C + 1, k + j), body, 0, TRUE)
                     \/ /\ k + j \in C + 3..C + 4
                        /\ q = Receiver("last", <<>>, body \o SubSeq(w, C + 4, k + j), C + 5 - (k + j), TRUE)
                     \/ k + j = C + 5 /\ q = Receiver("done", <<>>, body, 0, TRUE)
  <1> SUFFICES P(Receive(r, s))
    BY DEF ChunkAt
  <1>5. j \in 1..C + 5 - k /\ j \in Nat /\ k + j <= C + 5
    <2>1. j \in 1..C + 5 - k
      OBVIOUS
    <2> HIDE DEF C
    <2> QED
      BY <1>1, <2>1
  <1>6. ASSUME k < 2, r = Receiver("head", <<>>, <<>>, 0, TRUE) PROVE P(Receive(r, s))
    <2>1. k \in 0..1 /\ j \in 1..ChunkEnd(n) + 5 - k
      BY <1>6
    <2>2. ParseHead(r, s) = IF k + j < 2 THEN r ELSE Receiver("size", SubSeq(w, 3, k + j), <<>>, 0, TRUE)
      BY <1>6, <2>1, ChunkHead
    <2>3. Receive(r, s) = ParseHead(r, s)
      <3>1. r.at = "head"
        BY <1>6 DEF Receiver
      <3> HIDE DEF s
      <3> QED
        BY <3>1 DEF Receive
    <2> HIDE DEF w, B, C, body, s
    <2>4. k + j < 2 \/ k + j >= 2
      BY <1>5
    <2>5. CASE k + j < 2
      BY <1>6, <2>2, <2>3, <2>5
    <2>6. CASE k + j >= 2
      <3>1. ~(k + j < 2)
        BY <1>5, <2>6
      <3> QED
        BY <2>2, <2>3, <2>6, <3>1
    <2> QED
      BY <2>4, <2>5, <2>6
  <1>7. ASSUME NEW p \in Nat, p <= k, NEW b, r = Receiver("size", SubSeq(w, p + 1, k), b, 0, TRUE)
        PROVE  p = k /\ Receive(r, s) = Receiver("size", SubSeq(w, p + 1, k + j), b, 0, TRUE)
    <2>1. r.at = "size" /\ r.data = SubSeq(w, p + 1, k)
      BY <1>7 DEF Receiver
    <2>2. r.data = <<>>
      BY <2>1 DEF MustRead
    <2> HIDE DEF w, C, s
    <2>3. Len(SubSeq(w, p + 1, k)) = k - p
      BY <1>1, <1>2, <1>5, <1>7
    <2>4. p = k
      <3>1. k - p = Len(<<>>) /\ Len(<<>>) = 0
        BY <2>1, <2>2, <2>3
      <3> QED
        BY <1>7, <3>1
    <2>5. Receive(r, s) = [r EXCEPT !.data = s]
      BY <2>1 DEF Receive
    <2> QED
      BY <1>7, <2>4, <2>5 DEF Receiver, s
  <1>8. ASSUME k >= 2, r = Receiver("size", SubSeq(w, 3, k), <<>>, 0, TRUE) PROVE P(Receive(r, s))
    <2> HIDE DEF w, B, C, body, s
    <2>1. 2 \in Nat /\ 2 + 1 = 3 /\ 2 <= k
      BY <1>8
    <2>2. r = Receiver("size", SubSeq(w, 2 + 1, k), <<>>, 0, TRUE)
      BY <1>8, <2>1
    <2>3. Receive(r, s) = Receiver("size", SubSeq(w, 2 + 1, k + j), <<>>, 0, TRUE)
      BY <1>7, <2>1, <2>2
    <2>4. k + j >= 2
      BY <1>5, <1>8
    <2> QED
      BY <2>1, <2>3, <2>4
  <1>9. ASSUME k >= C, r = Receiver("size", SubSeq(w, C + 1, k), body, 0, TRUE) PROVE P(Receive(r, s))
    <2> HIDE DEF w, B, C, body, s
    <2>1. C \in Nat /\ C <= k
      BY <1>1, <1>9
    <2>2. Receive(r, s) = Receiver("size", SubSeq(w, C + 1, k + j), body, 0, TRUE)
      BY <1>7, <1>9, <2>1
    <2>3. k + j >= C
      BY <1>5, <2>1
    <2> QED
      BY <2>2, <2>3
  <1>10. ASSUME k \in B..C - 1, r = Receiver("chunk", <<>>, SubSeq(w, B + 1, k), C - k, TRUE)
         PROVE  P(Receive(r, s))
    <2>1. /\ r.at = "chunk" /\ r.left = C - k /\ r.body = SubSeq(w, B + 1, k) /\ r.close = TRUE
          /\ r.data = <<>>
      BY <1>10 DEF Receiver
    <2>2. j <= C - k
      BY <2>1
    <2> HIDE DEF w, B, C, body
    <2>3. Len(s) = j
      BY <1>1, <1>2, <1>5
    <2>4. SubSeq(w, B + 1, k) \o SubSeq(w, k + 1, k + j) = SubSeq(w, B + 1, k + j)
      <3>1. B + 1 \in 1..Len(w) + 1 /\ k \in (B + 1) - 1..Len(w) /\ k + j \in k..Len(w)
        BY <1>1, <1>5, <1>10
      <3> QED
        BY <1>2, <3>1, ConcatAdjacentSubSeq
    <2>5. r.body \o s = SubSeq(w, B + 1, k + j)
      BY <2>1, <2>4
    <2> HIDE DEF s
    <2>6. Receive(r, s) = ReadChunk(r, s)
      BY <2>1 DEF Receive
    <2>7. CASE j < C - k
      <3>1. Receive(r, s) = Receiver("chunk", <<>>, SubSeq(w, B + 1, k + j), (C - k) - j, TRUE)
        <4>1. r.left > Len(s)
          BY <1>1, <1>5, <2>1, <2>3, <2>7
        <4>2. Receive(r, s) = [r EXCEPT !.body = SubSeq(w, B + 1, k + j), !.left = @ - j]
          BY <2>3, <2>5, <2>6, <4>1 DEF ReadChunk
        <4> QED
          BY <1>10, <4>2 DEF Receiver
      <3>2. k + j \in B..C - 1 /\ (C - k) - j = C - (k + j)
        BY <1>1, <1>5, <1>10, <2>7
      <3> QED
        BY <3>1, <3>2
    <2>8. CASE ~(j < C - k)
      <3>1. k + j = C /\ ~(r.left > Len(s))
        <4>1. k + j = C /\ ~(C - k > j)
          BY <1>1, <1>5, <1>10, <2>2, <2>8
        <4> QED
          BY <2>1, <2>3, <4>1
      <3> DEFINE c == SubSeq(w, B + 1, C)
      <3>2. Receive(r, s) = Receiver("size", <<>>, SubSeq(c, 1, Len(c) - 2), 0, TRUE)
        <4> HIDE DEF c
        <4>1. r.body \o s = c
          BY <2>5, <3>1 DEF c
        <4> QED
          BY <2>1, <2>6, <3>1, <4>1 DEF ReadChunk
      <3>3. Len(c) = n + 2 /\ SubSeq(c, 1, n) = SubSeq(w, B + 1, B + n)
        <4>1. C \in 0..Len(w) /\ B \in 0..C /\ n \in 0..C - B /\ C - B = n + 2
          BY <1>1
        <4> QED
          BY <1>2, <4>1, StreamCut
      <3>4. SubSeq(w, C + 1, k + j) = <<>>
        BY <1>1, <3>1, SubSeqEmpty
      <3>5. (n + 2) - 2 = n /\ k + j >= C
        BY <1>1, <3>1
      <3> HIDE DEF c
      <3> QED
        BY <1>3, <3>2, <3>3, <3>4, <3>5
    <2> QED
      BY <2>7, <2>8
  <1>11. ASSUME k \in C + 3..C + 4, r = Receiver("last", <<>>, body \o SubSeq(w, C + 4, k), C + 5 - k, TRUE)
         PROVE  P(Receive(r, s))
    <2>1. /\ r.at = "last" /\ r.left = C + 5 - k /\ r.body = body \o SubSeq(w, C + 4, k) /\ r.close = TRUE
      BY <1>11 DEF Receiver
    <2> HIDE DEF w, B, C, body
    <2>3. Len(s) = j
      BY <1>1, <1>2, <1>5
    <2>4. C + 4 \in 1..Len(w) + 1 /\ k \in (C + 4) - 1..Len(w) /\ k + j \in k..Len(w)
      BY <1>1, <1>5, <1>11
    <2>5. PICK S : body \in Seq(S)
      BY <1>3
    <2>6. PICK U : w \in Seq(U) /\ body \in Seq(U) /\ SubSeq(w, C + 4, k + j) \in Seq(U)
      <3>1. PICK U : U = S \cup T
        OBVIOUS
      <3>2. w \in Seq(U) /\ body \in Seq(U)
        BY <1>2, <2>5, <3>1
      <3>3. SubSeq(w, C + 4, k + j) \in Seq(U)
        BY <2>4, <3>2
      <3> QED
        BY <3>2, <3>3
    <2>7. r.body \o s = body \o SubSeq(w, C + 4, k + j)
      <3>1. Grows(body, w, C + 4, k, k + j)
        BY <2>4, <2>6, TailGrows
      <3> QED
        BY <2>1, <3>1, Zenon DEF s, Grows
    <2> HIDE DEF s
    <2>8. Receive(r, s) = ReadChunk(r, s)
      BY <2>1 DEF Receive
    <2>9. CASE j < C + 5 - k
      <3> DEFINE c == body \o SubSeq(w, C + 4, k + j)
      <3>0. r.body \o s = c
        BY <2>7
      <3> HIDE DEF c
      <3>1. Receive(r, s) = Receiver("last", <<>>, c, (C + 5 - k) - j, TRUE)
        <4>1. r.left > Len(s)
          BY <1>1, <1>5, <2>1, <2>3, <2>9
        <4>2. Receive(r, s) = [r EXCEPT !.body = c, !.left = @ - j]
          BY <2>3, <2>8, <3>0, <4>1 DEF ReadChunk
        <4> QED
          BY <1>11, <4>2 DEF Receiver
      <3>2. k + j \in C + 3..C + 4 /\ (C + 5 - k) - j = C + 5 - (k + j)
        BY <1>1, <1>5, <1>11, <2>9
      <3> QED
        BY <3>1, <3>2 DEF c
    <2>10. CASE ~(j < C + 5 - k)
      <3>1. k + j = C + 5 /\ ~(r.left > Len(s))
        <4>1. k + j = C + 5 /\ ~(C + 5 - k > j)
          BY <1>1, <1>5, <1>11, <2>10
        <4> QED
          BY <2>1, <2>3, <4>1
      <3> DEFINE y == SubSeq(w, C + 4, C + 5)
                 c == body \o y
      <3>2. Receive(r, s) = Receiver("done", <<>>, SubSeq(c, 1, Len(c) - 2), 0, TRUE)
        <4>1. r.body \o s = c
          BY <2>7, <3>1
        <4> HIDE DEF c
        <4> QED
          BY <2>1, <2>8, <3>1, <4>1 DEF ReadChunk
      <3>3. y \in Seq(U) /\ Len(y) = 2
        <4>1. y \in Seq(U)
          BY <2>6, <3>1
        <4>2. Len(y) = 2
          BY <1>1, <1>2
        <4> QED
          BY <4>1, <4>2
      <3> HIDE DEF y
      <3>4. Len(c) = n + 2
        <4>1. Len(c) = Len(body) + Len(y)
          BY <2>6, <3>3, ConcatProperties
        <4> HIDE DEF c
        <4> QED
          BY <1>3, <3>3, <4>1
      <3>5. SubSeq(c, 1, n) = body
        <4>1. 1 \in 1..Len(body) /\ n \in 1..Len(body)
          BY <1>3
        <4>2. SubSeq(c, 1, n) = SubSeq(body, 1, n)
          BY <2>6, <3>3, <4>1, SubSeqOfConcat1
        <4>3. SubSeq(body, 1, Len(body)) = body
          BY <2>6, SubSeqFull
        <4> QED
          BY <1>3, <4>2, <4>3
      <3>6. (n + 2) - 2 = n
        OBVIOUS
      <3> HIDE DEF c
      <3> QED
        BY <3>1, <3>2, <3>4, <3>5, <3>6
    <2> QED
      BY <2>9, <2>10
  <1>12. ASSUME k = C + 5, r = Receiver("done", <<>>, body, 0, TRUE) PROVE P(Receive(r, s))
    <2>1. r.at = "done"
      BY <1>12 DEF Receiver
    <2> QED
      BY <2>1 DEF MustRead
  <1> HIDE DEF P, w, B, C, body, s
  <1> QED
    BY <1>4, <1>6, <1>8, <1>9, <1>10, <1>11, <1>12

\* A size line behind p: m digits, which write this size, and a line end.
LineAt(w, p, m) ==
    /\ \A i \in 1..m : w[p + i][1] = "digit" /\ w[p + i][2] \in Nat
    /\ w[p + m + 1] = CRLF[1] /\ w[p + m + 2] = CRLF[2]
LineEnd(p, m) == p + m + 2
SizeAt(w, p, m) == IF m = 1 THEN w[p + 1][2] ELSE Radix * w[p + 1][2] + w[p + 2][2]

\* The receiver with a size line of a chunk of n bytes that ends at q, and k tokens.
LineParsed(w, k, q, n, b) ==
    IF q + n + 2 <= k
    THEN Receiver(IF n = 0 THEN "done" ELSE "size", SubSeq(w, q + n + 3, k),
                  b \o SubSeq(w, q + 1, q + n), 0, TRUE)
    ELSE Receiver(IF n = 0 THEN "last" ELSE "chunk", <<>>,
                  b \o SubSeq(w, q + 1, k), q + n + 2 - k, TRUE)

\* The receiver that has the tokens p + 1..k in its buffer, and the body b.
Buffered(w, p, k, b) == Receiver("size", SubSeq(w, p + 1, k), b, 0, TRUE)

\* What StreamCut says of s, the tokens of w behind k and up to e.
Cut(s, w, e, k, j) ==
    /\ SubSeq(s, 1, j) = SubSeq(w, k + 1, k + j)
    /\ SubSeq(s, j + 1, Len(s)) = SubSeq(w, k + j + 1, e)

LEMMA StreamRest ==
    ASSUME NEW T, NEW w \in Seq(T), NEW e \in 0..Len(w), NEW k \in 0..e, NEW j \in 0..e - k,
           NEW s, s = SubSeq(w, k + 1, e)
    PROVE  Cut(s, w, e, k, j)
  BY StreamCut DEF Cut

\* What a parser makes of the tokens p + 1..k of a stream that begin with such a line.
LEMMA ParseLine ==
    ASSUME NEW T, NEW w \in Seq(T), NEW k \in 0..Len(w), NEW p \in 0..k,
           NEW m \in {1, 2}, LineEnd(p, m) <= k, LineAt(w, p, m),
           NEW n \in Nat, n = SizeAt(w, p, m), NEW b
    PROVE  ParseSize(Buffered(w, p, k, b)) = LineParsed(w, k, LineEnd(p, m), n, b)
  <1> DEFINE q == p + m + 2
             data == SubSeq(w, p + 1, k)
             r == Receiver("size", data, b, 0, TRUE)
             rest == SubSeq(data, m + 3, Len(data))
  <1> SUFFICES ParseSize(r) = LineParsed(w, k, q, n, b)
    BY DEF Buffered, LineEnd
  <1>1. data \in Seq(T) /\ Len(data) = k - p /\ \A i \in 1..k - p : data[i] = w[p + i]
    OBVIOUS
  <1>2. q \in Nat /\ q <= k /\ q = p + m + 2 /\ k \in Nat /\ p \in Nat /\ k <= Len(w)
    BY DEF LineEnd
  <1>3. r.at = "size" /\ r.data = data /\ r.body = b /\ r.left = 0 /\ r.close = TRUE
    BY DEF Receiver
  <1> HIDE DEF data, q
  <1>4. /\ EndOfSize(data) = m + 2 /\ IsSize(data, m + 2) /\ SizeOf(data, m + 2) = n
    <2>1. /\ m + 2 <= Len(data) /\ (\A i \in 1..m : data[i] = w[p + i])
          /\ data[m + 1] = w[p + m + 1] /\ data[m + 2] = w[p + m + 2]
      <3>1. /\ m + 1 \in 1..k - p /\ p + (m + 1) = p + m + 1
            /\ m + 2 \in 1..k - p /\ p + (m + 2) = p + m + 2
            /\ \A i \in 1..m : i \in 1..k - p
        BY <1>2
      <3>2. m + 2 <= k - p
        BY <1>2
      <3>3. data[m + 1] = w[p + (m + 1)] /\ data[m + 2] = w[p + (m + 2)]
        BY <1>1, <3>1
      <3> QED
        BY <1>1, <3>1, <3>2, <3>3
    <2>2. /\ EndOfSize(data) = m + 2 /\ IsSize(data, m + 2)
          /\ SizeOf(data, m + 2) = IF m = 1 THEN data[1][2] ELSE Radix * data[1][2] + data[2][2]
      <3>1. /\ \A i \in 1..m : data[i][1] = "digit" /\ data[i][2] \in Nat
            /\ data[m + 1] = CRLF[1] /\ data[m + 2] = CRLF[2]
        BY <2>1 DEF LineAt
      <3> QED
        BY <1>1, <2>1, <3>1, SizeLine
    <2>3. data[1] = w[p + 1] /\ (m = 2 => data[2] = w[p + 2])
      BY <2>1
    <2> QED
      BY <2>2, <2>3 DEF SizeAt
  <1>5. rest = SubSeq(w, q + 1, k) /\ Len(rest) = k - q
    <2>1. m + 2 \in 0..k - p /\ p + (m + 2) + 1 = q + 1 /\ (m + 2) + 1 = m + 3
      BY <1>2
    <2>2. SubSeq(data, (m + 2) + 1, Len(data)) = SubSeq(w, p + (m + 2) + 1, k)
      BY <2>1, StreamCut DEF data
    <2>3. rest = SubSeq(w, q + 1, k)
      BY <2>1, <2>2
    <2> HIDE DEF rest
    <2>4. Len(SubSeq(w, q + 1, k)) = k - q
      BY <1>2
    <2> QED
      BY <2>3, <2>4
  <1>6. ParseSize(r) = IF n + 2 <= Len(rest)
                       THEN [r EXCEPT !.at = IF n = 0 THEN "done" ELSE "size",
                                      !.body = @ \o SubSeq(rest, 1, n),
                                      !.data = SubSeq(rest, n + 3, Len(rest))]
                       ELSE Receiver(IF n = 0 THEN "last" ELSE "chunk", <<>>, r.body \o rest,
                                     n - Len(rest) + 2, r.close)
    <2> HIDE DEF r
    <2>1. m + 2 # 0 /\ (m + 2) + 1 = m + 3
      OBVIOUS
    <2> QED
      BY <1>3, <1>4, <2>1, Zenon DEF ParseSize
  <1> HIDE DEF rest
  <1>7. CASE q + n + 2 <= k
    <2>1. n + 2 <= Len(rest)
      BY <1>2, <1>5, <1>7
    <2>2. SubSeq(rest, 1, n) = SubSeq(w, q + 1, q + n)
      <3>1. q \in 0..k /\ n \in 0..k - q
        BY <1>2, <1>7
      <3>2. Cut(rest, w, k, q, n)
        BY <1>2, <1>5, <3>1, StreamRest
      <3> QED
        BY <3>2, Zenon DEF Cut
    <2>3. SubSeq(rest, n + 3, Len(rest)) = SubSeq(w, q + n + 3, k)
      <3>1. q \in 0..k /\ n + 2 \in 0..k - q /\ (n + 2) + 1 = n + 3 /\ q + (n + 2) + 1 = q + n + 3
        BY <1>2, <1>7
      <3>2. Cut(rest, w, k, q, n + 2)
        BY <1>2, <1>5, <3>1, StreamRest
      <3>3. SubSeq(rest, (n + 2) + 1, Len(rest)) = SubSeq(w, q + (n + 2) + 1, k)
        BY <3>2, Zenon DEF Cut
      <3> QED
        BY <3>1, <3>3, Zenon
    <2> DEFINE x == SubSeq(rest, 1, n)
               y == SubSeq(rest, n + 3, Len(rest))
               a == IF n = 0 THEN "done" ELSE "size"
    <2>4. ParseSize(r) = [r EXCEPT !.at = a, !.body = @ \o x, !.data = y]
      BY <1>6, <2>1
    <2> HIDE DEF x, y, a
    <2>5. ParseSize(r) = Receiver(a, y, b \o x, 0, TRUE)
      BY <2>4 DEF Receiver
    <2> QED
      BY <1>7, <2>2, <2>3, <2>5 DEF LineParsed, x, y, a
  <1>8. CASE ~(q + n + 2 <= k)
    <2>1. ~(n + 2 <= Len(rest)) /\ n - Len(rest) + 2 = q + n + 2 - k
      <3>1. PICK l : l = Len(rest)
        OBVIOUS
      <3>2. l = k - q
        BY <1>5, <3>1, Zenon
      <3>3. ~(n + 2 <= l) /\ n - l + 2 = q + n + 2 - k
        BY <1>2, <1>8, <3>2
      <3> QED
        BY <3>1, <3>3, Zenon
    <2> HIDE DEF r
    <2>2. ParseSize(r) = Receiver(IF n = 0 THEN "last" ELSE "chunk", <<>>, b \o rest, q + n + 2 - k, TRUE)
      BY <1>3, <1>6, <2>1
    <2> QED
      BY <1>5, <1>8, <2>2 DEF LineParsed
  <1> QED
    BY <1>7, <1>8

\* One execute() on a size line in the buffer leaves the receiver where the tokens
\* it has put it.
LEMMA ChunkParse ==
    ASSUME NEW id, NEW n \in Nat \ {0}, NEW r, NEW k \in 0..ChunkEnd(n) + 5,
           ChunkAt(id, n, k, r), MustParse(r)
    PROVE  ChunkAt(id, n, k, ParseSize(r))
  <1> DEFINE w == ChunkedWire(id, n)
             d == Len(Digits(n))
             B == SizeEnd(n)
             C == ChunkEnd(n)
             body == Bytes(id, 0, n)
  <1>1. /\ \E T : w \in Seq(T)
        /\ d \in {1, 2} /\ B = d + 4 /\ C = B + n + 2 /\ Len(w) = C + 5
        /\ \A i \in 1..d : w[2 + i] = Digits(n)[i]
        /\ w[B - 1] = CRLF[1] /\ w[B] = CRLF[2]
        /\ w[C + 1] = Digit(0) /\ w[C + 2] = CRLF[1] /\ w[C + 3] = CRLF[2]
    BY ChunkTokens
  <1>2. PICK T : w \in Seq(T)
    BY <1>1
  <1>3. /\ SubSeq(w, B + 1, B + n) = body /\ (\E S : body \in Seq(S)) /\ Len(body) = n
    BY ChunkBody
  <1>4. \/ k < 2 /\ r = Receiver("head", <<>>, <<>>, 0, TRUE)
        \/ k >= 2 /\ r = Receiver("size", SubSeq(w, 3, k), <<>>, 0, TRUE)
        \/ k \in B..C - 1 /\ r = Receiver("chunk", <<>>, SubSeq(w, B + 1, k), C - k, TRUE)
        \/ k >= C /\ r = Receiver("size", SubSeq(w, C + 1, k), body, 0, TRUE)
        \/ k \in C + 3..C + 4 /\ r = Receiver("last", <<>>, body \o SubSeq(w, C + 4, k), C + 5 - k, TRUE)
        \/ k = C + 5 /\ r = Receiver("done", <<>>, body, 0, TRUE)
    BY DEF ChunkAt
  <1>5. k \notin 3..B - 1 /\ k \notin C + 1..C + 2 /\ k \in 0..C + 5
    BY DEF ChunkAt, BetweenLines
  <1>6. r.at = "size" /\ r.data # <<>>
    BY DEF MustParse
  <1> DEFINE P(q) == \/ k < 2 /\ q = Receiver("head", <<>>, <<>>, 0, TRUE)
                     \/ k >= 2 /\ q = Receiver("size", SubSeq(w, 3, k), <<>>, 0, TRUE)
                     \/ k \in B..C - 1 /\ q = Receiver("chunk", <<>>, SubSeq(w, B + 1, k), C - k, TRUE)
                     \/ k >= C /\ q = Receiver("size", SubSeq(w, C + 1, k), body, 0, TRUE)
                     \/ k \in C + 3..C + 4 /\ q = Receiver("last", <<>>, body \o SubSeq(w, C + 4, k), C + 5 - k, TRUE)
                     \/ k = C + 5 /\ q = Receiver("done", <<>>, body, 0, TRUE)
  <1> SUFFICES P(ParseSize(r))
    BY DEF ChunkAt
  <1>7. \A i \in 1..d : w[2 + i][1] = "digit" /\ w[2 + i][2] \in Nat
    BY <1>1, DigitsWrite
  <1>8. n = IF d = 1 THEN w[2 + 1][2] ELSE Radix * w[2 + 1][2] + w[2 + 2][2]
    <2>1. n = IF d = 1 THEN Digits(n)[1][2] ELSE Radix * Digits(n)[1][2] + Digits(n)[2][2]
      BY DigitsWrite
    <2>2. w[2 + 1] = Digits(n)[1] /\ (d = 2 => w[2 + 2] = Digits(n)[2])
      <3> HIDE DEF w, d
      <3>1. 1 \in 1..d /\ (d = 2 => 2 \in 1..d)
        BY <1>1
      <3> QED
        BY <1>1, <3>1
    <2> HIDE DEF w
    <2> QED
      BY <1>1, <2>1, <2>2
  <1> HIDE DEF w, d, B, C, body
  <1>9. B \in Nat /\ C \in Nat /\ k \in 0..Len(w) /\ k \in Nat /\ n \in Nat /\ n # 0
    <2>1. d \in {1, 2} /\ B = d + 4 /\ C = B + n + 2 /\ Len(w) = C + 5 /\ k \in 0..C + 5
      BY <1>1, <1>5, Zenon
    <2> QED
      BY <2>1
  <1>10. ASSUME k >= 2, r = Receiver("size", SubSeq(w, 3, k), <<>>, 0, TRUE) PROVE P(ParseSize(r))
    <2>1. k # 2
      <3> SUFFICES ASSUME k = 2 PROVE FALSE
        OBVIOUS
      <3>1. SubSeq(w, 3, k) = <<>>
        BY SubSeqEmpty
      <3> QED
        BY <1>6, <1>10, <3>1 DEF Receiver
    <2>2. k >= B /\ 2 + d + 2 = B /\ 2 + d + 1 = B - 1 /\ B + n + 2 = C /\ B + n + 3 = C + 1
      BY <1>1, <1>5, <1>9, <1>10, <2>1
    <2>3. 2 \in 0..k /\ LineEnd(2, d) <= k /\ LineEnd(2, d) = B
      BY <1>1, <1>9, <1>10, <2>2 DEF LineEnd
    <2>31. LineAt(w, 2, d)
      BY <1>1, <1>7, <2>2 DEF LineAt
    <2>32. n = SizeAt(w, 2, d)
      BY <1>8 DEF SizeAt
    <2>4. ParseSize(Buffered(w, 2, k, <<>>)) = LineParsed(w, k, LineEnd(2, d), n, <<>>)
      <3> HIDE DEF P
      <3> QED
        <4>1. d \in {1, 2} /\ w \in Seq(T) /\ k \in 0..Len(w) /\ n \in Nat
          BY <1>1, <1>2, <1>9, Zenon
        <4> QED
          BY <2>3, <2>31, <2>32, <4>1, ParseLine
    <2>5. ParseSize(r)
          = IF C <= k
            THEN Receiver("size", SubSeq(w, C + 1, k), <<>> \o SubSeq(w, B + 1, B + n), 0, TRUE)
            ELSE Receiver("chunk", <<>>, <<>> \o SubSeq(w, B + 1, k), C - k, TRUE)
      <3> HIDE DEF P
      <3>1. ParseSize(r) = LineParsed(w, k, B, n, <<>>)
        <4>1. 2 + 1 = 3
          OBVIOUS
        <4>2. r = Buffered(w, 2, k, <<>>)
          BY <1>10, <4>1 DEF Buffered
        <4> QED
          BY <2>3, <2>4, <4>2
      <3> QED
        <4> DEFINE x == <<>> \o SubSeq(w, B + 1, B + n)
                   y == <<>> \o SubSeq(w, B + 1, k)
        <4>1. ParseSize(r) = IF B + n + 2 <= k
                             THEN Receiver(IF n = 0 THEN "done" ELSE "size", SubSeq(w, B + n + 3, k), x, 0, TRUE)
                             ELSE Receiver(IF n = 0 THEN "last" ELSE "chunk", <<>>, y, B + n + 2 - k, TRUE)
          BY <3>1 DEF LineParsed
        <4> HIDE DEF x, y
        <4>2. ParseSize(r) = IF C <= k THEN Receiver("size", SubSeq(w, C + 1, k), x, 0, TRUE)
                             ELSE Receiver("chunk", <<>>, y, C - k, TRUE)
          <5>1. B + n + 2 = C /\ B + n + 3 = C + 1 /\ n # 0 /\ B + n + 2 - k = C - k
            BY <1>9, <2>2
          <5>2. CASE C <= k
            BY <4>1, <5>1, <5>2, Zenon
          <5>3. CASE ~(C <= k)
            BY <4>1, <5>1, <5>3, Zenon
          <5> QED
            BY <5>2, <5>3
        <4> QED
          BY <4>2 DEF x, y
    <2>6. SubSeq(w, B + 1, k) \in Seq(T) /\ SubSeq(w, B + 1, B + n) \in Seq(T)
      <3>1. \A i \in 1..Len(w) : w[i] \in T
        BY <1>2
      <3>2. \A i \in B + 1..k : w[i] \in T
        <4>1. \A i \in B + 1..k : i \in 1..Len(w)
          BY <1>9
        <4> QED
          BY <3>1, <4>1
      <3>3. \A i \in B + 1..B + n : w[i] \in T
        BY <1>1, <1>9, <3>1
      <3> QED
        BY <1>9, <3>2, <3>3, SubSeqProperties
    <2>7. /\ <<>> \o SubSeq(w, B + 1, k) = SubSeq(w, B + 1, k)
          /\ <<>> \o SubSeq(w, B + 1, B + n) = SubSeq(w, B + 1, B + n)
      BY <2>6, ConcatEmptySeq
    <2>8. CASE C <= k
      BY <1>3, <1>9, <2>5, <2>7, <2>8
    <2>9. CASE ~(C <= k)
      <3>1. k \in B..C - 1
        BY <1>9, <2>2, <2>9
      <3> QED
        BY <2>5, <2>7, <2>9, <3>1
    <2> QED
      BY <2>8, <2>9
  <1>11. ASSUME k >= C, r = Receiver("size", SubSeq(w, C + 1, k), body, 0, TRUE) PROVE P(ParseSize(r))
    <2>1. k # C
      <3> SUFFICES ASSUME k = C PROVE FALSE
        OBVIOUS
      <3>1. SubSeq(w, C + 1, k) = <<>>
        BY <1>9, SubSeqEmpty
      <3> QED
        BY <1>6, <1>11, <3>1 DEF Receiver
    <2>2. k \in C + 3..C + 5 /\ C + 1 + 2 = C + 3 /\ C + 1 + 1 = C + 2
      BY <1>1, <1>5, <1>9, <1>11, <2>1
    <2>3. C \in 0..k /\ LineEnd(C, 1) <= k /\ C \in Nat /\ LineEnd(C, 1) = C + 1 + 2
      BY <1>9, <2>2 DEF LineEnd
    <2>31. LineAt(w, C, 1)
      <3>1. w[C + 1][1] = "digit" /\ w[C + 1][2] = 0
        BY <1>1 DEF Digit
      <3>2. \A i \in 1..1 : i = 1
        OBVIOUS
      <3> QED
        BY <1>1, <2>2, <3>1, <3>2 DEF LineAt
    <2>32. 0 = SizeAt(w, C, 1)
      BY <1>1 DEF Digit, SizeAt
    <2>4. ParseSize(Buffered(w, C, k, body)) = LineParsed(w, k, LineEnd(C, 1), 0, body)
      <3> HIDE DEF P
      <3>1. 1 \in {1, 2} /\ 0 \in Nat
        OBVIOUS
      <3> QED
        BY <1>2, <1>9, <2>3, <2>31, <2>32, <3>1, ParseLine
    <2>5. CASE k = C + 5
      <3>1. C + 1 + 2 + 0 + 2 <= k
        BY <1>9, <2>5
      <3>2. SubSeq(w, C + 1 + 2 + 0 + 3, k) = <<>> /\ SubSeq(w, C + 1 + 2 + 1, C + 1 + 2 + 0) = <<>>
        BY <1>9, <2>5, SubSeqEmpty
      <3>3. body \o <<>> = body
        BY <1>3, ConcatEmptySeq
      <3> HIDE DEF P
      <3>4. ParseSize(r) = Receiver("done", <<>>, body, 0, TRUE)
        BY <1>11, <2>3, <2>4, <3>1, <3>2, <3>3 DEF LineParsed, Buffered
      <3> QED
        BY <2>5, <3>4 DEF P
    <2>6. CASE k # C + 5
      <3>1. /\ k \in C + 3..C + 4 /\ ~(C + 1 + 2 + 0 + 2 <= k) /\ C + 1 + 2 + 1 = C + 4
            /\ C + 1 + 2 + 0 + 2 - k = C + 5 - k
        BY <1>9, <2>2, <2>6
      <3> HIDE DEF P
      <3>2. ParseSize(r) = Receiver("last", <<>>, body \o SubSeq(w, C + 4, k), C + 5 - k, TRUE)
        BY <1>11, <2>3, <2>4, <3>1 DEF LineParsed, Buffered
      <3> QED
        BY <3>1, <3>2 DEF P
    <2> QED
      BY <2>5, <2>6
  <1>12. /\ r # Receiver("head", <<>>, <<>>, 0, TRUE)
         /\ r # Receiver("chunk", <<>>, SubSeq(w, B + 1, k), C - k, TRUE)
         /\ r # Receiver("last", <<>>, body \o SubSeq(w, C + 4, k), C + 5 - k, TRUE)
         /\ r # Receiver("done", <<>>, body, 0, TRUE)
    BY <1>6 DEF Receiver
  <1> HIDE DEF P
  <1> QED
    BY <1>4, <1>10, <1>11, <1>12

-----------------------------------------------------------------------------
(* What a client receives *)

\* What the proofs below are about: a server and a network that do not cut a size
\* line in two, bodies whose length uint64_t holds, and no timeout of readFixedSize
\* (which takes the -1 of read() for a length).
WholeLines == ~SplitSizes /\ "fixed" \notin ErrorsAt /\ FixedLens \subseteq 0..Word - 1

\* The receiver r has read the first k tokens of the answer to q in format fmt.
AnswerAt(q, fmt, k, r) ==
    IF fmt[1] = "fixed" THEN r = Taken(q, FALSE, fmt[2], k) ELSE ChunkAt(q, fmt[2], k, r)

\* The receiver of f has nothing yet, or has read the first k tokens of its answer,
\* of which the server wrote e.
Unanswered(f) == rcv[f] = NewReceiver /\ wire[conn[f]] = <<>>
Reading(f, k, e) ==
    LET w == Wire(Request(f), format[f]) IN
    /\ e \in {0, 1, Len(w) - 1, Len(w)} /\ k \in 0..e
    /\ wire[conn[f]] = SubSeq(w, k + 1, e)
    /\ AnswerAt(Request(f), format[f], k, rcv[f])
Arriving(f) ==
    /\ f \notin owed[conn[f]] /\ format[f] \in Formats
    /\ \E k, e \in Nat : Reading(f, k, e)

\* doRequest has the whole answer and nothing is left of it, or none and a connection
\* that is closed.
Answered(f) ==
    /\ result[f] = <<"OK", BodyOf(Request(f), format[f])>>
    /\ wire[conn[f]] = <<>> /\ owed[conn[f]] = {}
GaveUp(f) == result[f] = <<"TIMEOUT">> /\ conn[f] \notin m_isConnected

\* A connection that may be in the pool.
Reusable(c) == c \in m_isConnected /\ m_request[c] <= m_maxRequest

FiberOK(f) ==
    /\ pc[f] = "recv" => Unanswered(f) \/ Arriving(f)
    /\ pc[f] = "release" => Answered(f) \/ GaveUp(f)
    /\ pc[f] = "push" => Answered(f) /\ Reusable(conn[f])
    /\ pc[f] \notin {"release", "push"} => result[f] = <<"none">>

\* Only the fiber that has a connection is owed an answer on it, or has one there.
Waits(f, c) == conn[f] = c /\ pc[f] \in {"recv", "release"}
ConnOK(c) ==
    /\ \A f \in owed[c] : Waits(f, c)
    /\ wire[c] = <<>> \/ \E f \in All : Waits(f, c)

NetTypes ==
    /\ rcv = [f \in All |-> rcv[f]] /\ result = [f \in All |-> result[f]]
    /\ format = [f \in All |-> format[f]] /\ sent \in [All -> Nat]
    /\ wire = [c \in Conns |-> wire[c]] /\ owed \in [Conns -> SUBSET All]
    /\ m_request \in [Conns -> Nat]

NetInv ==
    /\ NetTypes
    /\ \A c \in Conns : ConnOK(c)
    /\ \A f \in All : FiberOK(f)
    /\ \A c \in Pooled : Reusable(c)

\* An answer is a sequence, and not empty.
LEMMA WireType ==
    ASSUME NEW q, NEW fmt \in Formats
    PROVE  LET w == Wire(q, fmt) IN
           /\ \E T : w \in Seq(T)
           /\ fmt[2] \in Nat /\ (fmt[1] # "fixed" => fmt[2] # 0)
           /\ Len(w) = IF fmt[1] = "fixed" THEN fmt[2] + 3 ELSE ChunkEnd(fmt[2]) + 5
           /\ Len(w) \in Nat /\ Len(w) >= 3
  <1> DEFINE n == fmt[2]
             w == Wire(q, fmt)
  <1>1. n \in Nat /\ (fmt[1] # "fixed" => n # 0)
    BY ClientBounds DEF Formats
  <1> HIDE DEF n
  <1>2. CASE fmt[1] = "fixed"
    <2>1. w = FixedWire(q, FALSE, n)
      BY <1>2 DEF Wire, n
    <2>2. (\E T : w \in Seq(T)) /\ Len(w) = n + 3
      BY <1>1, <2>1, FixedTokens
    <2> HIDE DEF w
    <2>3. n + 3 \in Nat /\ n + 3 >= 3
      BY <1>1
    <2> QED
      BY <1>1, <1>2, <2>2, <2>3 DEF n, w
  <1>3. CASE fmt[1] # "fixed"
    <2>1. w = ChunkedWire(q, n)
      BY <1>3 DEF Wire, n
    <2>2. /\ (\E T : w \in Seq(T)) /\ Len(w) = ChunkEnd(n) + 5
          /\ SizeEnd(n) \in 5..6 /\ ChunkEnd(n) = SizeEnd(n) + n + 2 /\ ChunkEnd(n) \in Nat
      BY <1>1, <2>1, ChunkPlaces
    <2> HIDE DEF w
    <2>3. ChunkEnd(n) + 5 \in Nat /\ ChunkEnd(n) + 5 >= 3
      BY <1>1, <2>2
    <2> QED
      BY <1>1, <1>3, <2>2, <2>3 DEF n, w
  <1> QED
    BY <1>2, <1>3

\* A new receiver has read nothing of it.
LEMMA AnswerStart ==
    ASSUME NEW q, NEW fmt \in Formats
    PROVE  AnswerAt(q, fmt, 0, NewReceiver)
  <1>1. CASE fmt[1] = "fixed"
    <2>1. CloseAfter(FALSE, 0) = TRUE
      BY DEF CloseAfter
    <2>2. Taken(q, FALSE, fmt[2], 0) = Receiver("head", <<>>, <<>>, 0, CloseAfter(FALSE, 0))
      BY DEF Taken
    <2> QED
      BY <1>1, <2>1, <2>2 DEF AnswerAt, NewReceiver
  <1>2. CASE fmt[1] # "fixed"
    <2>1. fmt[2] \in Nat
      BY WireType
    <2>2. SizeEnd(fmt[2]) \in Nat /\ ChunkEnd(fmt[2]) \in Nat
      BY <2>1, ChunkPlaces
    <2>3. BetweenLines(fmt[2], 0)
      BY <2>2 DEF BetweenLines
    <2>4. ChunkAt(q, fmt[2], 0, NewReceiver)
      BY <2>3 DEF ChunkAt, NewReceiver
    <2> QED
      BY <1>2, <2>4 DEF AnswerAt
  <1> QED
    BY <1>1, <1>2

\* Where a receiver of an answer of fixed length is.
LEMMA FixedAt ==
    ASSUME NEW q, NEW close, NEW n \in Nat, NEW k \in 0..n + 3, NEW r, r = Taken(q, close, n, k)
    PROVE  /\ r.at = IF k < 3 THEN "head" ELSE IF k = n + 3 THEN "done" ELSE "fixed"
           /\ k >= 3 => r.body = Bytes(q, 0, k - 3)
           /\ r.left \in Int
  <1> DEFINE s == Taken(q, close, n, k)
  <1>1. /\ s.at = IF k < 3 THEN "head" ELSE IF k = n + 3 THEN "done" ELSE "fixed"
        /\ k >= 3 => s.body = Bytes(q, 0, k - 3)
    BY FixedPlaces
  <1>2. s.left \in Int
    <2>1. CASE k < 3
      <3>1. s.left = 0
        BY <2>1 DEF Taken, Receiver
      <3> QED
        BY <3>1
    <2>2. CASE ~(k < 3)
      <3>1. s.left = n + 3 - k
        BY <2>2 DEF Taken, Receiver
      <3> QED
        BY <3>1
    <2> QED
      BY <2>1, <2>2
  <1> HIDE DEF s
  <1> QED
    BY <1>1, <1>2, Zenon DEF s

\* The receiver of an answer of fixed length, without the name of the close flag.
LEMMA AnswerFixed ==
    ASSUME NEW q, NEW fmt, NEW k, NEW r, fmt[1] = "fixed"
    PROVE  \E close \in BOOLEAN : /\ AnswerAt(q, fmt, k, r) => r = Taken(q, close, fmt[2], k)
                                 /\ Wire(q, fmt) = FixedWire(q, close, fmt[2])
                                 /\ \A j, s : s = Taken(q, close, fmt[2], j) => AnswerAt(q, fmt, j, s)
  BY Zenon DEF AnswerAt, Wire

\* A receiver that is done has read all of it, and has its body.
LEMMA AnswerDone ==
    ASSUME NEW q, NEW fmt \in Formats, NEW k \in 0..Len(Wire(q, fmt)), NEW r, AnswerAt(q, fmt, k, r)
    PROVE  /\ r.at # "null"
           /\ r.at = "done" => k = Len(Wire(q, fmt)) /\ r.body = BodyOf(q, fmt)
  <1> DEFINE n == fmt[2]
             w == Wire(q, fmt)
  <1>1. /\ n \in Nat /\ Len(w) = (IF fmt[1] = "fixed" THEN n + 3 ELSE ChunkEnd(n) + 5)
    BY WireType
  <1>0. k \in 0..Len(w)
    OBVIOUS
  <1> HIDE DEF n, w
  <1>2. CASE fmt[1] = "fixed"
    <2>0. PICK close : r = Taken(q, close, n, k)
      BY <1>2, AnswerFixed, Zenon DEF n
    <2>1. k \in 0..n + 3
      BY <1>0, <1>1, <1>2
    <2>21. r.at = (IF k < 3 THEN "head" ELSE IF k = n + 3 THEN "done" ELSE "fixed")
      BY <1>1, <2>0, <2>1, FixedAt
    <2>22. k >= 3 => r.body = Bytes(q, 0, k - 3)
      BY <1>1, <2>0, <2>1, FixedAt
    <2>3. r.at = "done" => k = n + 3
      BY <2>21
    <2>31. k = n + 3 => k >= 3 /\ k - 3 = n
      BY <1>1
    <2>4. r.at # "null"
      BY <2>21
    <2> QED
      BY <1>1, <1>2, <2>22, <2>3, <2>31, <2>4 DEF BodyOf, n, w
  <1>3. CASE fmt[1] # "fixed"
    <2>1. ChunkAt(q, n, k, r)
      BY <1>3 DEF AnswerAt, n
    <2>2. r.at # "null" /\ (r.at = "done" => k = ChunkEnd(n) + 5 /\ r.body = Bytes(q, 0, n))
      BY <2>1 DEF ChunkAt, Receiver
    <2> QED
      BY <1>1, <1>3, <2>2 DEF BodyOf, n, w
  <1> QED
    BY <1>2, <1>3

\* An execute() of its receiver leaves it where it is.
LEMMA AnswerParse ==
    ASSUME NEW q, NEW fmt \in Formats, NEW k \in 0..Len(Wire(q, fmt)), NEW r,
           AnswerAt(q, fmt, k, r), MustParse(r)
    PROVE  AnswerAt(q, fmt, k, ParseSize(r))
  <1> DEFINE n == fmt[2]
             w == Wire(q, fmt)
  <1>1. /\ n \in Nat /\ (fmt[1] # "fixed" => n # 0)
        /\ Len(w) = (IF fmt[1] = "fixed" THEN n + 3 ELSE ChunkEnd(n) + 5)
    BY WireType
  <1>0. k \in 0..Len(w)
    OBVIOUS
  <1> HIDE DEF n, w
  <1>2. CASE fmt[1] = "fixed"
    <2>0. PICK close : r = Taken(q, close, n, k)
      BY <1>2, AnswerFixed, Zenon DEF n
    <2>1. k \in 0..n + 3
      BY <1>0, <1>1, <1>2
    <2>2. r.at = (IF k < 3 THEN "head" ELSE IF k = n + 3 THEN "done" ELSE "fixed")
      BY <1>1, <2>0, <2>1, FixedAt
    <2> QED
      BY <2>2 DEF MustParse
  <1>3. CASE fmt[1] # "fixed"
    <2>1. ChunkAt(q, n, k, r)
      BY <1>3 DEF AnswerAt, n
    <2>2. n \in Nat \ {0} /\ k \in 0..ChunkEnd(n) + 5
      BY <1>0, <1>1, <1>3
    <2>3. ChunkAt(q, n, k, ParseSize(r))
      BY <2>1, <2>2, ChunkParse
    <2> QED
      BY <1>3, <2>3 DEF AnswerAt, n
  <1> QED
    BY <1>2, <1>3

\* A read() of j more of the tokens that the server wrote, e in all.
LEMMA AnswerRead ==
    ASSUME WholeLines, NEW q, NEW fmt \in Formats, NEW r,
           NEW e \in {0, 1, Len(Wire(q, fmt)) - 1, Len(Wire(q, fmt))}, NEW k \in 0..e,
           AnswerAt(q, fmt, k, r), MustRead(r),
           NEW j \in 1..Wanted(r, e - k), ~SplitsSize(SubSeq(Wire(q, fmt), k + 1, e), j)
    PROVE  /\ j \in 1..e - k
           /\ AnswerAt(q, fmt, k + j, Receive(r, SubSeq(Wire(q, fmt), k + 1, k + j)))
  <1> DEFINE n == fmt[2]
             w == Wire(q, fmt)
             l == Len(w)
  <1>1. /\ n \in Nat /\ (fmt[1] # "fixed" => n # 0) /\ l \in Nat /\ l >= 3
        /\ l = (IF fmt[1] = "fixed" THEN n + 3 ELSE ChunkEnd(n) + 5)
    BY WireType
  <1>0. e \in {0, 1, l - 1, l}
    OBVIOUS
  <1> HIDE DEF n, l
  <1>2. e \in Nat /\ e <= l /\ k \in Nat /\ k <= e
    BY <1>0, <1>1
  <1>25. r.left \in Int
    <2>1. CASE fmt[1] = "fixed"
      <3>0. PICK close : r = Taken(q, close, n, k)
        BY <2>1, AnswerFixed, Zenon DEF n
      <3>1. k \in 0..n + 3
        BY <1>1, <1>2, <2>1
      <3> QED
        BY <1>1, <3>0, <3>1, FixedAt
    <2>2. CASE fmt[1] # "fixed"
      <3> DEFINE C == ChunkEnd(n)
      <3>1. ChunkAt(q, n, k, r)
        BY <2>2 DEF AnswerAt, n
      <3>2. r.left \in {0, C - k, C + 5 - k}
        BY <3>1 DEF ChunkAt, Receiver
      <3>3. C \in Nat
        BY <1>1, ChunkPlaces
      <3> HIDE DEF C
      <3> QED
        BY <1>2, <3>2, <3>3
    <2> QED
      BY <2>1, <2>2
  <1>3. j \in 1..e - k /\ (r.at \in {"chunk", "last"} => j <= r.left)
    <2>1. CASE r.at \in {"chunk", "last", "fixed"} /\ r.left < e - k
      <3>1. Wanted(r, e - k) = r.left
        BY <2>1 DEF Wanted
      <3>2. j \in 1..r.left
        BY <3>1
      <3>3. j \in Int /\ 1 <= j /\ j <= r.left /\ r.left \in Int
        BY <1>25, <3>2
      <3> QED
        BY <1>2, <2>1, <3>3
    <2>2. CASE ~(r.at \in {"chunk", "last", "fixed"} /\ r.left < e - k)
      <3>1. Wanted(r, e - k) = e - k
        BY <2>2 DEF Wanted
      <3>2. j \in 1..e - k
        BY <3>1
      <3>3. r.at \in {"chunk", "last"} => ~(r.left < e - k)
        BY <2>2
      <3> QED
        BY <1>2, <1>25, <3>2, <3>3
    <2> QED
      BY <2>1, <2>2
  <1>4. CASE fmt[1] = "fixed"
    <2>1. PICK close \in BOOLEAN : /\ r = Taken(q, close, n, k) /\ w = FixedWire(q, close, n)
                                  /\ \A i, s : s = Taken(q, close, n, i) => AnswerAt(q, fmt, i, s)
      BY <1>4, AnswerFixed, Zenon DEF n
    <2>2. n \in 0..Word - 1
      BY <1>4 DEF Formats, WholeLines, n
    <2> HIDE DEF w
    <2>3. k \in 0..n + 2 /\ j \in 1..n + 3 - k
      BY <1>1, <1>2, <1>3, <1>4
    <2>4. Receive(r, SubSeq(w, k + 1, k + j)) = Taken(q, close, n, k + j)
      BY <2>1, <2>2, <2>3, FixedReceive
    <2> QED
      BY <1>3, <2>1, <2>4, Zenon DEF w
  <1>5. CASE fmt[1] # "fixed"
    <2>1. ChunkAt(q, n, k, r) /\ w = ChunkedWire(q, n)
      BY <1>5 DEF AnswerAt, Wire, n
    <2> DEFINE C == ChunkEnd(n)
    <2>2. C \in Nat /\ SizeEnd(n) \in Nat /\ C = SizeEnd(n) + n + 2
      BY <1>1, ChunkPlaces
    <2>3. BetweenLines(n, k + j)
      <3>1. CASE e <= 1
        <4>1. k + j <= 1 /\ k + j \in Nat
          BY <1>2, <1>3, <3>1
        <4>2. k + j \notin 3..SizeEnd(n) - 1
          BY <4>1
        <4>3. k + j \notin C + 1..C + 2
          <5>1. C + 1 > 1
            <6> HIDE DEF C
            <6> QED
              BY <1>1, <2>2
          <5> QED
            BY <2>2, <4>1, <5>1
        <4> QED
          BY <4>2, <4>3 DEF BetweenLines
      <3>2. CASE ~(e <= 1)
        <4>1. e \in C + 4..C + 5
          <5> HIDE DEF C
          <5>1. l = C + 5
            BY <1>1, <1>5 DEF C
          <5> QED
            BY <1>0, <2>2, <3>2, <5>1
        <4>2. BetweenLines(n, k) /\ ~SplitsSize(SubSeq(ChunkedWire(q, n), k + 1, e), j)
          BY <2>1 DEF ChunkAt
        <4> QED
          BY <1>1, <1>2, <1>3, <4>1, <4>2, NoSplit
      <3> QED
        BY <3>1, <3>2
    <2>4. n \in Nat \ {0} /\ j \in 1..C + 5 - k
      <3> HIDE DEF C
      <3>1. l = C + 5
        BY <1>1, <1>5 DEF C
      <3> QED
        BY <1>1, <1>2, <1>3, <1>5, <2>2, <3>1
    <2>5. ChunkAt(q, n, k + j, Receive(r, SubSeq(ChunkedWire(q, n), k + 1, k + j)))
      BY <1>2, <1>3, <2>1, <2>3, <2>4, ChunkRead
    <2> QED
      BY <1>3, <1>5, <2>1, <2>5 DEF AnswerAt, n
  <1> QED
    BY <1>4, <1>5

\* A step of f that touches no connection but those in D, which no other fiber has.
Touches(f, D) ==
    /\ \A g \in All \ {f} :
          /\ pc'[g] = pc[g] /\ rcv'[g] = rcv[g] /\ result'[g] = result[g]
          /\ format'[g] = format[g] /\ sent'[g] = sent[g] /\ conn'[g] = conn[g]
          /\ conn[g] \notin D
    /\ \A c \in Conns \ D :
          /\ wire'[c] = wire[c] /\ owed'[c] = owed[c] /\ m_request'[c] = m_request[c]
          /\ c \in m_isConnected' <=> c \in m_isConnected
          /\ Waits(f, c) => Waits(f, c)'

\* What such a step leaves as it is.
LEMMA Touched ==
    ASSUME IInv, NetInv, NEW f \in All, NEW D, Touches(f, D),
           NetTypes', FiberOK(f)', \A c \in Conns \cap D : ConnOK(c)',
           \A c \in Pooled' : c \in Pooled \ D \/ Reusable(c)'
    PROVE  NetInv'
  <1>1. ASSUME NEW g \in All \ {f} PROVE FiberOK(g)'
    <2>1. /\ pc'[g] = pc[g] /\ rcv'[g] = rcv[g] /\ result'[g] = result[g]
          /\ format'[g] = format[g] /\ sent'[g] = sent[g] /\ conn'[g] = conn[g]
      BY DEF Touches
    <2>2. pc[g] \in {"recv", "release", "push"} => conn[g] \in Conns \ D
      BY DEF IInv, PlaceInv, PlaceOK, Touches
    <2>3. Request(g)' = Request(g)
      BY <2>1 DEF Request
    <2>4. FiberOK(g)
      BY DEF NetInv
    <2>5. CASE pc[g] \in {"recv", "release", "push"}
      <3>1. LET c == conn[g] IN
            /\ wire'[c] = wire[c] /\ owed'[c] = owed[c] /\ m_request'[c] = m_request[c]
            /\ c \in m_isConnected' <=> c \in m_isConnected
        BY <2>2, <2>5 DEF Touches
      <3>2. Unanswered(g)' = Unanswered(g) /\ Answered(g)' = Answered(g) /\ GaveUp(g)' = GaveUp(g)
        BY <2>1, <2>3, <3>1 DEF Unanswered, Answered, GaveUp
      <3>3. Arriving(g)' = Arriving(g)
        <4>1. \A k, e : Reading(g, k, e)' = Reading(g, k, e)
          BY <2>1, <2>3, <3>1 DEF Reading
        <4> QED
          BY <2>1, <3>1, <4>1 DEF Arriving
      <3>4. Reusable(conn[g])' = Reusable(conn[g])
        BY <2>1, <3>1 DEF Reusable
      <3> QED
        BY <2>1, <2>4, <3>2, <3>3, <3>4 DEF FiberOK
    <2>6. CASE pc[g] \notin {"recv", "release", "push"}
      BY <2>1, <2>4, <2>6 DEF FiberOK
    <2> QED
      BY <2>5, <2>6
  <1>2. ASSUME NEW c \in Conns \ D PROVE ConnOK(c)'
    <2>1. ConnOK(c) /\ wire'[c] = wire[c] /\ owed'[c] = owed[c] /\ owed[c] \subseteq All
      BY DEF NetInv, NetTypes, Touches
    <2>2. \A g \in All : Waits(g, c) => Waits(g, c)'
      BY DEF Touches, Waits
    <2> QED
      BY <2>1, <2>2 DEF ConnOK
  <1>3. ASSUME NEW c \in Pooled' PROVE Reusable(c)'
    <2>1. CASE c \in Pooled \ D
      <3>1. c \in Conns /\ Reusable(c)
        BY <2>1 DEF NetInv, IInv, TypeInt, Pooled
      <3> QED
        BY <2>1, <3>1 DEF Touches, Reusable
    <2> QED
      BY <2>1
  <1> QED
    BY <1>1, <1>2, <1>3 DEF NetInv

\* The steps that leave all of it alone.
LEMMA NetSame ==
    ASSUME NetInv,
           UNCHANGED <<m_conns, pc, sent, conn, rcv, result, m_isConnected, m_request, wire, owed, format>>
    PROVE  NetInv'
  <1>1. NetTypes' /\ Pooled' = Pooled
    BY DEF NetInv, NetTypes, Pooled
  <1>2. \A c : (ConnOK(c) => ConnOK(c)') /\ (Reusable(c) => Reusable(c)')
    BY DEF ConnOK, Waits, Reusable
  <1>3. ASSUME NEW g \in All, FiberOK(g) PROVE FiberOK(g)'
    <2>1. Request(g)' = Request(g)
      BY DEF Request
    <2>2. \A k, e : Reading(g, k, e)' = Reading(g, k, e)
      BY <2>1 DEF Reading
    <2>3. Arriving(g)' = Arriving(g)
      BY <2>2 DEF Arriving
    <2>4. Unanswered(g)' = Unanswered(g) /\ Answered(g)' = Answered(g) /\ GaveUp(g)' = GaveUp(g)
      BY <2>1 DEF Unanswered, Answered, GaveUp
    <2>5. Reusable(conn[g])' = Reusable(conn[g])
      BY DEF Reusable
    <2> QED
      BY <1>3, <2>3, <2>4, <2>5 DEF FiberOK
  <1> QED
    BY <1>1, <1>2, <1>3 DEF NetInv

\* Nobody else has the connection of f; the pool has not either.
LEMMA OwnConn ==
    ASSUME IInv, NEW f \in All, conn[f] \in Conns
    PROVE  /\ \A g \in All \ {f} : conn[g] # conn[f]
           /\ conn[f] \notin Pooled
  <1>1. conn[f] # NoConn
    BY DEF Conns, NoConn
  <1> QED
    BY <1>1 DEF IInv, HeldInv, Apart, NotPooled

\* NetInv holds initially: nothing is sent.
LEMMA NetInit == Init => NetInv
  <1> SUFFICES ASSUME Init PROVE NetInv
    OBVIOUS
  <1>1. NetTypes
    BY DEF Init, NetTypes
  <1>2. (\A c \in Conns : ConnOK(c)) /\ Pooled = {}
    BY DEF Init, ConnOK, Pooled
  <1>3. \A f \in All : FiberOK(f)
    BY DEF Init, FiberOK
  <1> QED
    BY <1>1, <1>2, <1>3 DEF NetInv

\* Beginning a request, looking for a connection and failing to get one.
LEMMA BeginNet ==
    ASSUME IInv, NetInv, NEW f \in All, Begin(f) \/ ConnectFails(f)
    PROVE  NetInv'
  <1>1. /\ pc[f] \in {"idle", "connect"} /\ pc'[f] \in {"get", "connect", "idle"}
        /\ \A g \in All \ {f} : pc'[g] = pc[g] /\ sent'[g] = sent[g]
        /\ sent' \in [All -> Nat]
        /\ UNCHANGED <<m_conns, conn, rcv, result, m_isConnected, m_request, wire, owed, format>>
    BY DEF Begin, ConnectFails, Go, IInv, TypeInt, NetInv, NetTypes, poolVars, localVars, connVars, netVars
  <1>2. Touches(f, {})
    BY <1>1 DEF Touches, Waits
  <1>3. NetTypes' /\ Pooled' = Pooled
    BY <1>1 DEF NetInv, NetTypes, Pooled
  <1>4. FiberOK(f)'
    BY <1>1 DEF NetInv, FiberOK
  <1> QED
    BY <1>2, <1>3, <1>4, Touched

\* getConnection takes connections out of the list.
LEMMA GetNet ==
    ASSUME IInv, NetInv, NEW f \in All, Get(f)
    PROVE  NetInv'
  <1>1. PICK i \in 0..Len(m_conns) : i = FirstUsable(now_ms[f])
    BY FirstUsableType DEF IInv, TypeInt
  <1>2. PICK last \in 0..Len(m_conns) : last = IF i = 0 THEN Len(m_conns) ELSE i
    BY <1>1 DEF IInv, TypeInt
  <1>3. /\ pc[f] = "get" /\ pc'[f] = "sweep"
        /\ \A g \in All \ {f} : pc'[g] = pc[g] /\ conn'[g] = conn[g]
        /\ m_conns' = SubSeq(m_conns, last + 1, Len(m_conns))
        /\ UNCHANGED <<sent, rcv, result, m_isConnected, m_request, wire, owed, format>>
    BY <1>1, <1>2 DEF Get, Go, IInv, TypeInt, connVars, netVars
  <1>4. Pooled' \subseteq Pooled
    <2>1. m_conns \in Seq(Conns)
      BY DEF IInv, TypeInt
    <2>2. PICK n \in Nat : n = Len(m_conns)
      BY <2>1
    <2>3. last + 1 \in Int /\ n \in Int /\ last \in 0..n
      BY <1>2, <2>2
    <2>4. \A k \in last + 1..n : m_conns[k] \in Conns
      BY <2>1, <2>2, <2>3
    <2>5. /\ m_conns' \in Seq(Conns)
          /\ Len(m_conns') = IF last + 1 <= n THEN n - (last + 1) + 1 ELSE 0
          /\ \A k \in 1..n - (last + 1) + 1 : m_conns'[k] = m_conns[last + 1 + k - 1]
      BY <1>3, <2>2, <2>3, <2>4, SubSeqProperties
    <2>6. DOMAIN m_conns = 1..n
      BY <2>1, <2>2
    <2>7. ASSUME NEW k \in DOMAIN m_conns' PROVE \E j \in DOMAIN m_conns : m_conns'[k] = m_conns[j]
      <3>1. k \in 1..Len(m_conns')
        BY <2>5
      <3>2. k \in 1..n - (last + 1) + 1 /\ last + 1 + k - 1 \in 1..n
        BY <2>3, <2>5, <3>1
      <3> QED
        BY <2>5, <2>6, <3>2
    <2> QED
      BY <2>7 DEF Pooled
  <1>5. Touches(f, {})
    BY <1>3 DEF Touches, Waits
  <1>6. NetTypes'
    BY <1>3 DEF NetInv, NetTypes
  <1>7. FiberOK(f)'
    BY <1>3 DEF NetInv, FiberOK
  <1> QED
    BY <1>4, <1>5, <1>6, <1>7, Touched

\* ... and deletes the ones that are of no use, which no fiber has.
LEMMA SweepNet ==
    ASSUME IInv, NetInv, NEW f \in All, Sweep(f)
    PROVE  NetInv'
  <1> DEFINE D == invalid[f]
  <1>1. /\ pc[f] = "sweep" /\ pc'[f] \in {"connect", "send"}
        /\ \A g \in All \ {f} : pc'[g] = pc[g]
        /\ m_isConnected' = m_isConnected \ D
        /\ m_request' = [c \in Conns |-> IF c \in D THEN 0 ELSE m_request[c]]
        /\ wire' = [c \in Conns |-> IF c \in D THEN <<>> ELSE wire[c]]
        /\ owed' = [c \in Conns |-> IF c \in D THEN {} ELSE owed[c]]
        /\ UNCHANGED <<m_conns, sent, conn, rcv, result, format>>
    BY DEF Sweep, Delete, Go, IInv, TypeInt
  <1>2. \A g \in All : conn[g] \notin D
    <2>1. D \subseteq Conns /\ NoConn \notin Conns
      BY DEF IInv, TypeInt, Conns, NoConn
    <2> QED
      BY <2>1 DEF IInv, HeldInv, Apart
  <1>3. D \cap Pooled = {}
    BY DEF IInv, HeldInv, NotPooled
  <1> HIDE DEF D
  <1>4. Touches(f, D)
    BY <1>1, <1>2 DEF Touches, Waits
  <1>5. NetTypes'
    BY <1>1 DEF NetInv, NetTypes
  <1>6. FiberOK(f)'
    BY <1>1 DEF NetInv, FiberOK
  <1>7. \A c \in Conns \cap D : ConnOK(c)'
    BY <1>1 DEF ConnOK
  <1>8. Pooled' = Pooled
    BY <1>1 DEF Pooled
  <1> QED
    BY <1>3, <1>4, <1>5, <1>6, <1>7, <1>8, Touched

\* A new connection has no answer on it.
LEMMA ConnectNet ==
    ASSUME IInv, NetInv, NEW f \in All, NEW c \in Conns, Connect(f, c)
    PROVE  NetInv'
  <1>1. /\ pc[f] = "connect" /\ pc'[f] = "send" /\ c \in Free
        /\ \A g \in All \ {f} : pc'[g] = pc[g] /\ conn'[g] = conn[g]
        /\ m_isConnected' = m_isConnected \cup {c}
        /\ UNCHANGED <<m_conns, sent, rcv, result, m_request, wire, owed, format>>
    BY DEF Connect, Go, IInv, TypeInt
  <1>2. (\A g \in All : conn[g] # c) /\ c \notin Pooled
    BY <1>1 DEF IInv, AliveInv, Pooled
  <1>3. Touches(f, {c})
    BY <1>1, <1>2 DEF Touches, Waits
  <1>4. NetTypes' /\ Pooled' = Pooled
    BY <1>1 DEF NetInv, NetTypes, Pooled
  <1>5. FiberOK(f)'
    BY <1>1 DEF NetInv, FiberOK
  <1>6. ConnOK(c)'
    <2>1. owed[c] = {} /\ wire[c] = <<>>
      BY <1>2 DEF NetInv, NetTypes, ConnOK, Waits
    <2> QED
      BY <1>1, <2>1 DEF ConnOK
  <1> QED
    BY <1>2, <1>3, <1>4, <1>5, <1>6, Touched

\* Behind sendRequest only this fiber waits for an answer, and none is there.
LEMMA SendNet ==
    ASSUME IInv, NetInv, NEW f \in All, Send(f)
    PROVE  NetInv'
  <1>0. PICK c : c = conn[f]
    OBVIOUS
  <1>1. /\ pc[f] = "send" /\ pc'[f] = "recv" /\ c \in Conns
        /\ owed' \in {owed, [owed EXCEPT ![c] = @ \cup {f}]}
        /\ rcv' = [rcv EXCEPT ![f] = NewReceiver]
        /\ \A g \in All \ {f} : pc'[g] = pc[g]
        /\ UNCHANGED <<m_conns, sent, conn, result, m_isConnected, m_request, wire, format>>
    BY <1>0 DEF Send, Go, IInv, TypeInt, PlaceInv, PlaceOK, poolVars, connVars
  <1>2. (\A g \in All \ {f} : conn[g] # c) /\ c \notin Pooled
    BY <1>0, <1>1, OwnConn
  <1>3. owed[c] = {} /\ wire[c] = <<>>
    <2>1. \A g \in All : ~Waits(g, c)
      BY <1>0, <1>1, <1>2 DEF Waits
    <2> QED
      BY <1>1, <2>1 DEF NetInv, NetTypes, ConnOK
  <1>4. Touches(f, {c})
    BY <1>0, <1>1, <1>2 DEF Touches, Waits, NetInv, NetTypes
  <1>5. NetTypes' /\ Pooled' = Pooled
    <2>1. NetTypes
      BY DEF NetInv
    <2>2. owed' \in [Conns -> SUBSET All]
      <3>1. [owed EXCEPT ![c] = @ \cup {f}] \in [Conns -> SUBSET All]
        BY <1>1, <2>1 DEF NetTypes
      <3> QED
        BY <1>1, <2>1, <3>1 DEF NetTypes
    <2>3. rcv' = [g \in All |-> rcv'[g]]
      BY <1>1, <2>1 DEF NetTypes
    <2>4. /\ result' = result /\ format' = format /\ sent' = sent
          /\ wire' = wire /\ m_request' = m_request /\ m_conns' = m_conns
      BY <1>1
    <2>5. NetTypes'
      BY <2>1, <2>2, <2>3, <2>4, Zenon DEF NetTypes
    <2> QED
      BY <2>4, <2>5 DEF Pooled
  <1>6. FiberOK(f)'
    <2>1. Unanswered(f)'
      BY <1>0, <1>1, <1>3 DEF NetInv, NetTypes, Unanswered
    <2> QED
      BY <1>1, <2>1 DEF NetInv, FiberOK
  <1>7. ConnOK(c)'
    <2>1. owed'[c] \subseteq {f} /\ Waits(f, c)' /\ wire'[c] = <<>>
      BY <1>0, <1>1, <1>3 DEF NetInv, NetTypes, Waits
    <2> QED
      BY <2>1 DEF ConnOK
  <1> QED
    BY <1>2, <1>4, <1>5, <1>6, <1>7, Touched

\* The receiver is through without an answer, or has read k tokens of its answer.
LEMMA ReceivedNet ==
    ASSUME IInv, NetInv, NEW f \in All, pc[f] = "recv", NEW r, NEW x, Received(f, r),
           wire' = [wire EXCEPT ![conn[f]] = x], UNCHANGED <<owed, format>>,
           \/ r = Failed
           \/ /\ f \notin owed[conn[f]] /\ format[f] \in Formats
              /\ \E k, e \in Nat :
                    LET w == Wire(Request(f), format[f]) IN
                    /\ e \in {0, 1, Len(w) - 1, Len(w)} /\ k \in 0..e
                    /\ x = SubSeq(w, k + 1, e)
                    /\ AnswerAt(Request(f), format[f], k, r)
    PROVE  NetInv'
  <1>0. PICK c : c = conn[f]
    OBVIOUS
  <1>1. c \in Conns /\ (\A g \in All \ {f} : conn[g] # c) /\ c \notin Pooled
    BY <1>0, OwnConn DEF IInv, PlaceInv, PlaceOK
  <1>2. /\ rcv' = [rcv EXCEPT ![f] = IF r.at \in {"done", "null"} THEN NewReceiver ELSE r]
        /\ UNCHANGED <<m_conns, sent, conn, m_request, owed, format>>
        /\ wire' = [wire EXCEPT ![c] = x]
    BY <1>0 DEF Received, poolVars
  <1>3. /\ r.at = "done" => /\ result' = [result EXCEPT ![f] = <<"OK", r.body>>]
                            /\ pc' = [pc EXCEPT ![f] = "release"] /\ UNCHANGED m_isConnected
        /\ r.at = "null" => /\ result' = [result EXCEPT ![f] = <<"TIMEOUT">>]
                            /\ pc' = [pc EXCEPT ![f] = "release"]
                            /\ m_isConnected' = m_isConnected \ {c}
        /\ r.at \notin {"done", "null"} => UNCHANGED <<result, pc, m_isConnected>>
    BY <1>0 DEF Received, Answer, Go
  <1>4. pc'[f] \in {"recv", "release"} /\ \A g \in All \ {f} : pc'[g] = pc[g] /\ result'[g] = result[g]
    <2>1. r.at = "done" \/ r.at = "null" \/ r.at \notin {"done", "null"}
      OBVIOUS
    <2> QED
      BY <1>3, <2>1 DEF IInv, TypeInt, NetInv, NetTypes
  <1>5. NetTypes' /\ Pooled' = Pooled
    <2>1. result' = [g \in All |-> result'[g]]
      <3>1. r.at = "done" \/ r.at = "null" \/ r.at \notin {"done", "null"}
        OBVIOUS
      <3> QED
        BY <1>3, <3>1 DEF NetInv, NetTypes
    <2>2. rcv' = [g \in All |-> rcv'[g]]
      BY <1>2 DEF NetInv, NetTypes
    <2>3. wire' = [d \in Conns |-> wire'[d]]
      BY <1>2 DEF NetInv, NetTypes
    <2>4. Pooled' = Pooled
      BY <1>2 DEF Pooled
    <2> QED
      BY <1>2, <2>1, <2>2, <2>3, <2>4 DEF NetInv, NetTypes
  <1>6. Touches(f, {c})
    <2>1. ASSUME NEW g \in All \ {f}
          PROVE  /\ pc'[g] = pc[g] /\ rcv'[g] = rcv[g] /\ result'[g] = result[g]
                 /\ format'[g] = format[g] /\ sent'[g] = sent[g] /\ conn'[g] = conn[g]
                 /\ conn[g] \notin {c}
      BY <1>1, <1>2, <1>4 DEF NetInv, NetTypes
    <2>2. ASSUME NEW d \in Conns \ {c}
          PROVE  /\ wire'[d] = wire[d] /\ owed'[d] = owed[d] /\ m_request'[d] = m_request[d]
                 /\ d \in m_isConnected' <=> d \in m_isConnected
                 /\ Waits(f, d) => Waits(f, d)'
      <3>1. d \in m_isConnected' <=> d \in m_isConnected
        <4>1. r.at = "done" \/ r.at = "null" \/ r.at \notin {"done", "null"}
          OBVIOUS
        <4> QED
          BY <1>3, <4>1
      <3>2. ~Waits(f, d)
        BY <1>0 DEF Waits
      <3> QED
        BY <1>2, <3>1, <3>2 DEF NetInv, NetTypes
    <2> QED
      BY <2>1, <2>2 DEF Touches
  <1>7. Request(f)' = Request(f) /\ wire'[c] = x
    BY <1>1, <1>2 DEF Request, NetInv, NetTypes
  <1>75. \A g \in owed[c] : g = f
    BY <1>0, <1>1 DEF NetInv, NetTypes, ConnOK, Waits
  <1>8. ConnOK(c)'
    <2>1. Waits(f, c)'
      BY <1>0, <1>2, <1>4 DEF Waits
    <2> QED
      BY <1>2, <1>75, <2>1 DEF ConnOK
  <1>9. CASE r = Failed
    <2>1. r.at = "null"
      BY <1>9 DEF Failed, Receiver
    <2>2. pc'[f] = "release" /\ GaveUp(f)'
      BY <1>0, <1>2, <1>3, <2>1 DEF GaveUp, IInv, TypeInt, NetInv, NetTypes
    <2>3. FiberOK(f)'
      BY <2>2 DEF FiberOK
    <2> QED
      BY <1>1, <1>5, <1>6, <1>8, <2>3, Touched
  <1>10. ASSUME f \notin owed[c], format[f] \in Formats, NEW k \in Nat, NEW e \in Nat,
                LET w == Wire(Request(f), format[f]) IN
                    /\ e \in {0, 1, Len(w) - 1, Len(w)} /\ k \in 0..e
                    /\ x = SubSeq(w, k + 1, e)
                    /\ AnswerAt(Request(f), format[f], k, r)
         PROVE  NetInv'
    <2> DEFINE w == Wire(Request(f), format[f])
               q == Request(f)
               fmt == format[f]
    <2>1. /\ Len(w) \in Nat /\ Len(w) >= 3 /\ \E T : w \in Seq(T)
      BY <1>10, WireType
    <2>2. e \in 0..Len(w) /\ k \in 0..Len(w) /\ k <= e
      <3>1. e \in {0, 1, Len(w) - 1, Len(w)} /\ k \in 0..e
        BY <1>10
      <3> HIDE DEF w
      <3> QED
        BY <2>1, <3>1
    <2>3. r.at # "null" /\ (r.at = "done" => k = Len(w) /\ r.body = BodyOf(q, fmt))
      <3>1. k \in 0..Len(Wire(q, fmt)) /\ AnswerAt(q, fmt, k, r) /\ fmt \in Formats
        BY <1>10, <2>2
      <3> HIDE DEF q, fmt
      <3>2. r.at # "null" /\ (r.at = "done" => k = Len(Wire(q, fmt)) /\ r.body = BodyOf(q, fmt))
        BY <3>1, AnswerDone
      <3> QED
        BY <3>2 DEF q, fmt
    <2>4. CASE r.at = "done"
      <3>1. x = <<>>
        <4>1. x = SubSeq(w, k + 1, e)
          BY <1>10
        <4>2. k = Len(w)
          BY <2>3, <2>4
        <4> HIDE DEF w
        <4>3. e < k + 1 /\ k + 1 \in Int /\ e \in Int
          BY <2>1, <2>2, <4>2
        <4> QED
          BY <4>1, <4>3, SubSeqEmpty
      <3>2. owed'[c] = {}
        BY <1>2, <1>75, <1>10
      <3>3. /\ pc'[f] = "release" /\ result'[f] = <<"OK", r.body>>
        BY <1>3, <2>4 DEF IInv, TypeInt, NetInv, NetTypes
      <3>4. BodyOf(Request(f), format[f])' = BodyOf(Request(f), format[f])
        BY <1>2, <1>7 DEF BodyOf
      <3>5. Answered(f)'
        BY <1>0, <1>2, <1>7, <2>3, <2>4, <3>1, <3>2, <3>3, <3>4 DEF Answered
      <3>6. FiberOK(f)'
        BY <3>3, <3>5 DEF FiberOK
      <3> QED
        BY <1>1, <1>5, <1>6, <1>8, <3>6, Touched
    <2>5. CASE r.at # "done"
      <3>1. pc'[f] = "recv" /\ result'[f] = result[f] /\ rcv'[f] = r
        BY <1>2, <1>3, <2>3, <2>5 DEF NetInv, NetTypes
      <3>2. Reading(f, k, e)'
        <4>1. w' = w
          BY <1>2, <1>7
        <4>2. conn'[f] = c
          BY <1>0, <1>2
        <4> QED
          BY <1>2, <1>7, <1>10, <3>1, <4>1, <4>2 DEF Reading
      <3>3. Arriving(f)'
        BY <1>0, <1>2, <1>10, <3>2 DEF Arriving
      <3>4. FiberOK(f)'
        BY <3>1, <3>3 DEF FiberOK, NetInv
      <3> QED
        BY <1>1, <1>5, <1>6, <1>8, <3>4, Touched
    <2> QED
      BY <2>4, <2>5
  <1> QED
    BY <1>0, <1>9, <1>10

\* What a fiber that reads has: nothing, or the first tokens of its answer.
LEMMA ReadNet ==
    ASSUME WholeLines, IInv, NetInv, NEW f \in All, Read(f)
    PROVE  NetInv'
  <1>0. PICK c : c = conn[f]
    OBVIOUS
  <1>1. PICK j \in 1..Wanted(rcv[f], Len(wire[c])) :
           /\ ~SplitsSize(wire[c], j)
           /\ wire' = [wire EXCEPT ![c] = SubSeq(wire[c], j + 1, Len(wire[c]))]
           /\ Received(f, Receive(rcv[f], SubSeq(wire[c], 1, j)))
    BY <1>0 DEF Read, WholeLines
  <1>2. pc[f] = "recv" /\ MustRead(rcv[f]) /\ UNCHANGED <<owed, format>>
    BY DEF Read
  <1>3. Unanswered(f) \/ Arriving(f)
    BY <1>2 DEF NetInv, FiberOK
  <1>4. ~Unanswered(f)
    <2> SUFFICES ASSUME Unanswered(f) PROVE FALSE
      OBVIOUS
    <2>1. rcv[f].at = "head" /\ Len(wire[c]) = 0
      BY <1>0 DEF Unanswered, NewReceiver, Receiver
    <2>2. Wanted(rcv[f], Len(wire[c])) = 0
      BY <2>1 DEF Wanted
    <2>3. j \in 1..0
      BY <2>2
    <2> QED
      BY <2>3
  <1>5. f \notin owed[c] /\ format[f] \in Formats
    BY <1>0, <1>3, <1>4 DEF Arriving
  <1>6. PICK k \in Nat, e \in Nat : Reading(f, k, e)
    BY <1>3, <1>4 DEF Arriving
  <1> DEFINE q == Request(f)
             fmt == format[f]
             w == Wire(q, fmt)
             r == rcv[f]
  <1>7. /\ e \in {0, 1, Len(w) - 1, Len(w)} /\ k \in 0..e
        /\ wire[c] = SubSeq(w, k + 1, e) /\ AnswerAt(q, fmt, k, r)
    BY <1>0, <1>6 DEF Reading
  <1>8. /\ Len(w) \in Nat /\ Len(w) >= 3 /\ \E T : w \in Seq(T)
    BY <1>5, WireType
  <1>9. PICK T : w \in Seq(T)
    BY <1>8
  <1>10. fmt \in Formats /\ MustRead(r)
    BY <1>2, <1>5
  <1>11. j \in 1..Wanted(r, Len(wire[c]))
    OBVIOUS
  <1> DEFINE d == wire[c]
  <1> HIDE DEF q, fmt, w, r, d
  <1>12. e \in 0..Len(w)
    BY <1>7, <1>8
  <1>13. Len(d) = e - k
    BY <1>7, <1>9, <1>12 DEF d
  <1>14. /\ j \in 1..e - k
         /\ AnswerAt(q, fmt, k + j, Receive(r, SubSeq(w, k + 1, k + j)))
    <2>1. /\ e \in {0, 1, Len(Wire(q, fmt)) - 1, Len(Wire(q, fmt))}
          /\ j \in 1..Wanted(r, e - k) /\ ~SplitsSize(SubSeq(Wire(q, fmt), k + 1, e), j)
      BY <1>1, <1>7, <1>11, <1>13 DEF w, d
    <2>2. /\ j \in 1..e - k
          /\ AnswerAt(q, fmt, k + j, Receive(r, SubSeq(Wire(q, fmt), k + 1, k + j)))
      BY <1>7, <1>10, <2>1, AnswerRead
    <2> QED
      BY <2>2 DEF w
  <1>15. k + j \in 0..e /\ k + j \in Nat /\ j \in 0..e - k
    BY <1>14
  <1>16. SubSeq(d, 1, j) = SubSeq(w, k + 1, k + j) /\ SubSeq(d, j + 1, Len(d)) = SubSeq(w, k + j + 1, e)
    BY <1>7, <1>9, <1>12, <1>15, StreamCut DEF d
  <1> DEFINE x == SubSeq(d, j + 1, Len(d))
             r1 == Receive(r, SubSeq(d, 1, j))
  <1>17. /\ wire' = [wire EXCEPT ![conn[f]] = x] /\ Received(f, r1)
    BY <1>0, <1>1 DEF d, r
  <1>18. AnswerAt(q, fmt, k + j, r1) /\ x = SubSeq(w, (k + j) + 1, e)
    BY <1>14, <1>16
  <1> HIDE DEF x, r1
  <1>19. LET v == Wire(Request(f), format[f]) IN
         /\ e \in {0, 1, Len(v) - 1, Len(v)} /\ k + j \in 0..e
         /\ x = SubSeq(v, (k + j) + 1, e)
         /\ AnswerAt(Request(f), format[f], k + j, r1)
    BY <1>7, <1>15, <1>18 DEF w, q, fmt
  <1> QED
    BY <1>0, <1>2, <1>5, <1>15, <1>17, <1>19, ReceivedNet

\* Parsing what the buffer of recvResponse holds.
LEMMA ParseNet ==
    ASSUME IInv, NetInv, NEW f \in All, Parse(f)
    PROVE  NetInv'
  <1>1. /\ pc[f] = "recv" /\ MustParse(rcv[f]) /\ Received(f, ParseSize(rcv[f]))
        /\ UNCHANGED <<owed, format, wire>>
    BY DEF Parse, netVars
  <1>2. Unanswered(f) \/ Arriving(f)
    BY <1>1 DEF NetInv, FiberOK
  <1>3. ~Unanswered(f)
    BY <1>1 DEF Unanswered, NewReceiver, Receiver, MustParse
  <1>4. f \notin owed[conn[f]] /\ format[f] \in Formats
    BY <1>2, <1>3 DEF Arriving
  <1>5. PICK k \in Nat, e \in Nat : Reading(f, k, e)
    BY <1>2, <1>3 DEF Arriving
  <1> DEFINE q == Request(f)
             fmt == format[f]
             w == Wire(q, fmt)
             r == rcv[f]
  <1>6. /\ e \in {0, 1, Len(w) - 1, Len(w)} /\ k \in 0..e
        /\ wire[conn[f]] = SubSeq(w, k + 1, e) /\ AnswerAt(q, fmt, k, r)
    BY <1>5 DEF Reading
  <1>7. Len(w) \in Nat /\ Len(w) >= 3
    BY <1>4, WireType
  <1>8. k \in 0..Len(w)
    <2> HIDE DEF w
    <2> QED
      BY <1>6, <1>7
  <1>9. AnswerAt(q, fmt, k, ParseSize(r))
    <2>1. fmt \in Formats /\ MustParse(r)
      BY <1>1, <1>4
    <2>2. k \in 0..Len(Wire(q, fmt))
      BY <1>8
    <2> HIDE DEF q, fmt, r, w
    <2> QED
      BY <1>6, <2>1, <2>2, AnswerParse
  <1>10. LET v == Wire(Request(f), format[f]) IN
         /\ e \in {0, 1, Len(v) - 1, Len(v)} /\ k \in 0..e
         /\ wire[conn[f]] = SubSeq(v, k + 1, e)
         /\ AnswerAt(Request(f), format[f], k, ParseSize(rcv[f]))
    BY <1>6, <1>9
  <1>11. wire' = [wire EXCEPT ![conn[f]] = wire[conn[f]]]
    BY <1>1 DEF NetInv, NetTypes
  <1> HIDE DEF q, fmt, w, r
  <1> QED
    BY <1>1, <1>4, <1>10, <1>11, ReceivedNet

\* An end of the stream or an error: no answer.
LEMMA NoAnswerNet ==
    ASSUME WholeLines, IInv, NetInv, NEW f \in All, ReadEOF(f) \/ Timeout(f)
    PROVE  NetInv'
  <1>1. /\ pc[f] = "recv" /\ UNCHANGED <<owed, format, wire>>
    BY DEF ReadEOF, Timeout, netVars
  <1>2. Received(f, Failed)
    <2>1. CASE ReadEOF(f)
      BY <2>1 DEF ReadEOF, ReadEnd
    <2>2. CASE Timeout(f)
      <3>1. rcv[f].at # "fixed"
        BY <2>2 DEF Timeout, WholeLines
      <3>2. ReadError(rcv[f]) = Failed
        BY <3>1 DEF ReadError
      <3> QED
        BY <2>2, <3>2 DEF Timeout
    <2> QED
      BY <2>1, <2>2
  <1>3. wire' = [wire EXCEPT ![conn[f]] = wire[conn[f]]]
    BY <1>1 DEF NetInv, NetTypes
  <1> QED
    BY <1>1, <1>2, <1>3, ReceivedNet

\* releasePtr keeps a connection only behind a whole answer.
LEMMA ReleaseNet ==
    ASSUME IInv, NetInv, NEW f \in All, Release(f)
    PROVE  NetInv'
  <1>0. PICK c : c = conn[f]
    OBVIOUS
  <1>1. /\ c \in Conns /\ (\A g \in All \ {f} : conn[g] # c) /\ c \notin Pooled
        /\ pc[f] = "release" /\ UNCHANGED <<m_conns, sent, rcv>>
    BY <1>0, OwnConn DEF IInv, PlaceInv, PlaceOK, Release
  <1>2. Pooled' = Pooled
    BY <1>1 DEF Pooled
  <1>3. CASE f \in Fibers /\ Keeps(f)
    <2>1. /\ m_request' = [m_request EXCEPT ![c] = @ + 1]
          /\ pc' = [pc EXCEPT ![f] = "push"]
          /\ UNCHANGED <<m_isConnected, conn, result, wire, owed, format>>
      BY <1>0, <1>3 DEF Release, Go
    <2>2. c \in m_isConnected /\ m_request[c] + 1 <= m_maxRequest
      BY <1>0, <1>3 DEF Keeps
    <2>3. Answered(f)
      BY <1>0, <1>1, <2>2 DEF NetInv, FiberOK, GaveUp
    <2>4. NetTypes'
      BY <1>1, <2>1 DEF NetInv, NetTypes
    <2>5. Touches(f, {c})
      BY <1>0, <1>1, <2>1 DEF Touches, Waits, IInv, TypeInt, NetInv, NetTypes
    <2>6. Answered(f)'
      <3>1. Request(f)' = Request(f)
        BY <1>1 DEF Request
      <3> QED
        BY <2>1, <2>3, <3>1 DEF Answered
    <2>7. Reusable(c)' /\ conn'[f] = c
      BY <1>0, <1>1, <2>1, <2>2 DEF Reusable, NetInv, NetTypes
    <2>8. FiberOK(f)'
      BY <1>1, <2>1, <2>6, <2>7 DEF FiberOK, IInv, TypeInt
    <2>9. ConnOK(c)'
      BY <1>0, <2>1, <2>3 DEF ConnOK, Answered
    <2> QED
      BY <1>1, <1>2, <2>4, <2>5, <2>8, <2>9, Touched
  <1>4. CASE ~(f \in Fibers /\ Keeps(f))
    <2>1. PICK requests : requests = IF f \in Fibers THEN [m_request EXCEPT ![c] = @ + 1] ELSE m_request
      OBVIOUS
    <2>2. /\ Delete({c}, requests) /\ conn' = [conn EXCEPT ![f] = NoConn]
          /\ Forget(f) /\ pc' = [pc EXCEPT ![f] = "idle"]
      BY <1>0, <1>4, <2>1 DEF Release, Go
    <2>3. \A d \in Conns \ {c} : requests[d] = m_request[d]
      BY <1>1, <2>1 DEF NetInv, NetTypes
    <2>31. \A d \in Conns \ {c} : requests[d] \in Nat
      BY <2>3 DEF NetInv, NetTypes
    <2>4. /\ m_isConnected' = m_isConnected \ {c}
          /\ m_request' = [d \in Conns |-> IF d \in {c} THEN 0 ELSE requests[d]]
          /\ wire' = [d \in Conns |-> IF d \in {c} THEN <<>> ELSE wire[d]]
          /\ owed' = [d \in Conns |-> IF d \in {c} THEN {} ELSE owed[d]]
          /\ result' = [result EXCEPT ![f] = <<"none">>]
          /\ format' = [format EXCEPT ![f] = <<>>]
      BY <2>2 DEF Delete, Forget, Answer
    <2>5. NetTypes'
      BY <1>1, <2>31, <2>4 DEF NetInv, NetTypes
    <2>6. Touches(f, {c})
      BY <1>0, <1>1, <2>2, <2>3, <2>4 DEF Touches, Waits, IInv, TypeInt, NetInv, NetTypes
    <2>7. FiberOK(f)'
      BY <2>2, <2>4 DEF FiberOK, IInv, TypeInt, NetInv, NetTypes
    <2>8. ConnOK(c)'
      BY <1>1, <2>4 DEF ConnOK
    <2> QED
      BY <1>1, <1>2, <2>5, <2>6, <2>7, <2>8, Touched
  <1> QED
    BY <1>3, <1>4

\* The second half of releasePtr: an answered connection goes back to the pool.
LEMMA PushBackNet ==
    ASSUME IInv, NetInv, NEW f \in All, PushBack(f)
    PROVE  NetInv'
  <1>0. PICK c : c = conn[f]
    OBVIOUS
  <1>1. /\ c \in Conns /\ (\A g \in All \ {f} : conn[g] # c)
        /\ pc[f] = "push" /\ pc' = [pc EXCEPT ![f] = "idle"]
        /\ m_conns' = Append(m_conns, c)
        /\ conn' = [conn EXCEPT ![f] = NoConn]
        /\ result' = [result EXCEPT ![f] = <<"none">>]
        /\ format' = [format EXCEPT ![f] = <<>>]
        /\ UNCHANGED <<sent, rcv, m_isConnected, m_request, wire, owed>>
    BY <1>0, OwnConn DEF IInv, PlaceInv, PlaceOK, PushBack, Go, Forget, Answer, connVars
  <1>2. Answered(f) /\ Reusable(c)
    BY <1>0, <1>1 DEF NetInv, FiberOK
  <1>3. Pooled' \subseteq Pooled \cup {c}
    <2>1. PICK n \in Nat : n = Len(m_conns)
      BY DEF IInv, TypeInt
    <2>2. /\ DOMAIN m_conns = 1..n /\ DOMAIN m_conns' = 1..(n + 1)
          /\ m_conns'[n + 1] = c /\ \A i \in 1..n : m_conns'[i] = m_conns[i]
      BY <1>1, <2>1 DEF IInv, TypeInt
    <2>3. \A i \in 1..(n + 1) : i \in 1..n \/ i = n + 1
      OBVIOUS
    <2> QED
      BY <2>2, <2>3 DEF Pooled
  <1>4. NetTypes'
    BY <1>1 DEF NetInv, NetTypes
  <1>5. Touches(f, {c})
    BY <1>0, <1>1 DEF Touches, Waits, IInv, TypeInt, NetInv, NetTypes
  <1>6. FiberOK(f)'
    BY <1>1 DEF FiberOK, IInv, TypeInt, NetInv, NetTypes
  <1>7. ConnOK(c)'
    BY <1>0, <1>1, <1>2 DEF ConnOK, Answered
  <1>8. Reusable(c)'
    BY <1>1, <1>2 DEF Reusable
  <1> QED
    BY <1>3, <1>4, <1>5, <1>6, <1>7, <1>8, Touched

\* The server answers the fiber that has the connection, which has read nothing yet
\* or has given up.
LEMMA RespondNet ==
    ASSUME IInv, NetInv, NEW c \in Conns, NEW f \in All, Respond(c, f)
    PROVE  NetInv'
  <1>0. PICK fmt \in Formats :
           \E e \in {0, 1, Len(Wire(Request(f), fmt)) - 1, Len(Wire(Request(f), fmt))} :
              /\ wire' = [wire EXCEPT ![c] = @ \o SubSeq(Wire(Request(f), fmt), 1, e)]
              /\ format' = [format EXCEPT ![f] = fmt]
    BY DEF Respond
  <1>1. PICK e \in {0, 1, Len(Wire(Request(f), fmt)) - 1, Len(Wire(Request(f), fmt))} :
           /\ wire' = [wire EXCEPT ![c] = @ \o SubSeq(Wire(Request(f), fmt), 1, e)]
           /\ format' = [format EXCEPT ![f] = fmt]
    BY <1>0
  <1>2. /\ f \in owed[c] /\ owed' = [owed EXCEPT ![c] = @ \ {f}]
        /\ UNCHANGED <<m_conns, pc, sent, conn, rcv, result, m_isConnected, m_request>>
    BY DEF Respond, poolVars, localVars, connVars
  <1>3. conn[f] = c /\ pc[f] \in {"recv", "release"} /\ \A g \in owed[c] : g = f
    <2>1. Waits(f, c) /\ \A g \in owed[c] : g \in All /\ Waits(g, c)
      BY <1>2 DEF NetInv, NetTypes, ConnOK
    <2> QED
      BY <2>1, OwnConn DEF Waits
  <1>4. (\A g \in All \ {f} : conn[g] # c) /\ c \notin Pooled
    BY <1>3, OwnConn
  <1>5. NetTypes' /\ Pooled' = Pooled
    <2>1. NetTypes'
      BY <1>1, <1>2 DEF NetInv, NetTypes
    <2> QED
      BY <1>2, <2>1 DEF Pooled
  <1>6. Touches(f, {c})
    BY <1>1, <1>2, <1>3, <1>4 DEF Touches, Waits, NetInv, NetTypes
  <1>7. ConnOK(c)'
    <2>1. Waits(f, c)' /\ owed'[c] \subseteq {f}
      BY <1>2, <1>3 DEF Waits, NetInv, NetTypes
    <2> QED
      BY <2>1 DEF ConnOK
  <1>8. FiberOK(f)
    BY DEF NetInv
  <1>9. CASE pc[f] = "release"
    <2>1. GaveUp(f)
      BY <1>2, <1>3, <1>8, <1>9 DEF FiberOK, Answered
    <2>2. GaveUp(f)'
      BY <1>2, <2>1 DEF GaveUp
    <2>3. FiberOK(f)'
      BY <1>2, <1>9, <2>2 DEF FiberOK
    <2> QED
      BY <1>4, <1>5, <1>6, <1>7, <2>3, Touched
  <1>10. CASE pc[f] = "recv"
    <2>1. Unanswered(f) /\ result[f] = <<"none">>
      BY <1>2, <1>3, <1>8, <1>10 DEF FiberOK, Arriving
    <2> DEFINE q == Request(f)
               w == Wire(q, fmt)
    <2>2. Len(w) \in Nat /\ Len(w) >= 3 /\ \E T : w \in Seq(T)
      BY WireType
    <2>3. e \in {0, 1, Len(w) - 1, Len(w)}
      OBVIOUS
    <2>4. Request(f)' = q /\ format'[f] = fmt
      BY <1>1, <1>2 DEF Request, NetInv, NetTypes
    <2>5. AnswerAt(q, fmt, 0, NewReceiver)
      BY AnswerStart
    <2>6. wire'[c] = <<>> \o SubSeq(w, 1, e)
      BY <1>1, <1>3, <2>1 DEF Unanswered, NetInv, NetTypes
    <2> HIDE DEF w, q
    <2>7. e \in Nat /\ e <= Len(w)
      BY <2>2, <2>3
    <2>8. <<>> \o SubSeq(w, 1, e) = SubSeq(w, 0 + 1, e)
      <3>1. PICK T : w \in Seq(T)
        BY <2>2
      <3>2. SubSeq(w, 1, e) \in Seq(T)
        BY <2>7, <3>1
      <3>3. <<>> \o SubSeq(w, 1, e) = SubSeq(w, 1, e)
        BY <3>2, ConcatEmptySeq
      <3>4. 0 + 1 = 1
        OBVIOUS
      <3> QED
        BY <3>3, <3>4
    <2>9. Reading(f, 0, e)'
      <3>1. Wire(Request(f)', format'[f]) = w
        BY <2>4 DEF w
      <3>2. 0 \in 0..e
        BY <2>7
      <3>3. rcv'[f] = NewReceiver /\ conn'[f] = c
        BY <1>2, <1>3, <2>1 DEF Unanswered
      <3>4. wire'[c] = SubSeq(w, 0 + 1, e)
        BY <2>6, <2>8
      <3> QED
        BY <2>3, <2>4, <2>5, <3>1, <3>2, <3>3, <3>4 DEF Reading
    <2>10. Arriving(f)'
      <3>1. f \notin owed'[c] /\ conn'[f] = c
        BY <1>2, <1>3 DEF NetInv, NetTypes
      <3>2. 0 \in Nat
        OBVIOUS
      <3> QED
        BY <2>4, <2>7, <2>9, <3>1, <3>2 DEF Arriving
    <2>11. FiberOK(f)'
      BY <1>2, <1>10, <2>1, <2>10 DEF FiberOK
    <2> QED
      BY <1>4, <1>5, <1>6, <1>7, <2>11, Touched
  <1> QED
    BY <1>3, <1>9, <1>10

\* All of it holds in every reachable state.
THEOREM NetCorrect ==
    ASSUME WholeLines
    PROVE  Spec => [](IInv /\ NetInv)
  <1>1. IInv /\ NetInv /\ [Next]_vars => NetInv'
    <2> SUFFICES ASSUME IInv, NetInv, [Next]_vars PROVE NetInv'
      OBVIOUS
    <2>1. ASSUME NEW f \in All, Begin(f) PROVE NetInv'
      BY <2>1, BeginNet
    <2>2. ASSUME NEW f \in All, FiberStep(f) PROVE NetInv'
      BY <2>2, BeginNet, GetNet, SweepNet, ConnectNet, SendNet, ReadNet, ParseNet, NoAnswerNet,
         ReleaseNet, PushBackNet DEF FiberStep
    <2>3. ASSUME NEW c \in Conns, PeerClose(c) PROVE NetInv'
      BY <2>3, NetSame DEF PeerClose, poolVars, localVars, connVars
    <2>4. ASSUME NEW c \in Conns, NEW f \in All, Respond(c, f) PROVE NetInv'
      BY <2>4, RespondNet
    <2>5. ASSUME Tick PROVE NetInv'
      BY <2>5, NetSame DEF Tick, poolVars, localVars, connVars, netVars
    <2>6. ASSUME UNCHANGED vars PROVE NetInv'
      BY <2>6, NetSame DEF vars
    <2> QED
      BY <2>1, <2>2, <2>3, <2>4, <2>5, <2>6 DEF Next
  <1> QED
    BY <1>1, NetInit, PoolCorrect, PTL DEF Spec

\* recvResponse returns the body of the answer to its own request, all of it and
\* nothing else, for any format, whatever pieces it comes in, and whatever the
\* other fibers and the server do.
THEOREM ResponseOwnCorrect ==
    ASSUME WholeLines
    PROVE  Spec => []ResponseIsOwn
  <1>1. IInv /\ NetInv => ResponseIsOwn
    <2> SUFFICES ASSUME IInv, NetInv, NEW f \in All, result[f][1] = "OK"
                 PROVE  result[f][2] = BodyOf(Request(f), format[f])
      BY DEF ResponseIsOwn
    <2>1. FiberOK(f)
      BY DEF NetInv
    <2>2. CASE Answered(f)
      BY <2>2 DEF Answered
    <2>3. CASE ~Answered(f)
      <3>1. result[f] = <<"TIMEOUT">> \/ result[f] = <<"none">>
        BY <2>1, <2>3 DEF FiberOK, GaveUp
      <3> QED
        BY <3>1
    <2> QED
      BY <2>2, <2>3
  <1> QED
    BY <1>1, NetCorrect, PTL

\* A connection in the pool is open, with nothing outstanding or left unread on it.
THEOREM PoolCleanCorrect ==
    ASSUME WholeLines
    PROVE  Spec => []PoolIsClean
  <1>1. IInv /\ NetInv => PoolIsClean
    <2> SUFFICES ASSUME IInv, NetInv, NEW c \in Pooled
                 PROVE  /\ c \in m_isConnected
                        /\ owed[c] = {} /\ wire[c] = <<>>
                        /\ m_request[c] <= m_maxRequest
      BY DEF PoolIsClean
    <2>1. c \in Conns /\ Reusable(c) /\ ConnOK(c)
      BY DEF NetInv, IInv, TypeInt, Pooled
    <2>2. \A f \in All : conn[f] # c
      BY DEF IInv, HeldInv, NotPooled
    <2>3. owed[c] \subseteq All
      BY <2>1 DEF NetInv, NetTypes
    <2> QED
      BY <2>1, <2>2, <2>3 DEF Reusable, ConnOK, Waits
  <1> QED
    BY <1>1, NetCorrect, PTL

-----------------------------------------------------------------------------
(* Which servlet a request is given to *)

\* What is left of a sequence without its m-th element.
LEMMA RemoveEffect ==
    ASSUME NEW T, NEW s \in Seq(T), NEW m \in 1..Len(s)
    PROVE  /\ RemoveAt(s, m) \in Seq(T)
           /\ Len(RemoveAt(s, m)) = Len(s) - 1
           /\ \A i \in 1..Len(s) - 1 : RemoveAt(s, m)[i] = s[IF i < m THEN i ELSE i + 1]
  <1> DEFINE a == SubSeq(s, 1, m - 1)
             b == SubSeq(s, m + 1, Len(s))
  <1>1. /\ a \in Seq(T) /\ Len(a) = m - 1
        /\ \A i \in 1..m - 1 : a[i] = s[i]
    OBVIOUS
  <1>2. /\ b \in Seq(T) /\ Len(b) = Len(s) - m
        /\ \A i \in 1..Len(s) - m : b[i] = s[m + i]
    OBVIOUS
  <1> HIDE DEF a, b
  <1>3. /\ a \o b \in Seq(T) /\ Len(a \o b) = Len(a) + Len(b)
        /\ \A i \in 1..Len(a) + Len(b) :
              (a \o b)[i] = IF i <= Len(a) THEN a[i] ELSE b[i - Len(a)]
    BY <1>1, <1>2, ConcatProperties
  <1>4. RemoveAt(s, m) = a \o b
    BY DEF RemoveAt, a, b
  <1>5. Len(a \o b) = Len(s) - 1
    BY <1>1, <1>2, <1>3
  <1>6. ASSUME NEW i \in 1..Len(s) - 1
        PROVE  (a \o b)[i] = s[IF i < m THEN i ELSE i + 1]
    <2>1. CASE i < m
      BY <1>1, <1>2, <1>3, <2>1
    <2>2. CASE ~(i < m)
      <3>1. i - Len(a) \in 1..Len(s) - m /\ m + (i - Len(a)) = i + 1
        BY <1>1, <2>2
      <3>2. (a \o b)[i] = b[i - Len(a)]
        BY <1>1, <1>2, <1>3, <2>2
      <3> QED
        BY <1>2, <2>2, <3>1, <3>2
    <2> QED
      BY <2>1, <2>2
  <1> QED
    BY <1>3, <1>4, <1>5, <1>6

\* A servlet that a path or a glob leads to is the last one added for it, and it
\* was not taken back; no glob is in the list twice.
DatasCurrent ==
    \A p \in Paths : m_datas[p] # 0 =>
        /\ m_datas[p] \in DOMAIN added \ retired
        /\ added[m_datas[p]] = <<"path", p>>
GlobsCurrent ==
    \A i \in DOMAIN m_globs :
        /\ m_globs[i][2] \in DOMAIN added \ retired
        /\ added[m_globs[i][2]] = <<"glob", m_globs[i][1]>>
GlobsOnce == \A i, j \in DOMAIN m_globs : m_globs[i][1] = m_globs[j][1] => i = j
Keys == ({"path"} \X Paths) \cup ({"glob"} \X Globs)
DispatchInv ==
    /\ m_datas \in [Paths -> Nat] /\ m_globs \in Seq(Globs \X Nat)
    /\ added \in Seq(Keys) /\ retired \subseteq DOMAIN added
    /\ DatasCurrent /\ GlobsCurrent /\ GlobsOnce

\* What erasing a glob leaves of a list that has each glob once.
LEMMA EraseEffect ==
    ASSUME m_globs \in Seq(Globs \X Nat), GlobsOnce, NEW g \in Globs
    PROVE  LET rest == Erase(m_globs, g) IN
           /\ rest \in Seq(Globs \X Nat)
           /\ \A i \in DOMAIN rest : rest[i][1] # g /\ \E k \in DOMAIN m_globs : rest[i] = m_globs[k]
           /\ \A i, j \in DOMAIN rest : rest[i][1] = rest[j][1] => i = j
  <1> DEFINE I == {i \in 1..Len(m_globs) : m_globs[i][1] = g}
             rest == Erase(m_globs, g)
             n == Len(m_globs)
  <1>0. n \in Nat /\ DOMAIN m_globs = 1..n
    OBVIOUS
  <1>1. rest = LET i == IF I # {} THEN Min(I) ELSE 0
               IN IF i = 0 THEN m_globs ELSE RemoveAt(m_globs, i)
    BY Zenon DEF Erase, SelectInSeq, RemoveAt, RemoveAt, Min, Min
  <1>2. CASE I = {}
    <2>1. rest = m_globs
      BY <1>1, <1>2
    <2> QED
      BY <1>0, <1>2, <2>1 DEF GlobsOnce
  <1>3. CASE I # {}
    <2> DEFINE m == Min(I)
    <2>0. I \subseteq Nat
      BY <1>0
    <2>1. m \in I
      <3> HIDE DEF I
      <3> QED
        BY <1>3, <2>0, MinOfNats
    <2>2. m \in 1..n /\ m_globs[m][1] = g
      BY <2>1
    <2> HIDE DEF I, rest
    <2>3. rest = RemoveAt(m_globs, m)
      BY <1>1, <1>3, <2>2
    <2> HIDE DEF m
    <2>4. /\ rest \in Seq(Globs \X Nat) /\ Len(rest) = n - 1
          /\ \A i \in 1..n - 1 : rest[i] = m_globs[IF i < m THEN i ELSE i + 1]
      BY <2>2, <2>3, RemoveEffect
    <2> DEFINE K(i) == IF i < m THEN i ELSE i + 1
    <2>5. DOMAIN rest = 1..n - 1 /\ \A i \in 1..n - 1 : rest[i] = m_globs[K(i)]
      BY <2>4
    <2>6. \A i \in 1..n - 1 : K(i) \in 1..n /\ K(i) # m
      BY <1>0, <2>2
    <2>7. \A i, j \in 1..n - 1 : K(i) = K(j) => i = j
      BY <1>0, <2>2
    <2> HIDE DEF K
    <2>8. ASSUME NEW i \in DOMAIN rest
          PROVE  rest[i][1] # g /\ \E k \in DOMAIN m_globs : rest[i] = m_globs[k]
      <3>1. rest[i] = m_globs[K(i)] /\ K(i) \in DOMAIN m_globs /\ K(i) # m
        BY <1>0, <2>5, <2>6
      <3> QED
        BY <1>0, <2>2, <3>1, Zenon DEF GlobsOnce
    <2>9. ASSUME NEW i \in DOMAIN rest, NEW j \in DOMAIN rest, rest[i][1] = rest[j][1]
          PROVE  i = j
      <3>1. /\ rest[i] = m_globs[K(i)] /\ K(i) \in DOMAIN m_globs
            /\ rest[j] = m_globs[K(j)] /\ K(j) \in DOMAIN m_globs
        BY <1>0, <2>5, <2>6
      <3>2. K(i) = K(j)
        BY <2>9, <3>1, Zenon DEF GlobsOnce
      <3> QED
        BY <2>5, <2>7, <3>2
    <2> QED
      BY <2>4, <2>8, <2>9 DEF rest
  <1> QED
    BY <1>2, <1>3

\* What a change of the servlets of key k does to the others.
LEMMA ChangeEffect ==
    ASSUME added \in Seq(Keys), retired \subseteq DOMAIN added,
           NEW k \in Keys, NEW add \in BOOLEAN, Change(k, add)
    PROVE  /\ added' \in Seq(Keys) /\ retired' \subseteq DOMAIN added'
           /\ \A i \in DOMAIN added \ retired :
                 added[i] # k => i \in DOMAIN added' \ retired' /\ added'[i] = added[i]
           /\ add => /\ Len(added') \in DOMAIN added' \ retired'
                     /\ added'[Len(added')] = k
  <1>1. /\ added' = IF add THEN Append(added, k) ELSE added
        /\ retired' = retired \cup {i \in DOMAIN added : added[i] = k}
    BY DEF Change
  <1>2. /\ added' \in Seq(Keys) /\ Len(added') = IF add THEN Len(added) + 1 ELSE Len(added)
        /\ \A i \in 1..Len(added) : added'[i] = added[i]
        /\ add => added'[Len(added) + 1] = k
    BY <1>1
  <1>3. DOMAIN added = 1..Len(added) /\ DOMAIN added' = 1..Len(added') /\ Len(added) \in Nat
    BY <1>2
  <1> QED
    BY <1>1, <1>2, <1>3

\* The keys of paths and of globs are different.
LEMMA KeysApart ==
    /\ \A p \in Paths : <<"path", p>> \in Keys
    /\ \A g \in Globs : <<"glob", g>> \in Keys
    /\ \A p, q \in Paths : <<"path", p>> = <<"path", q>> => p = q
    /\ \A g, h \in Globs : <<"glob", g>> = <<"glob", h>> => g = h
    /\ \A p \in Paths, g \in Globs : <<"path", p>> # <<"glob", g>>
  BY DEF Keys

\* addServlet and delServlet keep what is known of the dispatch.
LEMMA AddServletStep ==
    ASSUME DispatchInv, NEW p \in Paths, AddServlet(p) \/ DelServlet(p)
    PROVE  DispatchInv'
  <1> DEFINE k == <<"path", p>>
  <1>1. PICK add \in BOOLEAN :
          /\ Change(k, add) /\ m_globs' = m_globs
          /\ m_datas' = [m_datas EXCEPT ![p] = IF add THEN Len(added') ELSE 0]
    <2>1. CASE AddServlet(p)
      <3> WITNESS TRUE \in BOOLEAN
      <3> QED
        BY <2>1 DEF AddServlet
    <2>2. CASE DelServlet(p)
      <3> WITNESS FALSE \in BOOLEAN
      <3> QED
        BY <2>2 DEF DelServlet
    <2> QED
      BY <2>1, <2>2
  <1>2. k \in Keys
    BY KeysApart
  <1> HIDE DEF k
  <1>3. /\ added' \in Seq(Keys) /\ retired' \subseteq DOMAIN added'
        /\ \A i \in DOMAIN added \ retired :
              added[i] # k => i \in DOMAIN added' \ retired' /\ added'[i] = added[i]
        /\ add => /\ Len(added') \in DOMAIN added' \ retired'
                  /\ added'[Len(added')] = k
    BY <1>1, <1>2, ChangeEffect DEF DispatchInv
  <1>4. Len(added') \in Nat
    BY <1>3
  <1>5. m_datas' \in [Paths -> Nat] /\ m_globs' \in Seq(Globs \X Nat) /\ GlobsOnce'
    BY <1>1, <1>4 DEF DispatchInv, GlobsOnce
  <1>6. DatasCurrent'
    <2> SUFFICES ASSUME NEW q \in Paths, m_datas'[q] # 0
                 PROVE  /\ m_datas'[q] \in DOMAIN added' \ retired'
                        /\ added'[m_datas'[q]] = <<"path", q>>
      BY DEF DatasCurrent
    <2>1. CASE q = p
      <3>1. add /\ m_datas'[q] = Len(added')
        BY <1>1, <2>1 DEF DispatchInv
      <3> QED
        BY <1>3, <2>1, <3>1 DEF k
    <2>2. CASE q # p
      <3>1. m_datas'[q] = m_datas[q]
        BY <1>1, <2>2 DEF DispatchInv
      <3>2. m_datas[q] \in DOMAIN added \ retired /\ added[m_datas[q]] = <<"path", q>>
        BY <3>1 DEF DispatchInv, DatasCurrent
      <3>3. <<"path", q>> # k
        BY <2>2, KeysApart DEF k
      <3> QED
        BY <1>3, <3>1, <3>2, <3>3
    <2> QED
      BY <2>1, <2>2
  <1>7. GlobsCurrent'
    <2> SUFFICES ASSUME NEW i \in DOMAIN m_globs
                 PROVE  /\ m_globs[i][2] \in DOMAIN added' \ retired'
                        /\ added'[m_globs[i][2]] = <<"glob", m_globs[i][1]>>
      BY <1>1 DEF GlobsCurrent
    <2>1. /\ m_globs[i][2] \in DOMAIN added \ retired
          /\ added[m_globs[i][2]] = <<"glob", m_globs[i][1]>>
      BY DEF DispatchInv, GlobsCurrent
    <2>2. m_globs[i][1] \in Globs
      BY DEF DispatchInv
    <2>3. <<"glob", m_globs[i][1]>> # k
      BY <2>2, KeysApart DEF k
    <2> QED
      BY <1>3, <2>1, <2>3
  <1> QED
    BY <1>3, <1>5, <1>6, <1>7 DEF DispatchInv

\* So do addGlobServlet and delGlobServlet.
LEMMA AddGlobStep ==
    ASSUME DispatchInv, NEW g \in Globs, AddGlobServlet(g) \/ DelGlobServlet(g)
    PROVE  DispatchInv'
  <1> DEFINE k == <<"glob", g>>
             rest == Erase(m_globs, g)
  <1>1. PICK add \in BOOLEAN :
          /\ Change(k, add) /\ m_datas' = m_datas
          /\ m_globs' = IF add THEN Append(rest, <<g, Len(added')>>) ELSE rest
    <2>1. CASE AddGlobServlet(g)
      <3> WITNESS TRUE \in BOOLEAN
      <3> QED
        BY <2>1 DEF AddGlobServlet
    <2>2. CASE DelGlobServlet(g)
      <3> WITNESS FALSE \in BOOLEAN
      <3> QED
        BY <2>2 DEF DelGlobServlet
    <2> QED
      BY <2>1, <2>2
  <1>2. k \in Keys
    BY KeysApart
  <1>3. /\ rest \in Seq(Globs \X Nat)
        /\ \A i \in DOMAIN rest : rest[i][1] # g /\ \E n \in DOMAIN m_globs : rest[i] = m_globs[n]
        /\ \A i, j \in DOMAIN rest : rest[i][1] = rest[j][1] => i = j
    BY EraseEffect DEF DispatchInv
  <1> HIDE DEF k, rest
  <1>4. /\ added' \in Seq(Keys) /\ retired' \subseteq DOMAIN added'
        /\ \A i \in DOMAIN added \ retired :
              added[i] # k => i \in DOMAIN added' \ retired' /\ added'[i] = added[i]
        /\ add => /\ Len(added') \in DOMAIN added' \ retired'
                  /\ added'[Len(added')] = k
    BY <1>1, <1>2, ChangeEffect DEF DispatchInv
  <1>5. Len(added') \in Nat
    BY <1>4
  <1>6. ASSUME NEW i \in DOMAIN rest
        PROVE  /\ rest[i][2] \in DOMAIN added' \ retired'
               /\ added'[rest[i][2]] = <<"glob", rest[i][1]>>
    <2>1. PICK n \in DOMAIN m_globs : rest[i] = m_globs[n]
      BY <1>3
    <2>2. /\ rest[i][2] \in DOMAIN added \ retired
          /\ added[rest[i][2]] = <<"glob", rest[i][1]>>
      BY <2>1 DEF DispatchInv, GlobsCurrent
    <2>3. rest[i][1] \in Globs
      BY <2>1 DEF DispatchInv
    <2>4. <<"glob", rest[i][1]>> # k
      BY <1>3, <2>3, KeysApart DEF k
    <2> QED
      BY <1>4, <2>2, <2>4
  <1>7. DatasCurrent'
    <2> SUFFICES ASSUME NEW q \in Paths, m_datas[q] # 0
                 PROVE  /\ m_datas[q] \in DOMAIN added' \ retired'
                        /\ added'[m_datas[q]] = <<"path", q>>
      BY <1>1 DEF DatasCurrent
    <2>1. m_datas[q] \in DOMAIN added \ retired /\ added[m_datas[q]] = <<"path", q>>
      BY DEF DispatchInv, DatasCurrent
    <2>2. <<"path", q>> # k
      BY KeysApart DEF k
    <2> QED
      BY <1>4, <2>1, <2>2
  <1>8. CASE ~add
    <2>1. m_globs' = rest
      BY <1>1, <1>8
    <2>2. GlobsCurrent' /\ GlobsOnce'
      BY <1>3, <1>6, <2>1 DEF GlobsCurrent, GlobsOnce
    <2> QED
      BY <1>1, <1>3, <1>4, <1>7, <2>1, <2>2 DEF DispatchInv
  <1>9. CASE add
    <2> DEFINE e == <<g, Len(added')>>
    <2>1. e \in Globs \X Nat /\ e[1] = g /\ e[2] = Len(added')
      BY <1>5
    <2>2. m_globs' = Append(rest, e)
      BY <1>1, <1>9
    <2> HIDE DEF e
    <2>3. /\ m_globs' \in Seq(Globs \X Nat) /\ DOMAIN m_globs' = 1..Len(rest) + 1
          /\ DOMAIN rest = 1..Len(rest) /\ Len(rest) \in Nat
          /\ \A i \in 1..Len(rest) : m_globs'[i] = rest[i]
          /\ m_globs'[Len(rest) + 1] = e
      BY <1>3, <2>1, <2>2, AppendProperties
    <2>4. \A i \in DOMAIN m_globs' : i \in DOMAIN rest \/ i = Len(rest) + 1
      BY <2>3
    <2>5. GlobsCurrent'
      <3> SUFFICES ASSUME NEW i \in DOMAIN m_globs'
                   PROVE  /\ m_globs'[i][2] \in DOMAIN added' \ retired'
                          /\ added'[m_globs'[i][2]] = <<"glob", m_globs'[i][1]>>
        BY DEF GlobsCurrent
      <3>1. CASE i \in DOMAIN rest
        BY <1>6, <2>3, <3>1
      <3>2. CASE i = Len(rest) + 1
        BY <1>4, <1>9, <2>1, <2>3, <3>2 DEF k
      <3> QED
        BY <2>4, <3>1, <3>2
    <2>6. GlobsOnce'
      <3> SUFFICES ASSUME NEW i \in DOMAIN m_globs', NEW j \in DOMAIN m_globs',
                          m_globs'[i][1] = m_globs'[j][1]
                   PROVE  i = j
        BY DEF GlobsOnce
      <3>1. CASE i \in DOMAIN rest /\ j \in DOMAIN rest
        BY <1>3, <2>3, <3>1
      <3>2. CASE i \notin DOMAIN rest \/ j \notin DOMAIN rest
        BY <1>3, <2>1, <2>3, <2>4, <3>2
      <3> QED
        BY <3>1, <3>2
    <2> QED
      BY <1>1, <1>4, <1>7, <2>3, <2>5, <2>6 DEF DispatchInv
  <1> QED
    BY <1>8, <1>9

-----------------------------------------------------------------------------
(* Sessions *)

Requests == [path : Paths, len : BodyLens, close : BOOLEAN]

\* Types of what a session works on.
SessionTypes ==
    /\ session \in [Clients -> {"none", "recv", "handle", "end"}]
    /\ request = [c \in Clients |-> request[c]]
    /\ stream = [c \in Clients |-> stream[c]]
    /\ reqs \in [Clients -> Seq(Requests)]
    /\ answered \in [Clients -> Seq(Nat)]
    /\ backlog \in [Socks -> Seq(Clients)]
    /\ crashed \in BOOLEAN

\* A client that was not accepted yet is in one backlog, once, and has no session.
BacklogInv ==
    \A s, t \in Socks : \A i \in DOMAIN backlog[s], j \in DOMAIN backlog[t] :
        /\ session[backlog[s][i]] = "none"
        /\ backlog[s][i] = backlog[t][j] => s = t /\ i = j

\* A session has failed, or waits for the next request, or has read the first k
\* tokens of the one it is at and nothing else.
Broken(c) == session[c] = "recv" /\ crashed /\ request[c].at = "null"
Waiting(c) ==
    /\ session[c] \in {"none", "recv"}
    /\ Len(reqs[c]) = Len(answered[c])
    /\ stream[c] = <<>> /\ request[c] = NewReceiver
Has(c, k) ==
    LET q == Current(c)
        id == <<c, Len(answered[c]) + 1>>
    IN /\ k \in 0..q.len + 3
       /\ stream[c] = SubSeq(FixedWire(id, q.close, q.len), k + 1, q.len + 3)
       /\ request[c] = Taken(id, q.close, q.len, k)
       /\ session[c] = "none" => k = 0
       /\ session[c] = "handle" <=> k = q.len + 3
Underway(c) ==
    /\ session[c] # "end"
    /\ Len(reqs[c]) = Len(answered[c]) + 1
    /\ \E k \in Nat : Has(c, k)
SessionOK(c) == session[c] = "end" \/ Broken(c) \/ Waiting(c) \/ Underway(c)

SessionInv == SessionTypes /\ BacklogInv /\ \A c \in Clients : SessionOK(c)
ServerInv == DispatchInv /\ SessionInv

\* A client that a step does not touch.
LEMMA Untouched ==
    ASSUME NEW c \in Clients, SessionOK(c), crashed => crashed',
           session'[c] = session[c], request'[c] = request[c], stream'[c] = stream[c],
           reqs'[c] = reqs[c], answered'[c] = answered[c]
    PROVE  SessionOK(c)'
  <1>1. Current(c)' = Current(c)
    BY DEF Current
  <1>2. \A k : Has(c, k)' <=> Has(c, k)
    BY <1>1 DEF Has
  <1> QED
    BY <1>2 DEF SessionOK, Broken, Waiting, Underway

\* A step that leaves the sessions, the clients' streams and the backlogs alone.
LEMMA SessionsKept ==
    ASSUME SessionInv,
           UNCHANGED <<session, request, answered, crashed, stream, reqs, backlog>>
    PROVE  SessionInv'
  <1>1. \A c \in Clients : SessionOK(c)'
    BY Untouched DEF SessionInv
  <1>2. SessionTypes' /\ BacklogInv'
    BY DEF SessionInv, SessionTypes, BacklogInv
  <1> QED
    BY <1>1, <1>2 DEF SessionInv

\* Accepting a connection, in the order of the backlog, keeps ServerInv.
LEMMA AcceptKeeps ==
    ASSUME SessionInv, NEW s \in Socks, Accept(s)
    PROVE  SessionInv'
  <1> DEFINE c == Head(backlog[s])
             n == Len(backlog[s])
  <1>0. UNCHANGED <<request, answered, crashed, stream, reqs>>
    BY DEF Accept, clientVars
  <1>1. CASE UNCHANGED <<backlog, session>>
    BY <1>0, <1>1, SessionsKept
  <1>2. CASE ~UNCHANGED <<backlog, session>>
    <2>1. /\ backlog[s] # <<>>
          /\ session' = [session EXCEPT ![c] = "recv"]
          /\ backlog' = [backlog EXCEPT ![s] = Tail(@)]
      BY <1>2 DEF Accept
    <2>2. backlog[s] \in Seq(Clients) /\ session \in [Clients -> {"none", "recv", "handle", "end"}]
      BY DEF SessionInv, SessionTypes
    <2>3. /\ c \in Clients /\ c = backlog[s][1] /\ n \in Nat /\ 1 \in 1..n /\ DOMAIN backlog[s] = 1..n
          /\ Tail(backlog[s]) \in Seq(Clients) /\ DOMAIN Tail(backlog[s]) = 1..n - 1
          /\ \A i \in 1..n - 1 : Tail(backlog[s])[i] = backlog[s][i + 1]
      BY <2>1, <2>2
    <2>4. session[c] = "none"
      BY <2>3 DEF SessionInv, BacklogInv
    <2> HIDE DEF c, n
    <2>5. session'[c] = "recv" /\ \A d \in Clients : d # c => session'[d] = session[d]
      BY <2>1, <2>2, <2>3
    <2>6. SessionTypes'
      BY <1>0, <2>1, <2>2, <2>3 DEF SessionInv, SessionTypes
    <2>7. ASSUME NEW d \in Clients PROVE SessionOK(d)'
      <3>1. SessionOK(d)
        BY DEF SessionInv
      <3>2. CASE d # c
        BY <1>0, <2>5, <3>1, <3>2, Untouched
      <3>3. CASE d = c
        <4>0. session[d] = "none" /\ session'[d] = "recv"
          BY <2>4, <2>5, <3>3
        <4>1. Waiting(d) \/ Underway(d)
          BY <3>1, <4>0 DEF SessionOK, Broken
        <4>2. CASE Waiting(d)
          BY <1>0, <4>0, <4>2 DEF SessionOK, Waiting
        <4>3. CASE Underway(d)
          <5>1. PICK k \in Nat : Has(d, k)
            BY <4>3 DEF Underway
          <5>2. Current(d)' = Current(d)
            BY <1>0 DEF Current
          <5>3. Has(d, k)'
            BY <1>0, <4>0, <5>1, <5>2 DEF Has
          <5> QED
            BY <1>0, <4>0, <4>3, <5>3 DEF SessionOK, Underway
        <4> QED
          BY <4>1, <4>2, <4>3
      <3> QED
        BY <3>2, <3>3
    <2>8. BacklogInv'
      <3> DEFINE o(t, i) == IF t = s THEN i + 1 ELSE i
      <3>1. ASSUME NEW t \in Socks, NEW i \in DOMAIN backlog'[t]
            PROVE  /\ o(t, i) \in DOMAIN backlog[t]
                   /\ backlog'[t][i] = backlog[t][o(t, i)]
                   /\ t = s => o(t, i) # 1
        <4>1. CASE t = s
          <5>1. backlog'[t] = Tail(backlog[s])
            BY <2>1, <4>1 DEF SessionInv, SessionTypes
          <5>2. i \in 1..n - 1
            BY <2>3, <5>1
          <5> QED
            BY <2>3, <4>1, <5>1, <5>2
        <4>2. CASE t # s
          BY <2>1, <4>2 DEF SessionInv, SessionTypes
        <4> QED
          BY <4>1, <4>2
      <3> SUFFICES ASSUME NEW t \in Socks, NEW u \in Socks,
                          NEW i \in DOMAIN backlog'[t], NEW j \in DOMAIN backlog'[u]
                   PROVE  /\ session'[backlog'[t][i]] = "none"
                          /\ backlog'[t][i] = backlog'[u][j] => t = u /\ i = j
        BY DEF BacklogInv
      <3>2. i \in Int /\ j \in Int
        <4>1. backlog'[t] \in Seq(Clients) /\ backlog'[u] \in Seq(Clients)
          BY <2>6 DEF SessionTypes
        <4> QED
          BY <4>1
      <3>3. o(t, i) = o(t, j) => i = j
        BY <3>2
      <3> HIDE DEF o
      <3>4. /\ session[backlog[t][o(t, i)]] = "none"
            /\ backlog[t][o(t, i)] = backlog[u][o(u, j)] => t = u /\ o(t, i) = o(u, j)
            /\ backlog[t][o(t, i)] = backlog[s][1] => t = s /\ o(t, i) = 1
        <4>1. 1 \in DOMAIN backlog[s]
          BY <2>3
        <4> QED
          BY <3>1, <4>1 DEF SessionInv, BacklogInv
      <3>5. backlog[t][o(t, i)] # c /\ backlog[t][o(t, i)] \in Clients
        BY <2>3, <3>1, <3>4 DEF SessionInv, SessionTypes
      <3> QED
        BY <2>5, <3>1, <3>3, <3>4, <3>5
    <2> QED
      BY <2>6, <2>7, <2>8 DEF SessionInv
  <1> QED
    BY <1>1, <1>2

\* So does stopping the server: it closes listening sockets only.
LEMMA CloseKeeps ==
    ASSUME SessionInv, CloserCloses
    PROVE  SessionInv'
  <1>1. /\ UNCHANGED <<session, request, answered, crashed, stream, reqs>>
        /\ backlog' = [backlog EXCEPT ![closer.sock] = <<>>]
    BY DEF CloserCloses, sessionVars
  <1>2. backlog \in [Socks -> Seq(Clients)]
    BY DEF SessionInv, SessionTypes
  <1>3. \A s \in Socks : backlog'[s] = backlog[s] \/ backlog'[s] = <<>>
    BY <1>1, <1>2
  <1>4. SessionTypes'
    <2>1. backlog' \in [Socks -> Seq(Clients)]
      <3>1. <<>> \in Seq(Clients)
        OBVIOUS
      <3> QED
        BY <1>1, <1>2, <3>1
    <2> QED
      BY <1>1, <2>1 DEF SessionInv, SessionTypes
  <1>5. \A s \in Socks : \A i \in DOMAIN backlog'[s] : i \in DOMAIN backlog[s] /\ backlog'[s][i] = backlog[s][i]
    BY <1>3
  <1>6. BacklogInv'
    BY <1>1, <1>5 DEF SessionInv, BacklogInv
  <1>7. \A c \in Clients : SessionOK(c)'
    BY <1>1, Untouched DEF SessionInv
  <1> QED
    BY <1>4, <1>6, <1>7 DEF SessionInv

\* A client that connects is put behind the others, and has sent nothing.
LEMMA ConnectKeeps ==
    ASSUME SessionInv, NEW c \in Clients, NEW s \in Socks, ClientConnect(c, s)
    PROVE  SessionInv'
  <1>1. /\ UNCHANGED <<session, request, answered, crashed, stream, reqs>>
        /\ backlog' = [backlog EXCEPT ![s] = Append(@, c)]
        /\ session[c] = "none"
    BY DEF ClientConnect, sessionVars, clientVars
  <1>2. \A t \in Socks : \A i \in DOMAIN backlog[t] : backlog[t][i] # c
    <2>1. \A t \in Socks : backlog[t] \in Seq(Clients)
      BY DEF SessionInv, SessionTypes
    <2>2. \A t \in Socks : ~Contains(backlog[t], c)
      BY DEF ClientConnect, InBacklog
    <2> QED
      BY <2>1, <2>2 DEF Contains
  <1>3. backlog \in [Socks -> Seq(Clients)]
    BY DEF SessionInv, SessionTypes
  <1> DEFINE n == Len(backlog[s])
  <1>4. /\ backlog'[s] \in Seq(Clients) /\ DOMAIN backlog'[s] = 1..n + 1 /\ n \in Nat
        /\ DOMAIN backlog[s] = 1..n
        /\ \A i \in 1..n : backlog'[s][i] = backlog[s][i]
        /\ backlog'[s][n + 1] = c
        /\ \A t \in Socks : t # s => backlog'[t] = backlog[t]
    <2>1. backlog[s] \in Seq(Clients) /\ backlog'[s] = Append(backlog[s], c)
      BY <1>1, <1>3
    <2>2. /\ backlog'[s] \in Seq(Clients) /\ Len(backlog'[s]) = n + 1
          /\ \A i \in 1..n : backlog'[s][i] = backlog[s][i] /\ backlog'[s][n + 1] = c
      BY <2>1, AppendProperties
    <2> QED
      BY <1>1, <1>3, <2>1, <2>2
  <1> HIDE DEF n
  <1>5. SessionTypes'
    BY <1>1, <1>3, <1>4 DEF SessionInv, SessionTypes
  <1>6. ASSUME NEW t \in Socks, NEW i \in DOMAIN backlog'[t]
        PROVE  \/ i \in DOMAIN backlog[t] /\ backlog'[t][i] = backlog[t][i]
               \/ t = s /\ i = n + 1 /\ backlog'[t][i] = c
    <2>1. CASE t = s
      <3>1. i \in 1..n \/ i = n + 1
        BY <1>4, <2>1
      <3> QED
        BY <1>4, <2>1, <3>1
    <2>2. CASE t # s
      BY <1>4, <2>2
    <2> QED
      BY <2>1, <2>2
  <1>7. BacklogInv'
    <2> SUFFICES ASSUME NEW t \in Socks, NEW u \in Socks,
                        NEW i \in DOMAIN backlog'[t], NEW j \in DOMAIN backlog'[u]
                 PROVE  /\ session'[backlog'[t][i]] = "none"
                        /\ backlog'[t][i] = backlog'[u][j] => t = u /\ i = j
      BY DEF BacklogInv
    <2> QED
      BY <1>1, <1>2, <1>6 DEF SessionInv, BacklogInv
  <1>8. \A d \in Clients : SessionOK(d)'
    BY <1>1, Untouched DEF SessionInv
  <1> QED
    BY <1>5, <1>7, <1>8 DEF SessionInv

\* getMatchedServlet finds the default servlet, or one that was not taken back.
LEMMA MatchedCurrent ==
    ASSUME DispatchInv, NEW p \in Paths
    PROVE  getMatchedServlet(p) \in Nat \ retired
  <1> DEFINE I == {i \in 1..Len(m_globs) : p \in m_globs[i][1]}
             i == IF I # {} THEN Min(I) ELSE 0
  <1>1. getMatchedServlet(p) = IF m_datas[p] # 0 THEN m_datas[p]
                                      ELSE IF i # 0 THEN m_globs[i][2] ELSE 0
    BY Zenon DEF getMatchedServlet, SelectInSeq, Min, Min, m_default
  <1>2. added \in Seq(Keys) /\ retired \subseteq DOMAIN added
    BY DEF DispatchInv
  <1>3. 0 \notin retired /\ DOMAIN added \subseteq Nat
    BY <1>2
  <1>4. m_datas[p] # 0 => m_datas[p] \in Nat \ retired
    BY <1>3 DEF DispatchInv, DatasCurrent
  <1>5. ASSUME i # 0 PROVE m_globs[i][2] \in Nat \ retired
    <2>1. I # {} /\ I \subseteq Nat /\ I \subseteq DOMAIN m_globs /\ i = Min(I)
      BY <1>5 DEF DispatchInv
    <2> HIDE DEF I, i
    <2>2. i \in DOMAIN m_globs
      BY <2>1, MinOfNats
    <2> QED
      BY <1>3, <2>2 DEF DispatchInv, GlobsCurrent
  <1> HIDE DEF i
  <1> QED
    BY <1>1, <1>3, <1>4, <1>5

\* The request of a session and its message.
LEMMA CurrentTyped ==
    ASSUME SessionTypes, NEW c \in Clients, Underway(c)
    PROVE  LET q == Current(c) IN
           q.path \in Paths /\ q.len \in 0..Word - 1 /\ q.len \in Nat /\ q.close \in BOOLEAN
  <1>1. reqs[c] \in Seq(Requests) /\ answered[c] \in Seq(Nat) /\ Len(reqs[c]) = Len(answered[c]) + 1
    BY DEF SessionTypes, Underway
  <1>2. Current(c) \in Requests
    BY <1>1 DEF Current
  <1>3. BodyLens \subseteq 0..Word - 1 /\ Word \in Nat
    BY RadixAssumption, ServerAssumption
  <1> DEFINE q == Current(c)
  <1> HIDE DEF q
  <1>4. q \in Requests
    BY <1>2 DEF q
  <1>5. q.path \in Paths /\ q.len \in BodyLens
    BY <1>4 DEF Requests
  <1>6. q.close \in BOOLEAN
    BY <1>4 DEF Requests
  <1>7. q.len \in 0..Word - 1
    BY <1>3, <1>5, Zenon
  <1>8. \A x \in 0..Word - 1 : x \in Nat
    BY <1>3
  <1> QED
    BY <1>5, <1>6, <1>7, <1>8 DEF q

\* Where a session is that hands its request to a servlet.
LEMMA HandlePlace ==
    ASSUME SessionInv, NEW c \in Clients, session[c] = "handle"
    PROVE  LET q == Current(c) IN
           /\ Underway(c) /\ stream[c] = <<>>
           /\ request[c].close = q.close
           /\ request[c].body = Bytes(<<c, Len(answered[c]) + 1>>, 0, q.len)
  <1> DEFINE q == Current(c)
             id == <<c, Len(answered[c]) + 1>>
             e == q.len + 3
  <1>1. Underway(c) /\ SessionTypes
    BY DEF SessionInv, SessionOK, Broken, Waiting
  <1>2. q.len \in Nat
    BY <1>1, CurrentTyped
  <1>3. Has(c, e)
    BY <1>1 DEF Underway, Has
  <1>4. stream[c] = SubSeq(FixedWire(id, q.close, q.len), e + 1, e) /\ request[c] = Taken(id, q.close, q.len, e)
    BY <1>3 DEF Has
  <1> HIDE DEF q, id
  <1>5. stream[c] = <<>>
    BY <1>2, <1>4, SubSeqEmpty
  <1>6. request[c].body = Bytes(id, 0, e - 3) /\ request[c].close = q.close
    <2>1. e \in 0..q.len + 3 /\ e >= 3
      BY <1>2
    <2> QED
      BY <1>2, <1>4, <2>1, FixedPlaces
  <1>7. e - 3 = q.len
    BY <1>2
  <1> QED
    BY <1>1, <1>5, <1>6, <1>7 DEF q, id

\* handleClient: dispatching a request keeps ServerInv.
LEMMA HandleKeeps ==
    ASSUME ServerInv, NEW c \in Clients, Handle(c)
    PROVE  SessionInv'
  <1> DEFINE m == getMatchedServlet(Current(c).path)
  <1>1. /\ session[c] = "handle"
        /\ answered' = [answered EXCEPT ![c] = Append(@, m)]
        /\ session' = [session EXCEPT ![c] = IF m_isKeepAlive /\ ~request[c].close THEN "recv" ELSE "end"]
        /\ request' = [request EXCEPT ![c] = NewReceiver]
        /\ UNCHANGED <<backlog, stream, reqs, crashed>>
    BY DEF Handle, clientVars
  <1>2. SessionTypes /\ DispatchInv /\ SessionInv
    BY DEF ServerInv, SessionInv
  <1>3. Underway(c) /\ stream[c] = <<>>
    BY <1>1, <1>2, HandlePlace
  <1>4. m \in Nat
    BY <1>2, <1>3, CurrentTyped, MatchedCurrent
  <1> HIDE DEF m
  <1>5. /\ session'[c] \in {"recv", "end"}
        /\ answered'[c] \in Seq(Nat) /\ Len(answered'[c]) = Len(answered[c]) + 1
        /\ request'[c] = NewReceiver
    <2>1. answered[c] \in Seq(Nat)
      BY <1>2 DEF SessionTypes
    <2>2. answered'[c] = Append(answered[c], m)
      BY <1>1, <1>2 DEF SessionTypes
    <2>3. request'[c] = NewReceiver
      BY <1>1, <1>2, Zenon DEF SessionTypes
    <2>4. session'[c] \in {"recv", "end"}
      BY <1>1, <1>2 DEF SessionTypes
    <2> QED
      BY <1>4, <2>1, <2>2, <2>3, <2>4
  <1>6. SessionTypes'
    <2>1. request' = [d \in Clients |-> request'[d]]
      BY <1>1, <1>2, Zenon DEF SessionTypes
    <2>2. answered' \in [Clients -> Seq(Nat)]
      BY <1>1, <1>2, <1>5 DEF SessionTypes
    <2>3. session' \in [Clients -> {"none", "recv", "handle", "end"}]
      BY <1>1, <1>2 DEF SessionTypes
    <2> QED
      BY <1>1, <1>2, <2>1, <2>2, <2>3 DEF SessionTypes
  <1>7. \A d \in Clients : d # c => /\ session'[d] = session[d] /\ request'[d] = request[d]
                                    /\ answered'[d] = answered[d]
    <2> SUFFICES ASSUME NEW d \in Clients, d # c
                 PROVE  session'[d] = session[d] /\ request'[d] = request[d] /\ answered'[d] = answered[d]
      OBVIOUS
    <2>1. request'[d] = request[d]
      BY <1>1, <1>2, Zenon DEF SessionTypes
    <2> QED
      BY <1>1, <1>2, <2>1 DEF SessionTypes
  <1>8. BacklogInv'
    <2> SUFFICES ASSUME NEW t \in Socks, NEW u \in Socks,
                        NEW i \in DOMAIN backlog[t], NEW j \in DOMAIN backlog[u]
                 PROVE  /\ session'[backlog[t][i]] = "none"
                        /\ backlog[t][i] = backlog[u][j] => t = u /\ i = j
      BY <1>1 DEF BacklogInv
    <2>1. /\ session[backlog[t][i]] = "none"
          /\ backlog[t][i] = backlog[u][j] => t = u /\ i = j
      BY <1>2 DEF SessionInv, BacklogInv
    <2>2. backlog[t][i] \in Clients
      BY <1>2 DEF SessionTypes
    <2> QED
      BY <1>1, <1>7, <2>1, <2>2
  <1>9. ASSUME NEW d \in Clients PROVE SessionOK(d)'
    <2>1. SessionOK(d)
      BY <1>2 DEF SessionInv
    <2>2. CASE d # c
      BY <1>1, <1>7, <2>1, <2>2, Untouched
    <2>3. CASE d = c
      BY <1>1, <1>3, <1>5, <2>3 DEF SessionOK, Waiting, Underway
    <2> QED
      BY <2>2, <2>3
  <1> QED
    BY <1>6, <1>8, <1>9 DEF SessionInv

\* One read() of a request that has come in part: the receiver is at the tokens it
\* has now.
LEMMA ReadUnderway ==
    ASSUME SessionInv, NEW c \in Clients, Underway(c),
           RecvRequest(c)
    PROVE  \E k \in Nat : /\ k \in 0..Current(c).len + 3
                          /\ request'[c] = Taken(<<c, Len(answered[c]) + 1>>, Current(c).close,
                                                 Current(c).len, k)
                          /\ stream'[c] = SubSeq(FixedWire(<<c, Len(answered[c]) + 1>>, Current(c).close,
                                                           Current(c).len), k + 1, Current(c).len + 3)
  <1> DEFINE q == Current(c)
             id == <<c, Len(answered[c]) + 1>>
             n == q.len
             e == n + 3
             w == FixedWire(id, q.close, n)
  <1>1. session[c] = "recv" /\ SessionTypes
    BY DEF RecvRequest, SessionInv
  <1>2. n \in 0..Word - 1 /\ n \in Nat /\ q.close \in BOOLEAN
    BY <1>1, CurrentTyped
  <1>3. PICK k \in Nat : Has(c, k)
    BY DEF Underway
  <1>4. /\ k \in 0..e /\ k # e
        /\ stream[c] = SubSeq(w, k + 1, e)
        /\ request[c] = Taken(id, q.close, n, k)
    BY <1>1, <1>3 DEF Has
  <1>5. PICK j \in 0..Wanted(request[c], Len(stream[c])) :
          /\ j = 0 => stream[c] = <<>>
          /\ request' = [request EXCEPT ![c] = IF j > 0 THEN Receive(@, SubSeq(stream[c], 1, j))
                                               ELSE IF c \in gone THEN ReadEnd(@) ELSE ReadError(@)]
          /\ stream' = [stream EXCEPT ![c] = SubSeq(@, j + 1, Len(@))]
    BY Zenon DEF RecvRequest
  <1>6. /\ request'[c] = IF j > 0 THEN Receive(request[c], SubSeq(stream[c], 1, j))
                         ELSE IF c \in gone THEN ReadEnd(request[c]) ELSE ReadError(request[c])
        /\ stream'[c] = SubSeq(stream[c], j + 1, Len(stream[c]))
    BY <1>1, <1>5, Zenon DEF SessionTypes
  <1> HIDE DEF q, id, n, w
  <1>7. (\E T : w \in Seq(T)) /\ Len(w) = e
    BY <1>2, FixedTokens DEF w
  <1>8. PICK T : w \in Seq(T)
    BY <1>7
  <1>9. /\ Len(stream[c]) = e - k
        /\ \A i \in 0..e - k : /\ SubSeq(stream[c], 1, i) = SubSeq(w, k + 1, k + i)
                               /\ SubSeq(stream[c], i + 1, Len(stream[c])) = SubSeq(w, k + i + 1, e)
    <2>1. e \in 0..Len(w) /\ k \in 0..e /\ 0 \in 0..e - k
      BY <1>2, <1>4, <1>7
    <2> HIDE DEF e
    <2>2. ASSUME NEW i \in 0..e - k
          PROVE  /\ Len(SubSeq(w, k + 1, e)) = e - k
                 /\ SubSeq(SubSeq(w, k + 1, e), 1, i) = SubSeq(w, k + 1, k + i)
                 /\ SubSeq(SubSeq(w, k + 1, e), i + 1, Len(SubSeq(w, k + 1, e))) = SubSeq(w, k + i + 1, e)
      BY <1>8, <2>1, StreamCut
    <2> QED
      BY <1>4, <2>1, <2>2
  <1>10. Wanted(request[c], Len(stream[c])) = e - k
    BY <1>2, <1>4, <1>9, FixedPlaces
  <1>11. j \in 0..e - k /\ j # 0
    <2>1. j \in 0..e - k
      BY <1>5, <1>10
    <2>2. Len(stream[c]) # 0
      BY <1>2, <1>4, <1>9
    <2>3. stream[c] # <<>>
      BY <2>2
    <2> QED
      BY <1>5, <2>1, <2>3
  <1>12. request'[c] = Receive(Taken(id, q.close, n, k), SubSeq(w, k + 1, k + j))
    <2>1. j > 0
      BY <1>11
    <2>2. request'[c] = Receive(request[c], SubSeq(stream[c], 1, j))
      BY <1>6, <2>1
    <2> QED
      BY <1>4, <1>9, <1>11, <2>2
  <1>13. k \in 0..n + 2 /\ j \in 1..n + 3 - k /\ k + j \in 0..n + 3 /\ k + j \in Nat
    BY <1>2, <1>4, <1>11
  <1>14. request'[c] = Taken(id, q.close, n, k + j)
    BY <1>2, <1>12, <1>13, FixedReceive DEF w
  <1>15. stream'[c] = SubSeq(w, (k + j) + 1, e)
    BY <1>6, <1>9, <1>11
  <1> QED
    BY <1>13, <1>14, <1>15 DEF q, id, n, w

\* A read() on a stream that is empty finds the client gone or silent.
LEMMA ReadWaiting ==
    ASSUME SessionInv, NEW c \in Clients, Waiting(c), RecvRequest(c)
    PROVE  request'[c] = Failed /\ stream'[c] = <<>>
  <1>1. request[c] = NewReceiver /\ stream[c] = <<>> /\ SessionTypes
    BY DEF Waiting, SessionInv
  <1>2. PICK j \in 0..Wanted(request[c], Len(stream[c])) :
          /\ request' = [request EXCEPT ![c] = IF j > 0 THEN Receive(@, SubSeq(stream[c], 1, j))
                                               ELSE IF c \in gone THEN ReadEnd(@) ELSE ReadError(@)]
          /\ stream' = [stream EXCEPT ![c] = SubSeq(@, j + 1, Len(@))]
    BY Zenon DEF RecvRequest
  <1>3. /\ request'[c] = IF j > 0 THEN Receive(request[c], SubSeq(stream[c], 1, j))
                         ELSE IF c \in gone THEN ReadEnd(request[c]) ELSE ReadError(request[c])
        /\ stream'[c] = SubSeq(stream[c], j + 1, Len(stream[c]))
    BY <1>1, <1>2, Zenon DEF SessionTypes
  <1>4. NewReceiver.at = "head"
    BY DEF NewReceiver, Receiver
  <1>5. Wanted(NewReceiver, 0) = 0 /\ ReadEnd(NewReceiver) = Failed /\ ReadError(NewReceiver) = Failed
    BY <1>4 DEF Wanted, ReadEnd, ReadError
  <1>6. Len(stream[c]) = 0
    BY <1>1
  <1>7. j = 0
    BY <1>1, <1>2, <1>5, <1>6
  <1>8. request'[c] = Failed
    BY <1>1, <1>3, <1>5, <1>7
  <1>9. stream'[c] = <<>>
    BY <1>1, <1>3, <1>6, <1>7, SubSeqEmpty
  <1> QED
    BY <1>8, <1>9

\* recvRequest: so does reading some tokens of a request.
LEMMA ReadKeeps ==
    ASSUME SessionInv, NEW c \in Clients, RecvRequest(c)
    PROVE  SessionInv'
  <1>0. SessionTypes
    BY DEF SessionInv
  <1>1. /\ session[c] = "recv" /\ ~crashed
        /\ session' = [session EXCEPT ![c] = IF request'[c].at = "done" THEN "handle" ELSE @]
        /\ crashed' = (request'[c].at = "null")
        /\ UNCHANGED <<backlog, reqs, answered>>
    BY DEF RecvRequest
  <1>2. \E r : request' = [request EXCEPT ![c] = r]
    BY Zenon DEF RecvRequest
  <1>3. \E s : stream' = [stream EXCEPT ![c] = s]
    BY Zenon DEF RecvRequest
  <1>4. /\ request' = [d \in Clients |-> request'[d]] /\ stream' = [d \in Clients |-> stream'[d]]
        /\ \A d \in Clients : d # c => request'[d] = request[d] /\ stream'[d] = stream[d]
    <2>1. PICK r : request' = [request EXCEPT ![c] = r]
      BY <1>2
    <2>2. PICK s : stream' = [stream EXCEPT ![c] = s]
      BY <1>3
    <2>3. request' = [d \in Clients |-> request'[d]] /\ \A d \in Clients : d # c => request'[d] = request[d]
      BY <1>0, <2>1, Zenon DEF SessionTypes
    <2>4. stream' = [d \in Clients |-> stream'[d]] /\ \A d \in Clients : d # c => stream'[d] = stream[d]
      BY <1>0, <2>2, Zenon DEF SessionTypes
    <2> QED
      BY <2>3, <2>4
  <1>5. /\ session'[c] = IF request'[c].at = "done" THEN "handle" ELSE "recv"
        /\ \A d \in Clients : d # c => session'[d] = session[d]
        /\ session' \in [Clients -> {"none", "recv", "handle", "end"}]
    BY <1>0, <1>1 DEF SessionTypes
  <1>6. SessionTypes'
    BY <1>0, <1>1, <1>4, <1>5 DEF SessionTypes
  <1>7. BacklogInv'
    <2> SUFFICES ASSUME NEW t \in Socks, NEW u \in Socks,
                        NEW i \in DOMAIN backlog[t], NEW j \in DOMAIN backlog[u]
                 PROVE  /\ session'[backlog[t][i]] = "none"
                        /\ backlog[t][i] = backlog[u][j] => t = u /\ i = j
      BY <1>1 DEF BacklogInv
    <2>1. /\ session[backlog[t][i]] = "none"
          /\ backlog[t][i] = backlog[u][j] => t = u /\ i = j
      BY DEF SessionInv, BacklogInv
    <2>2. backlog[t][i] \in Clients
      BY <1>0 DEF SessionTypes
    <2> QED
      BY <1>1, <1>5, <2>1, <2>2
  <1>8. SessionOK(c)'
    <2>1. Waiting(c) \/ Underway(c)
      BY <1>1 DEF SessionInv, SessionOK, Broken
    <2>2. CASE Waiting(c)
      <3>1. request'[c].at = "null"
        BY <2>2, ReadWaiting DEF Failed, Receiver
      <3> QED
        BY <1>1, <1>5, <3>1 DEF SessionOK, Broken
    <2>3. CASE Underway(c)
      <3> DEFINE q == Current(c)
                 id == <<c, Len(answered[c]) + 1>>
      <3>1. PICK k \in Nat : /\ k \in 0..q.len + 3
                             /\ request'[c] = Taken(id, q.close, q.len, k)
                             /\ stream'[c] = SubSeq(FixedWire(id, q.close, q.len), k + 1, q.len + 3)
        BY <2>3, ReadUnderway
      <3>2. q.len \in Nat
        BY <1>0, <2>3, CurrentTyped
      <3>3. Current(c)' = q /\ Len(answered'[c]) = Len(answered[c])
        BY <1>1 DEF Current
      <3>4. session'[c] = "handle" <=> k = q.len + 3
        <4> HIDE DEF q, id
        <4>1. request'[c].at = IF k < 3 THEN "head" ELSE IF k = q.len + 3 THEN "done" ELSE "fixed"
          BY <3>1, <3>2, FixedPlaces
        <4> QED
          BY <1>5, <3>1, <3>2, <4>1
      <3>5. Has(c, k)'
        BY <1>5, <3>1, <3>3, <3>4 DEF Has
      <3>6. Len(reqs'[c]) = Len(answered'[c]) + 1 /\ session'[c] # "end"
        BY <1>1, <1>5, <2>3 DEF Underway
      <3> QED
        BY <3>5, <3>6 DEF SessionOK, Underway
    <2> QED
      BY <2>1, <2>2, <2>3
  <1>9. ASSUME NEW d \in Clients PROVE SessionOK(d)'
    <2>1. SessionOK(d)
      BY DEF SessionInv
    <2>2. CASE d # c
      BY <1>1, <1>4, <1>5, <2>1, <2>2, Untouched
    <2>3. CASE d = c
      BY <1>8, <2>3
    <2> QED
      BY <2>2, <2>3
  <1> QED
    BY <1>6, <1>7, <1>9 DEF SessionInv

\* A client that sends a request, or a part of one, behind the last one.
LEMMA SendKeeps ==
    ASSUME ~Pipelining, SessionInv, NEW c \in Clients, ClientSend(c)
    PROVE  SessionInv'
  <1> DEFINE n == Len(reqs[c])
  <1>0. SessionTypes
    BY DEF SessionInv
  <1>1. /\ UNCHANGED <<session, request, answered, crashed, backlog>>
        /\ InBacklog(c) \/ session[c] \in {"recv", "handle"}
        /\ Len(answered[c]) = n
    BY DEF ClientSend, sessionVars
  <1>2. PICK p \in Paths, len \in BodyLens, close \in BOOLEAN :
          /\ reqs' = [reqs EXCEPT ![c] = Append(@, [path |-> p, len |-> len, close |-> close])]
          /\ stream' = [stream EXCEPT ![c] = @ \o FixedWire(<<c, n + 1>>, close, len)]
    BY Zenon DEF ClientSend
  <1> DEFINE q == [path |-> p, len |-> len, close |-> close]
             w == FixedWire(<<c, n + 1>>, close, len)
  <1>3. q \in Requests /\ q.len = len /\ q.close = close
    BY DEF Requests
  <1>4. len \in Nat
    BY RadixAssumption, ServerAssumption
  <1>5. reqs'[c] = Append(reqs[c], q) /\ stream'[c] = stream[c] \o w
    <2>1. stream'[c] = stream[c] \o FixedWire(<<c, n + 1>>, close, len)
      BY <1>0, <1>2, Zenon DEF SessionTypes
    <2>2. reqs'[c] = Append(reqs[c], q)
      BY <1>0, <1>2, Zenon DEF SessionTypes
    <2> QED
      BY <2>1, <2>2
  <1> HIDE DEF q
  <1>6. /\ reqs[c] \in Seq(Requests) /\ n \in Nat
        /\ reqs'[c] \in Seq(Requests) /\ Len(reqs'[c]) = n + 1 /\ reqs'[c][n + 1] = q
    <2>1. reqs[c] \in Seq(Requests)
      BY <1>0 DEF SessionTypes
    <2> QED
      BY <1>3, <1>5, <2>1, AppendProperties
  <1>7. SessionTypes'
    <2>1. stream' = [d \in Clients |-> stream'[d]]
      BY <1>0, <1>2, Zenon DEF SessionTypes
    <2>2. reqs' \in [Clients -> Seq(Requests)]
      <3>1. reqs' = [reqs EXCEPT ![c] = reqs'[c]]
        BY <1>0, <1>2, <1>5 DEF SessionTypes
      <3> QED
        BY <1>0, <1>6, <3>1 DEF SessionTypes
    <2> QED
      BY <1>0, <1>1, <2>1, <2>2 DEF SessionTypes
  <1>8. BacklogInv'
    BY <1>1 DEF SessionInv, BacklogInv
  <1>9. SessionOK(c)'
    <2>1. session[c] \in {"none", "recv", "handle"}
      <3>1. ASSUME InBacklog(c) PROVE session[c] = "none"
        <4>1. PICK s \in Socks : Contains(backlog[s], c)
          BY <3>1 DEF InBacklog
        <4>2. PICK i \in DOMAIN backlog[s] : backlog[s][i] = c
          BY <1>0, <4>1 DEF Contains, SessionTypes
        <4> QED
          BY <4>2 DEF SessionInv, BacklogInv
      <3> QED
        BY <1>1, <3>1
    <2>2. Broken(c) \/ Waiting(c)
      <3>1. ~(n = n + 1)
        BY <1>6
      <3>2. ~Underway(c)
        BY <1>1, <3>1 DEF Underway
      <3> QED
        BY <2>1, <3>2 DEF SessionInv, SessionOK
    <2>3. CASE Broken(c)
      BY <1>1, <2>3 DEF SessionOK, Broken
    <2>4. CASE Waiting(c)
      <3>1. Current(c)' = q /\ Len(answered'[c]) = n
        BY <1>1, <1>6 DEF Current
      <3>2. (\E T : w \in Seq(T)) /\ Len(w) = len + 3
        BY <1>4, FixedTokens
      <3> HIDE DEF w
      <3>3. PICK T : w \in Seq(T)
        BY <3>2
      <3>4. stream'[c] = SubSeq(w, 0 + 1, len + 3)
        <4>1. <<>> \o w = w /\ SubSeq(w, 1, Len(w)) = w
          BY <3>3, ConcatEmptySeq, SubSeqFull
        <4>2. stream[c] = <<>>
          BY <2>4 DEF Waiting
        <4> QED
          BY <1>5, <3>2, <4>1, <4>2
      <3>5. request'[c] = Taken(<<c, n + 1>>, close, len, 0)
        <4>1. Taken(<<c, n + 1>>, close, len, 0) = NewReceiver
          BY DEF Taken, CloseAfter, NewReceiver
        <4>2. request'[c] = NewReceiver
          BY <1>1, <2>4 DEF Waiting
        <4> QED
          BY <4>1, <4>2
      <3>6. session'[c] \in {"none", "recv"}
        BY <1>1, <2>4 DEF Waiting
      <3>7. 0 \in 0..len + 3 /\ 0 # len + 3 /\ 0 \in Nat
        BY <1>4
      <3>8. Has(c, 0)'
        BY <1>3, <3>1, <3>4, <3>5, <3>6, <3>7 DEF Has, w
      <3> QED
        BY <1>1, <1>6, <3>6, <3>7, <3>8 DEF SessionOK, Underway
    <2> QED
      BY <2>2, <2>3, <2>4
  <1>10. ASSUME NEW d \in Clients PROVE SessionOK(d)'
    <2>1. SessionOK(d)
      BY DEF SessionInv
    <2>2. CASE d # c
      <3>1. reqs'[d] = reqs[d]
        BY <1>0, <1>2, <2>2 DEF SessionTypes
      <3>2. stream'[d] = stream[d]
        BY <1>0, <1>2, <2>2, Zenon DEF SessionTypes
      <3> QED
        BY <1>1, <2>1, <3>1, <3>2, Untouched
    <2>3. CASE d = c
      BY <1>9, <2>3
    <2> QED
      BY <2>2, <2>3
  <1> QED
    BY <1>7, <1>8, <1>10 DEF SessionInv

\* ServerInv holds initially.
LEMMA ServerStarts ==
    ASSUME ServerInit
    PROVE  ServerInv
  <1>1. DispatchInv
    <2>1. /\ m_datas = [p \in Paths |-> 0] /\ m_globs = <<>> /\ added = <<>> /\ retired = {}
      BY DEF ServerInit
    <2>2. m_datas \in [Paths -> Nat] /\ m_globs \in Seq(Globs \X Nat) /\ added \in Seq(Keys)
      BY <2>1
    <2>3. DatasCurrent /\ GlobsCurrent /\ GlobsOnce
      BY <2>1 DEF DatasCurrent, GlobsCurrent, GlobsOnce
    <2> QED
      BY <2>1, <2>2, <2>3 DEF DispatchInv
  <1>2. /\ backlog = [s \in Socks |-> <<>>] /\ session = [c \in Clients |-> "none"]
        /\ request = [c \in Clients |-> NewReceiver] /\ stream = [c \in Clients |-> <<>>]
        /\ reqs = [c \in Clients |-> <<>>] /\ answered = [c \in Clients |-> <<>>] /\ crashed = FALSE
    BY DEF ServerInit
  <1>3. SessionTypes
    <2>1. request = [c \in Clients |-> request[c]] /\ stream = [c \in Clients |-> stream[c]]
      BY <1>2, Zenon
    <2>2. reqs \in [Clients -> Seq(Requests)] /\ answered \in [Clients -> Seq(Nat)] /\ backlog \in [Socks -> Seq(Clients)]
      BY <1>2
    <2>3. session \in [Clients -> {"none", "recv", "handle", "end"}]
      BY <1>2
    <2> QED
      BY <1>2, <2>1, <2>2, <2>3, Zenon DEF SessionTypes
  <1>4. BacklogInv
    BY <1>2 DEF BacklogInv
  <1>5. \A c \in Clients : SessionOK(c)
    BY <1>2 DEF SessionOK, Waiting
  <1> QED
    BY <1>1, <1>3, <1>4, <1>5 DEF ServerInv, SessionInv

\* Every step of the server, the sessions, the clients and the changes to the
\* dispatch keeps it.
LEMMA ServerStep ==
    ASSUME ~Pipelining, ServerInv, [ServerNext]_serverVars
    PROVE  ServerInv'
  <1> DEFINE Dispatch == UNCHANGED <<m_datas, m_globs, added, retired>>
             Sessions == UNCHANGED <<session, request, answered, crashed, stream, reqs, backlog>>
  <1>0. DispatchInv /\ SessionInv
    BY DEF ServerInv
  <1>1. ASSUME Dispatch PROVE DispatchInv'
    BY <1>0, <1>1 DEF DispatchInv, DatasCurrent, GlobsCurrent, GlobsOnce
  <1>2. ASSUME Sessions PROVE SessionInv'
    BY <1>0, <1>2, SessionsKept
  <1> USE DEF clientVars, sessionVars, acceptVars, dispatchVars
  <1>3. CASE UNCHANGED serverVars
    BY <1>1, <1>2, <1>3 DEF ServerInv, serverVars
  <1>4. ASSUME NEW ok \in SUBSET Socks, Bind(ok) PROVE ServerInv'
    BY <1>1, <1>2, <1>4 DEF ServerInv, Bind
  <1>5. CASE Start \/ Stop
    BY <1>1, <1>2, <1>5 DEF ServerInv, Start, Stop
  <1>6. ASSUME NEW s \in Socks, AcceptStep(s) PROVE ServerInv'
    <2>1. CASE Accept(s)
      BY <1>0, <1>1, <2>1, AcceptKeeps DEF ServerInv, Accept
    <2>2. CASE Resume(s) \/ TestStop(s) \/ AddEvent(s) \/ Readable(s)
      BY <1>1, <1>2, <2>2 DEF ServerInv, Resume, TestStop, AddEvent, Readable
    <2> QED
      BY <1>6, <2>1, <2>2 DEF AcceptStep
  <1>7. CASE CloserStep
    <2>1. CASE BeginClosing \/ CloserCancels
      BY <1>1, <1>2, <2>1 DEF ServerInv, BeginClosing, CloserCancels
    <2>2. CASE CloserCloses
      BY <1>0, <1>1, <2>2, CloseKeeps DEF ServerInv, CloserCloses
    <2> QED
      BY <1>7, <2>1, <2>2 DEF CloserStep
  <1>8. ASSUME NEW c \in Clients, SessionStep(c) PROVE ServerInv'
    <2>1. CASE RecvRequest(c)
      BY <1>0, <1>1, <2>1, ReadKeeps DEF ServerInv, RecvRequest
    <2>2. CASE Handle(c)
      BY <1>1, <2>2, HandleKeeps DEF ServerInv, Handle
    <2> QED
      BY <1>8, <2>1, <2>2 DEF SessionStep
  <1>9. ASSUME NEW c \in Clients, ClientStep(c) PROVE ServerInv'
    <2>1. CASE ClientSend(c)
      BY <1>0, <1>1, <2>1, SendKeeps DEF ServerInv, ClientSend
    <2>2. CASE ClientLeave(c)
      BY <1>1, <1>2, <2>2 DEF ServerInv, ClientLeave
    <2>3. ASSUME NEW s \in Socks, ClientConnect(c, s) PROVE ServerInv'
      BY <1>0, <1>1, <2>3, ConnectKeeps DEF ServerInv, ClientConnect
    <2> QED
      BY <1>9, <2>1, <2>2, <2>3 DEF ClientStep
  <1>10. ASSUME NEW p \in Paths, AddServlet(p) \/ DelServlet(p) PROVE ServerInv'
    BY <1>0, <1>2, <1>10, AddServletStep DEF ServerInv, AddServlet, DelServlet, Change
  <1>11. ASSUME NEW g \in Globs, AddGlobServlet(g) \/ DelGlobServlet(g) PROVE ServerInv'
    BY <1>0, <1>2, <1>11, AddGlobStep DEF ServerInv, AddGlobServlet, DelGlobServlet, Change
  <1> HIDE DEF clientVars, sessionVars, acceptVars, dispatchVars
  <1> QED
    BY <1>3, <1>4, <1>5, <1>6, <1>7, <1>8, <1>9, <1>10, <1>11 DEF ServerNext

\* Unless a client pipelines its requests, what recvRequest hands to the servlet is
\* the request that the client sent, for any number of clients and requests, any
\* lengths a uint64_t holds, and any pieces that read() cuts the stream into.
THEOREM RequestSentCorrect ==
    ASSUME ~Pipelining
    PROVE  ServerSpec => []RequestIsSent
  <1>1. ServerInit => ServerInv
    BY ServerStarts
  <1>2. ServerInv /\ [ServerNext]_serverVars => ServerInv'
    BY ServerStep
  <1>3. ServerInv => RequestIsSent
    BY HandlePlace DEF ServerInv, RequestIsSent
  <1> QED
    BY <1>1, <1>2, <1>3, PTL DEF ServerSpec

\* A servlet that was replaced or deleted answers no request that is dispatched
\* later: path and glob entries lead to the newest servlet of their key only.
THEOREM RetiredCorrect ==
    ASSUME ~Pipelining
    PROVE  ServerSpec => RetiredAnswersNothing
  <1> DEFINE A == \A c \in Clients : answered'[c] # answered[c] => Last(answered'[c]) \notin retired
  <1>1. ServerInit => ServerInv
    BY ServerStarts
  <1>2. ServerInv /\ [ServerNext]_serverVars => ServerInv'
    BY ServerStep
  <1>3. ASSUME ServerInv, [ServerNext]_serverVars PROVE [A]_serverVars
    <2>1. CASE UNCHANGED answered
      BY <2>1
    <2>2. ASSUME NEW c \in Clients, Handle(c) PROVE A
      <3> DEFINE m == getMatchedServlet(Current(c).path)
      <3>1. /\ session[c] = "handle" /\ answered' = [answered EXCEPT ![c] = Append(@, m)]
        BY <2>2 DEF Handle
      <3>2. SessionTypes /\ SessionInv /\ DispatchInv
        BY <1>3 DEF ServerInv, SessionInv
      <3>3. m \in Nat \ retired
        BY <3>1, <3>2, HandlePlace, CurrentTyped, MatchedCurrent
      <3> HIDE DEF m
      <3>4. Last(answered'[c]) = m
        <4>1. answered[c] \in Seq(Nat) /\ answered'[c] = Append(answered[c], m)
          BY <3>1, <3>2 DEF SessionTypes
        <4> QED
          BY <3>3, <4>1 DEF Last
      <3>5. \A d \in Clients : d # c => answered'[d] = answered[d]
        BY <3>1, <3>2 DEF SessionTypes
      <3> QED
        BY <3>3, <3>4, <3>5
    <2>3. (\E c \in Clients : Handle(c)) \/ UNCHANGED answered
      BY <1>3 DEF ServerNext, serverVars, Bind, Start, Stop, AcceptStep, Resume,
         TestStop, Accept, AddEvent, Readable, CloserStep, BeginClosing,
         CloserCancels, CloserCloses, SessionStep, RecvRequest, ClientStep, ClientSend,
         ClientLeave, ClientConnect, AddServlet, DelServlet, AddGlobServlet,
         DelGlobServlet, Change, sessionVars
    <2> QED
      BY <2>1, <2>2, <2>3
  <1> QED
    BY <1>1, <1>2, <1>3, PTL DEF ServerSpec, RetiredAnswersNothing

=============================================================================
