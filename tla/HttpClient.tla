----------------------------- MODULE HttpClient -----------------------------
(***************************************************************************)
(* windgent/http/http_connection.cc: fibers that send requests, through    *)
(* one HttpConnectionPool or each on a connection of its own, and a server *)
(* that answers, closes or keeps silent.                                   *)
(*                                                                         *)
(* A step is one critical section of the pool's mutex, one access to       *)
(* m_total, one call of the socket.  A request is named after its fiber    *)
(* and its number, and the bytes of an answer carry that name.             *)
(***************************************************************************)
EXTENDS HttpMessage, FiniteSets

CONSTANTS
    Fibers,       \* fibers that call doRequest of the pool
    Direct,       \* fibers that call HttpConnection::doRequest
    MaxConns,     \* bound: connections at a time
    FixedLens,    \* lengths of answers with a Content-Length
    ChunkSizes,   \* sizes of the chunk of other answers, before the last one
    m_maxAliveTime, m_maxRequest,
    MaxRequests,  \* bound: requests of all fibers together
    MaxClock,     \* bound: of the clock
    ErrorsAt,     \* receiver places where a read may run into its timeout
    SplitSizes    \* may a read end inside a chunk's size line?

All == Fibers \cup Direct
Formats == ({"fixed"} \X FixedLens) \cup ({"chunked"} \X ChunkSizes)
Conns == 1..MaxConns
NoConn == 0      \* a null HttpConnection*

ASSUME PoolAssumption == /\ Fibers \cap Direct = {}
                         /\ m_maxAliveTime \in Nat /\ m_maxRequest \in Nat \ {0}
ASSUME ClientBounds == /\ MaxRequests \in Nat /\ MaxClock \in Nat /\ MaxConns \in Nat
                       /\ SplitSizes \in BOOLEAN
                       /\ FixedLens \subseteq Nat /\ ChunkSizes \subseteq Nat \ {0}

VARIABLES
    clock,
    m_conns, m_total,     \* the pool
    pc, sent,             \* per fiber: place in doRequest, requests begun
    now_ms, invalid, conn,\* per fiber: locals of getConnection
    rcv,                  \* per fiber: the receiver of recvResponse
    result,               \* per fiber: what doRequest is about to return
    m_isConnected, m_createTime, m_request,   \* per connection
    wire,                 \* per connection: what the server wrote, not yet read
    owed,                 \* per connection: fibers whose request was not answered
    peer,                 \* connections that the server has not closed
    format                \* per fiber: the format of the answer it is to get

poolVars == <<m_conns, m_total>>
connVars == <<m_isConnected, m_createTime, m_request>>
netVars == <<wire, owed, peer, format>>
localVars == <<sent, now_ms, invalid, conn, rcv, result>>
vars == <<clock, m_conns, m_total, pc, sent, now_ms, invalid, conn, rcv, result,
          m_isConnected, m_createTime, m_request, wire, owed, peer, format>>

PCs == {"idle", "get", "sweep", "connect", "send", "recv", "release", "push"}
Never == MaxClock + 1
Free == {c \in Conns : m_createTime[c] = Never}
Request(f) == <<f, sent[f]>>
Begun == FoldFunction(+, 0, sent)

\* An answer as the server writes it, and the body that is in it.
Wire(q, fmt) == IF fmt[1] = "fixed" THEN FixedWire(q, FALSE, fmt[2])
                ELSE ChunkedWire(q, fmt[2])
BodyOf(q, fmt) == Bytes(q, 0, fmt[2])

TypeOK ==
    /\ clock \in 0..MaxClock
    /\ m_conns \in Seq(Conns) /\ m_total \in 0..Cardinality(Conns)
    /\ pc \in [All -> PCs]
    /\ sent \in [All -> 0..MaxRequests]
    /\ now_ms \in [All -> 0..MaxClock]
    /\ invalid \in [All -> SUBSET Conns]
    /\ conn \in [All -> Conns \cup {NoConn}]
    /\ \A f \in All : rcv[f].left \in 0..(Word - 1)
    /\ m_isConnected \subseteq Conns /\ peer \subseteq Conns
    /\ m_createTime \in [Conns -> 0..Never]
    /\ m_request \in [Conns -> Nat]
    /\ owed \in [Conns -> SUBSET All]

Init ==
    /\ clock = 0
    /\ m_conns = <<>> /\ m_total = 0
    /\ pc = [f \in All |-> "idle"]
    /\ sent = [f \in All |-> 0]
    /\ now_ms = [f \in All |-> 0]
    /\ invalid = [f \in All |-> {}]
    /\ conn = [f \in All |-> NoConn]
    /\ rcv = [f \in All |-> NewReceiver]
    /\ result = [f \in All |-> <<"none">>]
    /\ m_isConnected = {}
    /\ m_createTime = [c \in Conns |-> Never]
    /\ m_request = [c \in Conns |-> 0]
    /\ wire = [c \in Conns |-> <<>>]
    /\ owed = [c \in Conns |-> {}]
    /\ peer = {}
    /\ format = [f \in All |-> <<>>]

Go(f, place) == pc' = [pc EXCEPT ![f] = place]

\* doRequest has its result, and has returned it.
Answer(f, a) == result' = [result EXCEPT ![f] = a]
Forget(f) == Answer(f, <<"none">>) /\ format' = [format EXCEPT ![f] = <<>>]

\* The objects cs are deleted: ~SocketStream closes their sockets, and what was on
\* its way is gone.  requests is m_request up to now.
Delete(cs, requests) ==
    /\ m_isConnected' = m_isConnected \ cs
    /\ m_createTime' = [c \in Conns |-> IF c \in cs THEN Never ELSE m_createTime[c]]
    /\ m_request' = [c \in Conns |-> IF c \in cs THEN 0 ELSE requests[c]]
    /\ wire' = [c \in Conns |-> IF c \in cs THEN <<>> ELSE wire[c]]
    /\ owed' = [c \in Conns |-> IF c \in cs THEN {} ELSE owed[c]]
    /\ peer' = peer \ cs

-----------------------------------------------------------------------------
(* HttpConnectionPool::getConnection *)

\* The pool's getConnection reads the clock; HttpConnection::doRequest connects.
Begin(f) ==
    /\ pc[f] = "idle" /\ Begun < MaxRequests
    /\ sent' = [sent EXCEPT ![f] = @ + 1]
    /\ now_ms' = [now_ms EXCEPT ![f] = IF f \in Fibers THEN clock ELSE 0]
    /\ Go(f, IF f \in Fibers THEN "get" ELSE "connect")
    /\ UNCHANGED <<clock, poolVars, invalid, conn, rcv, result, connVars, netVars>>

\* getConnection: the tests under the lock.
Usable(c, now) == c \in m_isConnected /\ m_createTime[c] + m_maxAliveTime >= now

\* The place of the first connection that passes them, 0 if none does.
FirstUsable(now) == SelectInSeq(m_conns, LAMBDA c : Usable(c, now))

\* Mutant: the connection that is handed out stays in the list.
GetKeeps(f) ==
    LET i == FirstUsable(now_ms[f]) IN
    /\ pc[f] = "get"
    /\ conn' = [conn EXCEPT ![f] = IF i = 0 THEN NoConn ELSE m_conns[i]]
    /\ Go(f, "sweep")
    /\ UNCHANGED <<clock, m_conns, m_total, sent, now_ms, invalid, rcv, result, connVars,
                   netVars>>

\* getConnection, under the lock: the first usable connection leaves the list, and
\* so do all before it.
Get(f) ==
    LET i == FirstUsable(now_ms[f])
        last == IF i = 0 THEN Len(m_conns) ELSE i
    IN
    /\ pc[f] = "get"
    /\ conn' = [conn EXCEPT ![f] = IF i = 0 THEN NoConn ELSE m_conns[i]]
    /\ invalid' = [invalid EXCEPT ![f] =
                      {m_conns[k] : k \in 1..last} \ {conn'[f]}]
    /\ m_conns' = SubSeq(m_conns, last + 1, Len(m_conns))
    /\ now_ms' = [now_ms EXCEPT ![f] = 0]
    /\ Go(f, "sweep")
    /\ UNCHANGED <<clock, m_total, sent, rcv, result, connVars, netVars>>

\* Mutant: m_total keeps counting connections that were found invalid.
SweepUncounted(f) ==
    /\ pc[f] = "sweep"
    /\ Delete(invalid[f], m_request)
    /\ invalid' = [invalid EXCEPT ![f] = {}]
    /\ Go(f, IF conn[f] = NoConn THEN "connect" ELSE "send")
    /\ UNCHANGED <<clock, m_conns, m_total, sent, now_ms, conn, rcv, result, format>>

\* getConnection after the lock: the invalid connections are deleted, which closes
\* them, and m_total goes down.
Sweep(f) ==
    /\ pc[f] = "sweep"
    /\ Delete(invalid[f], m_request)
    /\ m_total' = m_total - Cardinality(invalid[f])
    /\ invalid' = [invalid EXCEPT ![f] = {}]
    /\ Go(f, IF conn[f] = NoConn THEN "connect" ELSE "send")
    /\ UNCHANGED <<clock, m_conns, sent, now_ms, conn, rcv, result, format>>

\* A new connection: created, connected, counted if it is the pool's.
Connect(f, c) ==
    /\ pc[f] = "connect"
    /\ c \in Free /\ \A d \in Free : c <= d
    /\ m_isConnected' = m_isConnected \cup {c}
    /\ m_createTime' = [m_createTime EXCEPT ![c] = clock]
    /\ peer' = peer \cup {c}
    /\ m_total' = IF f \in Fibers THEN m_total + 1 ELSE m_total
    /\ conn' = [conn EXCEPT ![f] = c]
    /\ Go(f, "send")
    /\ UNCHANGED <<clock, m_conns, sent, now_ms, invalid, rcv, result, m_request,
                   wire, owed, format>>

\* Socket::connect failed: POOL_GET_CONN_FAILED or CONNECT_FAILED.
ConnectFails(f) ==
    /\ pc[f] = "connect"
    /\ Go(f, "idle")
    /\ UNCHANGED <<clock, poolVars, localVars, connVars, netVars>>

-----------------------------------------------------------------------------
(* doRequest and recvResponse *)

\* sendRequest: the kernel takes the request, also for a peer that has closed.
Send(f) ==
    LET c == conn[f] IN
    /\ pc[f] = "send"
    /\ owed' = IF c \in peer THEN [owed EXCEPT ![c] = @ \cup {f}] ELSE owed
    /\ rcv' = [rcv EXCEPT ![f] = NewReceiver]
    /\ Go(f, "recv")
    /\ UNCHANGED <<clock, poolVars, sent, now_ms, invalid, conn, result, connVars,
                   wire, peer, format>>

\* The receiver of f is now r; when it is through, doRequest returns, and
\* recvResponse has closed the connection if there is no answer.
Received(f, r) ==
    /\ rcv' = [rcv EXCEPT ![f] = IF r.at \in {"done", "null"} THEN NewReceiver ELSE r]
    /\ CASE r.at = "done" ->
              /\ Answer(f, <<"OK", r.body>>)
              /\ Go(f, "release") /\ UNCHANGED m_isConnected
         [] r.at = "null" ->
              /\ Answer(f, <<"TIMEOUT">>)
              /\ m_isConnected' = m_isConnected \ {conn[f]}
              /\ Go(f, "release")
         [] OTHER -> UNCHANGED <<result, pc, m_isConnected>>
    /\ UNCHANGED <<clock, poolVars, sent, now_ms, invalid, conn, m_createTime,
                   m_request>>

\* read() returns k tokens.
Read(f) ==
    LET c == conn[f]
        s == wire[c]
    IN
    /\ pc[f] = "recv" /\ MustRead(rcv[f])
    /\ \E k \in 1..Wanted(rcv[f], Len(s)) :
          /\ SplitSizes \/ ~SplitsSize(s, k)
          /\ wire' = [wire EXCEPT ![c] = SubSeq(s, k + 1, Len(s))]
          /\ Received(f, Receive(rcv[f], SubSeq(s, 1, k)))
    /\ UNCHANGED <<owed, peer, format>>

\* One execute() of the parser on a chunk's size, and the copying of the chunk.
Parse(f) ==
    /\ pc[f] = "recv" /\ MustParse(rcv[f])
    /\ Received(f, ParseSize(rcv[f]))
    /\ UNCHANGED netVars

\* The server has closed: read() returns 0.
ReadEOF(f) ==
    /\ pc[f] = "recv" /\ MustRead(rcv[f])
    /\ wire[conn[f]] = <<>> /\ conn[f] \notin peer
    /\ Received(f, ReadEnd(rcv[f]))
    /\ UNCHANGED netVars

\* Mutant: a request that timed out leaves its connection open.
TimeoutKeepsOpen(f) ==
    /\ pc[f] = "recv" /\ MustRead(rcv[f])
    /\ wire[conn[f]] = <<>> /\ rcv[f].at \in ErrorsAt
    /\ Answer(f, <<"TIMEOUT">>)
    /\ Go(f, "release")
    /\ UNCHANGED <<clock, poolVars, sent, now_ms, invalid, conn, rcv, connVars, netVars>>

\* The receive timeout: read() returns -1.
Timeout(f) ==
    /\ pc[f] = "recv" /\ MustRead(rcv[f])
    /\ wire[conn[f]] = <<>> /\ rcv[f].at \in ErrorsAt
    /\ Received(f, ReadError(rcv[f]))
    /\ UNCHANGED netVars

-----------------------------------------------------------------------------
(* HttpConnectionPool::releasePtr *)

\* Is the connection worth keeping?  Called after ++m_request.
Keeps(f) ==
    /\ conn[f] \in m_isConnected
    /\ m_createTime[conn[f]] + m_maxAliveTime >= clock
    /\ m_request[conn[f]] + 1 <= m_maxRequest

\* The last reference goes away: the connection of a Direct fiber is deleted, one
\* of the pool is deleted and uncounted, or will be pushed.
Release(f) ==
    /\ pc[f] = "release"
    /\ LET requests == IF f \in Fibers THEN [m_request EXCEPT ![conn[f]] = @ + 1]
                       ELSE m_request
       IN IF f \in Fibers /\ Keeps(f)
          THEN /\ m_request' = requests
               /\ Go(f, "push")
               /\ UNCHANGED <<m_total, m_isConnected, m_createTime, conn, result, wire,
                              owed, peer, format>>
          ELSE /\ Delete({conn[f]}, requests)
               /\ m_total' = IF f \in Fibers THEN m_total - 1 ELSE m_total
               /\ conn' = [conn EXCEPT ![f] = NoConn]
               /\ Forget(f)
               /\ Go(f, "idle")
    /\ UNCHANGED <<clock, m_conns, sent, now_ms, invalid, rcv>>

\* releasePtr, under the lock.
PushBack(f) ==
    /\ pc[f] = "push"
    /\ m_conns' = Append(m_conns, conn[f])
    /\ conn' = [conn EXCEPT ![f] = NoConn]
    /\ Forget(f)
    /\ Go(f, "idle")
    /\ UNCHANGED <<clock, m_total, sent, now_ms, invalid, rcv, connVars, wire, owed,
                   peer>>

-----------------------------------------------------------------------------
(* The server and the clock *)

\* The server answers, or only begins to and closes the connection or keeps silent
\* (in a body of fixed length only where ErrorsAt has timeouts of readFixedSize).
Respond(c, f) ==
    /\ c \in peer /\ f \in owed[c]
    /\ owed' = [owed EXCEPT ![c] = @ \ {f}]
    /\ \E fmt \in Formats, closes \in BOOLEAN :
          LET w == Wire(Request(f), fmt) IN
          \E k \in {0, 1, Len(w) - 1, Len(w)} :
             /\ k = Len(w) - 1 /\ ~closes => fmt[1] = "chunked" \/ "fixed" \in ErrorsAt
             /\ wire' = [wire EXCEPT ![c] = @ \o SubSeq(w, 1, k)]
             /\ format' = [format EXCEPT ![f] = fmt]
             /\ peer' = IF closes THEN peer \ {c} ELSE peer
    /\ UNCHANGED <<clock, poolVars, pc, localVars, connVars>>

\* The server closes a connection on which nothing is going on.
PeerClose(c) ==
    /\ c \in peer /\ owed[c] = {}
    /\ peer' = peer \ {c}
    /\ UNCHANGED <<clock, poolVars, pc, localVars, connVars, wire, owed, format>>

Tick ==
    /\ clock < MaxClock
    /\ clock' = clock + 1
    /\ UNCHANGED <<poolVars, pc, localVars, connVars, netVars>>

FiberStep(f) ==
    \/ Get(f) \/ Sweep(f)
    \/ \E c \in Conns : Connect(f, c)
    \/ ConnectFails(f)
    \/ Send(f)
    \/ Read(f) \/ Parse(f) \/ ReadEOF(f) \/ Timeout(f)
    \/ Release(f) \/ PushBack(f)

Next ==
    \/ \E f \in All : Begin(f) \/ FiberStep(f)
    \/ \E c \in Conns : PeerClose(c) \/ \E f \in All : Respond(c, f)
    \/ Tick

Spec == Init /\ [][Next]_vars

\* The pool does not tell its fibers apart.
FiberSymmetry == Permutations(Fibers)

-----------------------------------------------------------------------------
(* Properties *)

Pooled == {m_conns[i] : i \in DOMAIN m_conns}

\* A connection has one user, or is in the pool once, or is about to be deleted.
ConnHeldOnce ==
    /\ \A i, j \in DOMAIN m_conns : m_conns[i] = m_conns[j] => i = j
    /\ \A f \in All :
          /\ conn[f] # NoConn =>
                /\ conn[f] \notin Pooled
                /\ \A g \in All \ {f} : conn[g] # conn[f] /\ conn[f] \notin invalid[g]
          /\ invalid[f] \cap Pooled = {}

\* m_total, which is changed outside the lock, is the number of the pool's
\* connections: pooled, in use, or taken out of the list and not yet deleted.
TotalCounts ==
    m_total = Cardinality(Pooled \cup {conn[f] : f \in {g \in Fibers : conn[g] # NoConn}}
                                 \cup UNION {invalid[f] : f \in Fibers})

\* Whatever way a request ended, a connection in the pool is one the next request
\* can use: open on this side, with no answer outstanding or left unread, and used
\* at most m_maxRequest times.
PoolIsClean ==
    \A c \in Pooled :
        /\ c \in m_isConnected
        /\ owed[c] = {} /\ wire[c] = <<>>
        /\ m_request[c] <= m_maxRequest

\* recvResponse returns the whole body of the answer to this request and nothing
\* else, whatever pieces read() cut it into.
ResponseIsOwn ==
    \A f \in All :
        result[f][1] = "OK" => result[f][2] = BodyOf(Request(f), format[f])
=============================================================================
