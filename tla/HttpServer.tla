----------------------------- MODULE HttpServer -----------------------------
(***************************************************************************)
(* windgent/tcp_server.cc, http/http_server.cc, http/http_session.cc and   *)
(* http/servlet.cc: a server that accepts clients, reads their requests    *)
(* off a byte stream, answers them by the servlet registered for the path, *)
(* and is stopped.                                                         *)
(*                                                                         *)
(* handleAccept is one fiber per listening socket on the accept worker,    *)
(* stop() puts a task of its own there, and handleClient is a fiber per    *)
(* client on the other worker.  A step is one system call, one test of     *)
(* m_isStop, or one critical section of the dispatcher's mutex.            *)
(***************************************************************************)
EXTENDS HttpMessage, FiniteSets

CONSTANTS
    Socks,          \* the listening sockets, one per address
    AcceptThreads,  \* threads of the accept worker
    Clients,
    Rude,           \* clients that may close, or fall silent, at any time
    Pipelining,     \* may a client send before it has the last answer?
    m_isKeepAlive,
    BodyLens,       \* lengths of the requests' bodies
    Paths,
    Globs,          \* a glob is the set of the paths it matches
    MaxPerClient,   \* bound: requests of a client
    MaxChanges      \* bound: servlets that are ever added

ASSUME ServerAssumption == /\ AcceptThreads \in Nat \ {0} /\ Rude \subseteq Clients
                           /\ m_isKeepAlive \in BOOLEAN /\ Pipelining \in BOOLEAN
                           /\ BodyLens \subseteq 0..(Word - 1) /\ Globs \subseteq SUBSET Paths
ASSUME ServerBounds == MaxPerClient \in Nat \ {0} /\ MaxChanges \in Nat

VARIABLES
    m_isStop, m_socks,
    open,           \* listening sockets whose descriptor is open
    acc,            \* per socket: where its handleAccept is
    closer,         \* the task of stop(): where it is, and the socket it is at
    backlog,        \* per socket: clients that connected and were not accepted
    session,        \* per client: where its handleClient is
    request,        \* per client: the receiver of recvRequest
    stream,         \* per client: what it sent and the server has not read
    reqs,           \* per client: the requests it sent
    answered,       \* per client: the servlets that answered, in order
    gone,           \* clients that closed
    crashed,        \* the server dereferenced a null pointer
    m_datas, m_globs,     \* the dispatcher
    added, retired        \* history: the keys of all servlets, those taken back

acceptVars == <<m_isStop, m_socks, open, acc, closer>>
clientVars == <<stream, reqs, gone>>
sessionVars == <<session, request, answered, crashed>>
dispatchVars == <<m_datas, m_globs, added, retired>>
serverVars == <<m_isStop, m_socks, open, acc, closer, backlog, session, request, stream,
                reqs, answered, gone, crashed, m_datas, m_globs, added, retired>>

m_default == 0      \* the NotFoundServlet; the i-th servlet that was added is i
NoSock == "none"

ServerTypeOK ==
    /\ m_isStop \in BOOLEAN /\ crashed \in BOOLEAN
    /\ m_socks \subseteq Socks /\ open \subseteq Socks
    /\ acc \in [Socks -> {"none", "queued", "test", "try", "add", "hold", "retry", "end"}]
    /\ \/ closer \in [at : {"none", "queued", "end"}, sock : {NoSock}]
       \/ closer \in [at : {"cancel", "close", "close_f"}, sock : open]
    /\ backlog \in [Socks -> Seq(Clients)]
    /\ session \in [Clients -> {"none", "recv", "handle", "end"}]
    /\ \A c \in Clients : request[c].left \in 0..(Word - 1)
    /\ m_datas \in [Paths -> 0..MaxChanges]
    /\ m_globs \in Seq(Globs \X (1..MaxChanges))

ServerInit ==
    /\ m_isStop = TRUE /\ m_socks = {} /\ open = {}
    /\ acc = [s \in Socks |-> "none"]
    /\ closer = [at |-> "none", sock |-> NoSock]
    /\ backlog = [s \in Socks |-> <<>>]
    /\ session = [c \in Clients |-> "none"]
    /\ request = [c \in Clients |-> NewReceiver]
    /\ stream = [c \in Clients |-> <<>>]
    /\ reqs = [c \in Clients |-> <<>>]
    /\ answered = [c \in Clients |-> <<>>]
    /\ gone = {} /\ crashed = FALSE
    /\ m_datas = [p \in Paths |-> 0] /\ m_globs = <<>>
    /\ added = <<>> /\ retired = {}

-----------------------------------------------------------------------------
(* TcpServer: bind, start, stop, handleAccept *)

\* One address that cannot be bound or listened on takes all sockets with it.
Bind(ok) ==
    /\ m_socks = {} /\ closer.at = "none" /\ acc = [s \in Socks |-> "none"]
    /\ ok \in SUBSET Socks
    /\ m_socks' = IF ok = Socks THEN Socks ELSE {}
    /\ open' = m_socks'
    /\ UNCHANGED <<m_isStop, acc, closer, backlog, sessionVars, clientVars, dispatchVars>>

\* start(), before any stop().
Start ==
    /\ m_isStop /\ m_socks # {} /\ closer.at = "none"
    /\ m_isStop' = FALSE
    /\ acc' = [s \in Socks |-> IF s \in m_socks THEN "queued" ELSE "none"]
    /\ UNCHANGED <<m_socks, open, closer, backlog, sessionVars, clientVars, dispatchVars>>

\* stop(): the flag, and a task on the accept worker.
Stop ==
    /\ ~m_isStop
    /\ m_isStop' = TRUE
    /\ closer' = [closer EXCEPT !.at = "queued"]
    /\ UNCHANGED <<m_socks, open, acc, backlog, sessionVars, clientVars, dispatchVars>>

\* Fibers that occupy a thread of the accept worker.
Busy == {s \in Socks : acc[s] \in {"test", "try", "add"}}
        \cup IF closer.at \in {"cancel", "close", "close_f"} THEN {NoSock} ELSE {}
ThreadIsFree == Cardinality(Busy) < AcceptThreads

\* A thread takes the fiber of handleAccept: for the first time, or after it waited
\* in accept(), which then tries again.
Resume(s) ==
    /\ acc[s] \in {"queued", "retry"} /\ ThreadIsFree
    /\ acc' = [acc EXCEPT ![s] = IF @ = "queued" THEN "test" ELSE "try"]
    /\ UNCHANGED <<m_isStop, m_socks, open, closer, backlog, sessionVars, clientVars,
                   dispatchVars>>

\* The condition of handleAccept's loop.
TestStop(s) ==
    /\ acc[s] = "test"
    /\ acc' = [acc EXCEPT ![s] = IF m_isStop THEN "end" ELSE "try"]
    /\ UNCHANGED <<m_isStop, m_socks, open, closer, backlog, sessionVars, clientVars,
                   dispatchVars>>

\* accept_f takes a client, whose handleClient is scheduled, or finds the socket
\* closed, or finds nobody (EAGAIN).
Accept(s) ==
    /\ acc[s] = "try"
    /\ IF s \in open /\ backlog[s] = <<>>
       THEN /\ acc' = [acc EXCEPT ![s] = "add"]
            /\ UNCHANGED <<backlog, session>>
       ELSE /\ acc' = [acc EXCEPT ![s] = "test"]
            /\ IF s \in open
               THEN /\ session' = [session EXCEPT ![Head(backlog[s])] = "recv"]
                    /\ backlog' = [backlog EXCEPT ![s] = Tail(@)]
               ELSE UNCHANGED <<backlog, session>>
    /\ UNCHANGED <<m_isStop, m_socks, open, closer, request, answered, crashed, clientVars,
                   dispatchVars>>

\* addEvent, and the fiber waits; on a closed descriptor epoll_ctl fails.  A client
\* that has connected in between makes the socket readable at once.
AddEvent(s) ==
    /\ acc[s] = "add"
    /\ acc' = [acc EXCEPT ![s] = IF s \in open THEN "hold" ELSE "test"]
    /\ UNCHANGED <<m_isStop, m_socks, open, closer, backlog, sessionVars, clientVars,
                   dispatchVars>>

\* epoll reports the socket.
Readable(s) ==
    /\ acc[s] = "hold" /\ s \in open /\ backlog[s] # <<>>
    /\ acc' = [acc EXCEPT ![s] = "retry"]
    /\ UNCHANGED <<m_isStop, m_socks, open, closer, backlog, sessionVars, clientVars,
                   dispatchVars>>

-----------------------------------------------------------------------------
(* The task of stop(): for each socket cancelAll() and close(), and clear() *)

\* IOManager::cancelAll wakes the fiber that waits on the socket.
CancelAll(s) == acc' = [acc EXCEPT ![s] = IF @ = "hold" THEN "retry" ELSE @]

BeginClosing ==
    /\ closer.at = "queued" /\ ThreadIsFree
    /\ \E s \in m_socks : closer' = [at |-> "cancel", sock |-> s]
    /\ UNCHANGED <<m_isStop, m_socks, open, acc, backlog, sessionVars, clientVars,
                   dispatchVars>>

\* Mutant: the waiting accept() is not woken before the descriptor goes away.
CloserCancelsNothing ==
    /\ closer.at \in {"cancel", "close"}
    /\ closer' = [closer EXCEPT !.at = IF @ = "cancel" THEN "close" ELSE "close_f"]
    /\ UNCHANGED <<m_isStop, m_socks, open, acc, backlog, sessionVars, clientVars,
                   dispatchVars>>

\* The server's cancelAll, and then the one of the close() in hook.cc.
CloserCancels ==
    /\ closer.at \in {"cancel", "close"}
    /\ CancelAll(closer.sock)
    /\ closer' = [closer EXCEPT !.at = IF @ = "cancel" THEN "close" ELSE "close_f"]
    /\ UNCHANGED <<m_isStop, m_socks, open, backlog, sessionVars, clientVars, dispatchVars>>

\* close_f: the kernel drops the descriptor from epoll and resets the clients that
\* were not accepted.  After the last socket m_socks is cleared.
CloserCloses ==
    /\ closer.at = "close_f"
    /\ open' = open \ {closer.sock}
    /\ backlog' = [backlog EXCEPT ![closer.sock] = <<>>]
    /\ gone' = gone \cup ToSet(backlog[closer.sock])
    /\ IF open' = {}
       THEN closer' = [at |-> "end", sock |-> NoSock] /\ m_socks' = {}
       ELSE /\ \E s \in open' : closer' = [at |-> "cancel", sock |-> s]
            /\ UNCHANGED m_socks
    /\ UNCHANGED <<m_isStop, acc, sessionVars, stream, reqs, dispatchVars>>

-----------------------------------------------------------------------------
(* ServletDispatcher *)

\* The dispatcher's change of the servlets of key k, added or taken back.
Change(k, add) ==
    /\ add => Len(added) < MaxChanges
    /\ retired' = retired \cup {i \in DOMAIN added : added[i] = k}
    /\ added' = IF add THEN Append(added, k) ELSE added
    /\ UNCHANGED <<acceptVars, backlog, sessionVars, clientVars>>

\* Both overloads: the entry of the path is replaced.
AddServlet(p) ==
    /\ Change(<<"path", p>>, TRUE)
    /\ m_datas' = [m_datas EXCEPT ![p] = Len(added')]
    /\ UNCHANGED m_globs

DelServlet(p) ==
    /\ m_datas[p] # 0
    /\ Change(<<"path", p>>, FALSE)
    /\ m_datas' = [m_datas EXCEPT ![p] = 0]
    /\ UNCHANGED m_globs

\* The loop that erases the first entry of the glob.
Erase(globs, g) == LET i == SelectInSeq(globs, LAMBDA e : e[1] = g)
                   IN IF i = 0 THEN globs ELSE RemoveAt(globs, i)

\* Mutant: a glob that is there already is not erased before the new one is added.
AddGlobServletTwice(g) ==
    /\ Change(<<"glob", g>>, TRUE)
    /\ m_globs' = Append(m_globs, <<g, Len(added')>>)
    /\ UNCHANGED m_datas

AddGlobServlet(g) ==
    /\ Change(<<"glob", g>>, TRUE)
    /\ m_globs' = Append(Erase(m_globs, g), <<g, Len(added')>>)
    /\ UNCHANGED m_datas

DelGlobServlet(g) ==
    /\ \E i \in DOMAIN m_globs : m_globs[i][1] = g
    /\ Change(<<"glob", g>>, FALSE)
    /\ m_globs' = Erase(m_globs, g)
    /\ UNCHANGED m_datas

\* getMatchedServlet: the servlet of the path, else the first glob that matches.
getMatchedServlet(p) ==
    LET i == SelectInSeq(m_globs, LAMBDA e : p \in e[1])
    IN IF m_datas[p] # 0 THEN m_datas[p]
       ELSE IF i # 0 THEN m_globs[i][2] ELSE m_default

-----------------------------------------------------------------------------
(* HttpServer::handleClient *)

\* The request that the session is at.
Current(c) == reqs[c][Len(answered[c]) + 1]

\* recvRequest: read() returns some of what was sent, 0 from a client that is gone,
\* -1 from one that is silent for m_recvTimeout.  The null request of a failed
\* recvRequest is dereferenced.
RecvRequest(c) ==
    /\ session[c] = "recv" /\ ~crashed
    /\ \E k \in 0..Wanted(request[c], Len(stream[c])) :
          /\ k = 0 => stream[c] = <<>> /\ c \in gone \cup Rude
          /\ request' = [request EXCEPT ![c] =
                            IF k > 0 THEN Receive(@, SubSeq(stream[c], 1, k))
                            ELSE IF c \in gone THEN ReadEnd(@) ELSE ReadError(@)]
          /\ stream' = [stream EXCEPT ![c] = SubSeq(@, k + 1, Len(@))]
    /\ session' = [session EXCEPT ![c] = IF request'[c].at = "done" THEN "handle" ELSE @]
    /\ crashed' = (request'[c].at = "null")
    /\ UNCHANGED <<acceptVars, backlog, reqs, answered, gone, dispatchVars>>

\* The dispatcher's handle, sendResponse, and the next round of the loop or close().
Handle(c) ==
    /\ session[c] = "handle"
    /\ answered' = [answered EXCEPT ![c] = Append(@, getMatchedServlet(Current(c).path))]
    /\ session' = [session EXCEPT ![c] =
                      IF m_isKeepAlive /\ ~request[c].close THEN "recv" ELSE "end"]
    /\ request' = [request EXCEPT ![c] = NewReceiver]
    /\ UNCHANGED <<acceptVars, backlog, clientVars, crashed, dispatchVars>>

-----------------------------------------------------------------------------
(* The clients *)

InBacklog(c) == \E s \in Socks : Contains(backlog[s], c)

ClientConnect(c, s) ==
    /\ session[c] = "none" /\ ~InBacklog(c) /\ c \notin gone
    /\ s \in open
    /\ backlog' = [backlog EXCEPT ![s] = Append(@, c)]
    /\ UNCHANGED <<acceptVars, sessionVars, clientVars, dispatchVars>>

\* A client asks for the end of the connection with its last request, unless it is
\* rude, and sends nothing behind that.
ClientSend(c) ==
    LET n == Len(reqs[c]) IN
    /\ n < MaxPerClient /\ c \notin gone
    /\ InBacklog(c) \/ session[c] \in {"recv", "handle"}
    /\ Pipelining \/ Len(answered[c]) = n
    /\ n > 0 => ~reqs[c][n].close
    /\ \E p \in Paths, len \in BodyLens, close \in BOOLEAN :
          /\ n + 1 = MaxPerClient /\ c \notin Rude => close
          /\ reqs' = [reqs EXCEPT ![c] = Append(@, [path |-> p, len |-> len, close |-> close])]
          /\ stream' = [stream EXCEPT ![c] = @ \o FixedWire(<<c, n + 1>>, close, len)]
    /\ UNCHANGED <<acceptVars, backlog, sessionVars, gone, dispatchVars>>

ClientLeave(c) ==
    /\ c \notin gone
    /\ session[c] = "end" \/ (c \in Rude /\ session[c] = "recv")
    /\ gone' = gone \cup {c}
    /\ UNCHANGED <<acceptVars, backlog, sessionVars, stream, reqs, dispatchVars>>

-----------------------------------------------------------------------------
AcceptStep(s) == Resume(s) \/ TestStop(s) \/ Accept(s) \/ AddEvent(s) \/ Readable(s)
CloserStep == BeginClosing \/ CloserCancels \/ CloserCloses
SessionStep(c) == RecvRequest(c) \/ Handle(c)
ClientStep(c) == ClientSend(c) \/ ClientLeave(c) \/ \E s \in Socks : ClientConnect(c, s)

ServerNext ==
    \/ \E ok \in SUBSET Socks : Bind(ok)
    \/ Start \/ Stop
    \/ \E s \in Socks : AcceptStep(s)
    \/ CloserStep
    \/ \E c \in Clients : SessionStep(c) \/ ClientStep(c)
    \/ \E p \in Paths : AddServlet(p) \/ DelServlet(p)
    \/ \E g \in Globs : AddGlobServlet(g) \/ DelGlobServlet(g)

\* The workers run every fiber and every event in turn; a client, the owner of the
\* server and the network need not do anything.
ServerSpec ==
    /\ ServerInit /\ [][ServerNext]_serverVars
    /\ \A s \in Socks : WF_serverVars(AcceptStep(s))
    /\ WF_serverVars(CloserStep)
    /\ \A c \in Clients : WF_serverVars(SessionStep(c))

-----------------------------------------------------------------------------
(* Properties *)

\* What recvRequest hands to the servlet is the request that the client sent,
\* body and Connection field, whatever pieces read() cut it into.
RequestIsSent ==
    \A c \in Clients : session[c] = "handle" =>
        /\ request[c].close = Current(c).close
        /\ request[c].body = Bytes(<<c, Len(answered[c]) + 1>>, 0, Current(c).len)

\* recvRequest does not fail, or handleClient survives it.
ServerSurvives == ~crashed

\* A servlet that was replaced or deleted answers no request that is dispatched
\* later.
RetiredAnswersNothing ==
    [][\A c \in Clients :
          answered'[c] # answered[c] => Last(answered'[c]) \notin retired]_serverVars

\* Whatever a client sends is answered, once it is connected: its request may only
\* be left alone if the server is stopped before it accepts the client.  Requests
\* of an accepted client are answered after stop() too.
RequestsAreAnswered ==
    \A c \in Clients :
        Len(answered[c]) < Len(reqs[c])
            ~> \/ Len(answered[c]) = Len(reqs[c])
               \/ m_isStop /\ session[c] = "none"

\* After stop() every handleAccept returns and every listening socket is closed,
\* wherever the acceptors were when the flag was set.
StopEndsAccept ==
    closer.at = "queued" ~> open = {} /\ \A s \in Socks : acc[s] = "end"
=============================================================================
