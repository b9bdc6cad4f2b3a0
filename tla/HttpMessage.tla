----------------------------- MODULE HttpMessage -----------------------------
(***************************************************************************)
(* HTTP messages on a byte stream: what HttpRequest::dump and              *)
(* HttpResponse::dump write (windgent/http/http.cc), and what the loops of *)
(* HttpConnection::recvResponse and HttpSession::recvRequest make of it,   *)
(* whatever pieces read() cuts it into.                                    *)
(*                                                                         *)
(* A stream is a sequence of tokens: the first line, the Connection field, *)
(* the end of the head (with what the head says of the body), a digit of   *)
(* a chunk size, a character of a line end, a byte of a body.  A read ends *)
(* between tokens: inside the head, between two of its lines.              *)
(***************************************************************************)
EXTENDS Integers, Sequences, SequencesExt

CONSTANTS
    Radix,        \* of the chunk sizes: 16 in the code
    Word          \* uint64_t holds 0 .. Word - 1

ASSUME RadixAssumption == Radix \in Nat \ {0, 1} /\ Word \in Nat \ {0}

Line == <<"line">>
Connection(close) == <<"connection", close>>
Fixed(n) == <<"fixed", n>>
Chunked == <<"chunked">>
Digit(d) == <<"digit", d>>
CRLF == <<<<"cr">>, <<"lf">>>>

\* n bytes of the body of message id, after the first i of them.
Bytes(id, i, n) == [k \in 1..n |-> <<"byte", id, i + k>>]

\* What dump writes: the Connection field, Content-Length if there is a body.
FixedWire(id, close, n) == <<Line, Connection(close), Fixed(n)>> \o Bytes(id, 0, n)

\* A chunk as a server writes it: its size in at most two digits, and its bytes.
Digits(n) == IF n < Radix THEN <<Digit(n)>> ELSE <<Digit(n \div Radix), Digit(n % Radix)>>
Chunk(id, i, n) == Digits(n) \o CRLF \o Bytes(id, i, n) \o CRLF
ChunkedWire(id, n) == <<Line, Chunked>> \o Chunk(id, 0, n) \o Chunk(id, 0, 0)

-----------------------------------------------------------------------------
(* A receiver.  at is the read() it is in, or its outcome: head (the first   *)
(* loop), size and chunk (a chunk's size and bytes), fixed (readFixedSize),  *)
(* done, null.                                                               *)

Receiver(at, data, body, left, close) ==
    [at |-> at, data |-> data, body |-> body, left |-> left, close |-> close]

\* The parser's constructor; m_close of a new message is true.
NewReceiver == Receiver("head", <<>>, <<>>, 0, TRUE)

\* close(); return nullptr.
Failed == Receiver("null", <<>>, <<>>, 0, TRUE)

\* The position behind the size line at the start of data, 0 without one.
EndOfSize(data) == SelectInSeq(data, LAMBDA x : x = CRLF[2])
IsSize(data, e) == e > 2 /\ \A i \in 1..(e - 2) : data[i][1] = "digit"
SizeOf(data, e) ==
    LET value[i \in 0..(e - 2)] == IF i = 0 THEN 0 ELSE Radix * value[i - 1] + data[i][2]
    IN value[e - 2]

\* The branch without chunks: what is in the buffer is the beginning of the body,
\* and length -= last_size is in uint64_t.
Content(r, n, rest) ==
    LET left == (n - Len(rest)) % Word
        took == IF n < Len(rest) THEN n ELSE Len(rest)
    IN IF n = 0 THEN Receiver("done", <<>>, <<>>, 0, r.close)
       ELSE Receiver(IF left = 0 THEN "done" ELSE "fixed", <<>>,
                     SubSeq(rest, 1, took), left, r.close)

\* The first loop, after read() has put s into the empty buffer; the parser
\* consumes everything up to the end of the head.  The client's parser asserts
\* that a NUL follows what was read, which this loop does not write: the buffer
\* is not initialized, and this is the outcome in which the byte happens to be
\* zero.  In the other one the process ends, which leaves no step to take.
ParseHead(r, s) ==
    LET end == SelectInSeq(s, LAMBDA x : x[1] \in {"fixed", "chunked"})
        h == [r EXCEPT !.close = IF Contains(s, Connection(TRUE)) THEN TRUE
                                 ELSE IF Contains(s, Connection(FALSE)) THEN FALSE ELSE @]
        rest == SubSeq(s, end + 1, Len(s))
    IN IF end = 0 THEN h
       ELSE IF s[end] = Chunked THEN Receiver("size", rest, <<>>, 0, h.close)
       ELSE Content(h, s[end][2], rest)

\* execute(data, len, true) on a buffer that is not empty.  The parser starts
\* anew on every call and consumes what it gets: the beginning of a size that
\* came in an earlier read is forgotten.
ParseSize(r) ==
    LET e == EndOfSize(r.data)
        n == SizeOf(r.data, e)
        rest == SubSeq(r.data, e + 1, Len(r.data))
    IN IF e = 0 THEN [r EXCEPT !.data = <<>>]
       ELSE IF ~IsSize(r.data, e) THEN Failed
       ELSE IF n + 2 <= Len(rest)
            THEN [r EXCEPT !.at = IF n = 0 THEN "done" ELSE "size",
                           !.body = @ \o SubSeq(rest, 1, n),
                           !.data = SubSeq(rest, n + 3, Len(rest))]
            ELSE Receiver(IF n = 0 THEN "last" ELSE "chunk", <<>>, r.body \o rest,
                          n - Len(rest) + 2, r.close)

\* Mutant: the line end behind the chunk stays in the body.
ReadChunkKeepsCRLF(r, s) ==
    LET body == r.body \o s IN
    IF r.left > Len(s) THEN [r EXCEPT !.body = body, !.left = @ - Len(s)]
    ELSE Receiver(IF r.at = "last" THEN "done" ELSE "size", <<>>, body, 0, r.close)

\* The loop over what is left of a chunk and its line end, which was appended to
\* the body and is cut off again.
ReadChunk(r, s) ==
    LET body == r.body \o s IN
    IF r.left > Len(s) THEN [r EXCEPT !.body = body, !.left = @ - Len(s)]
    ELSE Receiver(IF r.at = "last" THEN "done" ELSE "size", <<>>,
                  SubSeq(body, 1, Len(body) - 2), 0, r.close)

\* Mutant: the offset stays, and every read() overwrites what the last one brought.
ReadFixedAtStart(r, s) ==
    [r EXCEPT !.body = SubSeq(@, 1, Len(@) - Len(s)) \o s, !.left = @ - Len(s),
              !.at = IF r.left = Len(s) THEN "done" ELSE @]

\* Stream::readFixedSize.
ReadFixed(r, s) ==
    [r EXCEPT !.body = @ \o s, !.left = @ - Len(s),
              !.at = IF r.left = Len(s) THEN "done" ELSE @]

\* An error of read(): -1, which readFixedSize takes for 2^64 - 1 bytes: it goes
\* back by one byte and waits for one more (the model counts up to Word - 1).
ReadError(r) ==
    IF r.at # "fixed" THEN Failed
    ELSE [r EXCEPT !.left = IF @ < Word - 1 THEN @ + 1 ELSE @,
                   !.body = SubSeq(@, 1, Len(@) - 1)]

\* The end of the stream: read() returns 0.
ReadEnd(r) == Failed

\* Mutant: one byte less, as if it were kept for a terminating null.
WantedLessOne(r, avail) == IF r.at \in {"chunk", "last", "fixed"} /\ r.left <= avail THEN r.left - 1 ELSE avail

\* How many tokens the next read() asks for at most.
Wanted(r, avail) == IF r.at \in {"chunk", "last", "fixed"} /\ r.left < avail THEN r.left ELSE avail

\* What the receiver makes of the s that read() returned.
Receive(r, s) ==
    CASE r.at = "head" -> ParseHead(r, s)
      [] r.at = "size" -> [r EXCEPT !.data = s]
      [] r.at \in {"chunk", "last"} -> ReadChunk(r, s)
      [] r.at = "fixed" -> ReadFixed(r, s)

\* Is the receiver about to parse what it has, or to read?
MustParse(r) == r.at = "size" /\ r.data # <<>>
MustRead(r) == r.at \in {"head", "chunk", "last", "fixed"} \/ (r.at = "size" /\ r.data = <<>>)

\* Would a read of k of the tokens s end inside a chunk's size line?
SplitsSize(s, k) ==
    /\ k < Len(s)
    /\ s[k][1] = "digit" \/ (k > 1 /\ s[k] = CRLF[1] /\ s[k - 1][1] = "digit")
=============================================================================
