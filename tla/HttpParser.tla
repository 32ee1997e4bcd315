----------------------------- MODULE HttpParser -----------------------------
(***************************************************************************)
(* HttpParser (src/src/protocol/http/http_parser.cpp): the incremental     *)
(* parser of a response, as an operator from a parser and the next piece   *)
(* of the stream to the parser after it.                                   *)
(*                                                                         *)
(* The stream is in tokens: what a line says (a status, a header, a chunk  *)
(* size), CR, LF, and other bytes of a body, which may hold CR and LF too. *)
(* A piece may end between any two of them.  size_t has Word values.       *)
(***************************************************************************)
EXTENDS Integers, Sequences

CONSTANT Word    \* 2^w for a size_t of w bits

ASSUME WordAssumption == Word \in Nat \ {0}

\* v is the number the token carries (in a body, its place), of the response it is
\* part of.  The parser cannot tell a CR or LF of a body from one that ends a line.
Token(k, v, of) == [k |-> k, v |-> v, of |-> of]

HeaderKinds == {"length", "chunked", "location", "field"}

\* What Reset leaves.  body is what went to the body callback.
Reset ==
    [state |-> "status", buffer |-> <<>>, status |-> 0, of |-> 0, location |-> 0, chunked |-> FALSE,
     hasLength |-> FALSE, length |-> 0, remaining |-> 0, body |-> <<>>]

Ended(p) == p.state \in {"complete", "error"}

IsComplete(p) == p.state = "complete"

Failed(p) == [p EXCEPT !.state = "error"]

Least(S) == CHOOSE i \in S : \A j \in S : i <= j

\* Where there is CR LF.
Crlf(data) == {i \in 1 .. Len(data) - 1 : data[i].k = "CR" /\ data[i + 1].k = "LF"}

\* Up to the first CR LF, wherever in what is buffered that is, or, where there is
\* none, up to the first LF; n = 0 when there is no whole line yet.
TakeLine(data) ==
    LET crlf == Crlf(data)
        lf == {i \in 1 .. Len(data) : data[i].k = "LF"}
    IN CASE crlf # {} -> [line |-> SubSeq(data, 1, Least(crlf) - 1), n |-> Least(crlf) + 1]
         [] crlf = {} /\ lf # {} -> [line |-> SubSeq(data, 1, Least(lf) - 1), n |-> Least(lf)]
         [] OTHER -> [line |-> <<>>, n |-> 0]

Consume(p, n) == [p EXCEPT !.buffer = SubSeq(@, n + 1, Len(@))]

FeedStatusLine(p, line) ==
    IF line # <<>> /\ line[1].k = "status"
    THEN [p EXCEPT !.state = "headers", !.status = line[1].v, !.of = line[1].of]
    ELSE Failed(p)

\* The blank line: what is announced decides how the body ends.
EndHeaders(p) ==
    CASE p.chunked -> [p EXCEPT !.state = "size"]
      [] ~p.chunked /\ p.hasLength ->
           [p EXCEPT !.state = IF p.length = 0 THEN "complete" ELSE "body", !.remaining = p.length]
      [] OTHER -> [p EXCEPT !.state = "body", !.remaining = 0]

\* A line that has a colon in it is a header, if of an unknown name.
FeedHeaders(p, line) ==
    CASE line = <<>> -> EndHeaders(p)
      [] line # <<>> /\ line[1].k = "length" ->
           IF Len(line) > 1 THEN Failed(p)
           ELSE [p EXCEPT !.hasLength = TRUE, !.length = line[1].v % Word]
      [] line # <<>> /\ line[1].k = "chunked" -> [p EXCEPT !.chunked = TRUE]
      [] line # <<>> /\ line[1].k = "location" -> [p EXCEPT !.location = line[1].v]
      [] OTHER -> IF \E i \in DOMAIN line : line[i].k \in HeaderKinds THEN p ELSE Failed(p)

FeedChunkSize(p, line) ==
    IF Len(line) # 1 \/ line[1].k # "size" THEN Failed(p)
    ELSE IF line[1].v % Word = 0 THEN [p EXCEPT !.state = "trailer"]
    ELSE [p EXCEPT !.state = "data", !.remaining = line[1].v % Word]

FeedChunkTrailer(p, line) == IF line = <<>> THEN [p EXCEPT !.state = "complete"] ELSE p

\* The body, or the data of a chunk: at most as much as is left of it.
Emit(p, n, next) ==
    [Consume(p, n) EXCEPT !.body = @ \o SubSeq(p.buffer, 1, n),
                          !.remaining = p.remaining - n,
                          !.state = IF p.remaining = n THEN next ELSE @]

FeedBody(p) ==
    LET n == Len(p.buffer)
    IN IF p.remaining = 0 /\ ~p.hasLength
       THEN [Consume(p, n) EXCEPT !.body = @ \o p.buffer]
       ELSE Emit(p, Least({n, p.remaining}), "complete")

FeedChunkData(p) == Emit(p, Least({Len(p.buffer), p.remaining}), "data_end")

FeedChunkDataEnd(p) ==
    CASE p.buffer[1].k = "LF" -> [Consume(p, 1) EXCEPT !.state = "size"]
      [] p.buffer[1].k # "LF" /\ Len(p.buffer) < 2 -> p
      [] OTHER ->
           IF p.buffer[1].k = "CR" /\ p.buffer[2].k = "LF"
           THEN [Consume(p, 2) EXCEPT !.state = "size"]
           ELSE Failed(p)

\* One turn of the loop of Feed; a turn that needs more than there is changes nothing.
Turn(p) ==
    LET t == TakeLine(p.buffer)
        FeedLine(q) == CASE p.state = "status" -> FeedStatusLine(q, t.line)
                         [] p.state = "headers" -> FeedHeaders(q, t.line)
                         [] p.state = "size" -> FeedChunkSize(q, t.line)
                         [] p.state = "trailer" -> FeedChunkTrailer(q, t.line)
    IN CASE Ended(p) \/ p.buffer = <<>> -> p
         [] ~Ended(p) /\ p.buffer # <<>> /\ p.state = "body" -> FeedBody(p)
         [] ~Ended(p) /\ p.buffer # <<>> /\ p.state = "data" -> FeedChunkData(p)
         [] ~Ended(p) /\ p.buffer # <<>> /\ p.state = "data_end" -> FeedChunkDataEnd(p)
         [] OTHER -> IF t.n = 0 THEN p ELSE FeedLine(Consume(p, t.n))

\* Feed: what was kept from earlier pieces goes in front, and the remainder is kept.
Feed(p, piece) ==
    LET all == [p EXCEPT !.buffer = @ \o piece]
        turns[n \in 0 .. Len(all.buffer)] == IF n = 0 THEN all ELSE Turn(turns[n - 1])
        q == turns[Len(all.buffer)]
    IN CASE Ended(p) -> p
         [] ~Ended(p) /\ Ended(q) -> [q EXCEPT !.buffer = <<>>]
         [] OTHER -> q

\* Mutant: any body is complete when the peer hangs up.
FinishAny(p) == IF p.state \in {"body", "data", "data_end"} THEN [p EXCEPT !.state = "complete"] ELSE p

\* Only a body that the close delimits is completed by the peer going away.
Finish(p) ==
    IF p.state = "body" /\ ~p.hasLength /\ ~p.chunked THEN [p EXCEPT !.state = "complete"] ELSE p

-----------------------------------------------------------------------------
(***************************************************************************)
(* What a server sends (external): a response, its body and its tokens.    *)
(* to is the host of a Location, 0 for none; body the kinds of the bytes;  *)
(* eol ends the lines of the head, chunkEol those of the chunks.           *)
(***************************************************************************)
Response(status, to, framing, body, eol, chunkEol) ==
    [status |-> status, to |-> to, framing |-> framing, body |-> body, eol |-> eol,
     chunkEol |-> chunkEol]

ByteKinds == {"byte", "CR", "LF"}

Bytes(r, of) == [i \in 1 .. Len(r.body) |-> Token(r.body[i], i, of)]

Eol(e, of) ==
    IF e = "crlf" THEN <<Token("CR", 0, of), Token("LF", 0, of)>> ELSE <<Token("LF", 0, of)>>

Line(k, v, e, of) == <<Token(k, v, of)>> \o Eol(e, of)

\* The body in at most one chunk, and the chunk that ends it.
Chunks(r, of) ==
    LET size == Len(r.body)
        e == r.chunkEol
        chunk == IF size = 0 THEN <<>> ELSE Line("size", size, e, of) \o Bytes(r, of) \o Eol(e, of)
    IN chunk \o Line("size", 0, e, of) \o Eol(e, of)

Rendered(r, of) ==
    LET announced == CASE r.framing = "length" -> Line("length", Len(r.body), r.eol, of)
                       [] r.framing = "chunked" -> Line("chunked", 0, r.eol, of)
                       [] OTHER -> Line("field", 0, r.eol, of)
    IN Line("status", r.status, r.eol, of)
           \o (IF r.to = 0 THEN <<>> ELSE Line("location", r.to, r.eol, of))
           \o announced \o Eol(r.eol, of)
           \o (IF r.framing = "chunked" THEN Chunks(r, of) ELSE Bytes(r, of))

\* A line ends in LF alone, and there is CR LF further on: in the body, or at the end
\* of another line.
Mixed(r, of) ==
    \/ r.eol = "lf" /\ Crlf(Rendered(r, of)) # {}
    \/ r.framing = "chunked" /\ r.chunkEol = "lf" /\ Crlf(Chunks(r, of)) # {}
=============================================================================
