----------------------------- MODULE HttpClient -----------------------------
(***************************************************************************)
(* SoftwareHttpClient (src/src/protocol/http/software_http_client.cpp):    *)
(* requests whose response is buffered (Execute) or streamed (Open, Read), *)
(* with a body that is sent in chunks (Write, EndBody), over a transport   *)
(* that keep-alive reuses.                                                 *)
(*                                                                         *)
(* One thread drives the client and another only reads; the receive thread *)
(* feeds the parser.  Each critical section of mutex_ and each call into   *)
(* the transport is a step.  A handler that the transport has picked up    *)
(* runs even when the client lets go of the transport in between (held).   *)
(* The servers and the link are external.                                  *)
(***************************************************************************)
EXTENDS HttpParser, FiniteSets

CONSTANTS
    Hosts,           \* origins; 0 is none of them
    Requests,        \* what may be asked for: an operation (Execute, Open or Upload, which
                     \* is Open with chunked upload on) and a method (GET or POST)
    Responses,       \* what a server may answer
    MaxRedirects,    \* max_redirects_
    MaxCalls,        \* bound: Execute and Open, together
    MaxWrites,       \* bound: Write
    MaxPiece,        \* bound: the tokens of a piece that is not all there is
    MaxConns         \* bound: transports

Operations == {"Execute", "Open", "Upload"}

ASSUME HttpAssumption ==
    /\ Hosts \subseteq Nat \ {0}
    /\ Requests \subseteq Operations \X {"GET", "POST"}
    /\ {MaxRedirects, MaxCalls, MaxWrites, MaxPiece, MaxConns} \subseteq Nat

\* What a server answers is well formed, its body is any bytes, as many as a size_t
\* can count, and its lines end one way or the other.
ASSUME ResponsesAssumption ==
    \A r \in Responses :
        /\ r.status \in Nat /\ r.to \in Nat /\ r.framing \in {"length", "chunked", "close"}
        /\ r.body \in Seq(ByteKinds) /\ Len(r.body) < Word
        /\ {r.eol, r.chunkEol} \subseteq {"crlf", "lf"}

Conns == 1 .. MaxConns

NoResponse == Response(0, 0, "none", <<>>, "crlf", "crlf")

NoRequest == [op |-> "none", method |-> "GET", host |-> 0, home |-> 0, creds |-> FALSE,
              hop |-> 0, attempt |-> 0]

NoHeld == [conn |-> 0, piece |-> <<>>]

VARIABLES
    pc,           \* where the driving thread is
    req,          \* its request (RequestState), the hop and the attempt
    keepAlive,    \* keep_alive_
    conn,         \* transport_; 0 for null
    connected,    \* connected_
    connHost,     \* connected_host_, with the port and the security
    parser,       \* parser_, with the body of response_
    failed,       \* parse_failed_
    closed,       \* closed_
    streaming,    \* streaming_
    pending,      \* pending_
    upChunked,    \* upload_chunked_
    upActive,     \* upload_active_
    link,         \* each transport's connection: none, open, ending or closed
    wire,         \* what is on its way to the receive thread
    held,         \* what the receive thread has in hand: a piece, or nothing of a
                  \* transport that has closed
    server,       \* per transport: the requests it owes an answer, and whether it
                  \* is inside a chunked body
    sent,         \* history: the requests that the call has sent, with their answers
    before,       \* history: how many requests were sent before the call
    calls,        \* history: how many calls there were
    writes,       \* history: how many chunks were written
    opened,       \* history: the application holds a stream that Open gave it
    reads,        \* history: what Read returned of the stream
    eof,          \* history: Read has returned 0 for the stream
    malformed,    \* history: a server got something that is not a request
    lapses        \* history: how a connection was left in the middle, and whether the
                  \* lines of an answer are mixed

driver == <<pc, req>>
state == <<parser, failed, closed, streaming, pending, upChunked, upActive>>
transport == <<conn, connected, connHost, link, wire>>
stream == <<opened, reads, eof>>
counts == <<before, calls, writes>>
vars == <<driver, keepAlive, state, transport, held, server, sent, counts, stream, malformed, lapses>>

Init ==
    /\ pc = "idle" /\ req = NoRequest
    /\ keepAlive \in BOOLEAN
    /\ conn = 0 /\ connected = FALSE /\ connHost = 0
    /\ parser = Reset /\ failed = FALSE /\ closed = FALSE
    /\ streaming = FALSE /\ pending = <<>>
    /\ upChunked = FALSE /\ upActive = FALSE
    /\ link = [t \in Conns |-> "none"]
    /\ wire = [t \in Conns |-> <<>>]
    /\ held = NoHeld
    /\ server = [t \in Conns |-> [owed |-> <<>>, inBody |-> FALSE]]
    /\ sent = <<>> /\ before = 0 /\ calls = 0 /\ writes = 0
    /\ opened = FALSE /\ reads = <<>> /\ eof = FALSE
    /\ malformed = FALSE /\ lapses = {}

-----------------------------------------------------------------------------
(***************************************************************************)
(* The transport and the servers (external).                               *)
(***************************************************************************)
\* What the driving thread sends reaches the server of transport t: the head of
\* request n, a chunk, or the chunk that ends the body.
ServerTakes(t, what, n) ==
    LET s == server[t]
        wrong == s.inBody = (what = "head")
    IN /\ malformed' = (malformed \/ wrong)
       /\ server' = [server EXCEPT ![t] =
              [owed |-> IF what = "head" THEN Append(s.owed, n) ELSE s.owed,
               inBody |-> CASE what = "head" -> req.op = "Upload"
                            [] what = "chunk" -> s.inBody
                            [] OTHER -> FALSE]]

CanSend(t) == t # 0 /\ link[t] \in {"open", "ending"}

\* A send that succeeds; on a connection that is ending nobody takes it.
Send(what, n) ==
    /\ CanSend(conn)
    /\ IF link[conn] = "open" THEN ServerTakes(conn, what, n) ELSE UNCHANGED <<server, malformed>>

\* A server answers, at once or while the body of the request is still coming.
ServerAnswers(t) ==
    /\ link[t] = "open" /\ server[t].owed # <<>>
    /\ \E r \in Responses :
           LET n == Head(server[t].owed)
           IN /\ wire' = [wire EXCEPT ![t] = @ \o Rendered(r, n)]
              /\ sent' = [i \in DOMAIN sent |->
                             IF before + i = n THEN [sent[i] EXCEPT !.answer = r] ELSE sent[i]]
              /\ link' = [link EXCEPT ![t] = IF r.framing = "close" THEN "ending" ELSE "open"]
              /\ lapses' = IF Mixed(r, n) THEN lapses \cup {"mixed"} ELSE lapses
    /\ server' = [server EXCEPT ![t].owed = Tail(@)]
    /\ UNCHANGED <<driver, keepAlive, state, conn, connected, connHost, held, counts, stream,
                   malformed>>

\* The connection is lost, with what had not arrived yet.
LinkEnds(t) ==
    /\ link[t] = "open" \/ wire[t] # <<>>
    /\ link' = [link EXCEPT ![t] = "ending"]
    /\ wire' = [wire EXCEPT ![t] = <<>>]
    /\ UNCHANGED <<driver, keepAlive, state, conn, connected, connHost, held, server, sent, counts,
                   stream, malformed, lapses>>

\* The transport picks up its handlers for the bytes, some of them or all there are,
\* and for the close behind them.
Arrive(t) ==
    /\ held = NoHeld /\ link[t] \in {"open", "ending"}
    /\ \/ \E n \in 1 .. Len(wire[t]) :
              /\ n <= MaxPiece \/ n = Len(wire[t])
              /\ held' = [conn |-> t, piece |-> SubSeq(wire[t], 1, n)]
              /\ wire' = [wire EXCEPT ![t] = SubSeq(@, n + 1, Len(@))]
              /\ UNCHANGED link
       \/ /\ wire[t] = <<>> /\ link[t] = "ending"
          /\ held' = [conn |-> t, piece |-> <<>>]
          /\ link' = [link EXCEPT ![t] = "closed"]
          /\ UNCHANGED wire
    /\ UNCHANGED <<driver, keepAlive, state, conn, connected, connHost, server, sent, counts, stream,
                   malformed, lapses>>

-----------------------------------------------------------------------------
(***************************************************************************)
(* The receive thread.                                                     *)
(***************************************************************************)
\* HandleBody: what the parser emits goes to the stream, or stays with the response.
HandleBody(p, q) ==
    pending' = IF streaming THEN pending \o SubSeq(q.body, Len(p.body) + 1, Len(q.body)) ELSE pending

Stale == IF held.conn = conn THEN lapses ELSE lapses \cup {"stale"}

OnTransportData ==
    /\ held.piece # <<>>
    /\ LET q == IF IsComplete(parser) THEN parser ELSE Feed(parser, held.piece)
       IN /\ parser' = q
          /\ failed' = (failed \/ (q.state = "error" /\ parser.state # "error"))
          /\ HandleBody(parser, q)
    /\ held' = NoHeld
    /\ lapses' = Stale
    /\ UNCHANGED <<driver, keepAlive, closed, streaming, upChunked, upActive, transport, server,
                   sent, counts, stream, malformed>>

OnTransportClosed ==
    /\ held.conn # 0 /\ held.piece = <<>>
    /\ closed' = TRUE
    /\ parser' = Finish(parser)
    /\ held' = NoHeld
    /\ lapses' = Stale
    /\ UNCHANGED <<driver, keepAlive, failed, streaming, pending, upChunked, upActive, transport,
                   server, sent, counts, stream, malformed>>

-----------------------------------------------------------------------------
(***************************************************************************)
(* A request: from StartRequest to the head that goes out.                 *)
(***************************************************************************)
\* The handlers are taken off, the transport disconnects, and an upload on it ends.
DropTransport ==
    /\ link' = [t \in Conns |-> IF t = conn THEN "closed" ELSE link[t]]
    /\ wire' = [t \in Conns |-> IF t = conn THEN <<>> ELSE wire[t]]
    /\ conn' = 0
    /\ connected' = FALSE
    /\ upChunked' = FALSE
    /\ upActive' = FALSE
    /\ UNCHANGED connHost

KeepTransport == UNCHANGED <<transport, upChunked, upActive>>

\* The call is over.
Finished == pc' = "idle" /\ req' = NoRequest

\* The call ends without a result; an upload that did not start leaves no stream.
GiveUp ==
    /\ Finished
    /\ streaming' = (streaming /\ req.op # "Upload")

\* The call was refused during an upload, and streaming_ is off now.
Diverted == lapses' = IF upActive /\ ~streaming' THEN lapses \cup {"diverted"} ELSE lapses

\* Mutant: a request starts whatever is under way.
StartRequestUnchecked ==
    /\ pc = "start"
    /\ pc' = "ensure"
    /\ UNCHANGED <<req, keepAlive, state, transport, held, server, sent, counts, stream,
                   malformed, lapses>>

\* Refused while a chunked body is open; streaming_ has changed all the same, and the
\* response of the upload then goes past the stream.
StartRequest ==
    /\ pc = "start"
    /\ IF upActive
       THEN GiveUp /\ Diverted
       ELSE pc' = "ensure" /\ UNCHANGED <<req, streaming, lapses>>
    /\ UNCHANGED <<keepAlive, parser, failed, closed, pending, upChunked, upActive, transport,
                   held, server, sent, counts, stream, malformed>>

\* EnsureConnected: a connection to the same place is reused, whatever closed_ says.
EnsureConnected ==
    /\ pc = "ensure"
    /\ IF connected /\ conn # 0 /\ keepAlive /\ connHost = req.host
       THEN pc' = "reset" /\ KeepTransport
       ELSE pc' = "create" /\ DropTransport
    /\ UNCHANGED <<req, keepAlive, parser, failed, closed, streaming, pending, held, server, sent,
                   counts, stream, malformed, lapses>>

CreateTransport ==
    /\ pc = "create"
    /\ \E t \in Conns :
           /\ link[t] = "none" /\ \A u \in 1 .. t - 1 : link[u] # "none"
           /\ link' = [link EXCEPT ![t] = "open"]
           /\ conn' = t
    /\ connected' = TRUE
    /\ connHost' = req.host
    /\ pc' = "reset"
    /\ UNCHANGED <<req, keepAlive, state, wire, held, server, sent, counts, stream, malformed, lapses>>

\* The factory or the connect fails.
CreateFails ==
    /\ pc = "create"
    /\ GiveUp
    /\ UNCHANGED <<keepAlive, parser, failed, closed, pending, upChunked, upActive, transport,
                   held, server, sent, counts, stream, malformed, lapses>>

ResetRequest ==
    /\ pc = "reset"
    /\ parser' = Reset
    /\ failed' = FALSE
    /\ closed' = FALSE
    /\ pending' = IF streaming THEN <<>> ELSE pending
    /\ upChunked' = FALSE
    /\ upActive' = FALSE
    /\ reads' = <<>> /\ eof' = FALSE
    /\ pc' = "send"
    /\ UNCHANGED <<req, keepAlive, streaming, transport, held, server, sent, counts, opened,
                   malformed, lapses>>

\* The request as it is put on the wire, for the history.
Record == [hop |-> req.hop, method |-> req.method, host |-> req.host,
           home |-> req.home, creds |-> req.creds, answer |-> NoResponse]

SendRequest ==
    /\ pc = "send"
    /\ Send("head", before + Len(sent) + 1)
    /\ sent' = Append(sent, Record)
    /\ pc' = CASE req.op = "Execute" -> "wait"
               [] req.op = "Open" -> "await"
               [] OTHER -> "arm"
    /\ UNCHANGED <<req, keepAlive, state, transport, held, counts, stream, lapses>>

\* Mutant: every method can be repeated.
MethodIsRepeatableAny(method) == TRUE

MethodIsRepeatable(method) == method = "GET"

\* ExecuteAttempt: a connection that was lost is worth one more attempt, for a
\* request that has no side effect.
RepeatOrGiveUp(lost) ==
    IF req.op = "Execute" /\ lost /\ req.attempt = 0 /\ MethodIsRepeatable(req.method)
    THEN /\ pc' = "start"
         /\ req' = [req EXCEPT !.attempt = 1]
         /\ UNCHANGED streaming
    ELSE GiveUp

\* The send fails, as lost or not, and the server may have taken the request.
SendFails ==
    /\ pc = "send"
    /\ DropTransport
    /\ \/ UNCHANGED sent
       \/ link[conn] = "open" /\ sent' = Append(sent, Record)
    /\ \E lost \in BOOLEAN : RepeatOrGiveUp(lost)
    /\ UNCHANGED <<keepAlive, parser, failed, closed, pending, held, server, counts, stream,
                   malformed, lapses>>

-----------------------------------------------------------------------------
(***************************************************************************)
(* Execute.                                                                *)
(***************************************************************************)
\* A call that starts while the response of an Open has not all arrived.
Abandoned == IF streaming /\ ~IsComplete(parser) THEN lapses \cup {"abandoned"} ELSE lapses

\* Execute or Open is called.  The history of the last call ends, unless the call
\* is one that will be refused.
Begin(op, method, host) ==
    /\ pc = "idle" /\ calls < MaxCalls
    /\ calls' = calls + 1
    /\ pc' = "start"
    /\ req' = [op |-> op, method |-> method, host |-> host, home |-> host, creds |-> TRUE,
               hop |-> 0, attempt |-> 0]
    /\ streaming' = (op # "Execute")
    /\ IF upActive THEN UNCHANGED <<before, sent, stream, lapses>>
       ELSE /\ before' = before + Len(sent)
            /\ sent' = <<>>
            /\ opened' = FALSE /\ reads' = <<>> /\ eof' = FALSE
            /\ lapses' = Abandoned
    /\ UNCHANGED <<keepAlive, parser, failed, closed, pending, upChunked, upActive, transport, held,
                   server, writes, malformed>>

IsRedirectStatus(status) == status \in {301, 302, 303, 307, 308}

\* Mutant: a redirect takes the credentials along.
RedirectedKeepsCredentials ==
    LET get == parser.status = 303 \/ (parser.status \in {301, 302} /\ req.method # "GET")
    IN [req EXCEPT !.host = parser.location,
                   !.method = IF get THEN "GET" ELSE @,
                   !.hop = @ + 1,
                   !.attempt = 0]

\* ApplyRedirect: the request for the next hop.  Credentials stay with their origin.
Redirected ==
    LET get == parser.status = 303 \/ (parser.status \in {301, 302} /\ req.method # "GET")
    IN [req EXCEPT !.host = parser.location,
                   !.creds = @ /\ parser.location = req.host,
                   !.method = IF get THEN "GET" ELSE @,
                   !.hop = @ + 1,
                   !.attempt = 0]

\* Whether the response is one to follow.
Follows == IsRedirectStatus(parser.status) /\ MaxRedirects > 0 /\ parser.location # 0

\* ExecuteOnce: the response is whole.  The transport goes unless it is kept alive.
ExecuteDone ==
    /\ pc = "wait" /\ ~failed /\ IsComplete(parser)
    /\ IF keepAlive THEN KeepTransport ELSE DropTransport
    /\ CASE ~Follows -> pc' = "done" /\ UNCHANGED req
         [] Follows /\ req.hop >= MaxRedirects -> Finished
         [] OTHER -> pc' = "start" /\ req' = Redirected
    /\ UNCHANGED <<keepAlive, parser, failed, closed, streaming, pending, held, server, sent, counts,
                   stream, malformed, lapses>>

\* Mutant: only a failed parse costs the transport.
ExecuteFailsKeeps ==
    /\ pc = "wait" /\ (failed \/ ~IsComplete(parser))
    /\ IF failed THEN DropTransport ELSE KeepTransport
    /\ RepeatOrGiveUp(closed /\ ~failed)
    /\ UNCHANGED <<keepAlive, parser, failed, closed, pending, held, server, sent, counts, stream,
                   malformed, lapses>>

\* The parse failed, the connection was lost, or the wait timed out.
ExecuteFails ==
    /\ pc = "wait" /\ (failed \/ ~IsComplete(parser))
    /\ DropTransport
    /\ RepeatOrGiveUp(closed /\ ~failed)
    /\ UNCHANGED <<keepAlive, parser, failed, closed, pending, held, server, sent, counts, stream,
                   malformed, lapses>>

\* The application has the response.
ExecuteReturns ==
    /\ pc = "done"
    /\ Finished
    /\ UNCHANGED <<keepAlive, state, transport, held, server, sent, counts, stream, malformed,
                   lapses>>

-----------------------------------------------------------------------------
(***************************************************************************)
(* Open, Read and Close.                                                   *)
(***************************************************************************)
HeadersIn == ~failed /\ parser.state \notin {"status", "headers", "error"}

\* The head is in; the body of a response that is followed is not read, so its
\* transport cannot carry the next request.
OpenDone ==
    /\ pc = "await" /\ HeadersIn
    /\ CASE ~Follows -> Finished /\ opened' = TRUE /\ KeepTransport
         [] Follows /\ req.hop >= MaxRedirects ->
              Finished /\ UNCHANGED opened /\ KeepTransport
         [] OTHER -> pc' = "start" /\ req' = Redirected /\ DropTransport /\ UNCHANGED opened
    /\ UNCHANGED <<keepAlive, parser, failed, closed, streaming, pending, held, server, sent, counts,
                   reads, eof, malformed, lapses>>

\* AwaitHeaders fails or times out, and the transport stays.
OpenFails ==
    /\ pc = "await" /\ ~HeadersIn
    /\ Finished
    /\ UNCHANGED <<keepAlive, state, transport, held, server, sent, counts, stream, malformed,
                   lapses>>

\* What the driving thread is in when another thread may read.
Reading == opened /\ pc \in {"idle", "chunk", "terminator", "await_end"}

Read ==
    /\ Reading /\ pending # <<>>
    /\ \E n \in 1 .. Len(pending) :
           /\ reads' = reads \o SubSeq(pending, 1, n)
           /\ pending' = SubSeq(pending, n + 1, Len(pending))
    /\ UNCHANGED <<driver, keepAlive, parser, failed, closed, streaming, upChunked, upActive,
                   transport, held, server, sent, counts, opened, eof, malformed, lapses>>

\* Read returns 0; its errors change nothing.
ReadEnd ==
    /\ Reading /\ pending = <<>> /\ ~failed /\ IsComplete(parser)
    /\ eof' = TRUE
    /\ UNCHANGED <<driver, keepAlive, state, transport, held, server, sent, counts, opened, reads,
                   malformed, lapses>>

Close ==
    /\ pc = "idle" /\ (streaming \/ conn # 0)
    /\ DropTransport
    /\ pending' = <<>>
    /\ streaming' = FALSE
    /\ opened' = FALSE
    /\ UNCHANGED <<driver, keepAlive, parser, failed, closed, held, server, sent, counts, reads, eof,
                   malformed, lapses>>

-----------------------------------------------------------------------------
(***************************************************************************)
(* The chunked upload: BeginChunkedUpload, Write and EndBody.              *)
(***************************************************************************)
BeginChunkedUpload ==
    /\ pc = "arm"
    /\ upChunked' = TRUE
    /\ upActive' = TRUE
    /\ opened' = TRUE
    /\ Finished
    /\ UNCHANGED <<keepAlive, parser, failed, closed, streaming, pending, transport, held,
                   server, sent, counts, reads, eof, malformed, lapses>>

\* A body that Open refuses to stream: one that was set beforehand, or Expect.
UploadRefused ==
    /\ pc = "start" /\ req.op = "Upload"
    /\ GiveUp
    /\ Diverted
    /\ UNCHANGED <<keepAlive, parser, failed, closed, pending, upChunked, upActive, transport,
                   held, server, sent, counts, stream, malformed>>

\* Write: the checks, under the lock.  When the server has answered already, the
\* upload is over: no more is sent, the chunk that ends the body neither.
Write ==
    /\ pc = "idle" /\ upChunked /\ upActive /\ ~closed /\ writes < MaxWrites
    /\ writes' = writes + 1
    /\ IF parser.state = "status"
       THEN pc' = "chunk" /\ UNCHANGED <<upActive, lapses>>
       ELSE upActive' = FALSE /\ lapses' = lapses \cup {"unended"} /\ UNCHANGED pc
    /\ UNCHANGED <<req, keepAlive, parser, failed, closed, streaming, pending, upChunked, transport,
                   held, server, sent, before, calls, stream, malformed>>

SendChunk ==
    /\ pc = "chunk"
    /\ Send("chunk", 0)
    /\ Finished
    /\ UNCHANGED <<keepAlive, state, transport, held, sent, counts, stream, lapses>>

\* EndBody: the latch is cleared before the chunk that ends the body goes out.
EndBody ==
    /\ pc = "idle" /\ upChunked /\ upActive
    /\ upActive' = FALSE
    /\ pc' = "terminator"
    /\ UNCHANGED <<req, keepAlive, parser, failed, closed, streaming, pending, upChunked, transport,
                   held, server, sent, counts, stream, malformed, lapses>>

SendTerminator ==
    /\ pc = "terminator"
    /\ Send("terminator", 0)
    /\ pc' = "await_end"
    /\ UNCHANGED <<req, keepAlive, state, transport, held, sent, counts, stream, lapses>>

\* The send fails, or takes only part of it.
SendPartFails ==
    /\ pc \in {"chunk", "terminator"}
    /\ DropTransport
    /\ Finished
    /\ UNCHANGED <<keepAlive, parser, failed, closed, streaming, pending, held, server, sent,
                   counts, stream, malformed, lapses>>

\* EndBody has the head of the response.  A redirect cannot be followed.
EndBodyDone ==
    /\ pc = "await_end" /\ HeadersIn
    /\ IF IsRedirectStatus(parser.status) THEN DropTransport ELSE KeepTransport
    /\ Finished
    /\ UNCHANGED <<keepAlive, parser, failed, closed, streaming, pending, held, server, sent,
                   counts, stream, malformed, lapses>>

EndBodyFails ==
    /\ pc = "await_end" /\ ~HeadersIn
    /\ DropTransport
    /\ Finished
    /\ UNCHANGED <<keepAlive, parser, failed, closed, streaming, pending, held, server, sent,
                   counts, stream, malformed, lapses>>

-----------------------------------------------------------------------------
Next ==
    \/ \E r \in Requests, host \in Hosts : Begin(r[1], r[2], host)
    \/ StartRequest \/ EnsureConnected \/ CreateTransport \/ CreateFails \/ ResetRequest
    \/ SendRequest \/ SendFails
    \/ ExecuteDone \/ ExecuteFails \/ ExecuteReturns
    \/ OpenDone \/ OpenFails \/ Read \/ ReadEnd \/ Close
    \/ BeginChunkedUpload \/ UploadRefused \/ Write \/ SendChunk
    \/ EndBody \/ SendTerminator \/ SendPartFails \/ EndBodyDone \/ EndBodyFails
    \/ OnTransportData \/ OnTransportClosed
    \/ \E t \in Conns : ServerAnswers(t) \/ LinkEnds(t) \/ Arrive(t)

Spec == Init /\ [][Next]_vars

-----------------------------------------------------------------------------
(***************************************************************************)
(* Properties.                                                             *)
(***************************************************************************)
\* The body is all of the body of the answer that it belongs to.  Where the close
\* ends the body, a lost connection cannot be told from its end.
Whole(body) ==
    LET answer == sent[Len(sent)].answer
    IN answer.framing # "close" => body = Bytes(answer, before + Len(sent))

\* The response that Execute has is the whole answer to the last request it sent.
OwnAnswer ==
    /\ parser.of = before + Len(sent)
    /\ parser.status = sent[Len(sent)].answer.status
    /\ Whole(parser.body)

\* Unless a stream was abandoned on the connection, a handler ran late, or a server
\* mixed the ends of its lines, a response that Execute returns is the answer to the
\* last request it sent, and is whole: however it was split on the way, whatever CR
\* and LF its body holds, and however often it was tried.
AnswerIsOwn == (pc = "done" /\ lapses = {}) => OwnAnswer

\* Read returns 0 only when everything of the body has been read: a close cannot
\* hide bytes that were delivered, no CR LF in a body is taken for the end of a line,
\* and a body cut short has no end.  The lapses apart: a stream abandoned, a late
\* handler, an answer before the end of an upload, a call that was refused during
\* one, or lines whose ends are mixed.
EofMeansWhole == (eof /\ lapses = {}) => parser.of = before + Len(sent) /\ Whole(reads)

\* A request with side effects goes out once per hop and any other at most twice.
RepeatsAreSafe ==
    \A i \in DOMAIN sent :
        LET same == {j \in DOMAIN sent : sent[j].hop = sent[i].hop}
        IN Cardinality(same) <= (IF sent[i].method = "GET" THEN 2 ELSE 1)

\* A chain of redirects ends, and the credentials of a call are never sent to
\* another origin than the one that the caller named.
RedirectsAreSafe ==
    \A i \in DOMAIN sent :
        /\ sent[i].hop <= MaxRedirects
        /\ sent[i].creds => sent[i].host = sent[i].home

\* What reaches a server is requests, each with all of its body, unless a Write
\* found the answer there already.
UploadFramed == malformed => "unended" \in lapses

-----------------------------------------------------------------------------
(***************************************************************************)
(* What comments of the code promise and the code does not keep: TLC finds *)
(* a counterexample to each of these.                                      *)
(***************************************************************************)
\* StartRequest ("A request cannot start on a socket that is in the middle of a
\* chunked body"): no head is rendered into an open body.
HeadOutsideBody == ~malformed

\* BodyMayContainCrlf in test_http_parser.cpp ("A body may itself contain CRLF
\* sequences ... which must not be mistaken for framing"): a response is whole however
\* the lines in front of its body end.  TakeLine looks for CR LF in all that is
\* buffered before it takes an LF for the end of a line, so a head whose lines end in
\* LF swallows a body that has CR LF in it, when they arrive together.
BodyIsNotFraming == (pc = "done" /\ lapses \subseteq {"mixed"}) => OwnAnswer
=============================================================================
