-------------------------- MODULE HttpClientProofs --------------------------
(***************************************************************************)
(* Proofs about the HTTP client of HttpClient: how often and to whom a     *)
(* request is sent, that what reaches a server is requests, and that what  *)
(* the application gets is all of the answer to its last request, however  *)
(* the response is cut into pieces on its way through the parser.          *)
(***************************************************************************)
EXTENDS HttpClient, FiniteSetTheorems, SequenceTheorems, WellFoundedInduction, TLAPS

-----------------------------------------------------------------------------
(* The inductive invariant. *)

\* Where a call is before its request goes out, and from then on.
Preparing == {"start", "ensure", "create", "reset", "send"}
Awaiting == {"wait", "await", "arm", "done"}

PcType == pc \in Preparing \cup Awaiting \cup {"idle", "chunk", "terminator", "await_end"}

ReqType ==
    /\ DOMAIN req = {"op", "method", "host", "home", "creds", "hop", "attempt"}
    /\ req.hop \in Nat /\ req.attempt \in {0, 1} /\ req.creds \in BOOLEAN

LinkType ==
    /\ conn \in Conns \cup {0}
    /\ link \in [Conns -> {"none", "open", "ending", "closed"}]
    /\ upActive \in BOOLEAN

ServerType ==
    /\ server \in [Conns -> [owed : Seq(Nat), inBody : BOOLEAN]]
    /\ malformed \in BOOLEAN

SentType ==
    /\ sent \in Seq({sent[i] : i \in DOMAIN sent})
    /\ \A i \in DOMAIN sent :
           /\ DOMAIN sent[i] = {"hop", "method", "host", "home", "creds", "answer"}
           /\ sent[i].hop \in Nat
    /\ before \in Nat

\* A call that is at work, and not one that is about to be refused.
Working == pc \in (Preparing \cup Awaiting) /\ ~upActive

\* The request in hand is within the limit, and has its credentials with it only at
\* the origin it was made for.
HopInv ==
    /\ req.hop <= MaxRedirects
    /\ req.creds => req.host = req.home

\* The latch of an upload is up while a chunk is written, and otherwise only outside a
\* call or before one is refused.
LatchInv ==
    /\ pc \in ((Preparing \cup Awaiting) \ {"start"}) \cup {"terminator", "await_end"} => ~upActive
    /\ pc = "chunk" => upActive

\* A call is of one of the three kinds.
OpInv == pc \in Preparing \cup Awaiting => req.op \in Operations

\* Requests of one hop follow each other directly, and only GET is repeated.
PairInv ==
    \A i, j \in DOMAIN sent :
        (i < j /\ sent[i].hop = sent[j].hop) =>
            j = i + 1 /\ sent[i].method = "GET" /\ sent[j].method = "GET"

\* What has been sent for the hop at hand: nothing before its first attempt, one
\* GET before the second, and the last one or two requests afterwards.
AttemptInv ==
    Working =>
        \A i \in DOMAIN sent :
            /\ sent[i].hop <= req.hop
            /\ (pc \in Preparing /\ req.attempt = 0) => sent[i].hop < req.hop
            /\ (sent[i].hop = req.hop /\ (pc \in Preparing \/ req.attempt = 0)) => i = Len(sent)
            /\ sent[i].hop = req.hop => sent[i].method = req.method

\* Only a GET is tried a second time.
RetryInv == req.attempt = 1 => req.method = "GET"

\* Until a Write gives an upload up, the server that the client can reach is inside
\* a body exactly while the client is; one that was never reached is not.
FrameInv ==
    "unended" \notin lapses =>
        /\ ~malformed
        /\ \A t \in Conns :
               /\ link[t] = "none" => ~server[t].inBody
               /\ (t = conn /\ link[t] = "open") =>
                      (server[t].inBody <=> (upActive \/ pc \in {"arm", "terminator"}))

\* The call: what the driving thread and the history of its requests say.
CallInv ==
    /\ PcType /\ ReqType /\ SentType
    /\ HopInv /\ LatchInv /\ OpInv /\ PairInv /\ AttemptInv /\ RetryInv
    /\ RedirectsAreSafe

\* The connection: what the servers have seen.
ConnInv == LinkType /\ ServerType /\ FrameInv

HttpInv == CallInv /\ ConnInv

-----------------------------------------------------------------------------
(* The operators. *)

\* A sequence with one more element.
LEMMA AppendFacts ==
    ASSUME NEW S, NEW s \in Seq(S), NEW e
    PROVE  /\ Append(s, e) \in Seq(S \cup {e})
           /\ Len(Append(s, e)) = Len(s) + 1 /\ Len(s) \in Nat
           /\ DOMAIN s = 1 .. Len(s) /\ DOMAIN Append(s, e) = 1 .. (Len(s) + 1)
           /\ \A i \in 1 .. Len(s) : Append(s, e)[i] = s[i]
           /\ Append(s, e)[Len(s) + 1] = e
<1>1. s \in Seq(S \cup {e}) /\ e \in S \cup {e}
  OBVIOUS
<1> QED  BY <1>1

\* A sequence is a sequence of its own elements.
LEMMA OwnElements ==
    ASSUME NEW S, NEW s \in Seq(S)
    PROVE  s \in Seq({s[i] : i \in DOMAIN s})
  OBVIOUS

\* What is sent is on record: the record comes behind what was sent before.
LEMMA SentGrows ==
    ASSUME SentType, ReqType, sent' = Append(sent, Record), UNCHANGED before
    PROVE  /\ Len(sent') = Len(sent) + 1 /\ Len(sent) \in Nat
           /\ DOMAIN sent = 1 .. Len(sent) /\ DOMAIN sent' = 1 .. (Len(sent) + 1)
           /\ \A i \in 1 .. Len(sent) : sent'[i] = sent[i]
           /\ sent'[Len(sent) + 1] = Record
           /\ SentType'
<1> DEFINE S == {sent[i] : i \in DOMAIN sent}
<1>1. sent \in Seq(S)
  BY DEF SentType
<1> HIDE DEF S
<1>2. sent' \in Seq(S \cup {Record})
  BY <1>1, AppendFacts
<1>3. sent' \in Seq({sent'[i] : i \in DOMAIN sent'})
  BY <1>2, OwnElements
<1>4. /\ Len(sent') = Len(sent) + 1 /\ Len(sent) \in Nat
      /\ DOMAIN sent = 1 .. Len(sent) /\ DOMAIN sent' = 1 .. (Len(sent) + 1)
      /\ \A i \in 1 .. Len(sent) : sent'[i] = sent[i]
      /\ sent'[Len(sent) + 1] = Record
  BY <1>1, AppendFacts
<1>5. DOMAIN Record = {"hop", "method", "host", "home", "creds", "answer"} /\ Record.hop \in Nat
  BY DEF Record, ReqType
<1>6. ASSUME NEW i \in DOMAIN sent'
      PROVE  /\ DOMAIN sent'[i] = {"hop", "method", "host", "home", "creds", "answer"}
             /\ sent'[i].hop \in Nat
  <2>1. CASE i \in 1 .. Len(sent)
    BY <1>4, <2>1 DEF SentType
  <2>2. CASE i = Len(sent) + 1
    BY <1>4, <1>5, <2>2
  <2> QED  BY <1>4, <1>6, <2>1, <2>2
<1>7. before' \in Nat
  BY DEF SentType
<1> QED  BY <1>3, <1>4, <1>6, <1>7 DEF SentType

\* What a redirect makes of the request.
LEMMA RedirectedFacts ==
    ASSUME ReqType
    PROVE  /\ DOMAIN Redirected = DOMAIN req
           /\ Redirected.op = req.op
           /\ Redirected.host = parser.location /\ Redirected.home = req.home
           /\ Redirected.creds \in BOOLEAN
           /\ Redirected.creds => req.creds /\ parser.location = req.host
           /\ Redirected.hop = req.hop + 1 /\ Redirected.attempt = 0
<1>1. Redirected.creds = (req.creds /\ parser.location = req.host)
  BY DEF ReqType, Redirected
<1>2. /\ DOMAIN Redirected = DOMAIN req
      /\ Redirected.op = req.op
      /\ Redirected.host = parser.location /\ Redirected.home = req.home
      /\ Redirected.hop = req.hop + 1 /\ Redirected.attempt = 0
  BY DEF ReqType, Redirected
<1> QED  BY <1>1, <1>2, Zenon

\* A second attempt is made for a GET only, and is the same request.
LEMMA RepeatFacts ==
    ASSUME ReqType, NEW lost \in BOOLEAN, RepeatOrGiveUp(lost)
    PROVE  \/ /\ pc' = "start" /\ req.attempt = 0 /\ req.method = "GET" /\ req.op = "Execute"
              /\ DOMAIN req' = DOMAIN req
              /\ req'.op = req.op /\ req'.method = req.method /\ req'.host = req.host
              /\ req'.home = req.home /\ req'.creds = req.creds /\ req'.hop = req.hop
              /\ req'.attempt = 1
           \/ pc' = "idle" /\ req' = NoRequest
<1>1. CASE req.op = "Execute" /\ lost /\ req.attempt = 0 /\ MethodIsRepeatable(req.method)
  <2>1. pc' = "start" /\ req' = [req EXCEPT !.attempt = 1] /\ req.method = "GET"
    BY <1>1 DEF RepeatOrGiveUp, MethodIsRepeatable
  <2> QED  BY <1>1, <2>1 DEF ReqType
<1>2. CASE ~(req.op = "Execute" /\ lost /\ req.attempt = 0 /\ MethodIsRepeatable(req.method))
  BY <1>2 DEF RepeatOrGiveUp, GiveUp, Finished
<1> QED  BY <1>1, <1>2

\* Neither the end of a call nor a step that leaves the request alone spoils its type.
LEMMA ReqKept ==
    ASSUME ReqType, UNCHANGED req \/ req' = NoRequest
    PROVE  ReqType'
<1>1. CASE UNCHANGED req
  BY <1>1 DEF ReqType
<1>2. CASE req' = NoRequest
  BY <1>2 DEF ReqType, NoRequest
<1> QED  BY <1>1, <1>2

\* The server of t, and no other, takes what is sent.
LEMMA ServerTakesFacts ==
    ASSUME ServerType, NEW t \in Conns, NEW n \in Nat, NEW what, ServerTakes(t, what, n)
    PROVE  /\ ServerType'
           /\ \A u \in Conns : u # t => server'[u] = server[u]
           /\ what = "head" => (server'[t].inBody <=> req.op = "Upload")
           /\ what = "chunk" => (server'[t].inBody <=> server[t].inBody)
           /\ what = "terminator" => ~server'[t].inBody
           /\ malformed' => malformed \/ (server[t].inBody <=> what = "head")
<1> DEFINE s == server[t]
           in == CASE what = "head" -> req.op = "Upload"
                   [] what = "chunk" -> s.inBody
                   [] OTHER -> FALSE
           owed == IF what = "head" THEN Append(s.owed, n) ELSE s.owed
<1>1. s.owed \in Seq(Nat) /\ s.inBody \in BOOLEAN
  BY DEF ServerType
<1>2. in \in BOOLEAN
  <2>1. CASE what = "head"
    BY <2>1, Zenon
  <2>2. CASE what = "chunk"
    BY <1>1, <2>2
  <2>3. CASE what # "head" /\ what # "chunk"
    BY <2>3
  <2> QED  BY <2>1, <2>2, <2>3
<1>3. owed \in Seq(Nat)
  BY <1>1
<1>4. server' = [server EXCEPT ![t] = [owed |-> owed, inBody |-> in]]
  BY DEF ServerTakes
<1>5. malformed' = (malformed \/ s.inBody = (what = "head"))
  BY DEF ServerTakes
<1>6. malformed' \in BOOLEAN
  BY <1>5, Zenon
<1>7. malformed' => malformed \/ (s.inBody <=> what = "head")
  BY <1>1, <1>5, Zenon
<1> HIDE DEF owed
<1>8. what = "head" => (in <=> req.op = "Upload")
  BY Zenon
<1>9. what = "chunk" => (in <=> s.inBody)
  BY Zenon
<1>10. what = "terminator" => ~in
  BY Zenon
<1> HIDE DEF in
<1>11. server' \in [Conns -> [owed : Seq(Nat), inBody : BOOLEAN]]
  BY <1>2, <1>3, <1>4 DEF ServerType
<1>12. server'[t].inBody = in /\ \A u \in Conns : u # t => server'[u] = server[u]
  BY <1>4 DEF ServerType
<1> QED  BY <1>6, <1>7, <1>8, <1>9, <1>10, <1>11, <1>12 DEF ServerType

-----------------------------------------------------------------------------
(* What a step does to the call, and what it does to the connection. *)

\* A step that leaves the call alone.
LEMMA CallKept ==
    ASSUME CallInv, UNCHANGED <<pc, req, upActive, sent, before>>
    PROVE  CallInv'
  BY DEF CallInv, PcType, ReqType, SentType, HopInv, LatchInv, OpInv, PairInv, AttemptInv, Working,
     RetryInv, RedirectsAreSafe

\* A step to where no call is at work: the end of one, or a step of an upload.
LEMMA CallOutside ==
    ASSUME CallInv, MaxRedirects \in Nat,
           UNCHANGED <<sent, before>>, UNCHANGED req \/ req' = NoRequest,
           pc' \in {"idle", "chunk", "terminator", "await_end"},
           pc' \in {"terminator", "await_end"} => ~upActive',
           pc' = "chunk" => upActive'
    PROVE  CallInv'
<1> USE DEF CallInv
<1>1. PcType' /\ LatchInv' /\ OpInv' /\ AttemptInv'
  BY DEF PcType, LatchInv, OpInv, AttemptInv, Working, Preparing, Awaiting
<1>2. ReqType'
  BY ReqKept
<1>3. HopInv' /\ RetryInv'
  BY DEF HopInv, RetryInv, NoRequest
<1>4. SentType' /\ PairInv' /\ RedirectsAreSafe'
  BY DEF SentType, PairInv, RedirectsAreSafe
<1> QED  BY <1>1, <1>2, <1>3, <1>4

\* A step towards the request.
LEMMA CallPrepares ==
    ASSUME CallInv, UNCHANGED <<req, sent, before>>,
           pc \in Preparing, pc' \in Preparing, ~upActive, ~upActive'
    PROVE  CallInv'
<1> USE DEF CallInv
<1>1. PcType' /\ LatchInv' /\ OpInv'
  BY DEF PcType, LatchInv, OpInv, Preparing, Awaiting
<1>2. ReqType' /\ HopInv' /\ RetryInv'
  BY DEF ReqType, HopInv, RetryInv
<1>3. SentType' /\ PairInv' /\ RedirectsAreSafe'
  BY DEF SentType, PairInv, RedirectsAreSafe
<1>4. AttemptInv'
  BY DEF AttemptInv, Working, PcType
<1> QED  BY <1>1, <1>2, <1>3, <1>4

\* A redirect: everything sent so far was for an earlier hop.
LEMMA CallRedirected ==
    ASSUME CallInv, UNCHANGED <<sent, before>>, pc \in Awaiting,
           Follows, ~(req.hop >= MaxRedirects), MaxRedirects \in Nat,
           pc' = "start", req' = Redirected, UNCHANGED upActive \/ ~upActive'
    PROVE  CallInv'
<1> USE DEF CallInv
<1>1. PcType' /\ LatchInv' /\ OpInv'
  BY RedirectedFacts DEF PcType, LatchInv, OpInv, Preparing, Awaiting
<1>2. ReqType' /\ HopInv' /\ RetryInv'
  <2>1. ReqType'
    BY RedirectedFacts DEF ReqType
  <2> QED  BY <2>1, RedirectedFacts DEF ReqType, HopInv, RetryInv
<1>3. SentType' /\ PairInv' /\ RedirectsAreSafe'
  BY DEF SentType, PairInv, RedirectsAreSafe
<1>4. AttemptInv'
  <2>1. req'.hop = req.hop + 1 /\ req'.attempt = 0
    BY RedirectedFacts
  <2>2. ~upActive /\ \A i \in DOMAIN sent : sent[i].hop <= req.hop
    BY DEF LatchInv, AttemptInv, Working, Preparing, Awaiting
  <2> QED  BY <2>1, <2>2 DEF AttemptInv, ReqType, SentType
<1> QED  BY <1>1, <1>2, <1>3, <1>4

\* The second attempt: what was sent is at most the one GET of the first.
LEMMA CallRepeats ==
    ASSUME CallInv, NEW lost \in BOOLEAN, RepeatOrGiveUp(lost), MaxRedirects \in Nat,
           UNCHANGED <<sent, before>>, pc \in Awaiting \cup {"send"}, UNCHANGED upActive \/ ~upActive'
    PROVE  CallInv'
<1> USE DEF CallInv
<1>1. CASE pc' = "idle" /\ req' = NoRequest
  BY <1>1, CallOutside
<1>2. CASE pc' = "start"
  <2>1. /\ req.attempt = 0 /\ req.method = "GET" /\ DOMAIN req' = DOMAIN req /\ req'.op = req.op
        /\ req'.method = req.method /\ req'.host = req.host /\ req'.home = req.home
        /\ req'.creds = req.creds /\ req'.hop = req.hop /\ req'.attempt = 1
    BY <1>2, RepeatFacts
  <2>2. PcType' /\ LatchInv' /\ OpInv'
    BY <1>2, <2>1 DEF PcType, LatchInv, OpInv, Preparing, Awaiting
  <2>3. ReqType' /\ HopInv' /\ RetryInv'
    BY <2>1 DEF ReqType, HopInv, RetryInv
  <2>4. SentType' /\ PairInv' /\ RedirectsAreSafe'
    BY DEF SentType, PairInv, RedirectsAreSafe
  <2>5. AttemptInv'
    BY <1>2, <2>1 DEF AttemptInv, Working, LatchInv, Preparing, Awaiting
  <2> QED  BY <2>2, <2>3, <2>4, <2>5
<1> QED  BY <1>1, <1>2, RepeatFacts

\* The request goes on record, as the last of its hop.
LEMMA CallSends ==
    ASSUME CallInv, pc = "send", sent' = Append(sent, Record), UNCHANGED <<req, before, upActive>>,
           pc' \in {"wait", "await", "arm"}
    PROVE  CallInv'
<1> USE DEF CallInv
<1>1. /\ Len(sent') = Len(sent) + 1 /\ Len(sent) \in Nat
      /\ DOMAIN sent = 1 .. Len(sent) /\ DOMAIN sent' = 1 .. (Len(sent) + 1)
      /\ \A i \in 1 .. Len(sent) : sent'[i] = sent[i]
      /\ sent'[Len(sent) + 1] = Record
      /\ SentType'
  BY SentGrows
<1>2. PcType' /\ LatchInv' /\ OpInv'
  BY DEF PcType, LatchInv, OpInv, Preparing, Awaiting
<1>3. ReqType' /\ HopInv' /\ RetryInv'
  BY DEF ReqType, HopInv, RetryInv
<1>4. PairInv'
  BY <1>1 DEF PairInv, AttemptInv, Working, Preparing, LatchInv, ReqType, RetryInv, Record
<1>5. AttemptInv'
  BY <1>1 DEF AttemptInv, Working, Preparing, Awaiting, LatchInv, ReqType, RetryInv, Record
<1>6. RedirectsAreSafe'
  BY <1>1 DEF RedirectsAreSafe, HopInv, Record
<1> QED  BY <1>1, <1>2, <1>3, <1>4, <1>5, <1>6

\* The connection stays as it is, and so does whether the client is inside a body.
LEMMA ConnKept ==
    ASSUME ConnInv, UNCHANGED <<conn, link, server, malformed>>, lapses \subseteq lapses',
           upActive' \in BOOLEAN,
           (upActive' \/ pc' \in {"arm", "terminator"}) <=> (upActive \/ pc \in {"arm", "terminator"})
    PROVE  ConnInv'
  BY DEF ConnInv, LinkType, ServerType, FrameInv

\* The transport goes; what its server has seen does not matter any more.
LEMMA ConnDropped ==
    ASSUME ConnInv, DropTransport, UNCHANGED <<server, malformed>>, lapses \subseteq lapses'
    PROVE  ConnInv'
<1>1. LinkType'
  BY DEF ConnInv, LinkType, DropTransport
<1>2. ServerType'
  BY DEF ConnInv, ServerType
<1>3. conn' = 0 /\ 0 \notin Conns
  BY DEF DropTransport, Conns
<1>4. \A t \in Conns : link'[t] = "none" => link[t] = "none"
  BY DEF DropTransport
<1>5. FrameInv'
  BY <1>3, <1>4 DEF ConnInv, FrameInv
<1> QED  BY <1>1, <1>2, <1>5 DEF ConnInv

-----------------------------------------------------------------------------
(* Every action keeps the invariant. *)

LEMMA StartRequestInv ==
    ASSUME HttpInv, StartRequest
    PROVE  HttpInv'
<1> USE HttpAssumption DEF HttpInv, StartRequest, GiveUp, Finished, Diverted, driver, state,
       transport, stream, counts
<1>1. CallInv'
  <2>1. CASE upActive
    BY <2>1, CallOutside
  <2>2. CASE ~upActive
    BY <2>2, CallPrepares DEF Preparing
  <2> QED  BY <2>1, <2>2
<1>2. ConnInv'
  BY ConnKept DEF ConnInv, LinkType
<1> QED  BY <1>1, <1>2

LEMMA EnsureConnectedInv ==
    ASSUME HttpInv, EnsureConnected
    PROVE  HttpInv'
<1> USE HttpAssumption DEF HttpInv, EnsureConnected, driver, state, transport, stream, counts
<1>1. CallInv'
  BY CallPrepares DEF Preparing, Awaiting, CallInv, LatchInv, KeepTransport, DropTransport
<1>2. ConnInv'
  <2>1. CASE DropTransport
    BY <2>1, ConnDropped
  <2>2. CASE KeepTransport
    BY <2>2, ConnKept DEF KeepTransport, ConnInv, LinkType
  <2> QED  BY <2>1, <2>2
<1> QED  BY <1>1, <1>2

LEMMA CreateTransportInv ==
    ASSUME HttpInv, CreateTransport
    PROVE  HttpInv'
<1> USE HttpAssumption DEF HttpInv, CreateTransport, driver, state, transport, stream, counts
<1>1. CallInv'
  BY CallPrepares DEF Preparing, Awaiting, CallInv, LatchInv
<1>2. ConnInv'
  <2>1. ~upActive
    BY DEF CallInv, LatchInv, Preparing, Awaiting
  <2> QED  BY <2>1 DEF ConnInv, LinkType, ServerType, FrameInv, Conns
<1> QED  BY <1>1, <1>2

LEMMA CreateFailsInv ==
    ASSUME HttpInv, CreateFails
    PROVE  HttpInv'
<1> USE HttpAssumption DEF HttpInv, CreateFails, GiveUp, Finished, driver, state, transport,
       stream, counts
<1>1. CallInv'
  BY CallOutside
<1>2. ConnInv'
  BY ConnKept DEF ConnInv, LinkType
<1> QED  BY <1>1, <1>2

LEMMA ResetRequestInv ==
    ASSUME HttpInv, ResetRequest
    PROVE  HttpInv'
<1> USE HttpAssumption DEF HttpInv, ResetRequest, driver, state, transport, stream, counts
<1>1. CallInv'
  BY CallPrepares DEF Preparing, Awaiting, CallInv, LatchInv
<1>2. ConnInv'
  BY ConnKept DEF CallInv, LatchInv, Preparing, Awaiting
<1> QED  BY <1>1, <1>2

LEMMA SendRequestInv ==
    ASSUME HttpInv, SendRequest
    PROVE  HttpInv'
<1> USE HttpAssumption DEF HttpInv, SendRequest, driver, state, transport, stream, counts
<1>1. CallInv'
  BY CallSends
<1>2. ConnInv'
  <2>0. before + Len(sent) + 1 \in Nat
    BY DEF CallInv, SentType
  <2>1. conn \in Conns /\ (link[conn] = "open" => ServerTakes(conn, "head", before + Len(sent) + 1))
    BY DEF Send, CanSend, ConnInv, LinkType
  <2>2. LinkType'
    BY DEF ConnInv, LinkType
  <2>3. CASE link[conn] = "open"
    <3>1. /\ ServerType'
          /\ \A u \in Conns : u # conn => server'[u] = server[u]
          /\ server'[conn].inBody <=> req.op = "Upload"
          /\ malformed' => malformed \/ server[conn].inBody
      BY <2>1, <2>3, <2>0, ServerTakesFacts DEF ConnInv
    <3> SUFFICES ASSUME "unended" \notin lapses  PROVE FrameInv'
      BY <2>2, <3>1 DEF ConnInv, FrameInv
    <3>2. server[conn].inBody <=> (upActive \/ pc \in {"arm", "terminator"})
      BY <2>1, <2>3 DEF ConnInv, FrameInv
    <3>3. ~upActive /\ pc = "send" /\ req.op \in Operations
      BY DEF CallInv, LatchInv, OpInv, Preparing, Awaiting
    <3>4. ~malformed'
      BY <3>1, <3>2, <3>3 DEF ConnInv, FrameInv
    <3>5. \A t \in Conns : link[t] = "none" => ~server'[t].inBody
      BY <2>3, <3>1 DEF ConnInv, FrameInv
    <3>6. server'[conn].inBody <=> (upActive' \/ pc' \in {"arm", "terminator"})
      BY <3>1, <3>2, <3>3 DEF Operations
    <3> QED  BY <3>4, <3>5, <3>6 DEF FrameInv
  <2>4. CASE link[conn] # "open"
    <3>1. UNCHANGED <<server, malformed, conn, link, lapses>>
      BY <2>4 DEF Send
    <3> QED  BY <2>1, <2>2, <2>4, <3>1 DEF ConnInv, ServerType, FrameInv
  <2> QED  BY <2>3, <2>4
<1> QED  BY <1>1, <1>2

LEMMA SendFailsInv ==
    ASSUME HttpInv, SendFails
    PROVE  HttpInv'
<1> USE HttpAssumption DEF HttpInv, SendFails, driver, state, transport, stream, counts
<1>1. CallInv'
  <2>1. PICK lost \in BOOLEAN : RepeatOrGiveUp(lost)
    OBVIOUS
  <2>2. CASE UNCHANGED sent
    BY <2>1, <2>2, CallRepeats DEF DropTransport
  <2>3. CASE sent' = Append(sent, Record)
    <3>1. /\ Len(sent') = Len(sent) + 1 /\ Len(sent) \in Nat
          /\ DOMAIN sent = 1 .. Len(sent) /\ DOMAIN sent' = 1 .. (Len(sent) + 1)
          /\ \A i \in 1 .. Len(sent) : sent'[i] = sent[i]
          /\ sent'[Len(sent) + 1] = Record
          /\ SentType'
      BY <2>3, SentGrows DEF CallInv
    <3>2. \/ /\ pc' = "start" /\ req.attempt = 0 /\ req.method = "GET"
             /\ DOMAIN req' = DOMAIN req /\ req'.op = req.op
             /\ req'.method = req.method /\ req'.host = req.host /\ req'.home = req.home
             /\ req'.creds = req.creds /\ req'.hop = req.hop /\ req'.attempt = 1
          \/ pc' = "idle" /\ req' = NoRequest
      BY <2>1, RepeatFacts DEF CallInv
    <3>3. ~upActive'
      BY DEF DropTransport
    <3> USE DEF CallInv
    <3>4. PcType' /\ LatchInv' /\ OpInv'
      BY <3>2, <3>3 DEF PcType, LatchInv, OpInv, Preparing, Awaiting
    <3>5. ReqType'
      <4>1. CASE req' = NoRequest
        BY <4>1, ReqKept
      <4>2. CASE req' # NoRequest
        BY <3>2, <4>2 DEF ReqType
      <4> QED  BY <4>1, <4>2
    <3>6. HopInv' /\ RetryInv'
      BY <3>2 DEF HopInv, RetryInv, NoRequest
    <3>7. ~upActive /\ \A i \in DOMAIN sent : sent[i].hop = req.hop =>
              i = Len(sent) /\ req.attempt = 1 /\ sent[i].method = "GET" /\ req.method = "GET"
      BY DEF AttemptInv, Working, Preparing, Awaiting, LatchInv, ReqType, RetryInv, SentType
    <3>8. Record.hop = req.hop /\ Record.method = req.method
      BY DEF Record
    <3>9. PairInv'
      <4> SUFFICES ASSUME NEW i \in DOMAIN sent', NEW j \in DOMAIN sent', i < j,
                          sent'[i].hop = sent'[j].hop
                   PROVE  j = i + 1 /\ sent'[i].method = "GET" /\ sent'[j].method = "GET"
        BY DEF PairInv
      <4>1. i \in 1 .. Len(sent)
        BY <3>1
      <4>2. CASE j \in 1 .. Len(sent)
        BY <3>1, <4>1, <4>2 DEF PairInv
      <4>3. CASE j = Len(sent) + 1
        BY <3>1, <3>7, <3>8, <4>1, <4>3
      <4> QED  BY <3>1, <4>2, <4>3
    <3>10. AttemptInv'
      BY <3>1, <3>2, <3>7, <3>8 DEF AttemptInv, Working, Preparing, Awaiting, ReqType
    <3>11. RedirectsAreSafe'
      BY <3>1 DEF RedirectsAreSafe, HopInv, Record
    <3> QED  BY <3>1, <3>4, <3>5, <3>6, <3>9, <3>10, <3>11, SMTT(30)
  <2> QED  BY <2>2, <2>3
<1>2. ConnInv'
  BY ConnDropped
<1> QED  BY <1>1, <1>2

LEMMA ExecuteDoneInv ==
    ASSUME HttpInv, ExecuteDone
    PROVE  HttpInv'
<1> USE HttpAssumption DEF HttpInv, ExecuteDone, driver, state, transport, stream, counts
<1>1. CallInv'
  <2>1. CASE pc' = "done" /\ UNCHANGED req
    <3>1. upActive' => upActive
      BY DEF KeepTransport, DropTransport
    <3> QED  BY <2>1, <3>1 DEF CallInv, PcType, ReqType, SentType, HopInv, LatchInv, OpInv, PairInv,
               AttemptInv, Working, RetryInv, RedirectsAreSafe, Preparing, Awaiting
  <2>2. CASE pc' = "idle" /\ req' = NoRequest
    BY <2>2, CallOutside
  <2>3. CASE pc' = "start" /\ req' = Redirected /\ Follows /\ ~(req.hop >= MaxRedirects)
    BY <2>3, CallRedirected DEF Awaiting, KeepTransport, DropTransport
  <2> QED  BY <2>1, <2>2, <2>3 DEF Finished
<1>2. ConnInv'
  <2>1. CASE DropTransport
    BY <2>1, ConnDropped
  <2>2. CASE KeepTransport
    <3>1. pc' \in {"done", "idle", "start"} /\ UNCHANGED upActive
      BY <2>2 DEF KeepTransport, Finished
    <3> QED  BY <2>2, <3>1, ConnKept DEF KeepTransport, ConnInv, LinkType
  <2> QED  BY <2>1, <2>2
<1> QED  BY <1>1, <1>2

LEMMA ExecuteFailsInv ==
    ASSUME HttpInv, ExecuteFails
    PROVE  HttpInv'
<1> USE HttpAssumption DEF HttpInv, ExecuteFails, driver, state, transport, stream, counts
<1>1. CallInv'
  BY CallRepeats DEF Awaiting, DropTransport
<1>2. ConnInv'
  BY ConnDropped
<1> QED  BY <1>1, <1>2

LEMMA ExecuteReturnsInv ==
    ASSUME HttpInv, ExecuteReturns
    PROVE  HttpInv'
<1> USE HttpAssumption DEF HttpInv, ExecuteReturns, Finished, driver, state, transport, stream,
       counts
<1>1. CallInv'
  BY CallOutside
<1>2. ConnInv'
  BY ConnKept DEF ConnInv, LinkType
<1> QED  BY <1>1, <1>2

LEMMA OpenDoneInv ==
    ASSUME HttpInv, OpenDone
    PROVE  HttpInv'
<1> USE HttpAssumption DEF HttpInv, OpenDone, driver, state, transport, stream, counts
<1>1. CallInv'
  <2>1. CASE pc' = "idle" /\ req' = NoRequest
    BY <2>1, CallOutside
  <2>2. CASE pc' = "start" /\ req' = Redirected /\ Follows /\ ~(req.hop >= MaxRedirects)
    BY <2>2, CallRedirected DEF Awaiting, KeepTransport, DropTransport
  <2> QED  BY <2>1, <2>2 DEF Finished
<1>2. ConnInv'
  <2>1. CASE DropTransport
    BY <2>1, ConnDropped
  <2>2. CASE KeepTransport /\ Finished
    BY <2>2, ConnKept DEF KeepTransport, Finished, ConnInv, LinkType
  <2> QED  BY <2>1, <2>2
<1> QED  BY <1>1, <1>2

LEMMA OpenFailsInv ==
    ASSUME HttpInv, OpenFails
    PROVE  HttpInv'
<1> USE HttpAssumption DEF HttpInv, OpenFails, Finished, driver, state, transport, stream, counts
<1>1. CallInv'
  BY CallOutside
<1>2. ConnInv'
  BY ConnKept DEF ConnInv, LinkType
<1> QED  BY <1>1, <1>2

LEMMA ReadInv ==
    ASSUME HttpInv, Read
    PROVE  HttpInv'
<1> USE HttpAssumption DEF HttpInv, Read, driver, state, transport, stream, counts
<1>1. CallInv'
  BY CallKept
<1>2. ConnInv'
  BY ConnKept DEF ConnInv, LinkType
<1> QED  BY <1>1, <1>2

LEMMA ReadEndInv ==
    ASSUME HttpInv, ReadEnd
    PROVE  HttpInv'
<1> USE HttpAssumption DEF HttpInv, ReadEnd, driver, state, transport, stream, counts
<1>1. CallInv'
  BY CallKept
<1>2. ConnInv'
  BY ConnKept DEF ConnInv, LinkType
<1> QED  BY <1>1, <1>2

LEMMA CloseInv ==
    ASSUME HttpInv, Close
    PROVE  HttpInv'
<1> USE HttpAssumption DEF HttpInv, Close, driver, state, transport, stream, counts
<1>1. CallInv'
  BY CallOutside
<1>2. ConnInv'
  BY ConnDropped
<1> QED  BY <1>1, <1>2

LEMMA BeginChunkedUploadInv ==
    ASSUME HttpInv, BeginChunkedUpload
    PROVE  HttpInv'
<1> USE HttpAssumption DEF HttpInv, BeginChunkedUpload, Finished, driver, state, transport,
       stream, counts
<1>1. CallInv'
  BY CallOutside
<1>2. ConnInv'
  BY ConnKept
<1> QED  BY <1>1, <1>2

LEMMA UploadRefusedInv ==
    ASSUME HttpInv, UploadRefused
    PROVE  HttpInv'
<1> USE HttpAssumption DEF HttpInv, UploadRefused, GiveUp, Finished, Diverted, driver, state,
       transport, stream, counts
<1>1. CallInv'
  BY CallOutside
<1>2. ConnInv'
  BY ConnKept DEF ConnInv, LinkType
<1> QED  BY <1>1, <1>2

LEMMA WriteInv ==
    ASSUME HttpInv, Write
    PROVE  HttpInv'
<1> USE HttpAssumption DEF HttpInv, Write, driver, state, transport, stream, counts
<1>1. CallInv'
  BY CallOutside
<1>2. ConnInv'
  <2>1. CASE upActive'
    BY <2>1, ConnKept DEF ConnInv, LinkType
  <2>2. CASE ~upActive'
    <3>1. upActive' = FALSE /\ "unended" \in lapses'
      BY <2>2
    <3> QED  BY <3>1 DEF ConnInv, LinkType, ServerType, FrameInv
  <2> QED  BY <2>1, <2>2
<1> QED  BY <1>1, <1>2

LEMMA SendChunkInv ==
    ASSUME HttpInv, SendChunk
    PROVE  HttpInv'
<1> USE HttpAssumption DEF HttpInv, SendChunk, Finished, driver, state, transport, stream, counts
<1>1. CallInv'
  BY CallOutside
<1>2. ConnInv'
  <2>1. conn \in Conns /\ (link[conn] = "open" => ServerTakes(conn, "chunk", 0))
    BY DEF Send, CanSend, ConnInv, LinkType
  <2>2. LinkType'
    BY DEF ConnInv, LinkType
  <2>3. CASE link[conn] = "open"
    <3>1. /\ ServerType'
          /\ \A u \in Conns : u # conn => server'[u] = server[u]
          /\ server'[conn].inBody <=> server[conn].inBody
          /\ malformed' => malformed \/ ~server[conn].inBody
      BY <2>1, <2>3, ServerTakesFacts DEF ConnInv
    <3> SUFFICES ASSUME "unended" \notin lapses  PROVE FrameInv'
      BY <2>2, <3>1 DEF ConnInv, FrameInv
    <3>2. server[conn].inBody <=> (upActive \/ pc \in {"arm", "terminator"})
      BY <2>1, <2>3 DEF ConnInv, FrameInv
    <3>3. upActive /\ pc = "chunk" /\ pc' = "idle"
      BY DEF CallInv, LatchInv, OpInv, Preparing, Awaiting
    <3>4. ~malformed'
      BY <3>1, <3>2, <3>3 DEF ConnInv, FrameInv
    <3>5. \A t \in Conns : link[t] = "none" => ~server'[t].inBody
      BY <2>3, <3>1 DEF ConnInv, FrameInv
    <3>6. server'[conn].inBody <=> (upActive' \/ pc' \in {"arm", "terminator"})
      BY <3>1, <3>2, <3>3 DEF Operations
    <3> QED  BY <3>4, <3>5, <3>6 DEF FrameInv
  <2>4. CASE link[conn] # "open"
    <3>1. UNCHANGED <<server, malformed, conn, link, lapses>>
      BY <2>4 DEF Send
    <3> QED  BY <2>1, <2>2, <2>4, <3>1 DEF ConnInv, ServerType, FrameInv
  <2> QED  BY <2>3, <2>4
<1> QED  BY <1>1, <1>2

LEMMA EndBodyInv ==
    ASSUME HttpInv, EndBody
    PROVE  HttpInv'
<1> USE HttpAssumption DEF HttpInv, EndBody, driver, state, transport, stream, counts
<1>1. CallInv'
  BY CallOutside
<1>2. ConnInv'
  BY ConnKept DEF ConnInv, LinkType
<1> QED  BY <1>1, <1>2

LEMMA SendTerminatorInv ==
    ASSUME HttpInv, SendTerminator
    PROVE  HttpInv'
<1> USE HttpAssumption DEF HttpInv, SendTerminator, driver, state, transport, stream, counts
<1>1. CallInv'
  BY CallOutside DEF CallInv, LatchInv
<1>2. ConnInv'
  <2>1. conn \in Conns /\ (link[conn] = "open" => ServerTakes(conn, "terminator", 0))
    BY DEF Send, CanSend, ConnInv, LinkType
  <2>2. LinkType'
    BY DEF ConnInv, LinkType
  <2>3. CASE link[conn] = "open"
    <3>1. /\ ServerType'
          /\ \A u \in Conns : u # conn => server'[u] = server[u]
          /\ server'[conn].inBody <=> FALSE
          /\ malformed' => malformed \/ ~server[conn].inBody
      BY <2>1, <2>3, ServerTakesFacts DEF ConnInv
    <3> SUFFICES ASSUME "unended" \notin lapses  PROVE FrameInv'
      BY <2>2, <3>1 DEF ConnInv, FrameInv
    <3>2. server[conn].inBody <=> (upActive \/ pc \in {"arm", "terminator"})
      BY <2>1, <2>3 DEF ConnInv, FrameInv
    <3>3. ~upActive /\ pc = "terminator" /\ pc' = "await_end"
      BY DEF CallInv, LatchInv, OpInv, Preparing, Awaiting
    <3>4. ~malformed'
      BY <3>1, <3>2, <3>3 DEF ConnInv, FrameInv
    <3>5. \A t \in Conns : link[t] = "none" => ~server'[t].inBody
      BY <2>3, <3>1 DEF ConnInv, FrameInv
    <3>6. server'[conn].inBody <=> (upActive' \/ pc' \in {"arm", "terminator"})
      BY <3>1, <3>2, <3>3 DEF Operations
    <3> QED  BY <3>4, <3>5, <3>6 DEF FrameInv
  <2>4. CASE link[conn] # "open"
    <3>1. UNCHANGED <<server, malformed, conn, link, lapses>>
      BY <2>4 DEF Send
    <3> QED  BY <2>1, <2>2, <2>4, <3>1 DEF ConnInv, ServerType, FrameInv
  <2> QED  BY <2>3, <2>4
<1> QED  BY <1>1, <1>2

LEMMA SendPartFailsInv ==
    ASSUME HttpInv, SendPartFails
    PROVE  HttpInv'
<1> USE HttpAssumption DEF HttpInv, SendPartFails, Finished, driver, state, transport, stream,
       counts
<1>1. CallInv'
  BY CallOutside
<1>2. ConnInv'
  BY ConnDropped
<1> QED  BY <1>1, <1>2

LEMMA EndBodyDoneInv ==
    ASSUME HttpInv, EndBodyDone
    PROVE  HttpInv'
<1> USE HttpAssumption DEF HttpInv, EndBodyDone, Finished, driver, state, transport, stream,
       counts
<1>1. CallInv'
  BY CallOutside
<1>2. ConnInv'
  <2>1. CASE DropTransport
    BY <2>1, ConnDropped
  <2>2. CASE KeepTransport
    BY <2>2, ConnKept DEF KeepTransport, ConnInv, LinkType
  <2> QED  BY <2>1, <2>2
<1> QED  BY <1>1, <1>2

LEMMA EndBodyFailsInv ==
    ASSUME HttpInv, EndBodyFails
    PROVE  HttpInv'
<1> USE HttpAssumption DEF HttpInv, EndBodyFails, Finished, driver, state, transport, stream,
       counts
<1>1. CallInv'
  BY CallOutside
<1>2. ConnInv'
  BY ConnDropped
<1> QED  BY <1>1, <1>2

LEMMA OnTransportDataInv ==
    ASSUME HttpInv, OnTransportData
    PROVE  HttpInv'
<1> USE HttpAssumption DEF HttpInv, OnTransportData, Stale, driver, state, transport, stream,
       counts
<1>1. CallInv'
  BY CallKept
<1>2. ConnInv'
  BY ConnKept DEF ConnInv, LinkType
<1> QED  BY <1>1, <1>2

LEMMA OnTransportClosedInv ==
    ASSUME HttpInv, OnTransportClosed
    PROVE  HttpInv'
<1> USE HttpAssumption DEF HttpInv, OnTransportClosed, Stale, driver, state, transport, stream,
       counts
<1>1. CallInv'
  BY CallKept
<1>2. ConnInv'
  BY ConnKept DEF ConnInv, LinkType
<1> QED  BY <1>1, <1>2

LEMMA ServerAnswersInv ==
    ASSUME NEW t \in Conns, HttpInv, ServerAnswers(t)
    PROVE  HttpInv'
<1> USE HttpAssumption DEF HttpInv, ServerAnswers, driver, state, transport, stream, counts
<1>1. CallInv'
  <2>1. PICK r \in Responses :
            sent' = [i \in DOMAIN sent |->
                        IF before + i = Head(server[t].owed) THEN [sent[i] EXCEPT !.answer = r]
                        ELSE sent[i]]
    OBVIOUS
  <2>2. Len(sent) \in Nat /\ DOMAIN sent = 1 .. Len(sent) /\ DOMAIN sent' = DOMAIN sent
    BY <2>1 DEF CallInv, SentType
  <2>3. \A i \in DOMAIN sent :
            /\ DOMAIN sent'[i] = DOMAIN sent[i]
            /\ sent'[i].hop = sent[i].hop /\ sent'[i].method = sent[i].method
            /\ sent'[i].host = sent[i].host /\ sent'[i].home = sent[i].home
            /\ sent'[i].creds = sent[i].creds
    BY <2>1 DEF CallInv, SentType
  <2>4. sent' \in Seq({sent'[i] : i \in DOMAIN sent'}) /\ Len(sent') = Len(sent)
    <3> DEFINE S == {sent'[i] : i \in DOMAIN sent'}
    <3>1. sent' \in [1 .. Len(sent) -> S]
      BY <2>1, <2>2
    <3> HIDE DEF S
    <3>2. sent' \in Seq(S) /\ Len(sent') = Len(sent)
      BY <2>2, <3>1
    <3> QED  BY <3>2 DEF S
  <2> USE DEF CallInv
  <2>5. SentType'
    BY <2>2, <2>3, <2>4 DEF SentType
  <2>6. PairInv' /\ RedirectsAreSafe'
    BY <2>2, <2>3 DEF PairInv, RedirectsAreSafe
  <2>7. AttemptInv'
    BY <2>2, <2>3, <2>4 DEF AttemptInv, Working
  <2>8. PcType' /\ ReqType' /\ HopInv' /\ LatchInv' /\ OpInv' /\ RetryInv'
    BY DEF PcType, ReqType, HopInv, LatchInv, OpInv, RetryInv
  <2> QED  BY <2>5, <2>6, <2>7, <2>8
<1>2. ConnInv'
  <2>1. server[t].owed \in Seq(Nat) /\ server[t].owed # <<>>
    BY DEF ConnInv, ServerType
  <2>2. Tail(server[t].owed) \in Seq(Nat)
    BY <2>1
  <2>3. ServerType'
    BY <2>2 DEF ConnInv, ServerType
  <2>4. LinkType' /\ FrameInv'
    BY DEF ConnInv, LinkType, ServerType, FrameInv
  <2> QED  BY <2>3, <2>4 DEF ConnInv
<1> QED  BY <1>1, <1>2

LEMMA LinkEndsInv ==
    ASSUME NEW t \in Conns, HttpInv, LinkEnds(t)
    PROVE  HttpInv'
<1> USE HttpAssumption DEF HttpInv, LinkEnds, driver, state, transport, stream, counts
<1>1. CallInv'
  BY CallKept
<1>2. ConnInv'
  BY DEF ConnInv, LinkType, ServerType, FrameInv
<1> QED  BY <1>1, <1>2

LEMMA ArriveInv ==
    ASSUME NEW t \in Conns, HttpInv, Arrive(t)
    PROVE  HttpInv'
<1> USE HttpAssumption DEF HttpInv, Arrive, driver, state, transport, stream, counts
<1>1. CallInv'
  BY CallKept
<1>2. ConnInv'
  BY DEF ConnInv, LinkType, ServerType, FrameInv
<1> QED  BY <1>1, <1>2

LEMMA BeginInv ==
    ASSUME NEW op \in Operations, NEW method, NEW host, HttpInv, Begin(op, method, host)
    PROVE  HttpInv'
<1> USE HttpAssumption DEF HttpInv, Begin, Abandoned, driver, state, transport, stream, counts
<1>1. CallInv'
  <2> USE DEF CallInv
  <2>1. PcType' /\ LatchInv' /\ OpInv'
    BY DEF PcType, LatchInv, OpInv, Preparing, Awaiting
  <2>2. ReqType' /\ HopInv' /\ RetryInv'
    BY DEF ReqType, HopInv, RetryInv
  <2>3. CASE upActive
    BY <2>1, <2>2, <2>3 DEF SentType, PairInv, AttemptInv, Working, RedirectsAreSafe
  <2>4. CASE ~upActive
    <3>1. sent' = <<>> /\ before' = before + Len(sent) /\ Len(sent) \in Nat
      BY <2>4 DEF SentType
    <3>2. DOMAIN sent' = {} /\ sent' \in Seq({sent'[i] : i \in DOMAIN sent'})
      BY <3>1
    <3>3. before' \in Nat
      BY <3>1 DEF SentType
    <3>4. SentType' /\ PairInv' /\ AttemptInv' /\ RedirectsAreSafe'
      BY <3>2, <3>3 DEF SentType, PairInv, AttemptInv, RedirectsAreSafe
    <3> QED  BY <2>1, <2>2, <3>4
  <2> QED  BY <2>3, <2>4
<1>2. ConnInv'
  BY ConnKept DEF ConnInv, LinkType
<1> QED  BY <1>1, <1>2

-----------------------------------------------------------------------------
(* The theorems. *)

LEMMA HttpInitInv == Init => HttpInv
<1> SUFFICES ASSUME Init  PROVE HttpInv
  OBVIOUS
<1>0. <<>> \in Seq(Nat) /\ MaxConns \in Nat
  BY HttpAssumption
<1>1. PcType /\ LinkType
  BY <1>0 DEF Init, PcType, LinkType, Conns
<1>6. ServerType
  BY <1>0 DEF Init, ServerType
<1>2. ReqType /\ HopInv /\ RetryInv
  BY HttpAssumption DEF Init, ReqType, HopInv, RetryInv, NoRequest
<1>3. sent = <<>> /\ DOMAIN sent = {} /\ sent \in Seq({sent[i] : i \in DOMAIN sent})
  BY DEF Init
<1>4. SentType /\ PairInv /\ AttemptInv /\ RedirectsAreSafe
  BY <1>3 DEF Init, SentType, PairInv, AttemptInv, RedirectsAreSafe
<1>5. LatchInv /\ OpInv /\ FrameInv
  BY DEF Init, LatchInv, OpInv, FrameInv, Preparing, Awaiting
<1> QED  BY <1>1, <1>2, <1>4, <1>5, <1>6 DEF HttpInv, CallInv, ConnInv

LEMMA HttpNextInv == HttpInv /\ [Next]_vars => HttpInv'
<1> SUFFICES ASSUME HttpInv, [Next]_vars  PROVE HttpInv'
  OBVIOUS
<1>1. CASE UNCHANGED vars
  BY <1>1, CallKept, ConnKept DEF vars, driver, state, transport, HttpInv, ConnInv, LinkType,
     counts
<1>2. ASSUME NEW r \in Requests, NEW host \in Hosts, Begin(r[1], r[2], host)
      PROVE  HttpInv'
  <2>1. r[1] \in Operations
    BY HttpAssumption
  <2> QED  BY <1>2, <2>1, BeginInv
<1>3. CASE Next
  BY <1>2, <1>3, Zenon, StartRequestInv, EnsureConnectedInv, CreateTransportInv, CreateFailsInv,
     ResetRequestInv, SendRequestInv, SendFailsInv, ExecuteDoneInv, ExecuteFailsInv,
     ExecuteReturnsInv, OpenDoneInv, OpenFailsInv, ReadInv, ReadEndInv, CloseInv,
     BeginChunkedUploadInv, UploadRefusedInv, WriteInv, SendChunkInv, EndBodyInv,
     SendTerminatorInv, SendPartFailsInv, EndBodyDoneInv, EndBodyFailsInv, OnTransportDataInv,
     OnTransportClosedInv, ServerAnswersInv, LinkEndsInv, ArriveInv DEF Next
<1> QED  BY <1>1, <1>3

\* The invariant that the theorems below rest on, for the whole of SoftwareHttpClient.
THEOREM HttpInvariant == Spec => []HttpInv
  BY HttpInitInv, HttpNextInv, PTL DEF Spec

\* However long a chain of redirects is, a call of SoftwareHttpClient follows at most
\* max_redirects_ of them, and ApplyRedirect never lets the credentials of the call go
\* to another origin, nor come back with a later hop.
THEOREM HttpRedirectsAreSafe == Spec => []RedirectsAreSafe
<1>1. HttpInv => RedirectsAreSafe
  BY DEF HttpInv, CallInv
<1> QED  BY <1>1, HttpInvariant, PTL

\* ExecuteAttempt sends a request that is not a GET once for each hop, and a GET at most
\* twice, whatever is lost and whenever: requests of one hop follow each other directly
\* (PairInv), so that three of them would be two apart.
THEOREM HttpRepeatsAreSafe == Spec => []RepeatsAreSafe
<1>1. HttpInv => RepeatsAreSafe
  <2> SUFFICES ASSUME HttpInv, NEW i \in DOMAIN sent
               PROVE  Cardinality({j \in DOMAIN sent : sent[j].hop = sent[i].hop})
                          <= (IF sent[i].method = "GET" THEN 2 ELSE 1)
    BY DEF RepeatsAreSafe
  <2> DEFINE same == {j \in DOMAIN sent : sent[j].hop = sent[i].hop}
  <2>1. DOMAIN sent = 1 .. Len(sent) /\ Len(sent) \in Nat
    BY DEF HttpInv, CallInv, SentType
  <2>2. \A j \in same : j # i => (j = i - 1 \/ j = i + 1) /\ sent[i].method = "GET"
    BY <2>1 DEF HttpInv, CallInv, PairInv
  <2>3. ~(i - 1 \in same /\ i + 1 \in same)
    BY <2>1 DEF HttpInv, CallInv, PairInv
  <2>4. PICK k : same \subseteq {i, k} /\ (sent[i].method # "GET" => k = i)
    <3>1. CASE sent[i].method # "GET"
      BY <2>2, <3>1
    <3>2. CASE i - 1 \in same
      BY <2>2, <2>3, <3>2
    <3>3. CASE sent[i].method = "GET" /\ i - 1 \notin same
      BY <2>2, <3>3
    <3> QED  BY <3>1, <3>2, <3>3
  <2> HIDE DEF same
  <2>5. IsFiniteSet({i}) /\ Cardinality({i}) = 1
    BY FS_Singleton
  <2>6. IsFiniteSet({i, k}) /\ Cardinality({i, k}) = (IF k = i THEN 1 ELSE 2)
    <3>1. {i, k} = {i} \cup {k}
      OBVIOUS
    <3> QED  BY <2>5, <3>1, FS_AddElement
  <2>7. Cardinality(same) <= Cardinality({i, k}) /\ IsFiniteSet(same)
    BY <2>4, <2>6, FS_Subset
  <2>8. Cardinality(same) \in Nat
    BY <2>7, FS_CardinalityType
  <2>9. Cardinality(same) <= (IF sent[i].method = "GET" THEN 2 ELSE 1)
    BY <2>4, <2>6, <2>7, <2>8
  <2> QED  BY <2>9 DEF same
<1> QED  BY <1>1, HttpInvariant, PTL

\* StartRequest, BeginChunkedUpload, Write and EndBody keep the requests on a connection
\* apart: no head goes out inside a body and no chunk outside one, for any calls, servers
\* and losses, until a Write finds the answer there and drops the rest of the body.
THEOREM HttpUploadFramed == Spec => []UploadFramed
<1>1. HttpInv => UploadFramed
  BY DEF HttpInv, ConnInv, FrameInv, UploadFramed
<1> QED  BY <1>1, HttpInvariant, PTL

-----------------------------------------------------------------------------
(* Sequences cut in two. *)

\* The elements of two sequences joined.
LEMMA JoinAt ==
    ASSUME NEW S, NEW s \in Seq(S), NEW t \in Seq(S)
    PROVE  /\ s \o t \in Seq(S)
           /\ Len(s) \in Nat /\ Len(t) \in Nat /\ Len(s \o t) = Len(s) + Len(t)
           /\ \A i \in 1 .. Len(s) : (s \o t)[i] = s[i]
           /\ \A i \in 1 .. Len(t) : (s \o t)[Len(s) + i] = t[i]
<1>1. Len(s) \in Nat /\ Len(t) \in Nat
  OBVIOUS
<1>2. s \o t \in Seq(S) /\ Len(s \o t) = Len(s) + Len(t)
  OBVIOUS
<1>3. ASSUME NEW i \in 1 .. Len(s) PROVE (s \o t)[i] = s[i]
  BY <1>1
<1>4. ASSUME NEW i \in 1 .. Len(t) PROVE (s \o t)[Len(s) + i] = t[i]
  BY <1>1
<1> QED  BY <1>1, <1>2, <1>3, <1>4

\* Joining is associative.
Assoc(s, t, u) == (s \o t) \o u = s \o (t \o u)

LEMMA JoinAssoc ==
    ASSUME NEW S, NEW s \in Seq(S), NEW t \in Seq(S), NEW u \in Seq(S)
    PROVE  Assoc(s, t, u)
  BY DEF Assoc

\* Five sequences joined from either side.
Rejoined(s, t, u, v, w) == s \o t \o u \o v \o w = s \o (t \o (u \o (v \o w)))

LEMMA JoinFive ==
    ASSUME NEW S, NEW s \in Seq(S), NEW t \in Seq(S), NEW u \in Seq(S), NEW v \in Seq(S),
           NEW w \in Seq(S)
    PROVE  Rejoined(s, t, u, v, w)
<1>1. s \o t \in Seq(S) /\ (s \o t) \o u \in Seq(S)
      /\ v \o w \in Seq(S) /\ u \o (v \o w) \in Seq(S)
  OBVIOUS
<1>2. Assoc(s \o t \o u, v, w)
  BY <1>1, JoinAssoc
<1>3. Assoc(s \o t, u, v \o w)
  BY <1>1, JoinAssoc
<1>4. Assoc(s, t, u \o (v \o w))
  BY <1>1, JoinAssoc
<1> QED  BY <1>2, <1>3, <1>4, Zenon DEF Assoc, Rejoined

\* A sequence is what comes before a cut and what comes behind it.
LEMMA CutSeq ==
    ASSUME NEW S, NEW b \in Seq(S), NEW m \in 0 .. Len(b)
    PROVE  /\ SubSeq(b, 1, m) \in Seq(S) /\ SubSeq(b, m + 1, Len(b)) \in Seq(S)
           /\ Len(SubSeq(b, 1, m)) = m /\ Len(SubSeq(b, m + 1, Len(b))) = Len(b) - m
           /\ SubSeq(b, 1, m) \o SubSeq(b, m + 1, Len(b)) = b
<1>1. Len(b) \in Nat /\ m \in Nat /\ m <= Len(b)
  OBVIOUS
<1>2. SubSeq(b, 1, m) \in Seq(S) /\ Len(SubSeq(b, 1, m)) = m
      /\ \A i \in 1 .. m : SubSeq(b, 1, m)[i] = b[i]
  BY <1>1
<1>3. /\ SubSeq(b, m + 1, Len(b)) \in Seq(S) /\ Len(SubSeq(b, m + 1, Len(b))) = Len(b) - m
      /\ \A i \in 1 .. Len(b) - m : SubSeq(b, m + 1, Len(b))[i] = b[m + i]
  BY <1>1
<1>4. 1 \in 1 .. Len(b) + 1 /\ m \in 1 - 1 .. Len(b) /\ Len(b) \in m .. Len(b)
  BY <1>1
<1>5. \A i \in 1 .. Len(b) + 1 : \A k \in i - 1 .. Len(b) : \A n \in k .. Len(b) :
         SubSeq(b, i, k) \o SubSeq(b, k + 1, n) = SubSeq(b, i, n)
  BY ConcatAdjacentSubSeq, Zenon
<1>6. SubSeq(b, 1, m) \o SubSeq(b, m + 1, Len(b)) = b
  BY <1>1, <1>4, <1>5, SubSeqFull
<1> QED  BY <1>2, <1>3, <1>6

\* b and y together are a and u together.
SameJoin(b, y, a, u) == b \o y = a \o u

\* What is left of b behind its first m elements begins u, and y is the rest of u.
LeftOf(S, b, m, y, u) ==
    SubSeq(b, m + 1, Len(b)) \in Seq(S) /\ SubSeq(b, m + 1, Len(b)) \o y = u

\* Two cuts of one sequence: the shorter part in front begins the longer one.
LEMMA CutTwice ==
    ASSUME NEW S, NEW a \in Seq(S), NEW u \in Seq(S), NEW b \in Seq(S), NEW y \in Seq(S)
    PROVE  SameJoin(b, y, a, u) =>
           /\ \A i \in 1 .. Len(a) : i <= Len(b) => b[i] = a[i]
           /\ Len(a) <= Len(b) => LeftOf(S, b, Len(a), y, u)
           /\ Len(b) + Len(y) = Len(a) + Len(u)
<1>0. ASSUME NEW d \in Seq(S) PROVE (a \o d) \o y = a \o u => d \o y = u
  <2>1. (a \o d) \o y = a \o (d \o y)
    <3>1. Assoc(a, d, y)
      BY JoinAssoc
    <3> QED  BY <3>1, Zenon DEF Assoc
  <2>2. d \o y \in Seq(S)
    OBVIOUS
  <2>3. a \o (d \o y) = a \o u => d \o y = u
    BY <2>2, ConcatSimplifications
  <2> QED  BY <2>1, <2>3
<1>5. Len(b \o y) = Len(b) + Len(y) /\ Len(a \o u) = Len(a) + Len(u)
  OBVIOUS
<1> HAVE SameJoin(b, y, a, u)
<1>6. b \o y = a \o u
  BY Zenon DEF SameJoin
<1>1. Len(a) \in Nat /\ Len(b) \in Nat
  OBVIOUS
<1>2. ASSUME NEW i \in 1 .. Len(a), i <= Len(b) PROVE b[i] = a[i]
  <2>1. (b \o y)[i] = b[i] /\ (a \o u)[i] = a[i]
    BY <1>1, <1>2
  <2> QED  BY <1>6, <2>1
<1>3. ASSUME Len(a) <= Len(b)
      PROVE  LeftOf(S, b, Len(a), y, u)
  <2> DEFINE c == SubSeq(b, 1, Len(a))
             d == SubSeq(b, Len(a) + 1, Len(b))
  <2>1. Len(a) \in 0 .. Len(b)
    BY <1>1, <1>3
  <2>2. c \in Seq(S) /\ d \in Seq(S) /\ Len(c) = Len(a) /\ c \o d = b
    BY <2>1, CutSeq
  <2>3. \A i \in 1 .. Len(c) : c[i] = a[i]
    BY <1>1, <1>2, <1>3, <2>1
  <2>4. c = a
    BY <2>2, <2>3, SeqEqual
  <2> HIDE DEF c, d
  <2>5. (a \o d) \o y = a \o u
    BY <1>6, <2>2, <2>4
  <2>8. d \o y = u
    BY <1>0, <2>2, <2>5
  <2> QED  BY <2>2, <2>8 DEF d, LeftOf
<1>7. Len(b) + Len(y) = Len(a) + Len(u)
  BY <1>5, <1>6
<1> QED  BY <1>2, <1>3, <1>7

\* What begins with something that is all there is of it.
LEMMA CutEmpty ==
    ASSUME NEW S, NEW b \in Seq(S), NEW y \in Seq(S), b \o y = <<>>
    PROVE  b = <<>> /\ y = <<>>
  BY ConcatSimplifications

-----------------------------------------------------------------------------
(* TakeLine. *)

\* A set of numbers with a lowest one has it for its Least.
LEMMA LeastIs ==
    ASSUME NEW S \in SUBSET Nat, NEW m \in S, \A j \in S : m <= j
    PROVE  Least(S) = m
<1>1. \A i \in S : (\A j \in S : i <= j) => i = m
  OBVIOUS
<1>2. \E i \in S : \A j \in S : i <= j
  OBVIOUS
<1>3. Least(S) \in S /\ \A j \in S : Least(S) <= j
  BY <1>2, Zenon DEF Least
<1> QED  BY <1>1, <1>3

\* What TakeLine makes of l tokens of a line and what there is of the CR LF behind them.
LEMMA TakeCrlf ==
    ASSUME NEW S, NEW b \in Seq(S), NEW l \in Nat,
           \A i \in 1 .. l : i <= Len(b) => b[i].k \notin {"CR", "LF"},
           l + 1 <= Len(b) => b[l + 1].k = "CR",
           l + 2 <= Len(b) => b[l + 2].k = "LF"
    PROVE  IF l + 2 <= Len(b)
           THEN TakeLine(b).line = SubSeq(b, 1, l) /\ TakeLine(b).n = l + 2
           ELSE TakeLine(b).n = 0
<1> DEFINE crlf == Crlf(b)
           lf == {i \in 1 .. Len(b) : b[i].k = "LF"}
<1>0. Len(b) \in Nat
  OBVIOUS
<1>t. TakeLine(b) =
        CASE crlf # {} -> [line |-> SubSeq(b, 1, Least(crlf) - 1), n |-> Least(crlf) + 1]
          [] crlf = {} /\ lf # {} -> [line |-> SubSeq(b, 1, Least(lf) - 1), n |-> Least(lf)]
          [] OTHER -> [line |-> <<>>, n |-> 0]
  BY DEF TakeLine
<1>d. crlf = {i \in 1 .. Len(b) - 1 : b[i].k = "CR" /\ b[i + 1].k = "LF"}
  BY DEF Crlf
<1> HIDE DEF crlf
<1>1. CASE l + 2 <= Len(b)
  <2>1. l + 1 \in 1 .. Len(b) - 1 /\ b[l + 1].k = "CR" /\ b[(l + 1) + 1].k = "LF"
    BY <1>0, <1>1
  <2>2. l + 1 \in crlf
    BY <1>d, <2>1
  <2>3. ASSUME NEW j \in crlf PROVE l + 1 <= j
    <3>1. j \in 1 .. Len(b) - 1 /\ b[j].k = "CR"
      BY <1>d
    <3>2. CASE j <= l
      BY <1>0, <3>1, <3>2
    <3> QED  BY <1>0, <3>1, <3>2
  <2>4. crlf \in SUBSET Nat
    BY <1>0, <1>d
  <2> HIDE DEF lf
  <2>5. Least(crlf) = l + 1
    BY <2>2, <2>3, <2>4, LeastIs
  <2>6. TakeLine(b) = [line |-> SubSeq(b, 1, (l + 1) - 1), n |-> (l + 1) + 1]
    BY <1>t, <2>2, <2>5
  <2>7. (l + 1) - 1 = l /\ (l + 1) + 1 = l + 2
    OBVIOUS
  <2> QED  BY <1>1, <2>6, <2>7
<1>2. CASE ~(l + 2 <= Len(b))
  <2>1. \A i \in 1 .. Len(b) : i <= l \/ i = l + 1
    BY <1>0, <1>2
  <2>2. lf = {}
    BY <1>0, <2>1
  <2>3. crlf = {}
    <3>1. \A i \in 1 .. Len(b) - 1 : i \in 1 .. l /\ i <= Len(b)
      BY <1>0, <1>2
    <3> QED  BY <1>d, <3>1
  <2> HIDE DEF lf
  <2>4. TakeLine(b) = [line |-> <<>>, n |-> 0]
    BY <1>t, <2>2, <2>3
  <2> QED  BY <1>2, <2>4
<1> QED  BY <1>1, <1>2

\* No CR LF anywhere in s.
NoPair(s) == Crlf(s) = {}

\* Of a sequence without CR LF, every part is without it.
LEMMA NoPairParts ==
    ASSUME NEW S, NEW s \in Seq(S), NEW t \in Seq(S), NoPair(s \o t)
    PROVE  NoPair(s) /\ NoPair(t)
<1> DEFINE j == s \o t
<1>1. /\ j \in Seq(S) /\ Len(s) \in Nat /\ Len(t) \in Nat /\ Len(j) = Len(s) + Len(t)
      /\ \A i \in 1 .. Len(s) : j[i] = s[i]
      /\ \A i \in 1 .. Len(t) : j[Len(s) + i] = t[i]
  BY JoinAt
<1>2. \A i \in 1 .. Len(j) - 1 : ~(j[i].k = "CR" /\ j[i + 1].k = "LF")
  BY DEF NoPair, Crlf
<1> HIDE DEF j
<1>3. ASSUME NEW i \in 1 .. Len(s) - 1 PROVE ~(s[i].k = "CR" /\ s[i + 1].k = "LF")
  <2>1. i \in 1 .. Len(j) - 1 /\ i \in 1 .. Len(s) /\ i + 1 \in 1 .. Len(s)
    BY <1>1
  <2>2. j[i] = s[i] /\ j[i + 1] = s[i + 1]
    BY <1>1, <2>1
  <2> QED  BY <1>2, <2>1, <2>2
<1>4. ASSUME NEW i \in 1 .. Len(t) - 1 PROVE ~(t[i].k = "CR" /\ t[i + 1].k = "LF")
  <2>1. /\ Len(s) + i \in 1 .. Len(j) - 1 /\ i \in 1 .. Len(t) /\ i + 1 \in 1 .. Len(t)
        /\ Len(s) + (i + 1) = (Len(s) + i) + 1
    BY <1>1
  <2>2. j[Len(s) + i] = t[i] /\ j[(Len(s) + i) + 1] = t[i + 1]
    BY <1>1, <2>1
  <2> QED  BY <1>2, <2>1, <2>2
<1> QED  BY <1>3, <1>4 DEF NoPair, Crlf

\* The same where lines end in LF alone and there is no CR LF.
LEMMA TakeLf ==
    ASSUME NEW S, NEW b \in Seq(S), NEW l \in Nat,
           \A i \in 1 .. l : i <= Len(b) => b[i].k # "LF",
           NoPair(b),
           l + 1 <= Len(b) => b[l + 1].k = "LF"
    PROVE  IF l + 1 <= Len(b)
           THEN TakeLine(b).line = SubSeq(b, 1, l) /\ TakeLine(b).n = l + 1
           ELSE TakeLine(b).n = 0
<1> DEFINE crlf == Crlf(b)
           lf == {i \in 1 .. Len(b) : b[i].k = "LF"}
<1>0. Len(b) \in Nat
  OBVIOUS
<1>t. TakeLine(b) =
        CASE crlf # {} -> [line |-> SubSeq(b, 1, Least(crlf) - 1), n |-> Least(crlf) + 1]
          [] crlf = {} /\ lf # {} -> [line |-> SubSeq(b, 1, Least(lf) - 1), n |-> Least(lf)]
          [] OTHER -> [line |-> <<>>, n |-> 0]
  BY DEF TakeLine
<1>c. crlf = {}
  BY DEF NoPair
<1>1. CASE l + 1 <= Len(b)
  <2>1. l + 1 \in 1 .. Len(b) /\ b[l + 1].k = "LF"
    BY <1>0, <1>1
  <2>2. l + 1 \in lf
    BY <2>1
  <2>3. ASSUME NEW j \in lf PROVE l + 1 <= j
    <3>1. j \in 1 .. Len(b) /\ b[j].k = "LF"
      OBVIOUS
    <3>2. CASE j <= l
      BY <1>0, <3>1, <3>2
    <3> QED  BY <1>0, <3>1, <3>2
  <2>4. lf \in SUBSET Nat
    BY <1>0
  <2> HIDE DEF crlf, lf
  <2>5. Least(lf) = l + 1
    BY <2>2, <2>3, <2>4, LeastIs
  <2>6. TakeLine(b) = [line |-> SubSeq(b, 1, (l + 1) - 1), n |-> l + 1]
    BY <1>t, <1>c, <2>2, <2>5
  <2>7. (l + 1) - 1 = l
    OBVIOUS
  <2> QED  BY <1>1, <2>6, <2>7
<1>2. CASE ~(l + 1 <= Len(b))
  <2>1. \A i \in 1 .. Len(b) : i \in 1 .. l /\ i <= Len(b)
    BY <1>0, <1>2
  <2>2. lf = {}
    BY <2>1
  <2> HIDE DEF crlf, lf
  <2>4. TakeLine(b) = [line |-> <<>>, n |-> 0]
    BY <1>t, <1>c, <2>2
  <2> QED  BY <1>2, <2>4
<1> QED  BY <1>1, <1>2

-----------------------------------------------------------------------------
(***************************************************************************)
(* The response.  A rendered response is a status line, a Location or      *)
(* none, a line that announces the body, a blank line, and the body.       *)
(***************************************************************************)
\* The bytes of the body.
Size(r) == Len(r.body)

LastChunk(r, n) == Line("size", 0, r.chunkEol, n) \o Eol(r.chunkEol, n)

FromData(r, n) == Bytes(r, n) \o (Eol(r.chunkEol, n) \o LastChunk(r, n))

FromSize(r, n) ==
    IF Size(r) = 0 THEN LastChunk(r, n) ELSE Line("size", Size(r), r.chunkEol, n) \o FromData(r, n)

FromBody(r, n) == IF r.framing = "chunked" THEN FromSize(r, n) ELSE Bytes(r, n)

FromBlank(r, n) == Eol(r.eol, n) \o FromBody(r, n)

AnnouncedKind(r) ==
    CASE r.framing = "length" -> "length" [] r.framing = "chunked" -> "chunked" [] OTHER -> "field"

AnnouncedSize(r) == IF r.framing = "length" THEN Size(r) ELSE 0

FromAnnounced(r, n) == Line(AnnouncedKind(r), AnnouncedSize(r), r.eol, n) \o FromBlank(r, n)

FromHeaders(r, n) ==
    IF r.to = 0 THEN FromAnnounced(r, n)
    ELSE Line("location", r.to, r.eol, n) \o FromAnnounced(r, n)

\* What the parser p has in its buffer and y, which it has not got yet, are that part of
\* the response; or they are with what it has made of the body.
Ahead(p, y, part) == p.buffer \o y = part
Around(p, y, part) == p.body \o (p.buffer \o y) = part

\* What the parser p has made of response r to request n, when it has not got y yet: one
\* disjunct for each place in the response it can be at.
AtStatus(p, r, n, y) ==
    /\ p.state = "status" /\ ~p.chunked /\ ~p.hasLength /\ p.body = <<>>
    /\ Ahead(p, y, Rendered(r, n))

AtHeaders(p, r, n, y) ==
    /\ p.state = "headers" /\ p.body = <<>>
    /\ \/ /\ ~p.chunked /\ ~p.hasLength
          /\ Ahead(p, y, FromHeaders(r, n)) \/ Ahead(p, y, FromAnnounced(r, n))
       \/ /\ p.chunked <=> r.framing = "chunked"
          /\ p.hasLength <=> r.framing = "length"
          /\ p.hasLength => p.length = Size(r)
          /\ Ahead(p, y, FromBlank(r, n))

AtBody(p, r, n, y) ==
    /\ p.state = "body" /\ ~p.chunked
    /\ \/ /\ r.framing = "length" /\ p.hasLength
          /\ p.remaining > 0 /\ Len(p.body) + p.remaining = Size(r)
          /\ Around(p, y, Bytes(r, n))
       \/ r.framing = "close" /\ ~p.hasLength /\ p.remaining = 0

AtSize(p, r, n, y) ==
    /\ p.state = "size" /\ r.framing = "chunked"
    /\ \/ p.body = <<>> /\ Ahead(p, y, FromSize(r, n))
       \/ p.body = Bytes(r, n) /\ Ahead(p, y, LastChunk(r, n))

AtData(p, r, n, y) ==
    /\ p.state = "data" /\ r.framing = "chunked"
    /\ p.remaining > 0 /\ Len(p.body) + p.remaining = Size(r)
    /\ Around(p, y, FromData(r, n))

AtDataEnd(p, r, n, y) ==
    /\ p.state = "data_end" /\ r.framing = "chunked"
    /\ p.body = Bytes(r, n) /\ Ahead(p, y, Eol(r.chunkEol, n) \o LastChunk(r, n))

AtTrailer(p, r, n, y) ==
    /\ p.state = "trailer" /\ r.framing = "chunked"
    /\ p.body = Bytes(r, n) /\ Ahead(p, y, Eol(r.chunkEol, n))

AtEnd(p, r, n, y) ==
    /\ p.state = "complete" /\ r.framing # "close"
    /\ p.body = Bytes(r, n) /\ p.buffer = <<>> /\ y = <<>>

PastStatus(p, r, n, y) ==
    \/ AtHeaders(p, r, n, y) \/ AtBody(p, r, n, y) \/ AtSize(p, r, n, y) \/ AtData(p, r, n, y)
    \/ AtDataEnd(p, r, n, y) \/ AtTrailer(p, r, n, y) \/ AtEnd(p, r, n, y)

Stage(p, r, n, y) ==
    \/ AtStatus(p, r, n, y)
    \/ p.status = r.status /\ p.of = n /\ PastStatus(p, r, n, y)

-----------------------------------------------------------------------------
(* The tokens of a response. *)

Kinds == HeaderKinds \cup {"status", "size", "byte", "CR", "LF"}

Tokens == [k : Kinds, v : Nat, of : Nat]

Ends == {"crlf", "lf"}

Framings == {"length", "chunked", "close"}

LEMMA ResponseType ==
    ASSUME NEW r \in Responses
    PROVE  /\ r.status \in Nat /\ r.to \in Nat /\ r.framing \in Framings
           /\ r.body \in Seq(ByteKinds) /\ Size(r) \in Nat /\ Size(r) % Word = Size(r)
           /\ r.eol \in Ends /\ r.chunkEol \in Ends
<1>1. Word \in Nat /\ Word # 0
  BY WordAssumption
<1>2. /\ r.status \in Nat /\ r.to \in Nat /\ r.framing \in Framings
      /\ r.body \in Seq(ByteKinds) /\ Len(r.body) < Word
      /\ r.eol \in Ends /\ r.chunkEol \in Ends
  BY ResponsesAssumption DEF Framings, Ends
<1>3. \A m \in 0 .. Word - 1 : m % Word = m
  BY <1>1
<1>4. Len(r.body) \in Nat
  BY <1>2
<1> DEFINE m == Len(r.body)
<1>5. m \in Nat /\ m < Word
  BY <1>2, <1>4
<1> HIDE DEF m
<1>6. m \in 0 .. Word - 1
  BY <1>1, <1>5
<1> QED  BY <1>2, <1>3, <1>5, <1>6 DEF Size, m

\* s is what ends a line.
EndsLine(e, s) ==
    /\ e = "crlf" => Len(s) = 2 /\ s[1].k = "CR" /\ s[2].k = "LF"
    /\ e # "crlf" => Len(s) = 1 /\ s[1].k = "LF"

\* A token of a line, and the end of the line.
LEMMA TokenFacts ==
    ASSUME NEW k \in Kinds, NEW v \in Nat, NEW n \in Nat
    PROVE  /\ Token(k, v, n) \in Tokens
           /\ Token(k, v, n).k = k /\ Token(k, v, n).v = v /\ Token(k, v, n).of = n
  BY DEF Token, Tokens

LEMMA EolFacts ==
    ASSUME NEW e \in Ends, NEW n \in Nat
    PROVE  Eol(e, n) \in Seq(Tokens) /\ Eol(e, n) # <<>> /\ EndsLine(e, Eol(e, n))
<1>1. Token("LF", 0, n) \in Tokens /\ Token("LF", 0, n).k = "LF"
  BY DEF Token, Tokens, Kinds
<1>2. Token("CR", 0, n) \in Tokens /\ Token("CR", 0, n).k = "CR"
  BY DEF Token, Tokens, Kinds
<1> QED  BY <1>1, <1>2 DEF Eol, EndsLine

LEMMA BytesFacts ==
    ASSUME NEW r \in Responses, NEW n \in Nat
    PROVE  Bytes(r, n) \in Seq(Tokens) /\ Len(Bytes(r, n)) = Size(r)
<1>1. r.body \in Seq(ByteKinds) /\ Len(r.body) \in Nat /\ Size(r) = Len(r.body)
  BY ResponseType DEF Size
<1>2. ASSUME NEW i \in 1 .. Len(r.body) PROVE Token(r.body[i], i, n) \in Tokens
  <2>1. r.body[i] \in ByteKinds /\ i \in Nat
    BY <1>1
  <2>2. r.body[i] \in Kinds
    BY <2>1 DEF Kinds, ByteKinds
  <2> QED  BY <2>1, <2>2, TokenFacts
<1>3. Bytes(r, n) \in [1 .. Len(r.body) -> Tokens]
  BY <1>2 DEF Bytes
<1> QED  BY <1>1, <1>3

\* What TakeLine finds in b, of which y is the rest: not a whole line, or that line, with
\* u behind it.
LineOrNone(S, b, y, u, line) ==
    \/ TakeLine(b).n = 0
    \/ /\ TakeLine(b).line = line /\ TakeLine(b).n \in 1 .. Len(b)
       /\ LeftOf(S, b, TakeLine(b).n, y, u)

\* What TakeLine makes of a buffer that holds part of a line P, or all of it.
LEMMA TakenLine ==
    ASSUME NEW e \in Ends, NEW n \in Nat, NEW P \in Seq(Tokens),
           \A i \in 1 .. Len(P) : P[i].k \notin {"CR", "LF"},
           NEW u \in Seq(Tokens), NEW b \in Seq(Tokens), NEW y \in Seq(Tokens),
           e = "lf" => NoPair(b)
    PROVE  SameJoin(b, y, P \o Eol(e, n), u) =>
           LineOrNone(Tokens, b, y, u, P)
<1> DEFINE S == Tokens
           E == Eol(e, n)
           a == P \o E
<1>1. E \in Seq(S) /\ P \in Seq(S)
  BY EolFacts
<1>2. e \in {"crlf", "lf"}
  BY DEF Ends
<1>l. EndsLine(e, E)
  BY EolFacts, Zenon
<1> HIDE DEF S, E
<1>e. /\ e = "crlf" => Len(E) = 2 /\ E[1].k = "CR" /\ E[2].k = "LF"
      /\ e # "crlf" => Len(E) = 1 /\ E[1].k = "LF"
  BY <1>l, Zenon DEF EndsLine
<1>4. /\ a \in Seq(S) /\ Len(P) \in Nat /\ Len(E) \in Nat /\ Len(a) = Len(P) + Len(E)
      /\ \A i \in 1 .. Len(P) : a[i] = P[i]
      /\ \A i \in 1 .. Len(E) : a[Len(P) + i] = E[i]
  BY <1>1, JoinAt
<1>6. b \in Seq(S) /\ y \in Seq(S) /\ u \in Seq(S)
  BY DEF S
<1> HIDE DEF a
<1>7. Len(b) \in Nat
  BY <1>6
<1>0. SUFFICES ASSUME SameJoin(b, y, a, u)
               PROVE  LineOrNone(S, b, y, u, P)
  BY DEF a, S, E
<1>5. /\ \A i \in 1 .. Len(a) : i <= Len(b) => b[i] = a[i]
      /\ Len(a) <= Len(b) => LeftOf(S, b, Len(a), y, u)
  <2>1. a \in Seq(S)
    BY <1>4
  <2> QED  BY <1>0, <1>6, <2>1, CutTwice
<1>8. ASSUME NEW i \in 1 .. Len(P), i <= Len(b) PROVE b[i].k \notin {"CR", "LF"} /\ b[i] = P[i]
  <2>1. i \in 1 .. Len(a)
    BY <1>4
  <2> QED  BY <1>4, <1>5, <1>8, <2>1
<1>9. Len(P) <= Len(b) => SubSeq(b, 1, Len(P)) = P
  <2> HAVE Len(P) <= Len(b)
  <2>1. Len(P) \in 0 .. Len(b)
    BY <1>4, <1>7
  <2>2. /\ SubSeq(b, 1, Len(P)) \in Seq(S) /\ Len(SubSeq(b, 1, Len(P))) = Len(P)
    BY <1>6, <2>1, CutSeq
  <2>3. \A i \in 1 .. Len(P) : SubSeq(b, 1, Len(P))[i] = P[i]
    BY <1>4, <1>6, <1>7, <1>8, <2>1
  <2> QED  BY <1>1, <2>2, <2>3, SeqEqual
<1>10. CASE e = "crlf"
  <2>7. Len(E) = 2
    BY <1>e, <1>10, Zenon
  <2>0. 1 \in 1 .. Len(E) /\ 2 \in 1 .. Len(E)
    BY <2>7
  <2>6. a[Len(P) + 1] = E[1] /\ a[Len(P) + 2] = E[2]
    BY <1>4, <2>0
  <2>1. Len(a) = Len(P) + 2 /\ a[Len(P) + 1].k = "CR" /\ a[Len(P) + 2].k = "LF"
    BY <1>2, <1>4, <1>e, <1>10, <2>6, <2>7
  <2>2. /\ Len(P) + 1 <= Len(b) => b[Len(P) + 1].k = "CR"
        /\ Len(P) + 2 <= Len(b) => b[Len(P) + 2].k = "LF"
    <3>1. Len(P) + 1 \in 1 .. Len(a) /\ Len(P) + 2 \in 1 .. Len(a)
      BY <1>4, <2>1
    <3> QED  BY <1>5, <2>1, <3>1
  <2>3. IF Len(P) + 2 <= Len(b)
        THEN TakeLine(b).line = SubSeq(b, 1, Len(P)) /\ TakeLine(b).n = Len(P) + 2
        ELSE TakeLine(b).n = 0
    BY <1>4, <1>6, <1>8, <2>2, TakeCrlf
  <2>4. CASE Len(P) + 2 <= Len(b)
    <3>0. Len(a) <= Len(b) /\ Len(a) \in 1 .. Len(b) /\ Len(P) <= Len(b)
      BY <1>4, <1>7, <2>1, <2>4
    <3>1. TakeLine(b).line = P /\ TakeLine(b).n = Len(a)
      BY <1>9, <2>1, <2>3, <2>4, <3>0
    <3> QED  BY <1>5, <3>0, <3>1 DEF LineOrNone
  <2> QED  BY <2>3, <2>4 DEF LineOrNone
<1>11. CASE e = "lf"
  <2>7. Len(E) = 1
    BY <1>e, <1>11, Zenon
  <2>0. 1 \in 1 .. Len(E)
    BY <2>7
  <2>6. a[Len(P) + 1] = E[1]
    BY <1>4, <2>0
  <2>1. Len(a) = Len(P) + 1 /\ a[Len(P) + 1].k = "LF"
    BY <1>2, <1>4, <1>e, <1>11, <2>6, <2>7
  <2>2. Len(P) + 1 <= Len(b) => b[Len(P) + 1].k = "LF"
    <3>1. Len(P) + 1 \in 1 .. Len(a)
      BY <1>4, <2>1
    <3> QED  BY <1>5, <2>1, <3>1
  <2>5. NoPair(b)
    BY <1>11
  <2>3. IF Len(P) + 1 <= Len(b)
        THEN TakeLine(b).line = SubSeq(b, 1, Len(P)) /\ TakeLine(b).n = Len(P) + 1
        ELSE TakeLine(b).n = 0
    BY <1>4, <1>6, <1>8, <2>2, <2>5, TakeLf
  <2>4. CASE Len(P) + 1 <= Len(b)
    <3>0. Len(a) <= Len(b) /\ Len(a) \in 1 .. Len(b) /\ Len(P) <= Len(b)
      BY <1>4, <1>7, <2>1, <2>4
    <3>1. TakeLine(b).line = P /\ TakeLine(b).n = Len(a)
      BY <1>9, <2>1, <2>3, <2>4, <3>0
    <3> QED  BY <1>5, <3>0, <3>1 DEF LineOrNone
  <2> QED  BY <2>3, <2>4 DEF LineOrNone
<1> QED  BY <1>2, <1>10, <1>11

\* A line of one token.
LEMMA LineTaken ==
    ASSUME NEW e \in Ends, NEW n \in Nat, NEW k \in Kinds, NEW v \in Nat,
           k \notin {"CR", "LF"},
           NEW u \in Seq(Tokens), NEW b \in Seq(Tokens), NEW y \in Seq(Tokens),
           e = "lf" => NoPair(b)
    PROVE  SameJoin(b, y, Line(k, v, e, n), u) =>
           LineOrNone(Tokens, b, y, u, <<Token(k, v, n)>>)
<1> DEFINE P == <<Token(k, v, n)>>
<1>1. Token(k, v, n) \in Tokens /\ Token(k, v, n).k = k
  BY TokenFacts
<1>2. P \in Seq(Tokens) /\ \A i \in 1 .. Len(P) : P[i].k \notin {"CR", "LF"}
  BY <1>1
<1>3. Line(k, v, e, n) = P \o Eol(e, n)
  BY DEF Line
<1> HIDE DEF P
<1>4. SameJoin(b, y, P \o Eol(e, n), u) =>
           LineOrNone(Tokens, b, y, u, P)
  BY <1>2, TakenLine
<1> QED  BY <1>3, <1>4 DEF P

\* A blank line.
LEMMA BlankTaken ==
    ASSUME NEW e \in Ends, NEW n \in Nat,
           NEW u \in Seq(Tokens), NEW b \in Seq(Tokens), NEW y \in Seq(Tokens),
           e = "lf" => NoPair(b)
    PROVE  SameJoin(b, y, Eol(e, n), u) =>
           LineOrNone(Tokens, b, y, u, <<>>)
<1> DEFINE P == <<>>
<1>2. P \in Seq(Tokens) /\ \A i \in 1 .. Len(P) : P[i].k \notin {"CR", "LF"}
  OBVIOUS
<1>3. Eol(e, n) = P \o Eol(e, n)
  BY EolFacts
<1> HIDE DEF P
<1>4. SameJoin(b, y, P \o Eol(e, n), u) =>
           LineOrNone(Tokens, b, y, u, P)
  BY <1>2, TakenLine
<1> QED  BY <1>3, <1>4 DEF P

\* Every part of a response is made of its tokens.
LEMMA LineOfType ==
    ASSUME NEW e \in Ends, NEW n \in Nat, NEW k \in Kinds, NEW v \in Nat
    PROVE  Line(k, v, e, n) \in Seq(Tokens)
  BY EolFacts, TokenFacts DEF Line

LEMMA PartsType ==
    ASSUME NEW r \in Responses, NEW n \in Nat
    PROVE  /\ LastChunk(r, n) \in Seq(Tokens) /\ FromData(r, n) \in Seq(Tokens)
           /\ FromSize(r, n) \in Seq(Tokens) /\ FromBody(r, n) \in Seq(Tokens)
           /\ FromBlank(r, n) \in Seq(Tokens) /\ FromAnnounced(r, n) \in Seq(Tokens)
           /\ FromHeaders(r, n) \in Seq(Tokens)
           /\ AnnouncedKind(r) \in HeaderKinds /\ AnnouncedSize(r) \in Nat
<1> DEFINE S == Tokens
<1>1. Eol(r.eol, n) \in Seq(S) /\ Eol(r.chunkEol, n) \in Seq(S) /\ Bytes(r, n) \in Seq(S)
  BY ResponseType, EolFacts, BytesFacts
<1>2. /\ Size(r) \in Nat /\ r.to \in Nat /\ "size" \in Kinds /\ "location" \in Kinds
      /\ r.eol \in Ends /\ r.chunkEol \in Ends
  BY ResponseType DEF Kinds, HeaderKinds
<1>3. /\ Line("size", 0, r.chunkEol, n) \in Seq(S) /\ Line("size", Size(r), r.chunkEol, n) \in Seq(S)
      /\ Line("location", r.to, r.eol, n) \in Seq(S)
  BY <1>2, LineOfType
<1>4. AnnouncedKind(r) \in HeaderKinds /\ AnnouncedSize(r) \in Nat
  BY <1>2 DEF AnnouncedKind, AnnouncedSize, HeaderKinds
<1>5. AnnouncedKind(r) \in Kinds
  BY <1>4 DEF Kinds, HeaderKinds
<1>6. Line(AnnouncedKind(r), AnnouncedSize(r), r.eol, n) \in Seq(S)
  BY <1>2, <1>4, <1>5, LineOfType
<1> HIDE DEF S
<1>7. LastChunk(r, n) \in Seq(S)
  BY <1>1, <1>3 DEF LastChunk
<1>8. FromData(r, n) \in Seq(S)
  BY <1>1, <1>7 DEF FromData
<1>9. FromSize(r, n) \in Seq(S)
  BY <1>3, <1>7, <1>8 DEF FromSize
<1>10. FromBody(r, n) \in Seq(S)
  BY <1>1, <1>9 DEF FromBody
<1>11. FromBlank(r, n) \in Seq(S)
  BY <1>1, <1>10 DEF FromBlank
<1>12. FromAnnounced(r, n) \in Seq(S)
  BY <1>6, <1>11 DEF FromAnnounced
<1>13. FromHeaders(r, n) \in Seq(S)
  BY <1>3, <1>12 DEF FromHeaders
<1> QED  BY <1>4, <1>7, <1>8, <1>9, <1>10, <1>11, <1>12, <1>13 DEF S

\* A response as a server renders it is its parts in their order.
LEMMA RenderedIs ==
    ASSUME NEW r \in Responses, NEW n \in Nat
    PROVE  /\ Rendered(r, n) = Line("status", r.status, r.eol, n) \o FromHeaders(r, n)
           /\ Rendered(r, n) \in Seq(Tokens)
           /\ Chunks(r, n) = FromSize(r, n)
<1> DEFINE S == Tokens
           E == Eol(r.eol, n)
           C == Eol(r.chunkEol, n)
           status == Line("status", r.status, r.eol, n)
           location == IF r.to = 0 THEN <<>> ELSE Line("location", r.to, r.eol, n)
           announced == Line(AnnouncedKind(r), AnnouncedSize(r), r.eol, n)
           size == Line("size", Size(r), r.chunkEol, n)
           zero == Line("size", 0, r.chunkEol, n)
           bytes == Bytes(r, n)
           chunk == IF Size(r) = 0 THEN <<>> ELSE size \o bytes \o C
           body == IF r.framing = "chunked" THEN Chunks(r, n) ELSE bytes
<1>0. /\ Size(r) \in Nat /\ r.to \in Nat /\ r.status \in Nat /\ r.framing \in Framings
      /\ r.eol \in Ends /\ r.chunkEol \in Ends
  BY ResponseType
<1>1. /\ "size" \in Kinds /\ "location" \in Kinds /\ "status" \in Kinds
      /\ AnnouncedKind(r) \in Kinds /\ AnnouncedSize(r) \in Nat
  BY PartsType DEF Kinds, HeaderKinds
<1>2. /\ E \in Seq(S) /\ C \in Seq(S) /\ status \in Seq(S) /\ location \in Seq(S)
      /\ announced \in Seq(S) /\ size \in Seq(S) /\ zero \in Seq(S) /\ bytes \in Seq(S)
  <2>1. E \in Seq(S) /\ C \in Seq(S) /\ bytes \in Seq(S)
    BY <1>0, EolFacts, BytesFacts
  <2>2. /\ status \in Seq(S) /\ announced \in Seq(S) /\ size \in Seq(S) /\ zero \in Seq(S)
        /\ Line("location", r.to, r.eol, n) \in Seq(S)
    BY <1>0, <1>1, LineOfType
  <2>3. location \in Seq(S)
    BY <2>2
  <2> QED  BY <2>1, <2>2, <2>3
<1>3. Rendered(r, n) = status \o location \o announced \o E \o body
  <2>1. CASE r.framing = "length"
    BY <2>1, Zenon DEF Rendered, AnnouncedKind, AnnouncedSize, Size
  <2>2. CASE r.framing = "chunked"
    BY <2>2, Zenon DEF Rendered, AnnouncedKind, AnnouncedSize
  <2>3. CASE r.framing = "close"
    BY <2>3 DEF Rendered, AnnouncedKind, AnnouncedSize
  <2> QED  BY <1>0, <2>1, <2>2, <2>3 DEF Framings
<1>c. Chunks(r, n) = chunk \o zero \o C
  BY Zenon DEF Chunks, Size
<1>4. /\ FromSize(r, n) = IF Size(r) = 0 THEN zero \o C ELSE size \o (bytes \o (C \o (zero \o C)))
      /\ FromBody(r, n) = IF r.framing = "chunked" THEN FromSize(r, n) ELSE bytes
      /\ FromAnnounced(r, n) = announced \o (E \o FromBody(r, n))
  BY Zenon DEF FromSize, FromData, LastChunk, FromBody, FromAnnounced, FromBlank
<1>5. FromHeaders(r, n) = IF r.to = 0 THEN FromAnnounced(r, n)
                          ELSE location \o FromAnnounced(r, n)
  BY Zenon DEF FromHeaders
<1>6. r.to = 0 => location = <<>>
  OBVIOUS
<1>7. Chunks(r, n) = FromSize(r, n) /\ Chunks(r, n) \in Seq(S)
  <2> HIDE DEF S, E, C, zero, size, bytes
  <2>1. zero \o C \in Seq(S) /\ C \o (zero \o C) \in Seq(S) /\ bytes \o C \in Seq(S)
        /\ size \o bytes \in Seq(S) /\ (size \o bytes) \o C \in Seq(S)
    BY <1>2
  <2>3. CASE Size(r) = 0
    <3>1. Chunks(r, n) = (<<>> \o zero) \o C
      BY <1>c, <2>3
    <3>2. <<>> \o zero = zero
      BY <1>2
    <3> QED  BY <1>4, <2>1, <2>3, <3>1, <3>2
  <2>4. CASE Size(r) # 0
    <3>1. Chunks(r, n) = (((size \o bytes) \o C) \o zero) \o C
      BY <1>c, <2>4
    <3>2. size \o bytes \o C \o zero \o C = size \o (bytes \o (C \o (zero \o C)))
      <4>1. Rejoined(size, bytes, C, zero, C)
        BY <1>2, JoinFive
      <4> QED  BY <4>1, Zenon DEF Rejoined
    <3>5. size \o (bytes \o (C \o (zero \o C))) \in Seq(S)
      BY <1>2, <2>1
    <3> QED  BY <1>4, <2>4, <3>1, <3>2, <3>5
  <2> QED  BY <2>3, <2>4
<1>b. FromBody(r, n) = body /\ body \in Seq(S)
  BY <1>2, <1>4, <1>7
<1> HIDE DEF S, E, C, status, location, announced, body
<1>8. E \o body \in Seq(S) /\ announced \o (E \o body) \in Seq(S)
      /\ location \o (announced \o (E \o body)) \in Seq(S)
  BY <1>2, <1>b
<1>9. FromHeaders(r, n) = location \o (announced \o (E \o body))
  <2> DEFINE rest == announced \o (E \o body)
  <2>1. rest \in Seq(S) /\ FromAnnounced(r, n) = rest
    BY <1>4, <1>b, <1>8
  <2> HIDE DEF rest
  <2>2. r.to = 0 => location \o rest = rest
    BY <1>6, <2>1
  <2>3. FromHeaders(r, n) = location \o rest
    BY <1>5, <2>1, <2>2
  <2> QED  BY <2>3 DEF rest
<1>10. status \o location \o announced \o E \o body = status \o (location \o (announced \o (E \o body)))
  <2>1. Rejoined(status, location, announced, E, body)
    BY <1>2, <1>b, JoinFive
  <2> QED  BY <2>1, Zenon DEF Rejoined
<1>11. status \o (location \o (announced \o (E \o body))) \in Seq(S)
  BY <1>2, <1>8
<1> QED  BY <1>3, <1>7, <1>9, <1>10, <1>11 DEF S, status

\* Where the ends of the lines are not mixed, no part of a response that is read in
\* lines ended by LF has CR LF in it.
LEMMA PartsUnmixed ==
    ASSUME NEW r \in Responses, NEW n \in Nat, ~Mixed(r, n)
    PROVE  /\ r.eol = "lf" => /\ NoPair(Rendered(r, n)) /\ NoPair(FromHeaders(r, n))
                              /\ NoPair(FromAnnounced(r, n)) /\ NoPair(FromBlank(r, n))
           /\ (r.framing = "chunked" /\ r.chunkEol = "lf") =>
                 /\ NoPair(FromSize(r, n)) /\ NoPair(LastChunk(r, n))
                 /\ NoPair(Eol(r.chunkEol, n))
<1>0. /\ Size(r) \in Nat /\ r.to \in Nat /\ r.status \in Nat
      /\ r.eol \in Ends /\ r.chunkEol \in Ends
      /\ "size" \in Kinds /\ "location" \in Kinds /\ "status" \in Kinds
      /\ AnnouncedKind(r) \in Kinds /\ AnnouncedSize(r) \in Nat
  BY ResponseType, PartsType DEF Kinds, HeaderKinds
<1>1. /\ Line("status", r.status, r.eol, n) \in Seq(Tokens)
      /\ Line("location", r.to, r.eol, n) \in Seq(Tokens)
      /\ Line(AnnouncedKind(r), AnnouncedSize(r), r.eol, n) \in Seq(Tokens)
      /\ Line("size", Size(r), r.chunkEol, n) \in Seq(Tokens)
      /\ Line("size", 0, r.chunkEol, n) \in Seq(Tokens)
  BY <1>0, LineOfType
<1>2. /\ FromHeaders(r, n) \in Seq(Tokens) /\ FromAnnounced(r, n) \in Seq(Tokens)
      /\ FromBlank(r, n) \in Seq(Tokens) /\ FromData(r, n) \in Seq(Tokens)
      /\ LastChunk(r, n) \in Seq(Tokens) /\ Bytes(r, n) \in Seq(Tokens)
      /\ Eol(r.chunkEol, n) \in Seq(Tokens) /\ Eol(r.chunkEol, n) \o LastChunk(r, n) \in Seq(Tokens)
  <2>1. Eol(r.chunkEol, n) \in Seq(Tokens) /\ Bytes(r, n) \in Seq(Tokens)
    BY <1>0, EolFacts, BytesFacts, Zenon
  <2>2. /\ FromHeaders(r, n) \in Seq(Tokens) /\ FromAnnounced(r, n) \in Seq(Tokens)
        /\ FromBlank(r, n) \in Seq(Tokens) /\ FromData(r, n) \in Seq(Tokens)
        /\ LastChunk(r, n) \in Seq(Tokens)
    BY PartsType, Zenon
  <2> QED  BY <2>1, <2>2
<1>3. ASSUME r.eol = "lf"
      PROVE  /\ NoPair(Rendered(r, n)) /\ NoPair(FromHeaders(r, n))
             /\ NoPair(FromAnnounced(r, n)) /\ NoPair(FromBlank(r, n))
  <2>1. NoPair(Rendered(r, n))
    BY <1>3, Zenon DEF Mixed, NoPair
  <2>2. NoPair(FromHeaders(r, n))
    <3>1. NoPair(Line("status", r.status, r.eol, n) \o FromHeaders(r, n))
      BY <2>1, RenderedIs, Zenon
    <3> QED  BY <1>1, <1>2, <3>1, NoPairParts
  <2>3. NoPair(FromAnnounced(r, n))
    <3>1. CASE r.to = 0
      BY <2>2, <3>1, Zenon DEF FromHeaders
    <3>2. CASE r.to # 0
      <4>1. NoPair(Line("location", r.to, r.eol, n) \o FromAnnounced(r, n))
        BY <2>2, <3>2, Zenon DEF FromHeaders
      <4> QED  BY <1>1, <1>2, <4>1, NoPairParts
    <3> QED  BY <3>1, <3>2
  <2>4. NoPair(FromBlank(r, n))
    <3>1. NoPair(Line(AnnouncedKind(r), AnnouncedSize(r), r.eol, n) \o FromBlank(r, n))
      BY <2>3, Zenon DEF FromAnnounced
    <3> QED  BY <1>1, <1>2, <3>1, NoPairParts
  <2> QED  BY <2>1, <2>2, <2>3, <2>4
<1>4. ASSUME r.framing = "chunked", r.chunkEol = "lf"
      PROVE  NoPair(FromSize(r, n)) /\ NoPair(LastChunk(r, n)) /\ NoPair(Eol(r.chunkEol, n))
  <2>1. NoPair(FromSize(r, n))
    BY <1>4, RenderedIs, Zenon DEF Mixed, NoPair
  <2>2. NoPair(LastChunk(r, n))
    <3>1. CASE Size(r) = 0
      BY <2>1, <3>1, Zenon DEF FromSize
    <3>2. CASE Size(r) # 0
      <4>1. NoPair(Line("size", Size(r), r.chunkEol, n) \o FromData(r, n))
        BY <2>1, <3>2, Zenon DEF FromSize
      <4>2. NoPair(FromData(r, n))
        BY <1>1, <1>2, <4>1, NoPairParts
      <4>3. NoPair(Bytes(r, n) \o (Eol(r.chunkEol, n) \o LastChunk(r, n)))
        BY <4>2, Zenon DEF FromData
      <4>4. NoPair(Eol(r.chunkEol, n) \o LastChunk(r, n))
        BY <1>2, <4>3, NoPairParts
      <4> QED  BY <1>2, <4>4, NoPairParts
    <3> QED  BY <3>1, <3>2
  <2>3. NoPair(Eol(r.chunkEol, n))
    <3>1. NoPair(Line("size", 0, r.chunkEol, n) \o Eol(r.chunkEol, n))
      BY <2>2, Zenon DEF LastChunk
    <3> QED  BY <1>1, <1>2, <3>1, NoPairParts
  <2> QED  BY <2>1, <2>2, <2>3
<1> QED  BY <1>3, <1>4

-----------------------------------------------------------------------------
(* A turn of Feed. *)

Places == {"status", "headers", "body", "size", "data", "data_end", "trailer", "complete", "error"}

Parsers(S) ==
    [state : Places, buffer : Seq(S), status : Nat, of : Nat, location : Nat, chunked : BOOLEAN,
     hasLength : BOOLEAN, length : Nat, remaining : Nat, body : Seq(S)]

\* The parser q has what p had of the body, and what it has made of it since.
Grown(S, p, q) == \E d \in Seq(S) : q.body = p.body \o d

LEMMA GrownSame ==
    ASSUME NEW S, NEW p \in Parsers(S), NEW q, q.body = p.body
    PROVE  Grown(S, p, q)
<1>1. p.body \in Seq(S)
  BY DEF Parsers
<1>2. p.body \o <<>> = p.body /\ <<>> \in Seq(S)
  BY <1>1
<1> QED  BY <1>2, Zenon DEF Grown

LEMMA GrownTwice ==
    ASSUME NEW S, NEW p \in Parsers(S), NEW q, NEW z, Grown(S, p, q), Grown(S, q, z)
    PROVE  Grown(S, p, z)
<1>1. PICK c \in Seq(S) : q.body = p.body \o c
  BY Zenon DEF Grown
<1>2. PICK d \in Seq(S) : z.body = q.body \o d
  BY Zenon DEF Grown
<1>3. p.body \in Seq(S)
  BY DEF Parsers
<1>4. Assoc(p.body, c, d) /\ c \o d \in Seq(S)
  BY <1>3, JoinAssoc
<1>5. z.body = p.body \o (c \o d)
  BY <1>1, <1>2, <1>4, Zenon DEF Assoc
<1> QED  BY <1>4, <1>5, Zenon DEF Grown

\* Two sequences that begin equally long.
LEMMA JoinCancel ==
    ASSUME NEW S, NEW a \in Seq(S), NEW u \in Seq(S), NEW b \in Seq(S), NEW y \in Seq(S),
           Len(a) = Len(b), SameJoin(b, y, a, u)
    PROVE  b = a /\ y = u
<1>1. /\ \A i \in 1 .. Len(a) : i <= Len(b) => b[i] = a[i]
      /\ Len(a) <= Len(b) => LeftOf(S, b, Len(a), y, u)
  BY CutTwice
<1>2. Len(a) \in Nat
  OBVIOUS
<1>3. \A i \in 1 .. Len(b) : b[i] = a[i]
  BY <1>1, <1>2
<1>4. b = a
  BY <1>3, SeqEqual
<1>5. LeftOf(S, b, Len(b), y, u)
  BY <1>1, <1>2
<1>6. SubSeq(b, Len(b) + 1, Len(b)) = <<>>
  BY <1>2
<1>7. SubSeq(b, Len(b) + 1, Len(b)) \o y = u
  BY <1>5, Zenon DEF LeftOf
<1>8. <<>> \o y = y
  OBVIOUS
<1> QED  BY <1>4, <1>6, <1>7, <1>8

\* Less in the buffer, and the rest as it was.
LEMMA ConsumeFacts ==
    ASSUME NEW S, NEW p \in Parsers(S), NEW m \in 0 .. Len(p.buffer), NEW y \in Seq(S), NEW u,
           LeftOf(S, p.buffer, m, y, u)
    PROVE  /\ Consume(p, m) \in Parsers(S)
           /\ Consume(p, m) = [p EXCEPT !.buffer = SubSeq(p.buffer, m + 1, Len(p.buffer))]
           /\ Ahead(Consume(p, m), y, u)
<1> DEFINE d == SubSeq(p.buffer, m + 1, Len(p.buffer))
<1>1. d \in Seq(S) /\ d \o y = u
  BY Zenon DEF LeftOf
<1>2. Consume(p, m) = [p EXCEPT !.buffer = d]
  BY DEF Consume
<1> HIDE DEF d
<1>3. Consume(p, m) \in Parsers(S)
  BY <1>1, <1>2 DEF Parsers
<1>4. Consume(p, m).buffer = d
  BY <1>2 DEF Parsers
<1>5. Ahead(Consume(p, m), y, u)
  BY <1>1, <1>4, Zenon DEF Ahead
<1> QED  BY <1>2, <1>3, <1>5 DEF d

LineStates == {"status", "headers", "size", "trailer"}

\* What the parser makes of a whole line.
FeedLineOf(p, line) ==
    CASE p.state = "status" -> FeedStatusLine(p, line)
      [] p.state = "headers" -> FeedHeaders(p, line)
      [] p.state = "size" -> FeedChunkSize(p, line)
      [] p.state = "trailer" -> FeedChunkTrailer(p, line)

\* A turn that takes that line, with u behind it, or nothing.
TurnTakes(S, p, y, u, line) ==
    \/ Turn(p) = p
    \/ \E b \in Seq(S) :
          /\ Ahead([p EXCEPT !.buffer = b], y, u)
          /\ Turn(p) = FeedLineOf([p EXCEPT !.buffer = b], line)

\* Where lines are read, a turn takes a whole line or nothing.
LEMMA TurnLine ==
    ASSUME NEW S, NEW p \in Parsers(S), p.state \in LineStates, NEW y \in Seq(S), NEW u, NEW line,
           LineOrNone(S, p.buffer, y, u, line)
    PROVE  TurnTakes(S, p, y, u, line)
<1> DEFINE t == TakeLine(p.buffer)
           m == t.n
           q == Consume(p, m)
           b == SubSeq(p.buffer, m + 1, Len(p.buffer))
<1>1. ~Ended(p) /\ p.state \notin {"body", "data", "data_end"}
  BY DEF LineStates, Ended
<1>2. CASE p.buffer = <<>> \/ m = 0
  <2>1. Turn(p) = p
    BY <1>1, <1>2 DEF Turn
  <2> QED  BY <2>1 DEF TurnTakes
<1>3. CASE p.buffer # <<>> /\ m # 0
  <2>1. t.line = line /\ m \in 1 .. Len(p.buffer) /\ LeftOf(S, p.buffer, m, y, u)
    BY <1>3 DEF LineOrNone
  <2>2. m \in 0 .. Len(p.buffer)
    BY <2>1 DEF Parsers
  <2>3. /\ q \in Parsers(S) /\ q = [p EXCEPT !.buffer = b] /\ Ahead(q, y, u)
    BY <2>1, <2>2, ConsumeFacts
  <2>4. b \in Seq(S)
    BY <2>1, Zenon DEF LeftOf
  <2>5. q.state = p.state
    BY <2>3 DEF Parsers
  <2>6. Turn(p) = FeedLineOf(q, line)
    BY <1>1, <1>3, <2>1, <2>5, Zenon DEF Turn, FeedLineOf
  <2> HIDE DEF b, q
  <2> QED  BY <2>3, <2>4, <2>6 DEF TurnTakes
<1> QED  BY <1>2, <1>3

\* The step from p to q keeps the place in the response.
KeepsPlace(p, q, r, n, y) ==
    q \in Parsers(Tokens) /\ Stage(q, r, n, y) /\ Grown(Tokens, p, q)

LEMMA FollowsSame ==
    ASSUME NEW r, NEW n, NEW y, NEW p \in Parsers(Tokens), Stage(p, r, n, y)
    PROVE  KeepsPlace(p, p, r, n, y)
  BY GrownSame DEF KeepsPlace

\* A parser with another buffer.
LEMMA BufferFacts ==
    ASSUME NEW S, NEW p \in Parsers(S), NEW b \in Seq(S), NEW q, q = [p EXCEPT !.buffer = b]
    PROVE  /\ q \in Parsers(S) /\ q.buffer = b
           /\ q.state = p.state /\ q.status = p.status /\ q.of = p.of /\ q.chunked = p.chunked
           /\ q.hasLength = p.hasLength /\ q.length = p.length /\ q.remaining = p.remaining
           /\ q.body = p.body
  BY DEF Parsers

\* The parser q has another buffer than p, and nothing else of it that matters differs.
Rebuffered(p, q) ==
    /\ q.state = p.state /\ q.status = p.status /\ q.of = p.of /\ q.chunked = p.chunked
    /\ q.hasLength = p.hasLength /\ q.length = p.length /\ q.body = p.body

\* What has arrived of a part without CR LF has none either.
LEMMA BufferUnmixed ==
    ASSUME NEW S, NEW p \in Parsers(S), NEW y \in Seq(S), NEW part, Ahead(p, y, part), NoPair(part)
    PROVE  NoPair(p.buffer)
<1>1. p.buffer \in Seq(S)
  BY DEF Parsers
<1>2. NoPair(p.buffer \o y)
  BY Zenon DEF Ahead
<1> QED  BY <1>1, <1>2, NoPairParts

\* Whatever is left in the buffer, the line takes the parser to its next place.
LineLeads(p, r, n, y, u, line) ==
    \A q \in Parsers(Tokens) :
        Rebuffered(p, q) /\ Ahead(q, y, u) =>
            /\ FeedLineOf(q, line) \in Parsers(Tokens)
            /\ Stage(FeedLineOf(q, line), r, n, y)
            /\ FeedLineOf(q, line).body = p.body

LEMMA TurnByLine ==
    ASSUME NEW r, NEW n, NEW y \in Seq(Tokens), NEW p \in Parsers(Tokens),
           Stage(p, r, n, y), p.state \in LineStates, NEW u, NEW line,
           LineOrNone(Tokens, p.buffer, y, u, line), LineLeads(p, r, n, y, u, line)
    PROVE  KeepsPlace(p, Turn(p), r, n, y)
<1>1. TurnTakes(Tokens, p, y, u, line)
  BY TurnLine
<1>2. CASE Turn(p) = p
  BY <1>2, FollowsSame
<1>3. ASSUME NEW b \in Seq(Tokens), Ahead([p EXCEPT !.buffer = b], y, u),
             Turn(p) = FeedLineOf([p EXCEPT !.buffer = b], line)
      PROVE  KeepsPlace(p, Turn(p), r, n, y)
  <2> DEFINE q == [p EXCEPT !.buffer = b]
  <2>1. q \in Parsers(Tokens) /\ Rebuffered(p, q)
    BY BufferFacts DEF Rebuffered
  <2>2. /\ FeedLineOf(q, line) \in Parsers(Tokens) /\ Stage(FeedLineOf(q, line), r, n, y)
        /\ FeedLineOf(q, line).body = p.body
    <3> HIDE DEF q
    <3> QED  BY <1>3, <2>1 DEF LineLeads, q
  <2>3. Grown(Tokens, p, FeedLineOf(q, line))
    BY <2>2, GrownSame
  <2> QED  BY <1>3, <2>2, <2>3 DEF KeepsPlace
<1> QED  BY <1>1, <1>2, <1>3 DEF TurnTakes

LEMMA StatusTurn ==
    ASSUME NEW r \in Responses, NEW n \in Nat, NEW y \in Seq(Tokens),
           NEW p \in Parsers(Tokens), ~Mixed(r, n), AtStatus(p, r, n, y)
    PROVE  KeepsPlace(p, Turn(p), r, n, y)
<1> DEFINE u == FromHeaders(r, n)
           line == <<Token("status", r.status, n)>>
<1>1. p.buffer \in Seq(Tokens) /\ u \in Seq(Tokens) /\ r.status \in Nat /\ "status" \in Kinds
  BY PartsType, ResponseType DEF Parsers, Kinds
<1>2. SameJoin(p.buffer, y, Line("status", r.status, r.eol, n), u)
  BY RenderedIs, Zenon DEF AtStatus, Ahead, SameJoin
<1>e. r.eol \in Ends /\ r.chunkEol \in Ends
  BY ResponseType
<1>m. r.eol = "lf" => NoPair(p.buffer)
  <2>1. Ahead(p, y, Rendered(r, n))
    BY DEF AtStatus
  <2> QED  BY <2>1, PartsUnmixed, BufferUnmixed
<1>3. LineOrNone(Tokens, p.buffer, y, u, line)
  BY <1>1, <1>2, <1>m, <1>e, LineTaken
<1>4. p.state = "status" /\ p.state \in LineStates /\ Stage(p, r, n, y)
  BY DEF AtStatus, LineStates, Stage
<1>5. line # <<>> /\ line[1].k = "status" /\ line[1].v = r.status /\ line[1].of = n
  BY <1>1, TokenFacts
<1> HIDE DEF u, line
<1>6. ASSUME NEW q \in Parsers(Tokens), Rebuffered(p, q), Ahead(q, y, u)
      PROVE  /\ FeedLineOf(q, line) \in Parsers(Tokens)
             /\ Stage(FeedLineOf(q, line), r, n, y)
             /\ FeedLineOf(q, line).body = p.body
  <2> DEFINE z == FeedLineOf(q, line)
  <2>1. q.state = "status" /\ ~q.chunked /\ ~q.hasLength /\ q.body = <<>> /\ p.body = <<>>
    BY <1>4, <1>6 DEF AtStatus, Rebuffered
  <2>2. z = [q EXCEPT !.state = "headers", !.status = r.status, !.of = n]
    BY <1>5, <2>1, Zenon DEF FeedLineOf, FeedStatusLine
  <2> HIDE DEF z
  <2>3. /\ z \in Parsers(Tokens) /\ z.state = "headers" /\ z.status = r.status
        /\ z.of = n /\ z.body = q.body /\ z.buffer = q.buffer
        /\ z.chunked = q.chunked /\ z.hasLength = q.hasLength
    BY <1>1, <2>1, <2>2 DEF Parsers, Places
  <2>4. Ahead(z, y, u)
    BY <1>6, <2>3, Zenon DEF Ahead
  <2>5. AtHeaders(z, r, n, y)
    BY <2>1, <2>3, <2>4 DEF AtHeaders, u
  <2>6. Stage(z, r, n, y)
    BY <2>3, <2>5, Zenon DEF Stage, PastStatus
  <2> QED  BY <2>1, <2>3, <2>6 DEF z
<1>7. LineLeads(p, r, n, y, u, line)
  BY <1>6 DEF LineLeads
<1> QED  BY <1>3, <1>4, <1>7, TurnByLine

\* What is known of a parser that is past the status line, and stays so.
LEMMA PastStage ==
    ASSUME NEW r, NEW n, NEW y, NEW z, PastStatus(z, r, n, y), z.status = r.status, z.of = n
    PROVE  Stage(z, r, n, y)
  BY Zenon DEF Stage

\* A header line: the Location.
LEMMA LocationTurn ==
    ASSUME NEW r \in Responses, NEW n \in Nat, NEW y \in Seq(Tokens),
           NEW p \in Parsers(Tokens), ~Mixed(r, n), p.status = r.status, p.of = n,
           p.state = "headers", p.body = <<>>, ~p.chunked, ~p.hasLength,
           Ahead(p, y, FromHeaders(r, n)), r.to # 0
    PROVE  KeepsPlace(p, Turn(p), r, n, y)
<1> DEFINE u == FromAnnounced(r, n)
           line == <<Token("location", r.to, n)>>
<1>1. p.buffer \in Seq(Tokens) /\ u \in Seq(Tokens) /\ r.to \in Nat /\ "location" \in Kinds
  BY PartsType, ResponseType DEF Parsers, Kinds, HeaderKinds
<1>2. SameJoin(p.buffer, y, Line("location", r.to, r.eol, n), u)
  BY Zenon DEF FromHeaders, Ahead, SameJoin
<1>e. r.eol \in Ends /\ r.chunkEol \in Ends
  BY ResponseType
<1>m. r.eol = "lf" => NoPair(p.buffer)
  BY PartsUnmixed, BufferUnmixed
<1>3. LineOrNone(Tokens, p.buffer, y, u, line)
  BY <1>1, <1>2, <1>m, <1>e, LineTaken
<1>4. p.state \in LineStates /\ Stage(p, r, n, y)
  <2>1. AtHeaders(p, r, n, y)
    BY Zenon DEF AtHeaders
  <2> QED  BY <2>1 DEF LineStates, Stage, PastStatus
<1>5. line # <<>> /\ line[1].k = "location" /\ line[1].v = r.to
  BY <1>1, TokenFacts
<1> HIDE DEF u, line
<1>6. ASSUME NEW q \in Parsers(Tokens), Rebuffered(p, q), Ahead(q, y, u)
      PROVE  /\ FeedLineOf(q, line) \in Parsers(Tokens)
             /\ Stage(FeedLineOf(q, line), r, n, y)
             /\ FeedLineOf(q, line).body = p.body
  <2> DEFINE z == FeedLineOf(q, line)
  <2>1. /\ q.state = "headers" /\ ~q.chunked /\ ~q.hasLength /\ q.body = <<>>
        /\ q.status = r.status /\ q.of = n
    BY <1>6 DEF Rebuffered
  <2>2. z = [q EXCEPT !.location = r.to]
    <3>1. z = FeedHeaders(q, line)
      BY <2>1, Zenon DEF FeedLineOf
    <3>2. line[1].k \in HeaderKinds /\ line[1].k # "length" /\ line[1].k # "chunked"
      BY <1>5 DEF HeaderKinds
    <3> QED  BY <1>5, <3>1, <3>2 DEF FeedHeaders
  <2> HIDE DEF z
  <2>3. /\ z \in Parsers(Tokens) /\ z.state = "headers" /\ z.status = r.status
        /\ z.of = n /\ z.body = q.body /\ z.buffer = q.buffer
        /\ z.chunked = q.chunked /\ z.hasLength = q.hasLength
    BY <1>1, <2>1, <2>2 DEF Parsers, Places
  <2>4. Ahead(z, y, u)
    BY <1>6, <2>3, Zenon DEF Ahead
  <2>5. AtHeaders(z, r, n, y)
    BY <2>1, <2>3, <2>4 DEF AtHeaders, u
  <2>6. Stage(z, r, n, y)
    BY <2>3, <2>5, PastStage DEF PastStatus
  <2> QED  BY <2>1, <2>3, <2>6 DEF z
<1>7. LineLeads(p, r, n, y, u, line)
  BY <1>6 DEF LineLeads
<1> QED  BY <1>3, <1>4, <1>7, TurnByLine

\* A header line: the one that announces the body.
LEMMA AnnouncedTurn ==
    ASSUME NEW r \in Responses, NEW n \in Nat, NEW y \in Seq(Tokens),
           NEW p \in Parsers(Tokens), ~Mixed(r, n), p.status = r.status, p.of = n,
           p.state = "headers", p.body = <<>>, ~p.chunked, ~p.hasLength,
           Ahead(p, y, FromAnnounced(r, n))
    PROVE  KeepsPlace(p, Turn(p), r, n, y)
<1> DEFINE u == FromBlank(r, n)
           k == AnnouncedKind(r)
           v == AnnouncedSize(r)
           line == <<Token(k, v, n)>>
<1>0. /\ k \in HeaderKinds /\ v \in Nat /\ Size(r) % Word = Size(r) /\ Size(r) \in Nat
      /\ r.framing \in Framings
  BY PartsType, ResponseType
<1>1. /\ p.buffer \in Seq(Tokens) /\ u \in Seq(Tokens)
      /\ k \in Kinds /\ k \notin {"CR", "LF"}
  BY <1>0, PartsType DEF Parsers, Kinds, HeaderKinds
<1>2. SameJoin(p.buffer, y, Line(k, v, r.eol, n), u)
  BY Zenon DEF FromAnnounced, Ahead, SameJoin
<1>k. /\ k = "length" <=> r.framing = "length" 
      /\ k = "chunked" <=> r.framing = "chunked"
      /\ k # "location"
      /\ r.framing = "length" => v = Size(r)
  BY <1>0 DEF AnnouncedKind, AnnouncedSize, Framings
<1> HIDE DEF u, k, v
<1>e. r.eol \in Ends /\ r.chunkEol \in Ends
  BY ResponseType
<1>m. r.eol = "lf" => NoPair(p.buffer)
  BY PartsUnmixed, BufferUnmixed
<1>3. LineOrNone(Tokens, p.buffer, y, u, line)
  BY <1>0, <1>1, <1>2, <1>m, <1>e, LineTaken
<1>4. p.state \in LineStates /\ Stage(p, r, n, y)
  <2>1. AtHeaders(p, r, n, y)
    BY Zenon DEF AtHeaders
  <2> QED  BY <2>1 DEF LineStates, Stage, PastStatus
<1>5. line # <<>> /\ line[1].k = k /\ line[1].v = v /\ Len(line) = 1
  BY <1>0, <1>1, TokenFacts
<1> HIDE DEF line
<1>6. ASSUME NEW q \in Parsers(Tokens), Rebuffered(p, q), Ahead(q, y, u)
      PROVE  /\ FeedLineOf(q, line) \in Parsers(Tokens)
             /\ Stage(FeedLineOf(q, line), r, n, y)
             /\ FeedLineOf(q, line).body = p.body
  <2> DEFINE z == FeedLineOf(q, line)
  <2>1. /\ q.state = "headers" /\ ~q.chunked /\ ~q.hasLength /\ q.body = <<>>
        /\ q.status = r.status /\ q.of = n
    BY <1>6 DEF Rebuffered
  <2>2. z = FeedHeaders(q, line)
    BY <2>1, Zenon DEF FeedLineOf
  <2> HIDE DEF z
  <2>3. /\ z \in Parsers(Tokens) /\ z.state = "headers" /\ z.status = r.status
        /\ z.of = n /\ z.body = q.body /\ z.buffer = q.buffer
        /\ z.chunked <=> r.framing = "chunked"
        /\ z.hasLength <=> r.framing = "length"
        /\ z.hasLength => z.length = Size(r)
    <3>1. CASE k = "length"
      <4>1. z = [q EXCEPT !.hasLength = TRUE, !.length = Size(r)]
        <5>1. line[1].v % Word = Size(r) /\ ~(Len(line) > 1)
          BY <1>0, <1>k, <1>5, <3>1
        <5>2. line # <<>> /\ line[1].k = "length" /\ "length" \in HeaderKinds
          BY <1>5, <3>1 DEF HeaderKinds
        <5>3. FeedHeaders(q, line) = [q EXCEPT !.hasLength = TRUE, !.length = line[1].v % Word]
          BY <5>1, <5>2 DEF FeedHeaders
        <5> QED  BY <2>2, <5>1, <5>3
      <4> QED  BY <1>0, <1>k, <2>1, <3>1, <4>1 DEF Parsers, Places
    <3>2. CASE k = "chunked"
      <4>1. z = [q EXCEPT !.chunked = TRUE]
        BY <1>0, <1>k, <1>5, <2>2, <3>2 DEF FeedHeaders, HeaderKinds
      <4> QED  BY <1>0, <1>k, <2>1, <3>2, <4>1 DEF Parsers, Places
    <3>3. CASE k \notin {"length", "chunked"}
      <4>1. z = q
        BY <1>0, <1>k, <1>5, <2>2, <3>3 DEF FeedHeaders
      <4> QED  BY <1>0, <1>k, <2>1, <3>3, <4>1
    <3> QED  BY <3>1, <3>2, <3>3
  <2>4. Ahead(z, y, u)
    BY <1>6, <2>3, Zenon DEF Ahead
  <2>5. AtHeaders(z, r, n, y)
    BY <2>1, <2>3, <2>4, Zenon DEF AtHeaders, u
  <2>6. Stage(z, r, n, y)
    BY <2>3, <2>5, PastStage DEF PastStatus
  <2> QED  BY <2>1, <2>3, <2>6 DEF z
<1>7. LineLeads(p, r, n, y, u, line)
  BY <1>6 DEF LineLeads
<1> QED  BY <1>3, <1>4, <1>7, TurnByLine

\* The blank line behind the headers.
LEMMA BlankTurn ==
    ASSUME NEW r \in Responses, NEW n \in Nat, NEW y \in Seq(Tokens),
           NEW p \in Parsers(Tokens), ~Mixed(r, n), p.status = r.status, p.of = n,
           p.state = "headers", p.body = <<>>,
           p.chunked <=> r.framing = "chunked", p.hasLength <=> r.framing = "length",
           p.hasLength => p.length = Size(r), Ahead(p, y, FromBlank(r, n))
    PROVE  KeepsPlace(p, Turn(p), r, n, y)
<1> DEFINE u == FromBody(r, n)
           line == <<>>
<1>0. Size(r) \in Nat /\ r.framing \in Framings
  BY ResponseType
<1>1. p.buffer \in Seq(Tokens) /\ u \in Seq(Tokens) /\ Bytes(r, n) \in Seq(Tokens)
      /\ Len(Bytes(r, n)) = Size(r)
  BY PartsType, BytesFacts DEF Parsers
<1>2. SameJoin(p.buffer, y, Eol(r.eol, n), u)
  BY Zenon DEF FromBlank, Ahead, SameJoin
<1>e. r.eol \in Ends /\ r.chunkEol \in Ends
  BY ResponseType
<1>m. r.eol = "lf" => NoPair(p.buffer)
  BY PartsUnmixed, BufferUnmixed
<1>3. LineOrNone(Tokens, p.buffer, y, u, line)
  BY <1>1, <1>2, <1>m, <1>e, BlankTaken
<1>4. p.state \in LineStates /\ Stage(p, r, n, y)
  <2>1. AtHeaders(p, r, n, y)
    BY Zenon DEF AtHeaders
  <2> QED  BY <2>1 DEF LineStates, Stage, PastStatus
<1>6. ASSUME NEW q \in Parsers(Tokens), Rebuffered(p, q), Ahead(q, y, u)
      PROVE  /\ FeedLineOf(q, line) \in Parsers(Tokens)
             /\ Stage(FeedLineOf(q, line), r, n, y)
             /\ FeedLineOf(q, line).body = p.body
  <2> DEFINE z == FeedLineOf(q, line)
  <2>1. /\ q.state = "headers" /\ q.body = <<>> /\ q.status = r.status /\ q.of = n
        /\ q.chunked <=> r.framing = "chunked"
        /\ q.hasLength <=> r.framing = "length"
        /\ q.hasLength => q.length = Size(r)
        /\ q.buffer \in Seq(Tokens)
    BY <1>6 DEF Rebuffered, Parsers
  <2>2. z = EndHeaders(q)
    BY <2>1, Zenon DEF FeedLineOf, FeedHeaders
  <2> HIDE DEF z, u
  <2>3. CASE r.framing = "chunked"
    <3>1. z = [q EXCEPT !.state = "size"]
      BY <2>1, <2>2, <2>3 DEF EndHeaders
    <3>2. /\ z \in Parsers(Tokens) /\ z.state = "size" /\ z.status = r.status
          /\ z.of = n /\ z.body = q.body /\ z.buffer = q.buffer
      BY <2>1, <3>1 DEF Parsers, Places
    <3>3. Ahead(z, y, FromSize(r, n))
      BY <1>6, <2>3, <3>2, Zenon DEF Ahead, u, FromBody
    <3>4. AtSize(z, r, n, y)
      BY <2>1, <2>3, <3>2, <3>3 DEF AtSize
    <3>5. Stage(z, r, n, y)
      BY <3>2, <3>4, PastStage DEF PastStatus
    <3> QED  BY <2>1, <3>2, <3>5 DEF z
  <2>4. CASE r.framing = "length" /\ Size(r) = 0
    <3>1. z = [q EXCEPT !.state = "complete", !.remaining = q.length] /\ q.length \in Nat
      BY <2>1, <2>2, <2>4 DEF EndHeaders, Parsers
    <3>2. /\ z \in Parsers(Tokens) /\ z.state = "complete" /\ z.status = r.status
          /\ z.of = n /\ z.body = q.body /\ z.buffer = q.buffer
      BY <2>1, <3>1 DEF Parsers, Places
    <3>3. Bytes(r, n) = <<>>
      BY <1>1, <2>4
    <3>4. q.buffer \o y = <<>>
      BY <1>6, <2>4, <3>3, Zenon DEF Ahead, u, FromBody
    <3>5. q.buffer = <<>> /\ y = <<>>
      BY <2>1, <3>4, CutEmpty
    <3>6. AtEnd(z, r, n, y)
      BY <2>1, <2>4, <3>2, <3>3, <3>5 DEF AtEnd
    <3>7. Stage(z, r, n, y)
      BY <3>2, <3>6, PastStage DEF PastStatus
    <3> QED  BY <2>1, <3>2, <3>7 DEF z
  <2>5. CASE r.framing = "length" /\ Size(r) # 0
    <3>1. z = [q EXCEPT !.state = "body", !.remaining = Size(r)]
      BY <2>1, <2>2, <2>5 DEF EndHeaders
    <3>2. /\ z \in Parsers(Tokens) /\ z.state = "body" /\ z.status = r.status
          /\ z.of = n /\ z.body = q.body /\ z.buffer = q.buffer /\ z.remaining = Size(r)
          /\ z.chunked = q.chunked /\ z.hasLength = q.hasLength
      BY <1>0, <2>1, <3>1 DEF Parsers, Places
    <3>3. q.buffer \o y = Bytes(r, n)
      BY <1>6, <2>5, Zenon DEF Ahead, u, FromBody
    <3>4. Around(z, y, Bytes(r, n))
      <4>1. <<>> \o Bytes(r, n) = Bytes(r, n)
        BY <1>1
      <4> QED  BY <2>1, <3>2, <3>3, <4>1, Zenon DEF Around
    <3>5. AtBody(z, r, n, y)
      <4>1. z.remaining > 0 /\ Len(z.body) + z.remaining = Size(r)
        BY <1>0, <2>1, <2>5, <3>2
      <4> QED  BY <2>1, <2>5, <3>2, <3>4, <4>1 DEF AtBody
    <3>6. Stage(z, r, n, y)
      BY <3>2, <3>5, PastStage DEF PastStatus
    <3> QED  BY <2>1, <3>2, <3>6 DEF z
  <2>6. CASE r.framing = "close"
    <3>1. z = [q EXCEPT !.state = "body", !.remaining = 0]
      BY <2>1, <2>2, <2>6 DEF EndHeaders
    <3>2. /\ z \in Parsers(Tokens) /\ z.state = "body" /\ z.status = r.status
          /\ z.of = n /\ z.body = q.body /\ z.buffer = q.buffer /\ z.remaining = 0
          /\ z.chunked = q.chunked /\ z.hasLength = q.hasLength
      BY <2>1, <3>1 DEF Parsers, Places
    <3>3. AtBody(z, r, n, y)
      BY <2>1, <2>6, <3>2 DEF AtBody
    <3>4. Stage(z, r, n, y)
      BY <3>2, <3>3, PastStage DEF PastStatus
    <3> QED  BY <2>1, <3>2, <3>4 DEF z
  <2> QED  BY <1>0, <2>3, <2>4, <2>5, <2>6 DEF Framings
<1>7. LineLeads(p, r, n, y, u, line)
  BY <1>6 DEF LineLeads
<1> HIDE DEF u, line
<1> QED  BY <1>3, <1>4, <1>7, TurnByLine

LEMMA HeadersTurn ==
    ASSUME NEW r \in Responses, NEW n \in Nat, NEW y \in Seq(Tokens),
           NEW p \in Parsers(Tokens), p.status = r.status, p.of = n, ~Mixed(r, n),
           AtHeaders(p, r, n, y)
    PROVE  KeepsPlace(p, Turn(p), r, n, y)
<1>1. p.state = "headers" /\ p.body = <<>>
  BY DEF AtHeaders
<1>2. CASE ~p.chunked /\ ~p.hasLength /\ Ahead(p, y, FromHeaders(r, n)) /\ r.to # 0
  BY <1>1, <1>2, LocationTurn
<1>3. CASE ~p.chunked /\ ~p.hasLength /\ Ahead(p, y, FromHeaders(r, n)) /\ r.to = 0
  <2>1. Ahead(p, y, FromAnnounced(r, n))
    BY <1>3 DEF FromHeaders
  <2> QED  BY <1>1, <1>3, <2>1, AnnouncedTurn
<1>4. CASE ~p.chunked /\ ~p.hasLength /\ Ahead(p, y, FromAnnounced(r, n))
  BY <1>1, <1>4, AnnouncedTurn
<1>5. CASE /\ p.chunked <=> r.framing = "chunked"
           /\ p.hasLength <=> r.framing = "length"
           /\ p.hasLength => p.length = Size(r)
           /\ Ahead(p, y, FromBlank(r, n))
  BY <1>1, <1>5, BlankTurn
<1> QED  BY <1>2, <1>3, <1>4, <1>5 DEF AtHeaders

\* The line with the size of the chunk that has the body.
LEMMA SizeTurn ==
    ASSUME NEW r \in Responses, NEW n \in Nat, NEW y \in Seq(Tokens),
           NEW p \in Parsers(Tokens), ~Mixed(r, n), p.status = r.status, p.of = n,
           p.state = "size", r.framing = "chunked", p.body = <<>>, Size(r) # 0,
           Ahead(p, y, FromSize(r, n))
    PROVE  KeepsPlace(p, Turn(p), r, n, y)
<1> DEFINE u == FromData(r, n)
           line == <<Token("size", Size(r), n)>>
<1>0. Size(r) \in Nat /\ Size(r) % Word = Size(r) /\ "size" \in Kinds
  BY ResponseType DEF Kinds
<1>1. p.buffer \in Seq(Tokens) /\ u \in Seq(Tokens)
  BY PartsType DEF Parsers
<1>2. SameJoin(p.buffer, y, Line("size", Size(r), r.chunkEol, n), u)
  BY Zenon DEF FromSize, Ahead, SameJoin
<1>e. r.eol \in Ends /\ r.chunkEol \in Ends
  BY ResponseType
<1>m. r.chunkEol = "lf" => NoPair(p.buffer)
  BY PartsUnmixed, BufferUnmixed
<1>3. LineOrNone(Tokens, p.buffer, y, u, line)
  BY <1>0, <1>1, <1>2, <1>m, <1>e, LineTaken
<1>4. p.state \in LineStates /\ Stage(p, r, n, y)
  <2>1. AtSize(p, r, n, y)
    BY Zenon DEF AtSize
  <2> QED  BY <2>1 DEF LineStates, Stage, PastStatus
<1>5. line[1].k = "size" /\ line[1].v = Size(r) /\ Len(line) = 1
  BY <1>0, TokenFacts
<1> HIDE DEF u, line
<1>6. ASSUME NEW q \in Parsers(Tokens), Rebuffered(p, q), Ahead(q, y, u)
      PROVE  /\ FeedLineOf(q, line) \in Parsers(Tokens)
             /\ Stage(FeedLineOf(q, line), r, n, y)
             /\ FeedLineOf(q, line).body = p.body
  <2> DEFINE z == FeedLineOf(q, line)
  <2>1. q.state = "size" /\ q.body = <<>> /\ q.status = r.status /\ q.of = n
    BY <1>6 DEF Rebuffered
  <2>2. z = FeedChunkSize(q, line)
    BY <2>1, Zenon DEF FeedLineOf
  <2> HIDE DEF z
  <2>3. z = [q EXCEPT !.state = "data", !.remaining = Size(r)]
    <3>1. line[1].v % Word = Size(r)
      BY <1>0, <1>5
    <3> QED  BY <1>5, <2>2, <3>1 DEF FeedChunkSize
  <2>4. /\ z \in Parsers(Tokens) /\ z.state = "data" /\ z.status = r.status
        /\ z.of = n /\ z.body = q.body /\ z.buffer = q.buffer /\ z.remaining = Size(r)
    BY <1>0, <2>1, <2>3 DEF Parsers, Places
  <2>5. Around(z, y, u)
    <3>1. <<>> \o u = u
      BY <1>1
    <3>2. q.buffer \o y = u
      BY <1>6, Zenon DEF Ahead
    <3> QED  BY <2>1, <2>4, <3>1, <3>2, Zenon DEF Around
  <2>6. AtData(z, r, n, y)
    <3>1. z.remaining > 0 /\ Len(z.body) + z.remaining = Size(r)
      BY <1>0, <2>1, <2>4
    <3> QED  BY <2>4, <2>5, <3>1 DEF AtData, u
  <2>7. Stage(z, r, n, y)
    BY <2>4, <2>6, PastStage DEF PastStatus
  <2> QED  BY <2>1, <2>4, <2>7 DEF z
<1>7. LineLeads(p, r, n, y, u, line)
  BY <1>6 DEF LineLeads
<1> QED  BY <1>3, <1>4, <1>7, TurnByLine

\* The line with the size of the last chunk.
LEMMA LastTurn ==
    ASSUME NEW r \in Responses, NEW n \in Nat, NEW y \in Seq(Tokens),
           NEW p \in Parsers(Tokens), ~Mixed(r, n), p.status = r.status, p.of = n,
           p.state = "size", r.framing = "chunked", p.body = Bytes(r, n),
           Ahead(p, y, LastChunk(r, n))
    PROVE  KeepsPlace(p, Turn(p), r, n, y)
<1> DEFINE u == Eol(r.chunkEol, n)
           line == <<Token("size", 0, n)>>
<1>0. 0 \in Nat /\ 0 % Word = 0 /\ "size" \in Kinds
  BY WordAssumption DEF Kinds
<1>1. p.buffer \in Seq(Tokens) /\ u \in Seq(Tokens)
  BY ResponseType, EolFacts DEF Parsers
<1>2. SameJoin(p.buffer, y, Line("size", 0, r.chunkEol, n), u)
  BY Zenon DEF LastChunk, Ahead, SameJoin
<1>e. r.eol \in Ends /\ r.chunkEol \in Ends
  BY ResponseType
<1>m. r.chunkEol = "lf" => NoPair(p.buffer)
  BY PartsUnmixed, BufferUnmixed
<1>3. LineOrNone(Tokens, p.buffer, y, u, line)
  BY <1>0, <1>1, <1>2, <1>m, <1>e, LineTaken
<1>4. p.state \in LineStates /\ Stage(p, r, n, y)
  <2>1. AtSize(p, r, n, y)
    BY Zenon DEF AtSize
  <2> QED  BY <2>1 DEF LineStates, Stage, PastStatus
<1>5. line[1].k = "size" /\ line[1].v = 0 /\ Len(line) = 1
  BY DEF Token
<1> HIDE DEF u, line
<1>6. ASSUME NEW q \in Parsers(Tokens), Rebuffered(p, q), Ahead(q, y, u)
      PROVE  /\ FeedLineOf(q, line) \in Parsers(Tokens)
             /\ Stage(FeedLineOf(q, line), r, n, y)
             /\ FeedLineOf(q, line).body = p.body
  <2> DEFINE z == FeedLineOf(q, line)
  <2>1. q.state = "size" /\ q.body = Bytes(r, n) /\ q.status = r.status /\ q.of = n
    BY <1>6 DEF Rebuffered
  <2>2. z = FeedChunkSize(q, line)
    BY <2>1, Zenon DEF FeedLineOf
  <2> HIDE DEF z
  <2>3. z = [q EXCEPT !.state = "trailer"]
    BY <1>0, <1>5, <2>2 DEF FeedChunkSize
  <2>4. /\ z \in Parsers(Tokens) /\ z.state = "trailer" /\ z.status = r.status
        /\ z.of = n /\ z.body = q.body /\ z.buffer = q.buffer
    BY <2>1, <2>3 DEF Parsers, Places
  <2>5. Ahead(z, y, u)
    BY <1>6, <2>4, Zenon DEF Ahead
  <2>6. AtTrailer(z, r, n, y)
    BY <2>1, <2>4, <2>5 DEF AtTrailer, u
  <2>7. Stage(z, r, n, y)
    BY <2>4, <2>6, PastStage DEF PastStatus
  <2> QED  BY <2>1, <2>4, <2>7 DEF z
<1>7. LineLeads(p, r, n, y, u, line)
  BY <1>6 DEF LineLeads
<1> QED  BY <1>3, <1>4, <1>7, TurnByLine

\* The blank line behind the last chunk.
LEMMA TrailerTurn ==
    ASSUME NEW r \in Responses, NEW n \in Nat, NEW y \in Seq(Tokens),
           NEW p \in Parsers(Tokens), ~Mixed(r, n), p.status = r.status, p.of = n, AtTrailer(p, r, n, y)
    PROVE  KeepsPlace(p, Turn(p), r, n, y)
<1> DEFINE u == <<>>
           line == <<>>
<1>1. p.buffer \in Seq(Tokens) /\ u \in Seq(Tokens)
  BY DEF Parsers
<1>2. SameJoin(p.buffer, y, Eol(r.chunkEol, n), u)
  <2>1. Eol(r.chunkEol, n) \o <<>> = Eol(r.chunkEol, n)
    BY ResponseType, EolFacts
  <2> QED  BY <2>1, Zenon DEF AtTrailer, Ahead, SameJoin
<1>e. r.eol \in Ends /\ r.chunkEol \in Ends
  BY ResponseType
<1>m. r.chunkEol = "lf" => NoPair(p.buffer)
  <2>1. Ahead(p, y, Eol(r.chunkEol, n)) /\ r.framing = "chunked"
    BY DEF AtTrailer
  <2> QED  BY <2>1, PartsUnmixed, BufferUnmixed
<1>3. LineOrNone(Tokens, p.buffer, y, u, line)
  BY <1>1, <1>2, <1>m, <1>e, BlankTaken
<1>4. p.state \in LineStates /\ Stage(p, r, n, y)
  BY DEF LineStates, Stage, PastStatus, AtTrailer
<1>6. ASSUME NEW q \in Parsers(Tokens), Rebuffered(p, q), Ahead(q, y, u)
      PROVE  /\ FeedLineOf(q, line) \in Parsers(Tokens)
             /\ Stage(FeedLineOf(q, line), r, n, y)
             /\ FeedLineOf(q, line).body = p.body
  <2> DEFINE z == FeedLineOf(q, line)
  <2>1. /\ q.state = "trailer" /\ q.body = Bytes(r, n) /\ q.status = r.status /\ q.of = n
        /\ p.body = q.body /\ q.buffer \in Seq(Tokens) /\ r.framing = "chunked"
    BY <1>6 DEF Rebuffered, AtTrailer, Parsers
  <2>2. z = [q EXCEPT !.state = "complete"]
    BY <2>1, Zenon DEF FeedLineOf, FeedChunkTrailer
  <2> HIDE DEF z
  <2>4. /\ z \in Parsers(Tokens) /\ z.state = "complete" /\ z.status = r.status
        /\ z.of = n /\ z.body = q.body /\ z.buffer = q.buffer
    BY <2>1, <2>2 DEF Parsers, Places
  <2>5. q.buffer \o y = <<>>
    BY <1>6, Zenon DEF Ahead
  <2>6. q.buffer = <<>> /\ y = <<>>
    BY <2>1, <2>5, CutEmpty
  <2>7. AtEnd(z, r, n, y)
    BY <2>1, <2>4, <2>6 DEF AtEnd
  <2>8. Stage(z, r, n, y)
    BY <2>4, <2>7, PastStage DEF PastStatus
  <2> QED  BY <2>1, <2>4, <2>8 DEF z
<1>7. LineLeads(p, r, n, y, u, line)
  BY <1>6 DEF LineLeads
<1> HIDE DEF u, line
<1> QED  BY <1>3, <1>4, <1>7, TurnByLine

\* The less of two numbers.
LEMMA LeastOfTwo ==
    ASSUME NEW a \in Nat, NEW b \in Nat
    PROVE  Least({a, b}) \in {a, b} /\ Least({a, b}) <= a /\ Least({a, b}) <= b
<1>1. CASE a <= b
  <2>1. Least({a, b}) = a
    BY <1>1, LeastIs
  <2> QED  BY <1>1, <2>1
<1>2. CASE b <= a
  <2>1. Least({a, b}) = b
    BY <1>2, LeastIs
  <2> QED  BY <1>2, <2>1
<1> QED  BY <1>1, <1>2

\* Tokens go from the buffer to the body, and nothing is lost between them.
LEMMA EmitFacts ==
    ASSUME NEW S, NEW p \in Parsers(S), NEW m \in 0 .. Len(p.buffer), m <= p.remaining,
           NEW next \in Places, NEW y \in Seq(S), NEW z, z = Emit(p, m, next)
    PROVE  /\ z \in Parsers(S) /\ Grown(S, p, z) /\ Len(z.body) = Len(p.body) + m
           /\ SameJoin(z.body, z.buffer \o y, p.body, p.buffer \o y)
           /\ z.remaining = p.remaining - m /\ z.state = (IF p.remaining = m THEN next ELSE p.state)
           /\ z.status = p.status /\ z.of = p.of /\ z.chunked = p.chunked
           /\ z.hasLength = p.hasLength
<1> DEFINE c == SubSeq(p.buffer, 1, m)
           d == SubSeq(p.buffer, m + 1, Len(p.buffer))
           B == p.body
           left == p.remaining - m
           place == IF p.remaining = m THEN next ELSE p.state
<1>1. p.buffer \in Seq(S) /\ B \in Seq(S) /\ Len(p.buffer) \in Nat /\ p.remaining \in Nat
      /\ p.state \in Places
  BY DEF Parsers
<1>2. c \in Seq(S) /\ d \in Seq(S) /\ Len(c) = m /\ c \o d = p.buffer
  BY <1>1, CutSeq
<1>3. left \in Nat /\ place \in Places
  BY <1>1
<1>4. z = [p EXCEPT !.buffer = d, !.body = B \o c, !.remaining = left, !.state = place]
  BY DEF Emit, Consume, Parsers
<1> HIDE DEF c, d, left, place, B
<1>5. B \o c \in Seq(S) /\ Len(B \o c) = Len(B) + m
  <2>1. B \in Seq(S) /\ c \in Seq(S) /\ Len(c) = m
    BY <1>1, <1>2
  <2> QED  BY <2>1
<1> DEFINE e == B \o c
<1>6. e \in Seq(S) /\ z = [p EXCEPT !.buffer = d, !.body = e, !.remaining = left, !.state = place]
  BY <1>4, <1>5
<1>7. /\ z.body = e /\ z.buffer = d /\ z.remaining = left /\ z.state = place
      /\ z.status = p.status /\ z.of = p.of /\ z.chunked = p.chunked
      /\ z.hasLength = p.hasLength /\ z \in Parsers(S)
  <2> HIDE DEF e
  <2> QED  BY <1>2, <1>3, <1>6 DEF Parsers
<1>8. Grown(S, p, z)
  BY <1>2, <1>7, Zenon DEF Grown, B
<1>9. Len(z.body) = Len(p.body) + m
  BY <1>5, <1>7 DEF B
<1>10. SameJoin(z.body, z.buffer \o y, p.body, p.buffer \o y)
  <2>1. d \o y \in Seq(S)
    BY <1>2
  <2>2. Assoc(B, c, d \o y) /\ Assoc(c, d, y)
    BY <1>1, <1>2, <2>1, JoinAssoc
  <2>3. (B \o c) \o (d \o y) = B \o (p.buffer \o y)
    BY <1>2, <2>2, Zenon DEF Assoc
  <2> QED  BY <1>7, <2>3, Zenon DEF SameJoin, B
<1> QED  BY <1>7, <1>8, <1>9, <1>10 DEF left, place

\* A body that ends at its length.
LEMMA BodyTurn ==
    ASSUME NEW r \in Responses, NEW n \in Nat, NEW y \in Seq(Tokens),
           NEW p \in Parsers(Tokens), p.status = r.status, p.of = n, AtBody(p, r, n, y)
    PROVE  KeepsPlace(p, Turn(p), r, n, y)
<1> DEFINE S == Tokens
           m == Least({Len(p.buffer), p.remaining})
           z == Turn(p)
<1>0. p.state = "body" /\ ~p.chunked /\ ~Ended(p) /\ Stage(p, r, n, y)
  BY DEF AtBody, Ended, Stage, PastStatus
<1>1. CASE p.buffer = <<>>
  <2>1. Turn(p) = p
    BY <1>1 DEF Turn
  <2> QED  BY <1>0, <2>1, FollowsSame
<1>2. CASE p.buffer # <<>> /\ r.framing = "close"
  <2>1. ~p.hasLength /\ p.remaining = 0
    BY <1>2 DEF AtBody
  <2>2. z = FeedBody(p)
    BY <1>0, <1>2 DEF Turn
  <2> DEFINE l == Len(p.buffer)
             d == SubSeq(p.buffer, l + 1, l)
             e == p.body \o p.buffer
  <2>3. p.buffer \in Seq(S) /\ p.body \in Seq(S) /\ l \in Nat
    BY DEF Parsers
  <2>4. d \in Seq(S) /\ e \in Seq(S)
    BY <2>3
  <2>5. z = [p EXCEPT !.buffer = d, !.body = e]
    BY <2>1, <2>2 DEF FeedBody, Consume, Parsers
  <2> HIDE DEF d, e, z
  <2>6. /\ z \in Parsers(S) /\ z.state = "body" /\ z.status = p.status /\ z.of = p.of
        /\ z.chunked = p.chunked /\ z.hasLength = p.hasLength /\ z.remaining = p.remaining
        /\ z.body = e
    BY <1>0, <2>4, <2>5 DEF Parsers
  <2>7. AtBody(z, r, n, y)
    BY <1>0, <1>2, <2>1, <2>6 DEF AtBody
  <2>8. Stage(z, r, n, y)
    BY <2>6, <2>7, PastStage DEF PastStatus
  <2>9. Grown(S, p, z)
    BY <2>3, <2>6, Zenon DEF Grown, e
  <2> QED  BY <2>6, <2>8, <2>9 DEF KeepsPlace, z
<1>3. CASE p.buffer # <<>> /\ r.framing # "close"
  <2>1. /\ r.framing = "length" /\ p.hasLength /\ p.remaining > 0
        /\ Len(p.body) + p.remaining = Size(r) /\ Around(p, y, Bytes(r, n))
    BY <1>3 DEF AtBody
  <2>2. Len(p.buffer) \in Nat /\ p.remaining \in Nat /\ Len(p.body) \in Nat
    BY DEF Parsers
  <2>3. m \in 0 .. Len(p.buffer) /\ m <= p.remaining
    <3>1. /\ m \in {Len(p.buffer), p.remaining}
          /\ m <= Len(p.buffer) /\ m <= p.remaining
      BY <2>2, LeastOfTwo
    <3> HIDE DEF m
    <3> QED  BY <2>2, <3>1
  <2>4. z = Emit(p, m, "complete") /\ "complete" \in Places
    BY <1>0, <1>3, <2>1 DEF Turn, FeedBody, Places
  <2> HIDE DEF z, m
  <2>5. /\ z \in Parsers(S) /\ Grown(S, p, z) /\ Len(z.body) = Len(p.body) + m
        /\ SameJoin(z.body, z.buffer \o y, p.body, p.buffer \o y)
        /\ z.remaining = p.remaining - m /\ z.state = (IF p.remaining = m THEN "complete" ELSE p.state)
        /\ z.status = p.status /\ z.of = p.of /\ z.chunked = p.chunked
        /\ z.hasLength = p.hasLength
    BY <2>3, <2>4, EmitFacts
  <2>6. Around(z, y, Bytes(r, n))
    BY <2>1, <2>5, Zenon DEF SameJoin, Around
  <2>7. Bytes(r, n) \in Seq(S) /\ Len(Bytes(r, n)) = Size(r)
    BY BytesFacts
  <2>8. CASE p.remaining = m
    <3>1. z.body \in Seq(S) /\ z.buffer \in Seq(S) /\ z.buffer \o y \in Seq(S)
      BY <2>5 DEF Parsers
    <3>2. Len(Bytes(r, n)) = Len(z.body)
      BY <2>1, <2>2, <2>5, <2>7, <2>8
    <3>3. SameJoin(z.body, z.buffer \o y, Bytes(r, n), <<>>)
      <4>1. Bytes(r, n) \o <<>> = Bytes(r, n)
        BY <2>7
      <4> QED  BY <2>6, <4>1, Zenon DEF SameJoin, Around
    <3>4. z.body = Bytes(r, n) /\ z.buffer \o y = <<>>
      <4>1. <<>> \in Seq(S)
        OBVIOUS
      <4> DEFINE w == z.buffer \o y
      <4>2. w \in Seq(S) /\ SameJoin(z.body, w, Bytes(r, n), <<>>)
        BY <3>1, <3>3
      <4> HIDE DEF w, S
      <4> QED  BY <2>7, <3>1, <3>2, <4>1, <4>2, JoinCancel DEF w
    <3>5. z.buffer = <<>> /\ y = <<>>
      BY <3>1, <3>4, CutEmpty
    <3>6. AtEnd(z, r, n, y)
      BY <2>1, <2>5, <2>8, <3>4, <3>5 DEF AtEnd
    <3>7. Stage(z, r, n, y)
      BY <2>5, <3>6, PastStage DEF PastStatus
    <3> QED  BY <2>5, <3>7 DEF KeepsPlace, z
  <2>9. CASE p.remaining # m
    <3>1. z.remaining > 0 /\ Len(z.body) + z.remaining = Size(r) /\ z.state = "body"
      BY <1>0, <2>1, <2>2, <2>3, <2>5, <2>9
    <3>2. AtBody(z, r, n, y)
      BY <1>0, <2>1, <2>5, <2>6, <3>1 DEF AtBody
    <3>3. Stage(z, r, n, y)
      BY <2>5, <3>2, PastStage DEF PastStatus
    <3> QED  BY <2>5, <3>3 DEF KeepsPlace, z
  <2> QED  BY <2>8, <2>9
<1> QED  BY <1>1, <1>2, <1>3

\* The data of the chunk that has the body.
LEMMA DataTurn ==
    ASSUME NEW r \in Responses, NEW n \in Nat, NEW y \in Seq(Tokens),
           NEW p \in Parsers(Tokens), p.status = r.status, p.of = n, AtData(p, r, n, y)
    PROVE  KeepsPlace(p, Turn(p), r, n, y)
<1> DEFINE S == Tokens
           m == Least({Len(p.buffer), p.remaining})
           z == Turn(p)
           rest == Eol(r.chunkEol, n) \o LastChunk(r, n)
<1>0. p.state = "data" /\ ~Ended(p) /\ Stage(p, r, n, y)
  BY DEF AtData, Ended, Stage, PastStatus
<1>1. CASE p.buffer = <<>>
  <2>1. Turn(p) = p
    BY <1>1 DEF Turn
  <2> QED  BY <1>0, <2>1, FollowsSame
<1>2. CASE p.buffer # <<>>
  <2>1. /\ r.framing = "chunked" /\ p.remaining > 0
        /\ Len(p.body) + p.remaining = Size(r) /\ Around(p, y, FromData(r, n))
    BY DEF AtData
  <2>2. Len(p.buffer) \in Nat /\ p.remaining \in Nat /\ Len(p.body) \in Nat
    BY DEF Parsers
  <2>3. m \in 0 .. Len(p.buffer) /\ m <= p.remaining
    <3>1. /\ m \in {Len(p.buffer), p.remaining}
          /\ m <= Len(p.buffer) /\ m <= p.remaining
      BY <2>2, LeastOfTwo
    <3> HIDE DEF m
    <3> QED  BY <2>2, <3>1
  <2>4. z = Emit(p, m, "data_end") /\ "data_end" \in Places
    BY <1>0, <1>2, <2>1 DEF Turn, FeedChunkData, Places
  <2>7. Bytes(r, n) \in Seq(S) /\ Len(Bytes(r, n)) = Size(r) /\ rest \in Seq(S)
    <3>1. Eol(r.chunkEol, n) \in Seq(S)
      BY ResponseType, EolFacts, Zenon
    <3>2. LastChunk(r, n) \in Seq(S)
      BY PartsType, Zenon
    <3> QED  BY <3>1, <3>2, BytesFacts
  <2> HIDE DEF z, m, rest
  <2>5. /\ z \in Parsers(S) /\ Grown(S, p, z) /\ Len(z.body) = Len(p.body) + m
        /\ SameJoin(z.body, z.buffer \o y, p.body, p.buffer \o y)
        /\ z.remaining = p.remaining - m /\ z.state = (IF p.remaining = m THEN "data_end" ELSE p.state)
        /\ z.status = p.status /\ z.of = p.of /\ z.chunked = p.chunked
        /\ z.hasLength = p.hasLength
    BY <2>3, <2>4, EmitFacts
  <2>6. Around(z, y, FromData(r, n))
    BY <2>1, <2>5, Zenon DEF SameJoin, Around
  <2>8. CASE p.remaining = m
    <3>1. z.body \in Seq(S) /\ z.buffer \in Seq(S) /\ z.buffer \o y \in Seq(S)
      BY <2>5 DEF Parsers
    <3>2. Len(Bytes(r, n)) = Len(z.body)
      BY <2>1, <2>2, <2>5, <2>7, <2>8
    <3>3. SameJoin(z.body, z.buffer \o y, Bytes(r, n), rest)
      BY <2>6, Zenon DEF SameJoin, Around, FromData, rest
    <3>4. z.body = Bytes(r, n) /\ z.buffer \o y = rest
      <4> DEFINE w == z.buffer \o y
      <4>2. w \in Seq(S) /\ SameJoin(z.body, w, Bytes(r, n), rest)
        BY <3>1, <3>3
      <4> HIDE DEF w, S
      <4>4. /\ Bytes(r, n) \in Seq(S) /\ rest \in Seq(S) /\ z.body \in Seq(S) /\ w \in Seq(S)
            /\ Len(Bytes(r, n)) = Len(z.body) /\ SameJoin(z.body, w, Bytes(r, n), rest)
        BY <2>7, <3>1, <3>2, <4>2, Zenon
      <4>3. z.body = Bytes(r, n) /\ w = rest
        <5> DEFINE a == Bytes(r, n)
                   b == z.body
        <5>1. /\ a \in Seq(S) /\ rest \in Seq(S) /\ b \in Seq(S) /\ w \in Seq(S)
              /\ Len(a) = Len(b) /\ SameJoin(b, w, a, rest)
          BY <4>4, Zenon
        <5> HIDE DEF a, b
        <5>2. b = a /\ w = rest
          BY <5>1, JoinCancel
        <5> QED  BY <5>2 DEF a, b
      <4> QED  BY <4>3, Zenon DEF w
    <3>5. Ahead(z, y, Eol(r.chunkEol, n) \o LastChunk(r, n))
      BY <3>4, Zenon DEF Ahead, rest
    <3>6. AtDataEnd(z, r, n, y)
      BY <2>1, <2>5, <2>8, <3>4, <3>5 DEF AtDataEnd
    <3>7. Stage(z, r, n, y)
      BY <2>5, <3>6, PastStage DEF PastStatus
    <3> QED  BY <2>5, <3>7 DEF KeepsPlace, z
  <2>9. CASE p.remaining # m
    <3>1. z.remaining > 0 /\ Len(z.body) + z.remaining = Size(r) /\ z.state = "data"
      BY <1>0, <2>1, <2>2, <2>3, <2>5, <2>9
    <3>2. AtData(z, r, n, y)
      BY <1>0, <2>1, <2>5, <2>6, <3>1 DEF AtData
    <3>3. Stage(z, r, n, y)
      BY <2>5, <3>2, PastStage DEF PastStatus
    <3> QED  BY <2>5, <3>3 DEF KeepsPlace, z
  <2> QED  BY <2>8, <2>9
<1> QED  BY <1>1, <1>2

\* The end of the line behind the data.
LEMMA DataEndTurn ==
    ASSUME NEW r \in Responses, NEW n \in Nat, NEW y \in Seq(Tokens),
           NEW p \in Parsers(Tokens), p.status = r.status, p.of = n, AtDataEnd(p, r, n, y)
    PROVE  KeepsPlace(p, Turn(p), r, n, y)
<1> DEFINE S == Tokens
           b == p.buffer
           E == Eol(r.chunkEol, n)
           u == LastChunk(r, n)
           z == Turn(p)
<1>0. /\ p.state = "data_end" /\ ~Ended(p) /\ Stage(p, r, n, y)
      /\ r.framing = "chunked" /\ p.body = Bytes(r, n)
  BY DEF AtDataEnd, Ended, Stage, PastStatus
<1>1. CASE b = <<>>
  <2>1. Turn(p) = p
    BY <1>1 DEF Turn
  <2> QED  BY <1>0, <2>1, FollowsSame
<1>2. CASE b # <<>>
  <2>1. b \in Seq(S) /\ E \in Seq(S) /\ u \in Seq(S) /\ Len(b) \in Nat /\ Len(b) > 0
    <3>1. b \in Seq(S) /\ E \in Seq(S) /\ u \in Seq(S)
      BY ResponseType, EolFacts, PartsType DEF Parsers
    <3> HIDE DEF b
    <3> QED  BY <1>2, <3>1
  <2>2. SameJoin(b, y, E, u)
    BY Zenon DEF AtDataEnd, Ahead, SameJoin
  <2>l. EndsLine(r.chunkEol, E)
    BY ResponseType, EolFacts, Zenon
  <2>4. z = FeedChunkDataEnd(p)
    BY <1>0, <1>2 DEF Turn
  <2> HIDE DEF E, u, z, S
  <2>3. /\ r.chunkEol = "crlf" => Len(E) = 2 /\ E[1].k = "CR" /\ E[2].k = "LF"
        /\ r.chunkEol # "crlf" => Len(E) = 1 /\ E[1].k = "LF"
    BY <2>l, Zenon DEF EndsLine
  <2>5. /\ \A i \in 1 .. Len(E) : i <= Len(b) => b[i] = E[i]
        /\ Len(E) <= Len(b) => LeftOf(S, b, Len(E), y, u)
    <3>1. y \in Seq(S)
      BY DEF S
    <3> QED  BY <2>1, <2>2, <3>1, CutTwice
  <2>6. ASSUME NEW m \in 1 .. Len(b), LeftOf(S, b, m, y, u), z = [Consume(p, m) EXCEPT !.state = "size"]
        PROVE  KeepsPlace(p, z, r, n, y)
    <3> DEFINE q == Consume(p, m)
               d == SubSeq(b, m + 1, Len(b))
    <3>0. m \in 0 .. Len(b)
      BY <2>1
    <3>1. q \in Parsers(S) /\ q = [p EXCEPT !.buffer = d] /\ Ahead(q, y, u)
      BY <2>6, <3>0, ConsumeFacts DEF S
    <3>2. d \in Seq(S)
      BY <2>6, Zenon DEF LeftOf
    <3> HIDE DEF q, d
    <3>3. /\ q.status = p.status /\ q.of = p.of /\ q.body = p.body
      BY <3>1, <3>2, BufferFacts DEF S
    <3>4. z = [q EXCEPT !.state = "size"]
      BY <2>6 DEF q
    <3>5. /\ z \in Parsers(S) /\ z.state = "size" /\ z.status = q.status /\ z.of = q.of
          /\ z.body = q.body /\ z.buffer = q.buffer
      BY <3>1, <3>4 DEF Parsers, Places
    <3>6. Ahead(z, y, u)
      BY <3>1, <3>5, Zenon DEF Ahead
    <3>7. AtSize(z, r, n, y)
      BY <1>0, <3>3, <3>5, <3>6 DEF AtSize, u
    <3>8. Stage(z, r, n, y)
      BY <3>3, <3>5, <3>7, PastStage DEF PastStatus
    <3>9. Grown(S, p, z)
      BY <3>3, <3>5, GrownSame DEF S
    <3> QED  BY <3>5, <3>8, <3>9 DEF KeepsPlace, S
  <2>7. CASE r.chunkEol = "crlf"
    <3>0. Len(E) = 2 /\ E[1].k = "CR" /\ E[2].k = "LF"
      BY <2>3, <2>7, Zenon
    <3>1. b[1].k = "CR" /\ b[1].k # "LF"
      <4>1. 1 \in 1 .. Len(E) /\ 1 <= Len(b)
        BY <2>1, <3>0
      <4>2. b[1] = E[1]
        BY <2>5, <4>1
      <4> QED  BY <3>0, <4>2
    <3>2. CASE Len(b) < 2
      <4>1. z = p
        BY <2>4, <3>1, <3>2 DEF FeedChunkDataEnd
      <4> QED  BY <1>0, <4>1, FollowsSame DEF z
    <3>3. CASE ~(Len(b) < 2)
      <4>1. 2 \in 1 .. Len(E) /\ 2 <= Len(b) /\ 2 \in 1 .. Len(b)
        BY <2>1, <3>0, <3>3
      <4>2. b[2].k = "LF"
        BY <2>5, <3>0, <4>1
      <4>3. z = [Consume(p, 2) EXCEPT !.state = "size"]
        BY <2>4, <3>1, <3>3, <4>2 DEF FeedChunkDataEnd
      <4>4. LeftOf(S, b, 2, y, u)
        BY <2>5, <3>0, <4>1
      <4> QED  BY <2>6, <4>1, <4>3, <4>4 DEF z
    <3> QED  BY <3>2, <3>3
  <2>8. CASE r.chunkEol # "crlf"
    <3>0. Len(E) = 1 /\ E[1].k = "LF"
      BY <2>3, <2>8, Zenon
    <3>1. 1 \in 1 .. Len(E) /\ 1 <= Len(b) /\ 1 \in 1 .. Len(b)
      BY <2>1, <3>0
    <3>2. b[1].k = "LF"
      BY <2>5, <3>0, <3>1
    <3>3. z = [Consume(p, 1) EXCEPT !.state = "size"]
      BY <2>4, <3>2 DEF FeedChunkDataEnd
    <3>4. LeftOf(S, b, 1, y, u)
      BY <2>5, <3>0, <3>1
    <3> QED  BY <2>6, <3>1, <3>3, <3>4 DEF z
  <2> QED  BY <2>7, <2>8
<1> QED  BY <1>1, <1>2

\* Every turn keeps the place in the response.
LEMMA TurnKeepsPlace ==
    ASSUME NEW r \in Responses, NEW n \in Nat, NEW y \in Seq(Tokens),
           NEW p \in Parsers(Tokens), Stage(p, r, n, y), ~Mixed(r, n)
    PROVE  KeepsPlace(p, Turn(p), r, n, y)
<1>1. CASE AtStatus(p, r, n, y)
  BY <1>1, StatusTurn
<1>2. ASSUME p.status = r.status, p.of = n, PastStatus(p, r, n, y)
      PROVE  KeepsPlace(p, Turn(p), r, n, y)
  <2>1. CASE AtHeaders(p, r, n, y)
    BY <1>2, <2>1, HeadersTurn
  <2>2. CASE AtBody(p, r, n, y)
    BY <1>2, <2>2, BodyTurn
  <2>3. CASE AtSize(p, r, n, y)
    <3>1. p.state = "size" /\ r.framing = "chunked"
      BY <2>3 DEF AtSize
    <3>2. CASE p.body = <<>> /\ Ahead(p, y, FromSize(r, n)) /\ Size(r) # 0
      BY <1>2, <3>1, <3>2, SizeTurn
    <3>3. CASE p.body = <<>> /\ Ahead(p, y, FromSize(r, n)) /\ Size(r) = 0
      <4>1. Ahead(p, y, LastChunk(r, n))
        BY <3>3 DEF FromSize
      <4>2. Bytes(r, n) = <<>>
        BY <3>3, BytesFacts
      <4> QED  BY <1>2, <3>1, <3>3, <4>1, <4>2, LastTurn
    <3>4. CASE p.body = Bytes(r, n) /\ Ahead(p, y, LastChunk(r, n))
      BY <1>2, <3>1, <3>4, LastTurn
    <3> QED  BY <2>3, <3>2, <3>3, <3>4 DEF AtSize
  <2>4. CASE AtData(p, r, n, y)
    BY <1>2, <2>4, DataTurn
  <2>5. CASE AtDataEnd(p, r, n, y)
    BY <1>2, <2>5, DataEndTurn
  <2>6. CASE AtTrailer(p, r, n, y)
    BY <1>2, <2>6, TrailerTurn
  <2>7. CASE AtEnd(p, r, n, y)
    <3>1. Turn(p) = p
      BY <2>7 DEF AtEnd, Turn, Ended
    <3> QED  BY <3>1, FollowsSame
  <2> QED  BY <1>2, <2>1, <2>2, <2>3, <2>4, <2>5, <2>6, <2>7 DEF PastStatus
<1> QED  BY <1>1, <1>2 DEF Stage

-----------------------------------------------------------------------------
(* Feed. *)

\* The first k turns from all on.
RunOf(f, all, k) == f = [m \in 0 .. k |-> IF m = 0 THEN all ELSE Turn(f[m - 1])]

\* A set of numbers has a lowest one.
LEMMA LowestOf ==
    ASSUME NEW B \in SUBSET Nat, B # {}
    PROVE  \E m \in B : \A k \in B : ~(k < m)
<1>1. \E m \in B : ~ \E k \in B : <<k, m>> \in OpToRel(<, Nat)
  BY NatLessThanWellFounded, WFMin
<1>2. \A k, m \in B : k < m => <<k, m>> \in OpToRel(<, Nat)
  BY DEF OpToRel
<1> QED  BY <1>1, <1>2

\* The turns of Feed can be run.
LEMMA RunExists ==
    ASSUME NEW all, NEW l \in Nat
    PROVE  \E f : RunOf(f, all, l)
<1> DEFINE Bad == {k \in Nat : ~ \E f : RunOf(f, all, k)}
<1>1. SUFFICES ASSUME Bad # {} PROVE FALSE
  OBVIOUS
<1>2. Bad \in SUBSET Nat
  OBVIOUS
<1>3. PICK m \in Bad : \A k \in Bad : ~(k < m)
  <2> HIDE DEF Bad
  <2> QED  BY <1>1, <1>2, LowestOf
<1>4. m \in Nat /\ ~ \E f : RunOf(f, all, m)
  OBVIOUS
<1>5. CASE m = 0
  <2> DEFINE g == [i \in 0 .. 0 |-> all]
  <2>1. \A i \in 0 .. 0 : i = 0
    OBVIOUS
  <2>2. g = [i \in 0 .. 0 |-> IF i = 0 THEN all ELSE Turn(g[i - 1])]
    BY <2>1
  <2>3. RunOf(g, all, 0)
    BY <2>2, Zenon DEF RunOf
  <2> QED  BY <1>4, <1>5, <2>3
<1>6. CASE m # 0
  <2>1. m - 1 \in Nat /\ m - 1 < m
    BY <1>4, <1>6
  <2>2. m - 1 \notin Bad
    BY <1>3, <2>1
  <2>3. PICK f : RunOf(f, all, m - 1)
    BY <2>1, <2>2
  <2>4. f = [i \in 0 .. (m - 1) |-> IF i = 0 THEN all ELSE Turn(f[i - 1])]
    BY <2>3, Zenon DEF RunOf
  <2> DEFINE g == [i \in 0 .. m |-> IF i = m THEN Turn(f[m - 1]) ELSE f[i]]
  <2>5. ASSUME NEW i \in 0 .. m PROVE g[i] = IF i = 0 THEN all ELSE Turn(g[i - 1])
    <3>1. CASE i = 0
      <4>1. g[0] = f[0]
        BY <1>4, <1>6
      <4>2. f[0] = all
        BY <1>4, <1>6, <2>4
      <4> QED  BY <3>1, <4>1, <4>2
    <3>2. CASE i # 0 /\ i # m
      <4>1. i \in 0 .. (m - 1) /\ i - 1 \in 0 .. m /\ i - 1 # m
        BY <1>4, <3>2
      <4>2. g[i] = f[i] /\ g[i - 1] = f[i - 1]
        BY <3>2, <4>1
      <4>3. f[i] = Turn(f[i - 1])
        BY <2>4, <3>2, <4>1
      <4> QED  BY <3>2, <4>2, <4>3
    <3>3. CASE i = m
      <4>1. m \in 0 .. m /\ m - 1 \in 0 .. m /\ m - 1 # m
        BY <1>4, <1>6
      <4>2. g[m] = Turn(f[m - 1]) /\ g[m - 1] = f[m - 1]
        BY <4>1
      <4> QED  BY <1>6, <3>3, <4>2
    <3> QED  BY <3>1, <3>2, <3>3
  <2>6. g = [i \in 0 .. m |-> IF i = 0 THEN all ELSE Turn(g[i - 1])]
    <3>1. g = [i \in 0 .. m |-> g[i]]
      OBVIOUS
    <3> HIDE DEF g
    <3> QED  BY <2>5, <3>1
  <2>7. RunOf(g, all, m)
    BY <2>6, Zenon DEF RunOf
  <2> QED  BY <1>4, <2>7
<1> QED  BY <1>5, <1>6

\* What Feed leaves is what its turns leave.
LEMMA FeedIs ==
    ASSUME NEW p, NEW piece, NEW all, all = [p EXCEPT !.buffer = @ \o piece],
           Len(all.buffer) \in Nat
    PROVE  \E f : /\ RunOf(f, all, Len(all.buffer))
                  /\ LET q == f[Len(all.buffer)]
                     IN  Feed(p, piece) = CASE Ended(p) -> p
                                            [] ~Ended(p) /\ Ended(q) -> [q EXCEPT !.buffer = <<>>]
                                            [] OTHER -> q
<1> DEFINE l == Len(all.buffer)
           g == CHOOSE f : f = [m \in 0 .. l |-> IF m = 0 THEN all ELSE Turn(f[m - 1])]
           q == g[l]
<1>1. \E f : f = [m \in 0 .. l |-> IF m = 0 THEN all ELSE Turn(f[m - 1])]
  <2>1. \E f : RunOf(f, all, l)
    BY RunExists
  <2> QED  BY <2>1, Zenon DEF RunOf
<1>2. g = [m \in 0 .. l |-> IF m = 0 THEN all ELSE Turn(g[m - 1])]
  BY <1>1, Zenon
<1>3. RunOf(g, all, l)
  BY <1>2, Zenon DEF RunOf
<1>4. Feed(p, piece) = CASE Ended(p) -> p
                         [] ~Ended(p) /\ Ended(q) -> [q EXCEPT !.buffer = <<>>]
                         [] OTHER -> q
  <2> DEFINE G(a) == CHOOSE f : f = [m \in 0 .. Len(a.buffer) |-> IF m = 0 THEN a ELSE Turn(f[m - 1])]
             Q(a) == G(a)[Len(a.buffer)]
             F(a) == CASE Ended(p) -> p
                       [] ~Ended(p) /\ Ended(Q(a)) -> [Q(a) EXCEPT !.buffer = <<>>]
                       [] OTHER -> Q(a)
  <2>1. Feed(p, piece) = F([p EXCEPT !.buffer = @ \o piece])
    BY Zenon DEF Feed
  <2>2. ASSUME NEW a, NEW b, a = b PROVE F(a) = F(b)
    <3> HIDE DEF F
    <3> QED  BY <2>2
  <2>3. F([p EXCEPT !.buffer = @ \o piece]) = F(all)
    <3> HIDE DEF F
    <3> QED  BY <2>2, Zenon
  <2> QED  BY <2>1, <2>3, Zenon
<1> HIDE DEF g
<1> QED  BY <1>3, <1>4

LEMMA KeepsTwice ==
    ASSUME NEW r, NEW n, NEW y, NEW x, NEW p \in Parsers(Tokens), NEW q, NEW z,
           KeepsPlace(p, q, r, n, x), KeepsPlace(q, z, r, n, y)
    PROVE  KeepsPlace(p, z, r, n, y)
  BY GrownTwice DEF KeepsPlace

\* However many turns there are, the place is kept.
LEMMA RunKeepsPlace ==
    ASSUME NEW r \in Responses, NEW n \in Nat, ~Mixed(r, n), NEW y \in Seq(Tokens),
           NEW all \in Parsers(Tokens), Stage(all, r, n, y), NEW l \in Nat, NEW f, RunOf(f, all, l)
    PROVE  KeepsPlace(all, f[l], r, n, y)
<1> DEFINE Bad == {k \in 0 .. l : ~KeepsPlace(all, f[k], r, n, y)}
<1>1. SUFFICES ASSUME Bad # {} PROVE FALSE
  OBVIOUS
<1>2. Bad \in SUBSET Nat
  OBVIOUS
<1>3. PICK m \in Bad : \A k \in Bad : ~(k < m)
  <2> HIDE DEF Bad
  <2> QED  BY <1>1, <1>2, LowestOf
<1>4. m \in 0 .. l /\ ~KeepsPlace(all, f[m], r, n, y)
  OBVIOUS
<1>5. f = [i \in 0 .. l |-> IF i = 0 THEN all ELSE Turn(f[i - 1])]
  BY Zenon DEF RunOf
<1>6. f[m] = IF m = 0 THEN all ELSE Turn(f[m - 1])
  BY <1>4, <1>5
<1>7. CASE m = 0
  BY <1>4, <1>6, <1>7, FollowsSame
<1>8. CASE m # 0
  <2>1. m - 1 \in 0 .. l /\ m - 1 < m
    BY <1>4, <1>8
  <2>2. KeepsPlace(all, f[m - 1], r, n, y)
    BY <1>3, <2>1
  <2>3. KeepsPlace(f[m - 1], Turn(f[m - 1]), r, n, y)
    BY <2>2, TurnKeepsPlace DEF KeepsPlace
  <2>4. KeepsPlace(all, Turn(f[m - 1]), r, n, y)
    BY <2>2, <2>3, KeepsTwice
  <2> QED  BY <1>4, <1>6, <1>8, <2>4
<1> QED  BY <1>7, <1>8

\* A piece that has come is in the buffer.
Joined(p, piece) == [p EXCEPT !.buffer = @ \o piece]

LEMMA JoinedStage ==
    ASSUME NEW r \in Responses, NEW n \in Nat, NEW y \in Seq(Tokens),
           NEW piece \in Seq(Tokens), NEW p \in Parsers(Tokens),
           Stage(p, r, n, piece \o y), ~Ended(p)
    PROVE  /\ Joined(p, piece) \in Parsers(Tokens) /\ Stage(Joined(p, piece), r, n, y)
           /\ Joined(p, piece).body = p.body
<1> DEFINE S == Tokens
           all == Joined(p, piece)
           b == p.buffer \o piece
<1>1. p.buffer \in Seq(S) /\ b \in Seq(S) /\ p.body \in Seq(S)
  BY DEF Parsers
<1>2. all = [p EXCEPT !.buffer = b]
  BY DEF Parsers, Joined
<1>3. Assoc(p.buffer, piece, y)
  BY <1>1, JoinAssoc
<1>4. b \o y = p.buffer \o (piece \o y)
  BY <1>3, Zenon DEF Assoc
<1> HIDE DEF b, all
<1>5. /\ all \in Parsers(S) /\ all.buffer = b
      /\ all.state = p.state /\ all.status = p.status /\ all.of = p.of /\ all.chunked = p.chunked
      /\ all.hasLength = p.hasLength /\ all.length = p.length /\ all.remaining = p.remaining
      /\ all.body = p.body
  <2>1. b \in Seq(S)
    BY <1>1
  <2> QED  BY <1>2, <2>1 DEF Parsers
<1>6. ASSUME NEW part, Ahead(p, piece \o y, part) PROVE Ahead(all, y, part)
  BY <1>4, <1>5, <1>6, Zenon DEF Ahead
<1>7. ASSUME NEW part, Around(p, piece \o y, part) PROVE Around(all, y, part)
  BY <1>4, <1>5, <1>7, Zenon DEF Around
<1> DEFINE w == piece \o y
<1>8. Stage(p, r, n, w) /\ (\A part : Ahead(p, w, part) => Ahead(all, y, part))
      /\ (\A part : Around(p, w, part) => Around(all, y, part))
  BY <1>6, <1>7, Zenon
<1> HIDE DEF w
<1>9. CASE AtStatus(p, r, n, w)
  BY <1>5, <1>8, <1>9 DEF AtStatus, Stage, all
<1>10. CASE p.status = r.status /\ p.of = n /\ PastStatus(p, r, n, w)
  <2>1. AtHeaders(p, r, n, w) => AtHeaders(all, r, n, y)
    BY <1>5, <1>8, Zenon DEF AtHeaders
  <2>2. AtBody(p, r, n, w) => AtBody(all, r, n, y)
    BY <1>5, <1>8 DEF AtBody
  <2>3. AtSize(p, r, n, w) => AtSize(all, r, n, y)
    BY <1>5, <1>8 DEF AtSize
  <2>4. AtData(p, r, n, w) => AtData(all, r, n, y)
    BY <1>5, <1>8 DEF AtData
  <2>5. AtDataEnd(p, r, n, w) => AtDataEnd(all, r, n, y)
    BY <1>5, <1>8, Zenon DEF AtDataEnd
  <2>6. AtTrailer(p, r, n, w) => AtTrailer(all, r, n, y)
    BY <1>5, <1>8 DEF AtTrailer
  <2>7. ~AtEnd(p, r, n, w)
    BY DEF AtEnd, Ended
  <2>8. PastStatus(all, r, n, y)
    BY <1>10, <2>1, <2>2, <2>3, <2>4, <2>5, <2>6, <2>7 DEF PastStatus
  <2> QED  BY <1>5, <1>10, <2>8, PastStage DEF all
<1> QED  BY <1>5, <1>8, <1>9, <1>10 DEF Stage, all

\* Whatever piece of the response comes, Feed keeps the place in it.
LEMMA FeedKeepsPlace ==
    ASSUME NEW r \in Responses, NEW n \in Nat, ~Mixed(r, n), NEW y \in Seq(Tokens),
           NEW piece \in Seq(Tokens), NEW p \in Parsers(Tokens), Stage(p, r, n, piece \o y)
    PROVE  KeepsPlace(p, Feed(p, piece), r, n, y)
<1> DEFINE S == Tokens
           all == [p EXCEPT !.buffer = @ \o piece]
           l == Len(all.buffer)
<1>0. p.buffer \in Seq(S) /\ p.buffer \o piece \in Seq(S)
  BY DEF Parsers
<1>1. all.buffer \in Seq(S)
  BY <1>0 DEF Parsers
<1>2. l \in Nat
  BY <1>1
<1> HIDE DEF l, S
<1>3. PICK f : /\ RunOf(f, all, l)
               /\ LET q == f[l]
                  IN  Feed(p, piece) = CASE Ended(p) -> p
                                         [] ~Ended(p) /\ Ended(q) -> [q EXCEPT !.buffer = <<>>]
                                         [] OTHER -> q
  BY <1>2, FeedIs DEF l
<1>4. CASE Ended(p)
  <2>1. Feed(p, piece) = p
    BY <1>3, <1>4
  <2> DEFINE w == piece \o y
  <2>2. Stage(p, r, n, w) /\ (w = <<>> => y = <<>>)
    BY CutEmpty
  <2> HIDE DEF w
  <2>3. p.state \in {"complete", "error"}
    BY <1>4 DEF Ended
  <2>4. p.status = r.status /\ p.of = n /\ AtEnd(p, r, n, w)
    BY <2>2, <2>3 DEF Stage, AtStatus, PastStatus, AtHeaders, AtBody, AtSize, AtData, AtDataEnd, AtTrailer
  <2>5. AtEnd(p, r, n, y)
    BY <2>2, <2>4 DEF AtEnd
  <2>6. Stage(p, r, n, y)
    BY <2>4, <2>5, PastStage DEF PastStatus
  <2> QED  BY <2>1, <2>6, FollowsSame
<1>5. CASE ~Ended(p)
  <2>1. all \in Parsers(Tokens) /\ Stage(all, r, n, y) /\ all.body = p.body
    <3>1. all = Joined(p, piece)
      BY Zenon DEF Joined
    <3> HIDE DEF all
    <3> QED  BY <1>5, <3>1, JoinedStage
  <2> HIDE DEF all
  <2> DEFINE q == f[l]
  <2>2. KeepsPlace(all, q, r, n, y)
    BY <1>2, <1>3, <2>1, RunKeepsPlace
  <2>3. Grown(Tokens, p, all)
    BY <2>1, GrownSame
  <2>4. KeepsPlace(p, q, r, n, y)
    <3>1. q \in Parsers(Tokens) /\ Stage(q, r, n, y) /\ Grown(Tokens, all, q)
      BY <2>2 DEF KeepsPlace
    <3>2. Grown(Tokens, p, q)
      BY <2>3, <3>1, GrownTwice
    <3> QED  BY <3>1, <3>2 DEF KeepsPlace
  <2> HIDE DEF q
  <2>5. CASE Ended(q)
    <3>1. Feed(p, piece) = [q EXCEPT !.buffer = <<>>]
      BY <1>3, <1>5, <2>5 DEF q
    <3> DEFINE z == [q EXCEPT !.buffer = <<>>]
    <3>2. q \in Parsers(Tokens) /\ Stage(q, r, n, y) /\ Grown(Tokens, p, q)
      BY <2>4 DEF KeepsPlace
    <3>3. <<>> \in Seq(Tokens)
      OBVIOUS
    <3>4. /\ z \in Parsers(Tokens) /\ z.buffer = <<>> /\ z.state = q.state
          /\ z.status = q.status /\ z.of = q.of /\ z.body = q.body
      BY <3>2, <3>3 DEF Parsers
    <3> HIDE DEF z
    <3>5. q.state \in {"complete", "error"}
      BY <2>5 DEF Ended
    <3>6. q.status = r.status /\ q.of = n /\ AtEnd(q, r, n, y)
      BY <3>2, <3>5 DEF Stage, AtStatus, PastStatus, AtHeaders, AtBody, AtSize, AtData, AtDataEnd, AtTrailer
    <3>7. AtEnd(z, r, n, y)
      BY <3>4, <3>6 DEF AtEnd
    <3>8. Stage(z, r, n, y)
      BY <3>4, <3>6, <3>7, PastStage DEF PastStatus
    <3>9. Grown(Tokens, p, z)
      BY <3>2, <3>4, Zenon DEF Grown
    <3> QED  BY <3>1, <3>4, <3>8, <3>9 DEF KeepsPlace, z
  <2>6. CASE ~Ended(q)
    <3>1. Feed(p, piece) = q
      BY <1>3, <1>5, <2>6 DEF q
    <3> QED  BY <2>4, <3>1
  <2> QED  BY <2>5, <2>6
<1> QED  BY <1>4, <1>5

\* The close of the connection ends only a body that it delimits.
LEMMA FinishFacts ==
    ASSUME NEW r \in Responses, NEW n \in Nat, NEW y,
           NEW p \in Parsers(Tokens), Stage(p, r, n, y)
    PROVE  \/ Finish(p) = p
           \/ /\ Finish(p) \in Parsers(Tokens) /\ Finish(p).state = "complete"
              /\ Finish(p).status = r.status /\ Finish(p).of = n /\ Finish(p).body = p.body
              /\ r.framing = "close" /\ p.state = "body"
<1>1. CASE ~(p.state = "body" /\ ~p.hasLength /\ ~p.chunked)
  BY <1>1, Zenon DEF Finish
<1>2. CASE p.state = "body" /\ ~p.hasLength /\ ~p.chunked
  <2> DEFINE z == Finish(p)
  <2>1. z = [p EXCEPT !.state = "complete"]
    BY <1>2, Zenon DEF Finish
  <2> HIDE DEF z
  <2>2. /\ z \in Parsers(Tokens) /\ z.state = "complete" /\ z.status = p.status
        /\ z.of = p.of /\ z.body = p.body
    BY <2>1 DEF Parsers, Places
  <2>3. p.status = r.status /\ p.of = n /\ AtBody(p, r, n, y)
    BY <1>2 DEF Stage, AtStatus, PastStatus, AtHeaders, AtSize, AtData, AtDataEnd, AtTrailer, AtEnd
  <2>4. r.framing = "close"
    BY <1>2, <2>3 DEF AtBody
  <2> QED  BY <1>2, <2>2, <2>3, <2>4 DEF z
<1> QED  BY <1>1, <1>2

-----------------------------------------------------------------------------
(* The inductive invariant: where in its response the client is. *)

\* The request that was sent last, and what it was answered.
Last == before + Len(sent)
Answer == sent[Len(sent)].answer

\* What the receive thread has in hand of the client's transport, what is on the way to
\* it, and what its server still has to answer.
InHand == IF conn # 0 /\ held.conn = conn THEN held.piece ELSE <<>>
OnWire == IF conn = 0 THEN <<>> ELSE wire[conn]
Owed == IF conn # 0 /\ link[conn] = "open" THEN server[conn].owed ELSE <<>>

\* Nothing will come that the client has not asked for yet.
Quiet == InHand = <<>> /\ OnWire = <<>> /\ Owed = <<>>

\* The answer to the last request is still to come, if it comes at all.
Unanswered == parser = Reset /\ InHand = <<>> /\ OnWire = <<>> /\ Owed \in {<<>>, <<Last>>}

\* The parser is at a place in the answer: what comes is what follows there, up to what
\* was lost with the connection.
Parsing ==
    \E lost \in Seq(Tokens) : Stage(parser, Answer, Last, (InHand \o OnWire) \o lost)

\* The close of the connection has ended the body.
CutOff ==
    /\ Answer.framing = "close" /\ IsComplete(parser) /\ parser.status = Answer.status
    /\ parser.of = Last /\ InHand = <<>> /\ OnWire = <<>>

Answered ==
    /\ Answer \in Responses /\ ~Mixed(Answer, Last) /\ parser \in Parsers(Tokens)
    /\ InHand \in Seq(Tokens) /\ OnWire \in Seq(Tokens)
    /\ Owed = <<>>
    /\ Parsing \/ CutOff

Following == sent # <<>> /\ (Unanswered \/ Answered)

\* The transports: only the client's own has anything under way.
WireInv ==
    /\ wire \in [Conns -> Seq(Tokens)]
    /\ held \in [conn : Conns \cup {0}, piece : Seq(Tokens)]
    /\ \A t \in Conns :
           /\ t # conn => link[t] \in {"none", "closed"}
           /\ link[t] \in {"none", "closed"} => wire[t] = <<>>
           /\ link[t] = "none" => server[t].owed = <<>>
    /\ held.conn = 0 => held = NoHeld
    /\ held.conn # 0 => link[held.conn] # "none"
    /\ (held.conn # 0 /\ held.piece = <<>>) => link[held.conn] = "closed"
    /\ pc = "create" => conn = 0

\* Where the driving thread is, and where the connection is then.
Uploading == {"chunk", "terminator", "await_end"}

PlaceInv ==
    /\ (pc \in Preparing /\ ~upActive) => Quiet /\ ~opened /\ (req.op # "Execute" => streaming)
    /\ pc = "send" => parser = Reset
    /\ pc = "wait" => req.op = "Execute"
    /\ (pc \in Awaiting \cup Uploading \/ opened) => Following
    /\ pc \in Awaiting => ~opened
    /\ pc = "done" => IsComplete(parser)
    /\ (pc = "idle" /\ conn # 0) => IF streaming THEN Following ELSE Quiet
    /\ (upActive \/ pc \in Uploading) => opened

\* What is streamed is the body as far as it has come, and its end is the end of it.
Streamed == reads \o pending = parser.body

ReadAll ==
    /\ IsComplete(parser) /\ parser.of = Last /\ sent # <<>> /\ Whole(reads)
    /\ pending = <<>>

StreamInv ==
    /\ reads \in Seq(Tokens) /\ pending \in Seq(Tokens)
    /\ (streaming /\ (opened \/ pc \in {"await", "arm"})) => Streamed
    /\ (pc = "send" /\ streaming) => reads = <<>> /\ pending = <<>>
    /\ (opened /\ pc # "start") => streaming
    /\ pc \in {"await", "arm"} => streaming
    /\ eof => ReadAll /\ (opened \/ (conn = 0 /\ pc = "idle"))

FlagType == streaming \in BOOLEAN /\ opened \in BOOLEAN /\ eof \in BOOLEAN

\* Unless a connection was left in the middle or a response mixed its line ends.
OwnInv == lapses = {} => PlaceInv /\ StreamInv

AnswerInv == HttpInv /\ FlagType /\ WireInv /\ OwnInv

-----------------------------------------------------------------------------
(* What comes, and what is lost. *)

\* A request has a number.
LEMMA LastType ==
    ASSUME SentType
    PROVE  Len(sent) \in Nat /\ Last \in Nat /\ DOMAIN sent = 1 .. Len(sent)
<1>1. Len(sent) \in Nat /\ DOMAIN sent = 1 .. Len(sent)
  BY DEF SentType
<1> QED  BY <1>1 DEF SentType, Last

\* A step that leaves the transport alone.
LEMMA ComingKept ==
    ASSUME UNCHANGED <<conn, held, wire>>
    PROVE  UNCHANGED <<InHand, OnWire>>
  BY DEF InHand, OnWire

LEMMA OwedKept ==
    ASSUME UNCHANGED <<conn, link>>, conn \in Conns => server'[conn].owed = server[conn].owed,
           conn \in Conns \cup {0}
    PROVE  UNCHANGED Owed
  BY DEF Owed

\* The transport goes, and nothing comes any more.
LEMMA DropFacts ==
    ASSUME DropTransport
    PROVE  InHand' = <<>> /\ OnWire' = <<>> /\ Owed' = <<>> /\ conn' = 0 /\ ~upActive'
  BY DEF DropTransport, InHand, OnWire, Owed

\* Some of what is coming is not any more.
Loses ==
    /\ InHand' \in {InHand, <<>>} /\ OnWire' \in {OnWire, <<>>} /\ Owed' \in {Owed, <<>>}
    /\ InHand' = InHand \/ OnWire' = <<>>

LEMMA LosesNothing ==
    ASSUME UNCHANGED <<conn, held, wire, link, server>>
    PROVE  Loses
<1>1. UNCHANGED <<InHand, OnWire>>
  BY ComingKept
<1>2. UNCHANGED Owed
  BY DEF Owed
<1> QED  BY <1>1, <1>2 DEF Loses

LEMMA LosesAll ==
    ASSUME DropTransport
    PROVE  Loses
  BY DropFacts DEF Loses

LEMMA QuietLoses ==
    ASSUME Quiet, Loses
    PROVE  Quiet'
  BY DEF Quiet, Loses

\* What is lost of the answer does not take the client out of it.
LEMMA FollowingLoses ==
    ASSUME Following, Loses, UNCHANGED <<parser, sent, before>>
    PROVE  Following'
<1>1. Last' = Last /\ Answer' = Answer
  BY DEF Last, Answer
<1>2. CASE Unanswered
  <2>1. Unanswered'
    BY <1>1, <1>2 DEF Unanswered, Loses
  <2> QED  BY <2>1 DEF Following
<1>3. CASE Answered
  <2> DEFINE S == Tokens
  <2>1. InHand \in Seq(S) /\ OnWire \in Seq(S) /\ Owed = <<>>
    BY <1>3 DEF Answered
  <2>2. InHand' \in Seq(S) /\ OnWire' \in Seq(S) /\ Owed' = <<>>
    <3>1. <<>> \in Seq(S)
      OBVIOUS
    <3> HIDE DEF S
    <3> QED  BY <2>1, <3>1, Zenon DEF Loses
  <2>3. CASE CutOff
    <3>1. CutOff'
      BY <1>1, <2>3 DEF CutOff, Loses, IsComplete
    <3>2. Answered'
      BY <1>1, <1>3, <2>2, <3>1 DEF Answered
    <3> QED  BY <3>2 DEF Following
  <2>4. CASE Parsing
    <3>1. PICK lost \in Seq(S) : Stage(parser, Answer, Last, (InHand \o OnWire) \o lost)
      BY <2>4 DEF Parsing
    <3> HIDE DEF S
    <3>2. \E l \in Seq(S) : (InHand' \o OnWire') \o l = (InHand \o OnWire) \o lost
      <4>1. CASE InHand' = InHand /\ OnWire' = OnWire
        BY <4>1
      <4>2. CASE InHand' = InHand /\ OnWire' = <<>>
        <5>1. Assoc(InHand, OnWire, lost) /\ OnWire \o lost \in Seq(S)
          BY <2>1, JoinAssoc
        <5>2. InHand \o <<>> = InHand
          BY <2>1
        <5>3. (InHand' \o OnWire') \o (OnWire \o lost) = (InHand \o OnWire) \o lost
          BY <4>2, <5>1, <5>2, Zenon DEF Assoc
        <5> QED  BY <5>1, <5>3, Zenon
      <4>3. CASE InHand' = <<>> /\ OnWire' = <<>>
        <5> DEFINE l == (InHand \o OnWire) \o lost
        <5>0. InHand \o OnWire \in Seq(S)
          BY <2>1
        <5>1. l \in Seq(S)
          BY <5>0
        <5> HIDE DEF l
        <5>2. (<<>> \o <<>>) \o l = l
          BY <5>1
        <5> QED  BY <4>3, <5>1, <5>2 DEF l
      <4> QED  BY <4>1, <4>2, <4>3 DEF Loses
    <3>3. PICK l \in Seq(S) : (InHand' \o OnWire') \o l = (InHand \o OnWire) \o lost
      BY <3>2, Zenon
    <3>4. Stage(parser, Answer, Last, (InHand' \o OnWire') \o l)
      BY <3>1, <3>3, Zenon
    <3>5. Parsing'
      BY <1>1, <3>4 DEF Parsing, S
    <3>6. Answered'
      BY <1>1, <1>3, <2>2, <3>5 DEF Answered, S
    <3> QED  BY <3>6 DEF Following
  <2> QED  BY <1>3, <2>3, <2>4 DEF Answered
<1> QED  BY <1>2, <1>3 DEF Following

\* A response that is complete is the answer to the last request, it is whole, and
\* nothing comes behind it.
LEMMA CompleteFacts ==
    ASSUME Following, IsComplete(parser)
    PROVE  /\ Quiet /\ parser.of = Last /\ parser.status = Answer.status /\ Whole(parser.body)
           /\ sent # <<>> /\ parser.body \in Seq(Tokens)
<1>1. Answered /\ sent # <<>>
  BY DEF Following, Unanswered, Reset, IsComplete
<1>0. Answer \in Responses /\ parser.body \in Seq(Tokens)
  BY <1>1 DEF Answered, Parsers
<1>b. parser.body \in Seq(Tokens)
  BY <1>0
<1>2. CASE CutOff
  <2>1. Quiet
    BY <1>1, <1>2 DEF Answered, CutOff, Quiet
  <2>2. Whole(parser.body)
    BY <1>2 DEF CutOff, Whole, Answer
  <2> QED  BY <1>1, <1>2, <1>b, <2>1, <2>2 DEF CutOff
<1>3. CASE Parsing
  <2> DEFINE S == Tokens
  <2>1. PICK lost \in Seq(S) : Stage(parser, Answer, Last, (InHand \o OnWire) \o lost)
    BY <1>3 DEF Parsing
  <2> DEFINE y == (InHand \o OnWire) \o lost
  <2>2. InHand \in Seq(S) /\ OnWire \in Seq(S) /\ InHand \o OnWire \in Seq(S) /\ Owed = <<>>
    BY <1>1 DEF Answered
  <2>3. y = <<>> => InHand = <<>> /\ OnWire = <<>>
    <3>1. y = <<>> => InHand \o OnWire = <<>>
      BY <2>2, CutEmpty
    <3>2. InHand \o OnWire = <<>> => InHand = <<>> /\ OnWire = <<>>
      BY <2>2, CutEmpty
    <3> QED  BY <3>1, <3>2
  <2>4. Stage(parser, Answer, Last, y)
    BY <2>1
  <2> HIDE DEF y
  <2>5. parser.status = Answer.status /\ parser.of = Last /\ AtEnd(parser, Answer, Last, y)
    BY <2>4 DEF IsComplete, Stage, AtStatus, PastStatus, AtHeaders, AtBody, AtSize, AtData, AtDataEnd,
       AtTrailer
  <2>6. parser.body = Bytes(Answer, Last) /\ y = <<>>
    BY <2>5 DEF AtEnd
  <2>7. Quiet
    BY <2>2, <2>3, <2>6 DEF Quiet
  <2>8. Whole(parser.body)
    BY <2>6 DEF Whole, Answer, Last
  <2> QED  BY <1>1, <1>b, <2>5, <2>7, <2>8
<1> QED  BY <1>1, <1>2, <1>3 DEF Answered

\* A piece of the answer comes to the parser.
LEMMA FollowingData ==
    ASSUME Following, WireInv, SentType, held.piece # <<>>, held.conn = conn,
           parser' = (IF IsComplete(parser) THEN parser ELSE Feed(parser, held.piece)),
           held' = NoHeld, UNCHANGED <<conn, wire, link, server, sent, before>>
    PROVE  /\ Following' /\ ~IsComplete(parser) /\ parser.body \in Seq(Tokens)
           /\ \E d \in Seq(Tokens) : parser'.body = parser.body \o d
<1> DEFINE S == Tokens
           h == InHand
           w == OnWire
<1>0. conn # 0
  BY DEF WireInv, NoHeld
<1>1. Last' = Last /\ Answer' = Answer /\ Last \in Nat
  BY LastType DEF Last, Answer
<1>2. h = held.piece /\ h # <<>>
  BY <1>0 DEF InHand
<1>3. InHand' = <<>> /\ OnWire' = w /\ Owed' = Owed
  BY <1>0 DEF InHand, OnWire, Owed, NoHeld
<1>4. ~IsComplete(parser)
  BY <1>2, CompleteFacts DEF Quiet
<1>5. parser' = Feed(parser, h)
  BY <1>2, <1>4
<1>6. Answered /\ ~CutOff
  BY <1>2, <1>4 DEF Following, Unanswered, CutOff
<1>7. PICK lost \in Seq(S) : Stage(parser, Answer, Last, (h \o w) \o lost)
  BY <1>6 DEF Answered, Parsing
<1>8. /\ Answer \in Responses /\ ~Mixed(Answer, Last) /\ parser \in Parsers(S)
      /\ h \in Seq(S) /\ w \in Seq(S) /\ Owed = <<>>
  BY <1>6 DEF Answered
<1> HIDE DEF h, w
<1>9. Assoc(h, w, lost) /\ w \o lost \in Seq(S)
  BY <1>8, JoinAssoc
<1>10. Stage(parser, Answer, Last, h \o (w \o lost))
  BY <1>7, <1>9, Zenon DEF Assoc
<1> DEFINE y == w \o lost
<1>11. y \in Seq(S) /\ Stage(parser, Answer, Last, h \o y)
  BY <1>9, <1>10
<1> HIDE DEF y
<1>12. KeepsPlace(parser, Feed(parser, h), Answer, Last, y)
  BY <1>1, <1>8, <1>11, FeedKeepsPlace
<1>13. parser' \in Parsers(S) /\ Stage(parser', Answer, Last, y) /\ Grown(S, parser, parser')
  BY <1>5, <1>12, Zenon DEF KeepsPlace
<1>14. (InHand' \o OnWire') \o lost = y
  <2>1. <<>> \o w = w
    BY <1>8
  <2> QED  BY <1>3, <2>1, Zenon DEF y
<1>15. Parsing'
  <2>1. Stage(parser', Answer', Last', (InHand' \o OnWire') \o lost)
    BY <1>1, <1>13, <1>14, Zenon
  <2> QED  BY <1>1, <2>1 DEF Parsing
<1>16. Answered'
  <2>1. <<>> \in Seq(S)
    OBVIOUS
  <2> HIDE DEF S
  <2>2. /\ Answer' \in Responses /\ ~Mixed(Answer', Last') /\ parser' \in Parsers(S)
        /\ InHand' \in Seq(S) /\ OnWire' \in Seq(S) /\ Owed' = <<>>
    BY <1>1, <1>3, <1>8, <1>13, <2>1, Zenon
  <2> QED  BY <1>1, <1>15, <2>2 DEF Answered, S
<1>17. Following'
  BY <1>16 DEF Following
<1>18. parser.body \in Seq(Tokens)
  BY <1>8 DEF Parsers
<1>19. PICK d \in Seq(S) : parser'.body = parser.body \o d
  BY <1>13, Zenon DEF Grown
<1> QED  BY <1>4, <1>17, <1>18, <1>19

\* The parser hears of the close behind what has come.
LEMMA FollowingClosed ==
    ASSUME Following, WireInv, SentType, held.conn # 0, held.piece = <<>>, held.conn = conn,
           parser' = Finish(parser), held' = NoHeld,
           UNCHANGED <<conn, wire, link, server, sent, before>>
    PROVE  /\ Following' /\ parser'.body = parser.body
           /\ parser = Reset => parser' = Reset
           /\ IsComplete(parser) => parser' = parser
<1>1. Last' = Last /\ Answer' = Answer /\ Last \in Nat
  BY LastType DEF Last, Answer
<1>2. conn \in Conns /\ wire[conn] = <<>>
  BY DEF WireInv
<1>3. InHand = <<>> /\ OnWire = <<>> /\ InHand' = <<>> /\ OnWire' = <<>> /\ Owed' = Owed
  BY <1>2 DEF InHand, OnWire, Owed, NoHeld
<1>4. IsComplete(parser) => parser' = parser
  BY DEF Finish, IsComplete
<1>5. parser = Reset => parser' = Reset
  BY DEF Finish, Reset
<1>6. Loses
  BY <1>3 DEF Loses
<1>7. CASE parser' = parser
  BY <1>4, <1>5, <1>6, <1>7, FollowingLoses
<1>8. CASE parser' # parser
  <2>1. Answered /\ ~CutOff
    BY <1>4, <1>5, <1>8 DEF Following, Unanswered, CutOff
  <2>2. PICK lost : Stage(parser, Answer, Last, (InHand \o OnWire) \o lost)
    BY <2>1, Zenon DEF Answered, Parsing
  <2>3. /\ Answer \in Responses /\ ~Mixed(Answer, Last) /\ parser \in Parsers(Tokens)
        /\ Owed = <<>>
    BY <2>1 DEF Answered
  <2>4. /\ parser' \in Parsers(Tokens) /\ parser'.state = "complete"
        /\ parser'.status = Answer.status /\ parser'.of = Last /\ parser'.body = parser.body
        /\ Answer.framing = "close"
    <3> DEFINE y == (InHand \o OnWire) \o lost
    <3>1. Stage(parser, Answer, Last, y)
      BY <2>2
    <3> HIDE DEF y
    <3> QED  BY <1>1, <1>8, <2>3, <3>1, FinishFacts
  <2>5. CutOff'
    BY <1>1, <1>3, <2>4 DEF CutOff, IsComplete
  <2>6. Answered'
    BY <1>1, <1>3, <2>3, <2>4, <2>5 DEF Answered
  <2> QED  BY <1>4, <1>5, <2>4, <2>6 DEF Following
<1> QED  BY <1>7, <1>8

\* The steps of the link and of the servers are steps of the client's own transport.
LEMMA OwnTransport ==
    ASSUME WireInv, LinkType, NEW t \in Conns,
           link[t] \in {"open", "ending"} \/ wire[t] # <<>>
    PROVE  t = conn /\ conn # 0 /\ conn \in Conns
<1>1. t = conn
  BY DEF WireInv, LinkType
<1>2. 0 \notin Conns
  BY DEF Conns
<1> QED  BY <1>1, <1>2

\* The transport hands over what has come, in whatever pieces.
LEMMA FollowingArrive ==
    ASSUME WireInv, LinkType, NEW t \in Conns, Arrive(t)
    PROVE  (Following => Following') /\ (Quiet => Quiet')
<1>1. t = conn /\ conn # 0 /\ conn \in Conns
  BY OwnTransport DEF Arrive
<1>2. /\ held = NoHeld /\ UNCHANGED <<conn, server, parser, sent, before>>
      /\ Last' = Last /\ Answer' = Answer
  BY DEF Arrive, state, counts, Last, Answer
<1>3. InHand = <<>> /\ OnWire = wire[t]
  BY <1>1, <1>2 DEF InHand, OnWire, NoHeld
<1>w. wire \in [Conns -> Seq(Tokens)] /\ wire[t] \in Seq(Tokens)
  BY DEF WireInv
<1>4. CASE wire[t] = <<>>
  <2>1. /\ held' = [conn |-> t, piece |-> <<>>] /\ link' = [link EXCEPT ![t] = "closed"]
        /\ UNCHANGED wire
    BY <1>4 DEF Arrive
  <2>2. InHand' = <<>> /\ OnWire' = OnWire /\ Owed' = <<>>
    BY <1>1, <1>2, <1>4, <2>1 DEF InHand, OnWire, Owed, LinkType
  <2>3. Loses
    BY <1>3, <2>2 DEF Loses
  <2> QED  BY <1>2, <2>3, FollowingLoses, QuietLoses
<1>5. CASE wire[t] # <<>>
  <2>1. PICK m \in 1 .. Len(wire[t]) :
            /\ held' = [conn |-> t, piece |-> SubSeq(wire[t], 1, m)]
            /\ wire' = [wire EXCEPT ![t] = SubSeq(@, m + 1, Len(@))]
            /\ UNCHANGED link
    BY <1>5 DEF Arrive
  <2>2. m \in 0 .. Len(wire[t])
    BY <1>5, <1>w
  <2>3. InHand' = SubSeq(wire[t], 1, m)
    BY <1>1, <1>2, <2>1 DEF InHand
  <2>4. OnWire' = SubSeq(wire[t], m + 1, Len(wire[t]))
    BY <1>1, <1>2, <1>w, <2>1 DEF OnWire
  <2>5. Owed' = Owed
    BY <1>2, <2>1 DEF Owed
  <2>6. ~Quiet
    BY <1>3, <1>5 DEF Quiet
  <2>7. ASSUME Following PROVE Following'
    <3> DEFINE S == Tokens
    <3>1. Answered /\ ~CutOff
      BY <1>3, <1>5, <2>7 DEF Following, Unanswered, CutOff
    <3>2. PICK lost \in Seq(S) : Stage(parser, Answer, Last, (InHand \o OnWire) \o lost)
      BY <3>1 DEF Answered, Parsing
    <3>3. /\ OnWire \in Seq(S) /\ Owed = <<>> /\ Answer \in Responses
          /\ ~Mixed(Answer, Last) /\ parser \in Parsers(S)
      BY <3>1 DEF Answered
    <3> HIDE DEF S
    <3>4. /\ InHand' \in Seq(S) /\ OnWire' \in Seq(S)
          /\ InHand' \o OnWire' = OnWire
      BY <1>3, <2>2, <2>3, <2>4, <3>3, CutSeq
    <3>5. InHand \o OnWire = OnWire
      BY <1>3, <3>3
    <3>6. Stage(parser, Answer, Last, (InHand' \o OnWire') \o lost)
      BY <3>2, <3>4, <3>5, Zenon
    <3>7. Parsing'
      BY <1>2, <3>6 DEF Parsing, S
    <3>8. Answered'
      BY <1>2, <2>5, <3>3, <3>4, <3>7 DEF Answered, S
    <3> QED  BY <1>2, <2>7, <3>8 DEF Following
  <2> QED  BY <2>6, <2>7
<1> QED  BY <1>4, <1>5

\* A connection is lost with what is on it.
LEMMA LinkEndsLoses ==
    ASSUME WireInv, LinkType, NEW t \in Conns, LinkEnds(t)
    PROVE  Loses
<1>1. t = conn /\ conn # 0 /\ conn \in Conns
  BY OwnTransport DEF LinkEnds
<1>2. UNCHANGED <<conn, held>>
  BY DEF LinkEnds
<1>3. InHand' = InHand
  BY <1>2 DEF InHand
<1>4. wire'[t] = <<>> /\ link'[t] = "ending"
  BY DEF LinkEnds, WireInv, LinkType
<1>5. OnWire' = <<>> /\ Owed' = <<>>
  BY <1>1, <1>2, <1>4 DEF OnWire, Owed
<1> QED  BY <1>3, <1>5 DEF Loses

\* A server answers the request that was sent last, and no other.
LEMMA FollowingAnswers ==
    ASSUME WireInv, LinkType, ServerType, SentType, SentType', NEW t \in Conns, ServerAnswers(t)
    PROVE  /\ ~Quiet
           /\ (Following /\ "mixed" \notin lapses') => parser = Reset /\ Following'
<1>1. t = conn /\ conn # 0 /\ conn \in Conns
  BY OwnTransport DEF ServerAnswers
<1>2. Owed = server[t].owed /\ Owed # <<>>
  BY <1>1 DEF ServerAnswers, Owed
<1>3. ~Quiet
  BY <1>2 DEF Quiet
<1>4. ASSUME Following, "mixed" \notin lapses' PROVE parser = Reset /\ Following'
  <2>1. /\ parser = Reset /\ InHand = <<>> /\ OnWire = <<>> /\ Owed = <<Last>> /\ sent # <<>>
    BY <1>2, <1>4 DEF Following, Unanswered, Answered
  <2>2. Len(sent) \in Nat /\ Last \in Nat /\ DOMAIN sent = 1 .. Len(sent)
        /\ Len(sent') \in Nat /\ DOMAIN sent' = 1 .. Len(sent')
    BY LastType DEF SentType
  <2>3. Head(server[t].owed) = Last /\ Tail(server[t].owed) = <<>>
    BY <1>2, <2>1
  <2>4. PICK r \in Responses :
           /\ wire' = [wire EXCEPT ![t] = @ \o Rendered(r, Last)]
           /\ sent' = [i \in DOMAIN sent |->
                          IF before + i = Last THEN [sent[i] EXCEPT !.answer = r] ELSE sent[i]]
           /\ link' = [link EXCEPT ![t] = IF r.framing = "close" THEN "ending" ELSE "open"]
           /\ lapses' = IF Mixed(r, Last) THEN lapses \cup {"mixed"} ELSE lapses
    BY <2>3, Zenon DEF ServerAnswers
  <2>m. ~Mixed(r, Last)
    BY <1>4, <2>4
  <2>5. UNCHANGED <<conn, held, parser, before>> /\ server' = [server EXCEPT ![t].owed = Tail(@)]
    BY DEF ServerAnswers, state, counts
  <2>6. Len(sent') = Len(sent) /\ Last' = Last
    BY <2>2, <2>4, <2>5 DEF Last
  <2>7. Len(sent) \in DOMAIN sent
    BY <2>1, <2>2 DEF SentType
  <2>8. Answer' = r
    <3>1. before + Len(sent) = Last
      BY DEF Last
    <3>2. sent'[Len(sent)] = [sent[Len(sent)] EXCEPT !.answer = r]
      BY <2>4, <2>7, <3>1
    <3>3. "answer" \in DOMAIN sent[Len(sent)]
      BY <2>7 DEF SentType
    <3>4. sent'[Len(sent)].answer = r
      BY <3>2, <3>3
    <3> QED  BY <2>6, <3>4 DEF Answer
  <2> DEFINE S == Tokens
             R == Rendered(r, Last)
  <2>9. R \in Seq(S)
    BY <2>2, RenderedIs
  <2>10. InHand' = <<>>
    BY <2>1, <2>5 DEF InHand
  <2>11. OnWire' = R
    <3>1. wire[t] = <<>> /\ OnWire' = wire'[t]
      BY <1>1, <2>1, <2>5 DEF OnWire
    <3>2. wire'[t] = <<>> \o R
      BY <2>4, <3>1 DEF WireInv
    <3> HIDE DEF R
    <3> QED  BY <2>9, <3>1, <3>2
  <2>12. Owed' = <<>>
    <3>1. server'[t].owed = <<>>
      BY <2>3, <2>5 DEF ServerType
    <3> QED  BY <1>1, <2>5, <3>1 DEF Owed
  <2> HIDE DEF R
  <2>13. parser' = Reset /\ Reset \in Parsers(S)
    BY <2>1, <2>5 DEF Reset, Parsers, Places
  <2>14. Stage(parser', r, Last, (InHand' \o OnWire') \o <<>>)
    <3>1. (<<>> \o R) \o <<>> = R
      BY <2>9
    <3>2. <<>> \o R = R
      BY <2>9
    <3>3. Reset.buffer = <<>> /\ Reset.state = "status" /\ ~Reset.chunked /\ ~Reset.hasLength
          /\ Reset.body = <<>>
      BY DEF Reset
    <3>4. Ahead(Reset, R, R)
      BY <3>2, <3>3, Zenon DEF Ahead
    <3>5. AtStatus(Reset, r, Last, R)
      BY <3>3, <3>4 DEF AtStatus, R
    <3>6. Stage(Reset, r, Last, R)
      BY <3>5 DEF Stage
    <3> QED  BY <2>10, <2>11, <2>13, <3>1, <3>6, Zenon
  <2>15. Parsing'
    <3>1. <<>> \in Seq(S)
      OBVIOUS
    <3>2. Stage(parser', Answer', Last', (InHand' \o OnWire') \o <<>>)
      BY <2>6, <2>8, <2>14, Zenon
    <3>3. <<>> \in Seq(Tokens)
      OBVIOUS
    <3> QED  BY <3>2, <3>3, Zenon DEF Parsing
  <2>16. Answered'
    <3>1. InHand' \in Seq(S)
      BY <2>10
    <3>2. ~Mixed(Answer', Last')
      BY <2>6, <2>8, <2>m, Zenon
    <3> QED  BY <2>8, <2>9, <2>11, <2>12, <2>13, <2>15, <3>1, <3>2 DEF Answered
  <2>17. sent' # <<>>
    BY <2>1, <2>2, <2>6, <2>7
  <2> QED  BY <2>1, <2>16, <2>17 DEF Following
<1> QED  BY <1>3, <1>4

-----------------------------------------------------------------------------
(* Every action keeps what the transports have under way. *)

\* A step that leaves the transports alone.
LEMMA WireKept ==
    ASSUME WireInv, UNCHANGED <<conn, link, wire, held>>, pc' = "create" => pc = "create",
           \A t \in Conns : link[t] = "none" => server'[t].owed = server[t].owed
    PROVE  WireInv'
  BY DEF WireInv

\* The transport goes, with what was on it.
LEMMA WireDropped ==
    ASSUME WireInv, LinkType, DropTransport, UNCHANGED <<held, server>>
    PROVE  WireInv'
<1>1. <<>> \in Seq(Tokens)
  OBVIOUS
<1>2. wire' \in [Conns -> Seq(Tokens)]
  BY <1>1 DEF WireInv, DropTransport
<1>3. /\ conn' = 0
      /\ \A t \in Conns : link'[t] = (IF t = conn THEN "closed" ELSE link[t])
      /\ \A t \in Conns : wire'[t] = (IF t = conn THEN <<>> ELSE wire[t])
  BY DEF DropTransport
<1> QED  BY <1>2, <1>3 DEF WireInv, LinkType

\* A send changes only what a server that was reached has to answer.
LEMMA WireSends ==
    ASSUME WireInv, HttpInv, NEW n \in Nat, NEW what, Send(what, n), UNCHANGED <<conn, link, wire, held>>,
           pc' # "create"
    PROVE  WireInv'
<1>1. conn \in Conns
  BY DEF Send, CanSend, HttpInv, ConnInv, LinkType
<1>2. CASE link[conn] = "open"
  <2>1. \A u \in Conns : u # conn => server'[u] = server[u]
    BY <1>1, <1>2, ServerTakesFacts DEF Send, HttpInv, ConnInv
  <2> QED  BY <1>2, <2>1, WireKept
<1>3. CASE link[conn] # "open"
  BY <1>3, WireKept DEF Send
<1> QED  BY <1>2, <1>3

\* A transport that is new has nothing under way.
LEMMA WireCreated ==
    ASSUME WireInv, LinkType, CreateTransport
    PROVE  WireInv' /\ Quiet'
<1>1. PICK t \in Conns : link[t] = "none" /\ link' = [link EXCEPT ![t] = "open"] /\ conn' = t
  BY DEF CreateTransport
<1>2. conn = 0 /\ UNCHANGED <<wire, held, server>> /\ pc' = "reset"
  BY DEF CreateTransport, WireInv
<1>3. wire[t] = <<>> /\ server[t].owed = <<>> /\ held.conn # t /\ t # 0
  BY <1>1 DEF WireInv, Conns
<1>4. WireInv'
  BY <1>1, <1>2, <1>3 DEF WireInv, LinkType, Conns
<1>5. Quiet'
  BY <1>1, <1>2, <1>3 DEF Quiet, InHand, OnWire, Owed
<1> QED  BY <1>4, <1>5

LEMMA WireAnswers ==
    ASSUME WireInv, HttpInv, NEW t \in Conns, ServerAnswers(t)
    PROVE  WireInv'
<1>1. t = conn
  BY OwnTransport DEF ServerAnswers, HttpInv, ConnInv
<1> DEFINE n == Head(server[t].owed)
<1>2. PICK r \in Responses :
          /\ wire' = [wire EXCEPT ![t] = @ \o Rendered(r, n)]
          /\ link' = [link EXCEPT ![t] = IF r.framing = "close" THEN "ending" ELSE "open"]
  BY DEF ServerAnswers
<1>3. n \in Nat
  BY <1>2 DEF ServerAnswers, HttpInv, ConnInv, ServerType
<1> DEFINE R == Rendered(r, n)
<1>4. R \in Seq(Tokens)
  BY <1>3, RenderedIs
<1>5. wire' = [wire EXCEPT ![t] = @ \o R]
  BY <1>2
<1> HIDE DEF R
<1>6. wire[t] \o R \in Seq(Tokens)
  BY <1>4 DEF WireInv
<1> DEFINE W == wire[t] \o R
<1>7. wire' = [wire EXCEPT ![t] = W] /\ W \in Seq(Tokens)
  BY <1>5, <1>6 DEF WireInv
<1> HIDE DEF W
<1>8. wire' \in [Conns -> Seq(Tokens)] /\ \A u \in Conns : u # t => wire'[u] = wire[u]
  BY <1>7 DEF WireInv
<1>9. /\ link'[t] \in {"ending", "open"} /\ \A u \in Conns : u # t => link'[u] = link[u]
  BY <1>2 DEF HttpInv, ConnInv, LinkType
<1>10. \A u \in Conns : u # t => server'[u] = server[u]
  BY DEF ServerAnswers, HttpInv, ConnInv, ServerType
<1>11. UNCHANGED <<conn, held, pc>> /\ link[t] = "open"
  BY DEF ServerAnswers, driver
<1> QED  BY <1>1, <1>8, <1>9, <1>10, <1>11 DEF WireInv

LEMMA WireLinkEnds ==
    ASSUME WireInv, LinkType, NEW t \in Conns, LinkEnds(t)
    PROVE  WireInv'
<1>1. t = conn
  BY OwnTransport DEF LinkEnds
<1>2. <<>> \in Seq(Tokens)
  OBVIOUS
<1>3. wire' \in [Conns -> Seq(Tokens)] /\ \A u \in Conns : u # t => wire'[u] = wire[u]
  BY <1>2 DEF LinkEnds, WireInv
<1>4. link'[t] = "ending" /\ \A u \in Conns : u # t => link'[u] = link[u]
  BY DEF LinkEnds, LinkType
<1>5. link[t] # "closed" /\ link[t] # "none"
  BY DEF LinkEnds, WireInv
<1>6. UNCHANGED <<conn, held, pc, server>>
  BY DEF LinkEnds, driver
<1> QED  BY <1>1, <1>3, <1>4, <1>5, <1>6 DEF WireInv

LEMMA WireArrives ==
    ASSUME WireInv, LinkType, NEW t \in Conns, Arrive(t)
    PROVE  WireInv'
<1>1. t = conn /\ t # 0
  BY OwnTransport DEF Arrive
<1>2. UNCHANGED <<conn, pc, server>> /\ wire[t] \in Seq(Tokens) /\ link[t] \in {"open", "ending"}
  BY DEF Arrive, driver, WireInv
<1>3. CASE wire[t] = <<>>
  <2>1. /\ held' = [conn |-> t, piece |-> <<>>] /\ link' = [link EXCEPT ![t] = "closed"]
        /\ UNCHANGED wire
    BY <1>3 DEF Arrive
  <2>2. held' \in [conn : Conns \cup {0}, piece : Seq(Tokens)] /\ held'.conn = t
    BY <2>1
  <2>3. link'[t] = "closed" /\ \A u \in Conns : u # t => link'[u] = link[u]
    BY <2>1 DEF LinkType
  <2> QED  BY <1>1, <1>2, <1>3, <2>1, <2>2, <2>3 DEF WireInv
<1>4. CASE wire[t] # <<>>
  <2>1. PICK m \in 1 .. Len(wire[t]) :
            /\ held' = [conn |-> t, piece |-> SubSeq(wire[t], 1, m)]
            /\ wire' = [wire EXCEPT ![t] = SubSeq(@, m + 1, Len(@))]
            /\ UNCHANGED link
    BY <1>4 DEF Arrive
  <2>2. Len(wire[t]) \in Nat /\ Len(wire[t]) > 0 /\ m \in 1 .. Len(wire[t])
    BY <1>2, <1>4
  <2> DEFINE a == SubSeq(wire[t], 1, m)
             b == SubSeq(wire[t], m + 1, Len(wire[t]))
  <2>3. a \in Seq(Tokens) /\ b \in Seq(Tokens) /\ Len(a) = m
    BY <1>2, <2>2
  <2>4. held' = [conn |-> t, piece |-> a] /\ wire' = [wire EXCEPT ![t] = b]
    BY <2>1 DEF WireInv
  <2> HIDE DEF a, b
  <2>5. a # <<>>
    BY <2>2, <2>3
  <2>6. wire' \in [Conns -> Seq(Tokens)] /\ \A u \in Conns : u # t => wire'[u] = wire[u]
    BY <2>3, <2>4 DEF WireInv
  <2>7. held' \in [conn : Conns \cup {0}, piece : Seq(Tokens)] /\ held'.conn = t /\ held'.piece = a
    BY <2>3, <2>4
  <2> QED  BY <1>1, <1>2, <2>1, <2>5, <2>6, <2>7 DEF WireInv
<1> QED  BY <1>3, <1>4

\* A handler has run.
LEMMA WireHandled ==
    ASSUME WireInv, held' = NoHeld, UNCHANGED <<conn, link, wire, server, pc>>
    PROVE  WireInv'
<1>1. NoHeld \in [conn : Conns \cup {0}, piece : Seq(Tokens)] /\ NoHeld.conn = 0
  BY DEF NoHeld
<1> QED  BY <1>1 DEF WireInv

LEMMA WireNext ==
    ASSUME HttpInv, WireInv, Next
    PROVE  WireInv'
<1> USE DEF driver, state, transport, stream, counts
<1>0. LinkType
  BY DEF HttpInv, ConnInv
<1>1. ASSUME NEW op, NEW method, NEW host, Begin(op, method, host)
      PROVE  WireInv'
  BY <1>1, WireKept DEF Begin
<1>2. CASE StartRequest \/ CreateFails \/ UploadRefused
  BY <1>2, WireKept DEF StartRequest, CreateFails, UploadRefused, GiveUp, Finished
<1>3. CASE ResetRequest \/ BeginChunkedUpload \/ Write \/ EndBody
  BY <1>3, WireKept DEF ResetRequest, BeginChunkedUpload, Write, EndBody, Finished
<1>4. CASE ExecuteReturns \/ OpenFails \/ Read \/ ReadEnd
  BY <1>4, WireKept DEF ExecuteReturns, OpenFails, Read, ReadEnd, Finished
<1>5. CASE EnsureConnected
  <2>1. CASE DropTransport
    BY <1>0, <1>5, <2>1, WireDropped DEF EnsureConnected
  <2>2. CASE pc' = "reset" /\ KeepTransport
    BY <1>5, <2>2, WireKept DEF EnsureConnected, KeepTransport
  <2> QED  BY <1>5, <2>1, <2>2 DEF EnsureConnected
<1>6. CASE SendFails \/ ExecuteFails \/ Close \/ SendPartFails \/ EndBodyFails
  BY <1>0, <1>6, WireDropped DEF SendFails, ExecuteFails, Close, SendPartFails, EndBodyFails
<1>7. CASE ExecuteDone \/ OpenDone \/ EndBodyDone
  <2>1. UNCHANGED <<held, server>> /\ pc' # "create" /\ (DropTransport \/ KeepTransport)
    BY <1>7 DEF ExecuteDone, OpenDone, EndBodyDone, Finished
  <2>2. CASE DropTransport
    BY <1>0, <2>1, <2>2, WireDropped
  <2>3. CASE KeepTransport
    BY <2>1, <2>3, WireKept DEF KeepTransport
  <2> QED  BY <2>1, <2>2, <2>3
<1>8. CASE CreateTransport
  BY <1>0, <1>8, WireCreated
<1>9. CASE SendRequest
  <2>1. before + Len(sent) + 1 \in Nat
    BY DEF HttpInv, CallInv, SentType
  <2>2. pc' # "create"
    BY <1>9 DEF SendRequest
  <2> QED  BY <1>9, <2>1, <2>2, WireSends DEF SendRequest
<1>10. CASE SendChunk \/ SendTerminator
  BY <1>10, WireSends DEF SendChunk, SendTerminator, Finished
<1>11. CASE OnTransportData \/ OnTransportClosed
  BY <1>11, WireHandled DEF OnTransportData, OnTransportClosed
<1>12. ASSUME NEW t \in Conns, ServerAnswers(t) \/ LinkEnds(t) \/ Arrive(t)
       PROVE  WireInv'
  BY <1>0, <1>12, WireAnswers, WireLinkEnds, WireArrives
<1> QED  BY <1>1, <1>2, <1>3, <1>4, <1>5, <1>6, <1>7, <1>8, <1>9, <1>10, <1>11, <1>12, Zenon DEF Next

\* What is true or false of a stream.
LEMMA FlagNext ==
    ASSUME FlagType, Next
    PROVE  FlagType'
<1> USE DEF driver, state, transport, stream, counts, FlagType
<1>1. ASSUME NEW op, NEW method, NEW host, Begin(op, method, host)
      PROVE  FlagType'
  BY <1>1, Zenon DEF Begin
<1>2. CASE StartRequest \/ CreateFails \/ UploadRefused
  BY <1>2, Zenon DEF StartRequest, CreateFails, UploadRefused, GiveUp
<1>3. CASE ResetRequest \/ BeginChunkedUpload \/ Write \/ EndBody
  BY <1>3, Zenon DEF ResetRequest, BeginChunkedUpload, Write, EndBody
<1>4. CASE ExecuteReturns \/ OpenFails \/ Read \/ ReadEnd
  BY <1>4, Zenon DEF ExecuteReturns, OpenFails, Read, ReadEnd
<1>5. CASE SendFails \/ ExecuteFails
  BY <1>5, Zenon DEF SendFails, ExecuteFails, RepeatOrGiveUp, GiveUp
<1>6. CASE EnsureConnected \/ Close \/ SendPartFails \/ EndBodyFails
  BY <1>6, Zenon DEF EnsureConnected, Close, SendPartFails, EndBodyFails
<1>7. CASE ExecuteDone \/ OpenDone \/ EndBodyDone
  BY <1>7, Zenon DEF ExecuteDone, OpenDone, EndBodyDone
<1>8. CASE CreateTransport \/ SendRequest \/ SendChunk \/ SendTerminator
  BY <1>8, Zenon DEF CreateTransport, SendRequest, SendChunk, SendTerminator
<1>9. CASE OnTransportData \/ OnTransportClosed
  BY <1>9, Zenon DEF OnTransportData, OnTransportClosed
<1>10. ASSUME NEW t \in Conns, ServerAnswers(t) \/ LinkEnds(t) \/ Arrive(t)
       PROVE  FlagType'
  BY <1>10, Zenon DEF ServerAnswers, LinkEnds, Arrive
<1> QED  BY <1>1, <1>2, <1>3, <1>4, <1>5, <1>6, <1>7, <1>8, <1>9, <1>10, Zenon DEF Next

-----------------------------------------------------------------------------
(* Every action keeps the place in the response, unless it is a lapse. *)

\* What comes behind a sequence.
LEMMA JoinTail ==
    ASSUME NEW S, NEW s \in Seq(S), NEW t \in Seq(S)
    PROVE  SubSeq(s \o t, Len(s) + 1, Len(s \o t)) = t
<1> DEFINE j == s \o t
<1>1. /\ j \in Seq(S) /\ Len(s) \in Nat /\ Len(t) \in Nat /\ Len(j) = Len(s) + Len(t)
      /\ \A i \in 1 .. Len(t) : j[Len(s) + i] = t[i]
  BY JoinAt
<1> HIDE DEF j
<1> DEFINE u == SubSeq(j, Len(s) + 1, Len(j))
<1>2. u \in Seq(S) /\ Len(u) = Len(t) /\ \A i \in 1 .. Len(t) : u[i] = j[Len(s) + i]
  BY <1>1
<1> HIDE DEF u
<1>3. u = t
  BY <1>1, <1>2, SeqEqual
<1> QED  BY <1>3 DEF u, j

\* What has been read stays what it is.
LEMMA ReadAllKept ==
    ASSUME ReadAll, UNCHANGED <<parser, sent, before, reads, pending>>
    PROVE  ReadAll'
  BY DEF ReadAll, Whole, Last, IsComplete

LEMMA StreamedKept ==
    ASSUME Streamed, UNCHANGED <<parser, reads, pending>>
    PROVE  Streamed'
  BY DEF Streamed

\* Where something is under way, there is a request that it answers.
LEMMA NotQuiet ==
    ASSUME PlaceInv, PcType, ~Quiet, conn # 0
    PROVE  Following /\ (pc \in Preparing => upActive)
  BY DEF PlaceInv, PcType, Uploading

\* Only what is under way on the connection changes.
LEMMA OwnOutside ==
    ASSUME PlaceInv, StreamInv, Quiet => Quiet', Following => Following',
           UNCHANGED <<pc, req, upActive, opened, streaming, conn, parser, reads, pending, eof>>,
           eof => ReadAll'
    PROVE  PlaceInv' /\ StreamInv'
<1>1. Streamed => Streamed'
  BY StreamedKept
<1>2. IsComplete(parser) => IsComplete(parser')
  OBVIOUS
<1>3. PlaceInv'
  BY <1>2 DEF PlaceInv
<1>4. StreamInv'
  BY <1>1 DEF StreamInv
<1> QED  BY <1>3, <1>4

\* A step of the driving thread that leaves the parser and the stream alone.
LEMMA StreamKept ==
    ASSUME StreamInv, UNCHANGED <<parser, sent, before, reads, pending, eof>>,
           (streaming' /\ (opened' \/ pc' \in {"await", "arm"})) =>
               streaming /\ (opened \/ pc \in {"await", "arm"}),
           pc' # "send", (opened' /\ pc' # "start") => streaming',
           pc' \in {"await", "arm"} => streaming',
           eof => opened' \/ (conn' = 0 /\ pc' = "idle")
    PROVE  StreamInv'
<1>1. (Streamed => Streamed') /\ (ReadAll => ReadAll')
  BY StreamedKept, ReadAllKept
<1> QED  BY <1>1 DEF StreamInv

LEMMA LinkEndsOwn ==
    ASSUME AnswerInv, NEW t \in Conns, LinkEnds(t)
    PROVE  OwnInv'
<1> SUFFICES ASSUME lapses' = {}  PROVE PlaceInv' /\ StreamInv'
  BY DEF OwnInv
<1>1. PlaceInv /\ StreamInv
  BY DEF AnswerInv, OwnInv, LinkEnds
<1>2. UNCHANGED <<pc, req, upActive, opened, streaming, conn, parser, reads, pending, eof, sent, before>>
  BY DEF LinkEnds, driver, state, stream, counts
<1>3. (Quiet => Quiet') /\ (Following => Following')
  BY <1>2, LinkEndsLoses, QuietLoses, FollowingLoses DEF AnswerInv, HttpInv, ConnInv
<1>4. eof => ReadAll'
  BY <1>1, <1>2, ReadAllKept DEF StreamInv
<1> QED  BY <1>1, <1>2, <1>3, <1>4, OwnOutside

LEMMA ArriveOwn ==
    ASSUME AnswerInv, NEW t \in Conns, Arrive(t)
    PROVE  OwnInv'
<1> SUFFICES ASSUME lapses' = {}  PROVE PlaceInv' /\ StreamInv'
  BY DEF OwnInv
<1>1. PlaceInv /\ StreamInv
  BY DEF AnswerInv, OwnInv, Arrive
<1>2. UNCHANGED <<pc, req, upActive, opened, streaming, conn, parser, reads, pending, eof, sent, before>>
  BY DEF Arrive, driver, state, stream, counts
<1>3. (Quiet => Quiet') /\ (Following => Following')
  BY FollowingArrive DEF AnswerInv, HttpInv, ConnInv
<1>4. eof => ReadAll'
  BY <1>1, <1>2, ReadAllKept DEF StreamInv
<1> QED  BY <1>1, <1>2, <1>3, <1>4, OwnOutside

LEMMA ServerAnswersOwn ==
    ASSUME AnswerInv, HttpInv', NEW t \in Conns, ServerAnswers(t)
    PROVE  OwnInv'
<1> SUFFICES ASSUME lapses' = {}  PROVE PlaceInv' /\ StreamInv'
  BY DEF OwnInv
<1>0. lapses = {}
  BY DEF ServerAnswers
<1>1. PlaceInv /\ StreamInv
  BY <1>0 DEF AnswerInv, OwnInv
<1>2. UNCHANGED <<pc, req, upActive, opened, streaming, conn, parser, reads, pending, eof>>
  BY DEF ServerAnswers, driver, state, stream
<1>3. conn # 0
  BY OwnTransport DEF ServerAnswers, AnswerInv, HttpInv, ConnInv
<1>4. ~Quiet /\ (Following => parser = Reset /\ Following')
  BY FollowingAnswers DEF AnswerInv, HttpInv, CallInv, ConnInv
<1>5. Following /\ parser = Reset
  BY <1>1, <1>3, <1>4, NotQuiet DEF AnswerInv, HttpInv, CallInv
<1>6. ~eof
  BY <1>1, <1>5 DEF StreamInv, ReadAll, IsComplete, Reset
<1> QED  BY <1>1, <1>2, <1>4, <1>5, <1>6, OwnOutside

LEMMA OnTransportDataOwn ==
    ASSUME AnswerInv, OnTransportData
    PROVE  OwnInv'
<1> SUFFICES ASSUME lapses' = {}  PROVE PlaceInv' /\ StreamInv'
  BY DEF OwnInv
<1>1. held.conn = conn /\ lapses = {}
  BY DEF OnTransportData, Stale
<1>2. PlaceInv /\ StreamInv
  BY <1>1 DEF AnswerInv, OwnInv
<1>3. /\ UNCHANGED <<pc, req, upActive, opened, streaming, conn, reads, eof, sent, before, wire, link, server>>
      /\ held.piece # <<>> /\ held' = NoHeld
      /\ parser' = (IF IsComplete(parser) THEN parser ELSE Feed(parser, held.piece))
      /\ HandleBody(parser, parser')
  BY DEF OnTransportData, driver, stream, transport, counts
<1>4. conn # 0 /\ ~Quiet
  BY <1>1, <1>3 DEF AnswerInv, WireInv, NoHeld, Quiet, InHand
<1>5. Following /\ (pc \in Preparing => upActive)
  BY <1>2, <1>4, NotQuiet DEF AnswerInv, HttpInv, CallInv
<1>6. /\ Following' /\ ~IsComplete(parser) /\ parser.body \in Seq(Tokens)
      /\ \E d \in Seq(Tokens) : parser'.body = parser.body \o d
  BY <1>1, <1>3, <1>5, FollowingData DEF AnswerInv, HttpInv, CallInv
<1>7. PICK d \in Seq(Tokens) : parser'.body = parser.body \o d
  BY <1>6
<1>8. pc \notin {"done", "send"} /\ ~eof
  BY <1>2, <1>5, <1>6 DEF PlaceInv, StreamInv, ReadAll, AnswerInv, HttpInv, CallInv, LatchInv,
     Preparing, Awaiting
<1>9. PlaceInv'
  BY <1>2, <1>3, <1>4, <1>5, <1>6, <1>8 DEF PlaceInv, Preparing
<1>10. pending' = IF streaming THEN pending \o d ELSE pending
  <2>1. SubSeq(parser'.body, Len(parser.body) + 1, Len(parser'.body)) = d
    BY <1>6, <1>7, JoinTail
  <2> QED  BY <1>3, <2>1 DEF HandleBody
<1>11. pending' \in Seq(Tokens)
  BY <1>2, <1>10 DEF StreamInv
<1>12. streaming /\ Streamed => Streamed'
  <2>1. Assoc(reads, pending, d)
    BY <1>2, JoinAssoc DEF StreamInv
  <2> QED  BY <1>3, <1>7, <1>10, <2>1, Zenon DEF Streamed, Assoc
<1>13. StreamInv'
  BY <1>2, <1>3, <1>8, <1>11, <1>12 DEF StreamInv
<1> QED  BY <1>9, <1>13

LEMMA OnTransportClosedOwn ==
    ASSUME AnswerInv, OnTransportClosed
    PROVE  OwnInv'
<1> SUFFICES ASSUME lapses' = {}  PROVE PlaceInv' /\ StreamInv'
  BY DEF OwnInv
<1>1. held.conn = conn /\ lapses = {}
  BY DEF OnTransportClosed, Stale
<1>2. PlaceInv /\ StreamInv
  BY <1>1 DEF AnswerInv, OwnInv
<1>3. /\ UNCHANGED <<pc, req, upActive, opened, streaming, conn, reads, pending, eof, sent, before>>
      /\ UNCHANGED <<wire, link, server>>
      /\ held.conn # 0 /\ held.piece = <<>> /\ held' = NoHeld /\ parser' = Finish(parser)
  BY DEF OnTransportClosed, driver, stream, transport, counts
<1>4. /\ Following => Following' /\ parser'.body = parser.body
  BY <1>1, <1>3, FollowingClosed DEF AnswerInv, HttpInv, CallInv
<1>5. (parser = Reset => parser' = parser) /\ (IsComplete(parser) => parser' = parser)
  BY <1>3 DEF Finish, Reset, IsComplete
<1>6. Quiet => Quiet'
  BY <1>1, <1>3 DEF Quiet, InHand, OnWire, Owed, NoHeld
<1>7. eof => ReadAll'
  BY <1>2, <1>3, <1>5, ReadAllKept DEF StreamInv, ReadAll
<1>8. Following /\ Streamed => Streamed'
  BY <1>3, <1>4 DEF Streamed
<1>9. PlaceInv'
  BY <1>2, <1>3, <1>4, <1>5, <1>6 DEF PlaceInv
<1>10. StreamInv'
  BY <1>2, <1>3, <1>7, <1>8 DEF StreamInv, PlaceInv, Awaiting
<1> QED  BY <1>9, <1>10

\* What the proofs below start from.
LEMMA OwnFrom ==
    ASSUME AnswerInv, lapses \subseteq lapses', lapses' = {}
    PROVE  /\ PlaceInv /\ StreamInv /\ FlagType /\ WireInv /\ LinkType /\ upActive \in BOOLEAN
           /\ PcType /\ LatchInv /\ OpInv /\ ReqType /\ SentType
<1>1. lapses = {}
  OBVIOUS
<1> QED  BY <1>1 DEF AnswerInv, OwnInv, HttpInv, CallInv, ConnInv, LinkType

LEMMA BeginOwn ==
    ASSUME AnswerInv, NEW op, NEW method, NEW host, Begin(op, method, host)
    PROVE  OwnInv'
<1> SUFFICES ASSUME lapses' = {}  PROVE PlaceInv' /\ StreamInv'
  BY DEF OwnInv
<1>1. /\ pc = "idle" /\ pc' = "start" /\ req'.op = op /\ streaming' = (op # "Execute")
      /\ UNCHANGED <<parser, pending, upActive, conn, held, wire, link, server>>
  BY DEF Begin, transport
<1>2. /\ PlaceInv /\ StreamInv /\ FlagType /\ WireInv /\ LinkType /\ upActive \in BOOLEAN
      /\ PcType /\ LatchInv /\ OpInv /\ ReqType /\ SentType
  <2>1. lapses \subseteq lapses'
    BY DEF Begin, Abandoned
  <2> QED  BY <2>1, OwnFrom
<1>3. Loses
  BY <1>1, LosesNothing
<1>f. streaming' <=> op # "Execute"
  BY <1>1
<1>4. CASE upActive
  <2>1. UNCHANGED <<before, sent, opened, reads, eof>>
    BY <1>4 DEF Begin, stream
  <2>2. opened /\ Following /\ streaming
    BY <1>1, <1>2, <1>4 DEF PlaceInv, StreamInv
  <2>3. Following'
    BY <1>1, <1>3, <2>1, <2>2, FollowingLoses
  <2>4. PlaceInv'
    BY <1>1, <1>4, <2>1, <2>2, <2>3 DEF PlaceInv, Preparing, Awaiting, Uploading
  <2>5. StreamInv'
    BY <1>1, <1>2, <2>1, <2>2, StreamKept
  <2> QED  BY <2>4, <2>5
<1>5. CASE ~upActive
  <2>1. /\ opened' = FALSE /\ reads' = <<>> /\ eof' = FALSE
        /\ ~streaming \/ IsComplete(parser)
    BY <1>5 DEF Begin, Abandoned
  <2>2. Quiet
    <3>1. CASE conn = 0
      BY <3>1 DEF Quiet, InHand, OnWire, Owed
    <3>2. CASE conn # 0
      BY <1>1, <1>2, <2>1, <3>2, CompleteFacts DEF PlaceInv
    <3> QED  BY <3>1, <3>2
  <2>3. Quiet'
    BY <1>3, <2>2, QuietLoses
  <2>4. PlaceInv'
    BY <1>1, <1>f, <1>5, <2>1, <2>3 DEF PlaceInv, Preparing, Awaiting, Uploading
  <2>5. StreamInv'
    BY <1>1, <1>2, <2>1 DEF StreamInv
  <2> QED  BY <2>4, <2>5
<1> QED  BY <1>4, <1>5

LEMMA StartRequestOwn ==
    ASSUME AnswerInv, StartRequest
    PROVE  OwnInv'
<1> SUFFICES ASSUME lapses' = {}  PROVE PlaceInv' /\ StreamInv'
  BY DEF OwnInv
<1>1. /\ pc = "start"
      /\ UNCHANGED <<parser, pending, upActive, conn, held, wire, link, server, before, sent, opened,
                     reads, eof>>
  BY DEF StartRequest, transport, stream, counts
<1>2. /\ PlaceInv /\ StreamInv /\ FlagType /\ WireInv /\ LinkType /\ upActive \in BOOLEAN
      /\ PcType /\ LatchInv /\ OpInv /\ ReqType /\ SentType
  <2>1. lapses \subseteq lapses'
    BY DEF StartRequest, Diverted
  <2> QED  BY <2>1, OwnFrom
<1>3. (Quiet => Quiet') /\ (Following => Following')
  BY <1>1, LosesNothing, QuietLoses, FollowingLoses
<1>4. CASE upActive
  <2>1. pc' = "idle" /\ streaming' /\ (streaming' => streaming)
    BY <1>4 DEF StartRequest, GiveUp, Finished, Diverted
  <2>2. opened /\ Following
    BY <1>2, <1>4 DEF PlaceInv
  <2>3. PlaceInv'
    BY <1>1, <1>3, <2>1, <2>2 DEF PlaceInv, Preparing, Awaiting, Uploading
  <2>4. StreamInv'
    BY <1>1, <1>2, <2>1, <2>2, StreamKept
  <2> QED  BY <2>3, <2>4
<1>5. CASE ~upActive
  <2>1. pc' = "ensure" /\ UNCHANGED <<req, streaming>>
    BY <1>5 DEF StartRequest
  <2>2. Quiet /\ ~opened /\ (req.op # "Execute" => streaming)
    BY <1>1, <1>2, <1>5 DEF PlaceInv, Preparing
  <2>3. PlaceInv'
    BY <1>1, <1>3, <1>5, <2>1, <2>2 DEF PlaceInv, Preparing, Awaiting, Uploading
  <2>4. StreamInv'
    BY <1>1, <1>2, <2>1, <2>2, StreamKept DEF StreamInv
  <2> QED  BY <2>3, <2>4
<1> QED  BY <1>4, <1>5

LEMMA UploadRefusedOwn ==
    ASSUME AnswerInv, UploadRefused
    PROVE  OwnInv'
<1> SUFFICES ASSUME lapses' = {}  PROVE PlaceInv' /\ StreamInv'
  BY DEF OwnInv
<1>1. /\ pc = "start" /\ pc' = "idle"
      /\ UNCHANGED <<parser, pending, upActive, conn, held, wire, link, server, before, sent, opened,
                     reads, eof>>
  BY DEF UploadRefused, GiveUp, Finished, transport, stream, counts
<1>2. /\ PlaceInv /\ StreamInv /\ FlagType /\ WireInv /\ LinkType /\ upActive \in BOOLEAN
      /\ PcType /\ LatchInv /\ OpInv /\ ReqType /\ SentType
  <2>1. lapses \subseteq lapses'
    BY DEF UploadRefused, Diverted
  <2> QED  BY <2>1, OwnFrom
<1>3. Quiet => Quiet'
  BY <1>1, LosesNothing, QuietLoses
<1>4. ~streaming' /\ ~upActive
  BY DEF UploadRefused, GiveUp, Diverted
<1>5. Quiet /\ ~opened
  BY <1>1, <1>2, <1>4 DEF PlaceInv, Preparing
<1>6. PlaceInv'
  BY <1>1, <1>3, <1>4, <1>5 DEF PlaceInv, Preparing, Awaiting, Uploading
<1>7. StreamInv'
  BY <1>1, <1>2, <1>4, <1>5, StreamKept DEF StreamInv
<1> QED  BY <1>6, <1>7

LEMMA EnsureConnectedOwn ==
    ASSUME AnswerInv, EnsureConnected
    PROVE  OwnInv'
<1> SUFFICES ASSUME lapses' = {}  PROVE PlaceInv' /\ StreamInv'
  BY DEF OwnInv
<1>1. /\ pc = "ensure" /\ pc' \in {"reset", "create"} /\ (KeepTransport \/ DropTransport)
      /\ UNCHANGED <<req, streaming, parser, pending, held, server, before, sent, opened, reads, eof>>
  BY DEF EnsureConnected, stream, counts
<1>2. /\ PlaceInv /\ StreamInv /\ FlagType /\ WireInv /\ LinkType /\ upActive \in BOOLEAN
      /\ PcType /\ LatchInv /\ OpInv /\ ReqType /\ SentType
  BY OwnFrom DEF EnsureConnected
<1>3. Quiet => Quiet'
  BY <1>1, LosesNothing, LosesAll, QuietLoses DEF KeepTransport, transport
<1>4. ~upActive /\ Quiet /\ ~opened /\ (req.op # "Execute" => streaming)
  BY <1>1, <1>2 DEF PlaceInv, Preparing, LatchInv
<1>5. ~upActive' /\ conn' \in {conn, 0}
  BY <1>1, <1>4 DEF KeepTransport, DropTransport, transport
<1>6. PlaceInv'
  BY <1>1, <1>3, <1>4, <1>5 DEF PlaceInv, Preparing, Awaiting, Uploading
<1>7. StreamInv'
  BY <1>1, <1>2, <1>4, <1>5, StreamKept DEF StreamInv
<1> QED  BY <1>6, <1>7

LEMMA CreateTransportOwn ==
    ASSUME AnswerInv, CreateTransport
    PROVE  OwnInv'
<1> SUFFICES ASSUME lapses' = {}  PROVE PlaceInv' /\ StreamInv'
  BY DEF OwnInv
<1>1. /\ pc = "create" /\ pc' = "reset"
      /\ UNCHANGED <<req, upActive, streaming, parser, pending, before, sent, opened, reads, eof>>
  BY DEF CreateTransport, state, stream, counts
<1>2. /\ PlaceInv /\ StreamInv /\ FlagType /\ WireInv /\ LinkType /\ upActive \in BOOLEAN
      /\ PcType /\ LatchInv /\ OpInv /\ ReqType /\ SentType
  BY OwnFrom DEF CreateTransport
<1>3. Quiet'
  BY <1>2, WireCreated
<1>4. ~upActive /\ ~opened /\ (req.op # "Execute" => streaming)
  BY <1>1, <1>2 DEF PlaceInv, Preparing, LatchInv
<1>5. ~eof
  BY <1>1, <1>2, <1>4 DEF StreamInv
<1>6. PlaceInv'
  BY <1>1, <1>3, <1>4 DEF PlaceInv, Preparing, Awaiting, Uploading
<1>7. StreamInv'
  BY <1>1, <1>2, <1>4, <1>5, StreamKept DEF StreamInv
<1> QED  BY <1>6, <1>7

LEMMA CreateFailsOwn ==
    ASSUME AnswerInv, CreateFails
    PROVE  OwnInv'
<1> SUFFICES ASSUME lapses' = {}  PROVE PlaceInv' /\ StreamInv'
  BY DEF OwnInv
<1>1. /\ pc = "create" /\ pc' = "idle" /\ (streaming' => streaming)
      /\ UNCHANGED <<upActive, conn, parser, pending, before, sent, opened, reads, eof>>
  BY DEF CreateFails, GiveUp, Finished, transport, stream, counts
<1>2. /\ PlaceInv /\ StreamInv /\ FlagType /\ WireInv /\ LinkType /\ upActive \in BOOLEAN
      /\ PcType /\ LatchInv /\ OpInv /\ ReqType /\ SentType
  BY OwnFrom DEF CreateFails
<1>3. ~upActive /\ ~opened /\ conn = 0
  BY <1>1, <1>2 DEF PlaceInv, Preparing, LatchInv, WireInv
<1>4. PlaceInv'
  BY <1>1, <1>3 DEF PlaceInv, Preparing, Awaiting, Uploading
<1>5. StreamInv'
  BY <1>1, <1>2, <1>3, StreamKept
<1> QED  BY <1>4, <1>5

LEMMA ResetRequestOwn ==
    ASSUME AnswerInv, ResetRequest
    PROVE  OwnInv'
<1> SUFFICES ASSUME lapses' = {}  PROVE PlaceInv' /\ StreamInv'
  BY DEF OwnInv
<1>1. /\ pc = "reset" /\ pc' = "send" /\ parser' = Reset /\ ~upActive' /\ reads' = <<>> /\ ~eof'
      /\ pending' = (IF streaming THEN <<>> ELSE pending)
      /\ UNCHANGED <<req, streaming, conn, held, wire, link, server, before, sent, opened>>
  BY DEF ResetRequest, transport, stream, counts
<1>2. /\ PlaceInv /\ StreamInv /\ FlagType /\ WireInv /\ LinkType /\ upActive \in BOOLEAN
      /\ PcType /\ LatchInv /\ OpInv /\ ReqType /\ SentType
  BY OwnFrom DEF ResetRequest
<1>3. Quiet => Quiet'
  BY <1>1, LosesNothing, QuietLoses
<1>4. Quiet /\ ~opened /\ (req.op # "Execute" => streaming)
  BY <1>1, <1>2 DEF PlaceInv, Preparing, LatchInv
<1>5. PlaceInv'
  BY <1>1, <1>3, <1>4 DEF PlaceInv, Preparing, Awaiting, Uploading
<1>6. reads' \in Seq(Tokens) /\ pending' \in Seq(Tokens)
  BY <1>1, <1>2 DEF StreamInv
<1>7. StreamInv'
  BY <1>1, <1>4, <1>6 DEF StreamInv
<1> QED  BY <1>5, <1>7

LEMMA SendRequestOwn ==
    ASSUME AnswerInv, SendRequest
    PROVE  OwnInv'
<1> SUFFICES ASSUME lapses' = {}  PROVE PlaceInv' /\ StreamInv'
  BY DEF OwnInv
<1>1. /\ pc = "send" /\ sent' = Append(sent, Record) /\ Send("head", before + Len(sent) + 1)
      /\ UNCHANGED <<req, upActive, conn, held, wire, link, streaming, parser, pending, before, opened,
                     reads, eof>>
  BY DEF SendRequest, transport, state, stream, counts
<1>2. /\ PlaceInv /\ StreamInv /\ FlagType /\ WireInv /\ LinkType /\ upActive \in BOOLEAN
      /\ PcType /\ LatchInv /\ OpInv /\ ReqType /\ SentType
  BY OwnFrom DEF SendRequest
<1>3. /\ ~upActive /\ Quiet /\ ~opened /\ (req.op # "Execute" => streaming)
      /\ parser = Reset
  BY <1>1, <1>2 DEF PlaceInv, Preparing, LatchInv
<1>4. Len(sent') = Len(sent) + 1 /\ Len(sent) \in Nat /\ before \in Nat
  BY <1>1, <1>2, SentGrows DEF SentType
<1>5. Last' = before + Len(sent) + 1 /\ sent' # <<>>
  BY <1>1, <1>4 DEF Last
<1>6. InHand' = <<>> /\ OnWire' = <<>>
  BY <1>1, <1>3, ComingKept DEF Quiet
<1>7. Owed' \in {<<>>, <<Last'>>}
  <2>1. conn \in Conns
    BY <1>1, <1>2 DEF Send, CanSend, LinkType
  <2>2. CASE link[conn] = "open"
    <3>1. server[conn].owed = <<>>
      BY <1>3, <2>1, <2>2 DEF Quiet, Owed, Conns
    <3>2. server'[conn].owed = Append(server[conn].owed, Last')
      BY <1>1, <1>5, <2>1, <2>2 DEF Send, ServerTakes, AnswerInv, HttpInv, ConnInv, ServerType
    <3>3. server'[conn].owed = <<Last'>>
      BY <3>1, <3>2
    <3> QED  BY <1>1, <2>1, <2>2, <3>3 DEF Owed, Conns
  <2>3. CASE link[conn] # "open"
    BY <1>1, <2>3 DEF Owed
  <2> QED  BY <2>2, <2>3
<1>8. Following'
  BY <1>1, <1>3, <1>5, <1>6, <1>7 DEF Following, Unanswered
<1>9. /\ req.op \in Operations /\ pc' \in {"wait", "await", "arm"}
      /\ pc' = "wait" <=> req.op = "Execute"
  BY <1>1, <1>2 DEF SendRequest, OpInv, Preparing, Operations
<1>10. PlaceInv'
  BY <1>1, <1>3, <1>8, <1>9 DEF PlaceInv, Preparing, Awaiting, Uploading
<1>11. streaming => Streamed'
  BY <1>1, <1>2, <1>3 DEF StreamInv, Streamed, Reset
<1>12. StreamInv'
  BY <1>1, <1>2, <1>3, <1>9, <1>11 DEF StreamInv
<1> QED  BY <1>10, <1>12

\* The end of an attempt that takes the transport along.
LEMMA OwnRepeats ==
    ASSUME AnswerInv, NEW lost \in BOOLEAN, RepeatOrGiveUp(lost), DropTransport,
           pc \in {"send", "wait"},
           UNCHANGED <<parser, pending, before, opened, reads, eof, lapses>>
    PROVE  OwnInv'
<1> SUFFICES ASSUME lapses' = {}  PROVE PlaceInv' /\ StreamInv'
  BY DEF OwnInv
<1>2. /\ PlaceInv /\ StreamInv /\ FlagType /\ WireInv /\ LinkType /\ upActive \in BOOLEAN
      /\ PcType /\ LatchInv /\ OpInv /\ ReqType /\ SentType
  BY OwnFrom
<1>3. ~upActive /\ ~opened
  BY <1>2 DEF PlaceInv, Preparing, Awaiting, LatchInv
<1>4. Quiet' /\ conn' = 0 /\ ~upActive'
  BY DropFacts DEF Quiet
<1>5. (pc' = "start" /\ req'.op = "Execute") \/ pc' = "idle"
  BY <1>2, RepeatFacts
<1>6. ~eof
  BY <1>2, <1>3 DEF StreamInv
<1>7. PlaceInv'
  BY <1>3, <1>4, <1>5 DEF PlaceInv, Preparing, Awaiting, Uploading
<1>8. StreamInv'
  BY <1>2, <1>3, <1>5, <1>6 DEF StreamInv
<1> QED  BY <1>7, <1>8

LEMMA SendFailsOwn ==
    ASSUME AnswerInv, SendFails
    PROVE  OwnInv'
  BY OwnRepeats DEF SendFails, stream, counts

LEMMA ExecuteFailsOwn ==
    ASSUME AnswerInv, ExecuteFails
    PROVE  OwnInv'
<1>1. (closed /\ ~failed) \in BOOLEAN
  BY Zenon
<1> QED  BY <1>1, OwnRepeats DEF ExecuteFails, stream, counts

LEMMA ExecuteDoneOwn ==
    ASSUME AnswerInv, ExecuteDone
    PROVE  OwnInv'
<1> SUFFICES ASSUME lapses' = {}  PROVE PlaceInv' /\ StreamInv'
  BY DEF OwnInv
<1>1. /\ pc = "wait" /\ IsComplete(parser) /\ (KeepTransport \/ DropTransport)
      /\ UNCHANGED <<streaming, parser, pending, held, server, before, sent, opened, reads, eof>>
  BY DEF ExecuteDone, stream, counts
<1>2. /\ PlaceInv /\ StreamInv /\ FlagType /\ WireInv /\ LinkType /\ upActive \in BOOLEAN
      /\ PcType /\ LatchInv /\ OpInv /\ ReqType /\ SentType
  BY OwnFrom DEF ExecuteDone
<1>3. Following /\ ~opened /\ ~upActive /\ req.op = "Execute" /\ ~eof
  BY <1>1, <1>2 DEF PlaceInv, StreamInv, Awaiting, LatchInv
<1>4. Quiet
  BY <1>1, <1>3, CompleteFacts
<1>5. Loses
  BY <1>1, LosesNothing, LosesAll DEF KeepTransport, transport
<1>6. Quiet' /\ Following'
  BY <1>1, <1>3, <1>4, <1>5, QuietLoses, FollowingLoses
<1>7. ~upActive'
  BY <1>1, <1>3 DEF KeepTransport, DropTransport
<1>8. \/ pc' \in {"done", "idle"}
      \/ pc' = "start" /\ req'.op = "Execute"
  BY <1>2, <1>3, RedirectedFacts DEF ExecuteDone, Finished
<1>9. PlaceInv'
  BY <1>1, <1>3, <1>6, <1>7, <1>8 DEF PlaceInv, Preparing, Awaiting, Uploading
<1>10. StreamInv'
  BY <1>1, <1>2, <1>3, <1>8, StreamKept
<1> QED  BY <1>9, <1>10

LEMMA ExecuteReturnsOwn ==
    ASSUME AnswerInv, ExecuteReturns
    PROVE  OwnInv'
<1> SUFFICES ASSUME lapses' = {}  PROVE PlaceInv' /\ StreamInv'
  BY DEF OwnInv
<1>1. /\ pc = "done" /\ pc' = "idle"
      /\ UNCHANGED <<streaming, parser, pending, upActive, conn, held, wire, link, server, before,
                     sent, opened, reads, eof>>
  BY DEF ExecuteReturns, Finished, state, transport, stream, counts
<1>2. /\ PlaceInv /\ StreamInv /\ FlagType /\ WireInv /\ LinkType /\ upActive \in BOOLEAN
      /\ PcType /\ LatchInv /\ OpInv /\ ReqType /\ SentType
  BY OwnFrom DEF ExecuteReturns
<1>3. Following /\ ~opened /\ ~upActive /\ IsComplete(parser) /\ ~eof
  BY <1>1, <1>2 DEF PlaceInv, StreamInv, Awaiting, LatchInv
<1>4. Quiet /\ Loses
  BY <1>1, <1>3, CompleteFacts, LosesNothing
<1>5. Quiet' /\ Following'
  BY <1>1, <1>3, <1>4, QuietLoses, FollowingLoses
<1>6. PlaceInv'
  BY <1>1, <1>3, <1>5 DEF PlaceInv, Preparing, Awaiting, Uploading
<1>7. StreamInv'
  BY <1>1, <1>2, <1>3, StreamKept
<1> QED  BY <1>6, <1>7

LEMMA OpenDoneOwn ==
    ASSUME AnswerInv, OpenDone
    PROVE  OwnInv'
<1> SUFFICES ASSUME lapses' = {}  PROVE PlaceInv' /\ StreamInv'
  BY DEF OwnInv
<1>1. /\ pc = "await" /\ (KeepTransport \/ DropTransport)
      /\ UNCHANGED <<streaming, parser, pending, held, server, before, sent, reads, eof>>
  BY DEF OpenDone, stream, counts
<1>2. /\ PlaceInv /\ StreamInv /\ FlagType /\ WireInv /\ LinkType /\ upActive \in BOOLEAN
      /\ PcType /\ LatchInv /\ OpInv /\ ReqType /\ SentType
  BY OwnFrom DEF OpenDone
<1>3. Following /\ ~opened /\ ~upActive /\ streaming /\ ~eof
  BY <1>1, <1>2 DEF PlaceInv, StreamInv, Awaiting, LatchInv
<1>4. Loses
  BY <1>1, LosesNothing, LosesAll DEF KeepTransport, transport
<1>5. Following'
  BY <1>1, <1>3, <1>4, FollowingLoses
<1>6. ~upActive'
  BY <1>1, <1>3 DEF KeepTransport, DropTransport
<1>7. \/ pc' = "idle"
      \/ pc' = "start" /\ UNCHANGED opened /\ Quiet'
  BY DropFacts DEF OpenDone, Finished, Quiet
<1>8. PlaceInv'
  BY <1>1, <1>3, <1>5, <1>6, <1>7 DEF PlaceInv, Preparing, Awaiting, Uploading
<1>9. StreamInv'
  BY <1>1, <1>2, <1>3, <1>7, StreamKept
<1> QED  BY <1>8, <1>9

\* The stream goes on, outside a call or in another step of the upload.
LEMMA OwnGoesOn ==
    ASSUME PlaceInv, StreamInv, FlagType, Following, Loses, streaming,
           opened' \/ (pc = "await" /\ UNCHANGED opened),
           opened \/ pc \in {"await", "arm"},
           pc' \in {"idle", "chunk", "terminator", "await_end"},
           pc \in Awaiting \cup Uploading \cup {"idle"},
           pc' \in Uploading => opened', upActive' => opened',
           UNCHANGED <<streaming, parser, pending, before, sent, reads, eof>>
    PROVE  PlaceInv' /\ StreamInv'
<1>1. Following'
  BY FollowingLoses
<1>2. eof => opened'
  BY DEF PlaceInv, StreamInv, Awaiting
<1>3. PlaceInv'
  BY <1>1 DEF PlaceInv, Preparing, Awaiting, Uploading
<1>4. StreamInv'
  BY <1>2, StreamKept
<1> QED  BY <1>3, <1>4

LEMMA OpenFailsOwn ==
    ASSUME AnswerInv, OpenFails
    PROVE  OwnInv'
<1> SUFFICES ASSUME lapses' = {}  PROVE PlaceInv' /\ StreamInv'
  BY DEF OwnInv
<1>1. /\ pc = "await" /\ pc' = "idle"
      /\ UNCHANGED <<streaming, parser, pending, upActive, conn, held, wire, link, server, before,
                     sent, opened, reads, eof>>
  BY DEF OpenFails, Finished, state, transport, stream, counts
<1>2. /\ PlaceInv /\ StreamInv /\ FlagType /\ WireInv /\ LinkType /\ upActive \in BOOLEAN
      /\ PcType /\ LatchInv /\ OpInv /\ ReqType /\ SentType
  BY OwnFrom DEF OpenFails
<1>3. Following /\ streaming /\ ~upActive
  BY <1>1, <1>2 DEF PlaceInv, StreamInv, LatchInv, Awaiting
<1> QED  BY <1>1, <1>2, <1>3, OwnGoesOn, LosesNothing DEF Uploading, Awaiting

LEMMA BeginChunkedUploadOwn ==
    ASSUME AnswerInv, BeginChunkedUpload
    PROVE  OwnInv'
<1> SUFFICES ASSUME lapses' = {}  PROVE PlaceInv' /\ StreamInv'
  BY DEF OwnInv
<1>1. /\ pc = "arm" /\ pc' = "idle" /\ opened'
      /\ UNCHANGED <<streaming, parser, pending, conn, held, wire, link, server, before, sent, reads,
                     eof>>
  BY DEF BeginChunkedUpload, Finished, transport, counts
<1>2. /\ PlaceInv /\ StreamInv /\ FlagType /\ WireInv /\ LinkType /\ upActive \in BOOLEAN
      /\ PcType /\ LatchInv /\ OpInv /\ ReqType /\ SentType
  BY OwnFrom DEF BeginChunkedUpload
<1>3. Following /\ streaming
  BY <1>1, <1>2 DEF PlaceInv, StreamInv, Awaiting
<1> QED  BY <1>1, <1>2, <1>3, OwnGoesOn, LosesNothing DEF Uploading, Awaiting

\* The steps of an upload, whose stream is open.
LEMMA UploadOwn ==
    ASSUME AnswerInv, upActive \/ pc \in Uploading, pc \in Uploading \cup {"idle"},
           pc' \in Uploading \cup {"idle"}, Loses, lapses \subseteq lapses',
           UNCHANGED <<streaming, parser, pending, before, sent, opened, reads, eof>>
    PROVE  OwnInv'
<1> SUFFICES ASSUME lapses' = {}  PROVE PlaceInv' /\ StreamInv'
  BY DEF OwnInv
<1>1. /\ PlaceInv /\ StreamInv /\ FlagType /\ WireInv /\ LinkType /\ upActive \in BOOLEAN
      /\ PcType /\ LatchInv /\ OpInv /\ ReqType /\ SentType
  BY OwnFrom
<1>2. opened /\ Following /\ streaming
  BY <1>1 DEF PlaceInv, StreamInv, Uploading
<1> QED  BY <1>1, <1>2, OwnGoesOn DEF Uploading

LEMMA WriteOwn ==
    ASSUME AnswerInv, Write
    PROVE  OwnInv'
<1>1. Loses
  BY LosesNothing DEF Write, transport
<1> QED  BY <1>1, UploadOwn DEF Write, stream, Uploading

LEMMA EndBodyOwn ==
    ASSUME AnswerInv, EndBody
    PROVE  OwnInv'
<1>1. Loses
  BY LosesNothing DEF EndBody, transport
<1> QED  BY <1>1, UploadOwn DEF EndBody, stream, counts, Uploading

\* A part of the body does not make the server owe anything.
LEMMA PartLoses ==
    ASSUME HttpInv, NEW what \in {"chunk", "terminator"}, Send(what, 0),
           UNCHANGED <<conn, held, wire, link>>
    PROVE  Loses
<1>1. UNCHANGED <<InHand, OnWire>>
  BY ComingKept
<1>2. conn \in Conns /\ server \in [Conns -> [owed : Seq(Nat), inBody : BOOLEAN]]
  BY DEF Send, CanSend, HttpInv, ConnInv, LinkType, ServerType
<1>3. server'[conn].owed = server[conn].owed
  <2>1. CASE link[conn] = "open"
    <3>1. PICK b : server' = [server EXCEPT ![conn] = [owed |-> server[conn].owed, inBody |-> b]]
      BY <2>1, Zenon DEF Send, ServerTakes
    <3> QED  BY <1>2, <3>1
  <2>2. CASE link[conn] # "open"
    BY <2>2 DEF Send
  <2> QED  BY <2>1, <2>2
<1>4. UNCHANGED Owed
  BY <1>2, <1>3, OwedKept
<1> QED  BY <1>1, <1>4 DEF Loses

LEMMA SendChunkOwn ==
    ASSUME AnswerInv, SendChunk
    PROVE  OwnInv'
<1>1. Loses
  BY PartLoses DEF SendChunk, transport, AnswerInv
<1> QED  BY <1>1, UploadOwn DEF SendChunk, Finished, state, stream, counts, Uploading

LEMMA SendTerminatorOwn ==
    ASSUME AnswerInv, SendTerminator
    PROVE  OwnInv'
<1>1. Loses
  BY PartLoses DEF SendTerminator, transport, AnswerInv
<1> QED  BY <1>1, UploadOwn DEF SendTerminator, state, stream, counts, Uploading

LEMMA SendPartFailsOwn ==
    ASSUME AnswerInv, SendPartFails
    PROVE  OwnInv'
<1>1. Loses
  BY LosesAll DEF SendPartFails
<1> QED  BY <1>1, UploadOwn DEF SendPartFails, Finished, stream, counts, Uploading

LEMMA EndBodyDoneOwn ==
    ASSUME AnswerInv, EndBodyDone
    PROVE  OwnInv'
<1>1. Loses
  BY LosesAll, LosesNothing DEF EndBodyDone, KeepTransport, transport
<1> QED  BY <1>1, UploadOwn DEF EndBodyDone, Finished, stream, counts, Uploading

LEMMA EndBodyFailsOwn ==
    ASSUME AnswerInv, EndBodyFails
    PROVE  OwnInv'
<1>1. Loses
  BY LosesAll DEF EndBodyFails
<1> QED  BY <1>1, UploadOwn DEF EndBodyFails, Finished, stream, counts, Uploading

LEMMA CloseOwn ==
    ASSUME AnswerInv, Close
    PROVE  OwnInv'
<1> SUFFICES ASSUME lapses' = {}  PROVE PlaceInv' /\ StreamInv'
  BY DEF OwnInv
<1>1. /\ pc = "idle" /\ pc' = "idle" /\ ~streaming' /\ ~opened' /\ pending' = <<>>
      /\ UNCHANGED <<parser, before, sent, reads, eof>>
  BY DEF Close, driver, counts
<1>2. /\ PlaceInv /\ StreamInv /\ FlagType /\ WireInv /\ LinkType /\ upActive \in BOOLEAN
      /\ PcType /\ LatchInv /\ OpInv /\ ReqType /\ SentType
  BY OwnFrom DEF Close
<1>3. conn' = 0 /\ ~upActive'
  BY DropFacts DEF Close
<1>4. PlaceInv'
  BY <1>1, <1>3 DEF PlaceInv, Preparing, Awaiting, Uploading
<1>5. eof => ReadAll'
  BY <1>1, <1>2, ReadAllKept DEF StreamInv, ReadAll
<1>6. pending' \in Seq(Tokens)
  BY <1>1
<1>7. StreamInv'
  BY <1>1, <1>2, <1>3, <1>5, <1>6 DEF StreamInv
<1> QED  BY <1>4, <1>7

LEMMA ReadOwn ==
    ASSUME AnswerInv, Read
    PROVE  OwnInv'
<1> SUFFICES ASSUME lapses' = {}  PROVE PlaceInv' /\ StreamInv'
  BY DEF OwnInv
<1>1. /\ Reading /\ pending # <<>>
      /\ UNCHANGED <<pc, req, streaming, parser, upActive, conn, held, wire, link, server, before,
                     sent, opened, eof>>
  BY DEF Read, driver, transport, counts
<1>2. /\ PlaceInv /\ StreamInv /\ FlagType /\ WireInv /\ LinkType /\ upActive \in BOOLEAN
      /\ PcType /\ LatchInv /\ OpInv /\ ReqType /\ SentType
  BY OwnFrom DEF Read
<1>3. opened /\ streaming /\ Following /\ Streamed /\ ~eof
  BY <1>1, <1>2 DEF PlaceInv, StreamInv, Reading, ReadAll
<1>4. Following'
  BY <1>1, <1>3, LosesNothing, FollowingLoses
<1>5. PICK n \in 1 .. Len(pending) :
          /\ reads' = reads \o SubSeq(pending, 1, n)
          /\ pending' = SubSeq(pending, n + 1, Len(pending))
  BY DEF Read
<1> DEFINE a == SubSeq(pending, 1, n)
<1>6. pending \in Seq(Tokens) /\ reads \in Seq(Tokens) /\ n \in 0 .. Len(pending)
  BY <1>2 DEF StreamInv
<1>7. a \in Seq(Tokens) /\ pending' \in Seq(Tokens) /\ a \o pending' = pending
  BY <1>5, <1>6, CutSeq
<1>8. reads' = reads \o a
  BY <1>5
<1> HIDE DEF a
<1>9. reads' \in Seq(Tokens) /\ Assoc(reads, a, pending')
  BY <1>6, <1>7, <1>8, JoinAssoc
<1>10. Streamed'
  BY <1>1, <1>3, <1>7, <1>8, <1>9, Zenon DEF Streamed, Assoc
<1>11. PlaceInv'
  BY <1>1, <1>2, <1>3, <1>4 DEF PlaceInv, Reading, Preparing
<1>12. StreamInv'
  BY <1>1, <1>3, <1>7, <1>9, <1>10 DEF StreamInv, Reading
<1> QED  BY <1>11, <1>12

LEMMA ReadEndOwn ==
    ASSUME AnswerInv, ReadEnd
    PROVE  OwnInv'
<1> SUFFICES ASSUME lapses' = {}  PROVE PlaceInv' /\ StreamInv'
  BY DEF OwnInv
<1>1. /\ Reading /\ pending = <<>> /\ IsComplete(parser)
      /\ UNCHANGED <<pc, req, streaming, parser, pending, upActive, conn, held, wire, link, server,
                     before, sent, opened, reads>>
  BY DEF ReadEnd, driver, state, transport, counts
<1>2. /\ PlaceInv /\ StreamInv /\ FlagType /\ WireInv /\ LinkType /\ upActive \in BOOLEAN
      /\ PcType /\ LatchInv /\ OpInv /\ ReqType /\ SentType
  BY OwnFrom DEF ReadEnd
<1>3. opened /\ streaming /\ Following /\ Streamed
  BY <1>1, <1>2 DEF PlaceInv, StreamInv, Reading
<1>4. Following'
  BY <1>1, <1>3, LosesNothing, FollowingLoses
<1>5. parser.of = Last /\ Whole(parser.body) /\ sent # <<>>
  BY <1>1, <1>3, CompleteFacts
<1>6. reads = parser.body
  <2>1. reads \o <<>> = reads
    BY <1>2 DEF StreamInv
  <2> QED  BY <1>1, <1>3, <2>1, Zenon DEF Streamed
<1>7. ReadAll
  BY <1>1, <1>5, <1>6, Zenon DEF ReadAll
<1>8. ReadAll' /\ Streamed'
  BY <1>1, <1>3, <1>7, ReadAllKept, StreamedKept
<1>9. PlaceInv'
  BY <1>1, <1>2, <1>3, <1>4 DEF PlaceInv, Reading, Preparing
<1>10. StreamInv'
  BY <1>1, <1>2, <1>3, <1>8 DEF StreamInv, Reading
<1> QED  BY <1>9, <1>10

-----------------------------------------------------------------------------
(* The answer is the client's own. *)

LEMMA AnswerInitInv == Init => AnswerInv
<1> SUFFICES ASSUME Init  PROVE AnswerInv
  OBVIOUS
<1>1. HttpInv
  BY HttpInitInv
<1>2. FlagType
  BY DEF Init, FlagType
<1>3. WireInv
  <2>1. <<>> \in Seq(Tokens) /\ NoHeld.conn = 0
        /\ NoHeld \in [conn : Conns \cup {0}, piece : Seq(Tokens)]
    BY DEF NoHeld
  <2> QED  BY <2>1 DEF Init, WireInv, Conns
<1>4. PlaceInv /\ StreamInv
  BY DEF Init, PlaceInv, StreamInv, Preparing, Awaiting, Uploading
<1> QED  BY <1>1, <1>2, <1>3, <1>4 DEF AnswerInv, OwnInv

LEMMA OwnNext ==
    ASSUME AnswerInv, HttpInv', Next
    PROVE  OwnInv'
<1>1. ASSUME NEW r \in Requests, NEW host \in Hosts, Begin(r[1], r[2], host)
      PROVE  OwnInv'
  BY <1>1, BeginOwn
<1>2. ASSUME NEW t \in Conns, ServerAnswers(t) \/ LinkEnds(t) \/ Arrive(t)
      PROVE  OwnInv'
  BY <1>2, ServerAnswersOwn, LinkEndsOwn, ArriveOwn
<1> QED
  BY <1>1, <1>2, Zenon, StartRequestOwn, EnsureConnectedOwn, CreateTransportOwn, CreateFailsOwn,
     ResetRequestOwn, SendRequestOwn, SendFailsOwn, ExecuteDoneOwn, ExecuteFailsOwn,
     ExecuteReturnsOwn, OpenDoneOwn, OpenFailsOwn, ReadOwn, ReadEndOwn, CloseOwn,
     BeginChunkedUploadOwn, UploadRefusedOwn, WriteOwn, SendChunkOwn, EndBodyOwn,
     SendTerminatorOwn, SendPartFailsOwn, EndBodyDoneOwn, EndBodyFailsOwn, OnTransportDataOwn,
     OnTransportClosedOwn DEF Next

LEMMA AnswerNextInv == AnswerInv /\ [Next]_vars => AnswerInv'
<1> SUFFICES ASSUME AnswerInv, [Next]_vars  PROVE AnswerInv'
  OBVIOUS
<1>1. HttpInv'
  BY HttpNextInv DEF AnswerInv
<1>2. CASE Next
  BY <1>1, <1>2, WireNext, FlagNext, OwnNext DEF AnswerInv
<1>3. CASE UNCHANGED vars
  <2> USE <1>3 DEF vars, driver, state, transport, stream, counts
  <2>1. WireInv'
    BY WireKept DEF AnswerInv
  <2>2. FlagType'
    BY DEF AnswerInv, FlagType
  <2>3. ASSUME lapses' = {}  PROVE PlaceInv' /\ StreamInv'
    <3>1. PlaceInv /\ StreamInv
      BY <2>3 DEF AnswerInv, OwnInv
    <3>2. (Quiet => Quiet') /\ (Following => Following')
      BY LosesNothing, QuietLoses, FollowingLoses
    <3>3. eof => ReadAll'
      BY <3>1, ReadAllKept DEF StreamInv
    <3> QED  BY <3>1, <3>2, <3>3, OwnOutside
  <2> QED  BY <1>1, <2>1, <2>2, <2>3 DEF AnswerInv, OwnInv
<1> QED  BY <1>2, <1>3

\* Where in its response SoftwareHttpClient is, at every step: the parser is at the place
\* in the answer to the last request that the bytes in hand and on the wire go on from,
\* unless a stream was abandoned, a handler came late or a response mixed its line ends.
\* The last is needed: TakeLine (http_parser.cpp:97) looks for CR LF over all that is
\* buffered, and of a response whose head ends in LF it finds one of the body.
THEOREM HttpFollowsAnswer == Spec => []AnswerInv
  BY AnswerInitInv, AnswerNextInv, PTL DEF Spec

\* What Execute returns is the answer to the last request it sent, with its status and all
\* of its body: for responses of any number, framing and size, bodies that hold CR, LF and
\* CR LF anywhere included, cut into pieces anywhere by the transport, over connections
\* reused, lost and retried in any order, unless a stream was abandoned, a handler came
\* late or a line that ends in LF had CR LF further on in its response (Mixed).
THEOREM HttpAnswerIsOwn == Spec => []AnswerIsOwn
<1>1. AnswerInv => AnswerIsOwn
  <2> SUFFICES ASSUME AnswerInv, pc = "done", lapses = {}
               PROVE  /\ parser.of = before + Len(sent)
                      /\ parser.status = sent[Len(sent)].answer.status
                      /\ Whole(parser.body)
    BY DEF AnswerIsOwn, OwnAnswer
  <2>1. Following /\ IsComplete(parser)
    BY DEF AnswerInv, OwnInv, PlaceInv, Awaiting
  <2> QED  BY <2>1, CompleteFacts DEF Last, Answer
<1> QED  BY <1>1, HttpFollowsAnswer, PTL

\* Read returns 0 only after all of the body of the answer to the last request has been
\* read: neither a close (Finish) nor a lost connection ends a body early, whichever thread
\* reads, whatever bytes the body is of and however the pieces come, the same lapses apart.
THEOREM HttpEofMeansWhole == Spec => []EofMeansWhole
<1>1. AnswerInv => EofMeansWhole
  <2> SUFFICES ASSUME AnswerInv, eof, lapses = {}
               PROVE  parser.of = before + Len(sent) /\ Whole(reads)
    BY DEF EofMeansWhole
  <2> QED  BY DEF AnswerInv, OwnInv, StreamInv, ReadAll, Last
<1> QED  BY <1>1, HttpFollowsAnswer, PTL
=============================================================================
