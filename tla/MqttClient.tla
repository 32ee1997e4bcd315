----------------------------- MODULE MqttClient -----------------------------
(***************************************************************************)
(* SoftwareMqttClient (src/src/protocol/mqtt): one session after another   *)
(* over a TcpClient each.                                                  *)
(*                                                                         *)
(* Three threads are inside the client: the application's, which connects, *)
(* disconnects, publishes and subscribes; the transport's receive thread,  *)
(* which handles packets and the peer's close; and the keep-alive task.    *)
(* Each has a call stack, because a callback may call Disconnect and       *)
(* because TcpClient::Disconnect reports its own close to the client while *)
(* Teardown is still under way.  Every critical section of mutex_, every   *)
(* access to an atomic outside it and every callback is a step.            *)
(*                                                                         *)
(* SendPacket looks the transport up and sends in one step: a transport    *)
(* that is given up in between refuses the send, as a closed one does.     *)
(* The broker and the link are external: the broker answers what reaches   *)
(* it, the link may go silent or report a close at any time.               *)
(***************************************************************************)
EXTENDS Naturals, Sequences

CONSTANTS
    App, Rx, Ka,    \* application thread, receive thread, keep-alive task
    MaxConnects,    \* bound: transports
    Msgs,           \* QoS 2 messages the broker has for the client
    BrokerIds,      \* packet ids the broker uses for them
    MaxPacketId,    \* 0xFFFF in the code
    MaxBuffer,      \* kMaxBufferedBytes, in packets
    MaxEvents,      \* bound: requests, packets the broker sends of its own accord
                    \* and callbacks that disconnect, together
    HangupActors    \* the threads on which a callback does so

ASSUME ActorsAssumption ==
    App # Rx /\ App # Ka /\ Rx # Ka /\ HangupActors \subseteq {App, Rx, Ka}

ASSUME BoundsAssumption ==
    /\ MaxConnects \in Nat
    /\ MaxPacketId \in Nat \ {0}
    /\ MaxBuffer \in Nat
    /\ MaxEvents \in Nat
    /\ 0 \notin Msgs

Actors == {App, Rx, Ka}

Transports == 1 .. MaxConnects

\* A packet: m is the message of a QoS 2 PUBLISH or PUBREL; n is the QoS of a
\* PUBLISH, the filter of a SUBSCRIBE and its SUBACK, whether a CONNECT wants a
\* clean session, and whether a CONNACK accepts.
Pkt(type, id, m, n) == [type |-> type, id |-> id, m |-> m, n |-> n]

NoPkt == Pkt("none", 0, 0, 0)

\* The locals of a call: the packet in hand, the message or filter it yielded,
\* the transport it was called about and the one it took.
Frame0 == [pc |-> "none", p |-> NoPkt, m |-> 0, own |-> 0, t |-> 0,
           bye |-> FALSE, then |-> "none"]

VARIABLES
    stack,         \* the calls each thread is in, innermost first
    transport,     \* transport_; 0 for null
    link,          \* each transport's connection: none, open, silent or closed
    connected,     \* connected_
    connecting,    \* connecting_
    connack,       \* connack_ready_ and connack_error_: none, ok or refused
    rxBuf,         \* rx_buffer_, in packets
    held,          \* pending_qos2_: the message under each id, 0 for no entry
    topics,        \* pending_topics_: the filter under each id, 0 for no entry
    lastId,        \* last_packet_id_
    keepAlive,     \* keep_alive_seconds_ is not zero
    kaTask,        \* keepalive_task_ is set
    kaRunning,     \* keepalive_running_
    ping,          \* ping_sent_ms_ is not zero
    recent,        \* less than a keep-alive period since last_sent_ms_
    wire,          \* packets on their way to the receive thread
    broker,        \* the broker: state and id of each message, its live transport
    budget,        \* what is left of MaxEvents
    delivered,     \* history: how often each message was handed to on_message_
    told,          \* history: how often on_disconnected_ ran for each transport
    answered,      \* history: a PINGREQ that ping does not show yet has had its PINGRESP
    cut,           \* history: messages in flight when a session ended
    lapses         \* history: how one session was taken for another

clientVars == <<transport, connected, connecting, connack, rxBuf, held, topics, lastId>>
kaVars == <<keepAlive, kaTask, kaRunning, ping>>
linkVars == <<link, wire, broker, recent>>
history == <<delivered, told, answered, cut, lapses>>
vars == <<stack, clientVars, kaVars, linkVars, budget, history>>

Init ==
    /\ stack = [x \in Actors |-> <<>>]
    /\ transport = 0
    /\ link = [t \in Transports |-> "none"]
    /\ connected = FALSE
    /\ connecting = FALSE
    /\ connack = "none"
    /\ rxBuf = <<>>
    /\ held = [i \in BrokerIds |-> 0]
    /\ topics = [i \in 1 .. MaxPacketId |-> 0]
    /\ lastId = 0
    /\ keepAlive = TRUE
    /\ kaTask = FALSE
    /\ kaRunning = FALSE
    /\ ping = FALSE
    /\ recent = FALSE
    /\ wire = [t \in Transports |-> <<>>]
    /\ broker = [st |-> [m \in Msgs |-> "new"], id |-> [m \in Msgs |-> 0], on |-> 0]
    /\ budget = MaxEvents
    /\ delivered = [m \in Msgs |-> 0]
    /\ told = [t \in Transports |-> 0]
    /\ answered = FALSE
    /\ cut = {}
    /\ lapses = {}

-----------------------------------------------------------------------------
(***************************************************************************)
(* Call stacks.                                                            *)
(***************************************************************************)
Top(x) == Head(stack[x])

At(x, l) == stack[x] # <<>> /\ Top(x).pc = l

Idle(x) == stack[x] = <<>>

SetStack(x, s) == stack' = [stack EXCEPT ![x] = s]

Continue(x, f) == SetStack(x, <<f>> \o Tail(stack[x]))

GoTo(x, l) == Continue(x, [Top(x) EXCEPT !.pc = l])

\* The receive thread is done with a packet.
TakeNext == [Frame0 EXCEPT !.pc = "take", !.own = Top(Rx).own]

Return(x) == SetStack(x, Tail(stack[x]))

\* Teardown(bye), called about the transport `own'.
TeardownFrame(own, bye) == [Frame0 EXCEPT !.pc = "give_up", !.own = own, !.bye = bye]

\* Disconnect: StopKeepAlive, then Teardown(true).
DisconnectFrame ==
    [Frame0 EXCEPT !.pc = "stop", !.own = transport, !.then = "give_up", !.bye = TRUE]

\* A callback returns, or calls Disconnect first; x goes on with the calls s.
Callback(x, s) ==
    \/ SetStack(x, s) /\ UNCHANGED budget
    \/ /\ x \in HangupActors /\ budget > 0
       /\ budget' = budget - 1
       /\ SetStack(x, <<DisconnectFrame>> \o s)

-----------------------------------------------------------------------------
(***************************************************************************)
(* The broker and the link (external).                                     *)
(***************************************************************************)
InFlight == {m \in Msgs : broker.st[m] \in {"sent", "released", "resend", "rerelease"}}

\* A clean session forgets what was in flight; a resumed one sends it again.
Resumed(clean) ==
    [m \in Msgs |-> CASE clean /\ m \in InFlight -> "gone"
                      [] ~clean /\ broker.st[m] = "sent" -> "resend"
                      [] ~clean /\ broker.st[m] = "released" -> "rerelease"
                      [] OTHER -> broker.st[m]]

Answer(t, p) == wire' = [wire EXCEPT ![t] = Append(@, p)]

\* The broker takes packet p of transport t and answers it.
BrokerTakes(t, p) ==
    CASE p.type = "connect" ->
            \E n \in {0, 1} :
                /\ Answer(t, Pkt("connack", 0, 0, n))
                /\ broker' = IF n = 0 THEN [broker EXCEPT !.on = 0]
                             ELSE [broker EXCEPT !.st = Resumed(p.n = 1), !.on = t]
      [] p.type = "pubrec" /\ \E m \in Msgs : broker.id[m] = p.id /\ broker.st[m] = "sent" ->
            \E m \in Msgs : /\ broker.id[m] = p.id /\ broker.st[m] = "sent"
                            /\ broker' = [broker EXCEPT !.st[m] = "released"]
                            /\ Answer(t, Pkt("pubrel", p.id, m, 0))
      [] p.type = "pubcomp" ->
            /\ broker' = [broker EXCEPT
                   !.st = [m \in Msgs |-> IF broker.id[m] = p.id /\ @[m] = "released"
                                          THEN "done" ELSE @[m]],
                   !.id = [m \in Msgs |-> IF @[m] = p.id /\ broker.st[m] = "released"
                                          THEN 0 ELSE @[m]]]
            /\ UNCHANGED wire
      [] p.type = "pingreq" -> Answer(t, Pkt("pingresp", 0, 0, 0)) /\ UNCHANGED broker
      [] p.type = "subscribe" ->
            /\ \E type \in {"suback", "subnack"} : Answer(t, Pkt(type, p.id, 0, p.n))
            /\ UNCHANGED broker
      [] p.type = "unsubscribe" -> Answer(t, Pkt("unsuback", p.id, 0, 0)) /\ UNCHANGED broker
      [] p.type = "publish" /\ p.n > 0 ->
            /\ Answer(t, Pkt(IF p.n = 1 THEN "puback" ELSE "pubrec", p.id, 0, 0))
            /\ UNCHANGED broker
      [] p.type = "pubrel" -> Answer(t, Pkt("pubcomp", p.id, 0, 0)) /\ UNCHANGED broker
      [] OTHER -> UNCHANGED <<wire, broker>>

BrokerUp == broker.on # 0 /\ link[broker.on] = "open"

BrokerPublishes(m) ==
    /\ BrokerUp /\ broker.st[m] \in {"new", "resend"}
    /\ \E id \in BrokerIds :
           /\ IF broker.st[m] = "new" THEN \A k \in Msgs : broker.id[k] # id
                                      ELSE id = broker.id[m]
           /\ broker' = [broker EXCEPT !.st[m] = "sent", !.id[m] = id]
           /\ Answer(broker.on, Pkt("publish", id, m, 2))
    /\ UNCHANGED <<stack, clientVars, kaVars, link, recent, budget, history>>

BrokerReleasesAgain(m) ==
    /\ BrokerUp /\ broker.st[m] = "rerelease"
    /\ broker' = [broker EXCEPT !.st[m] = "released"]
    /\ Answer(broker.on, Pkt("pubrel", broker.id[m], m, 0))
    /\ UNCHANGED <<stack, clientVars, kaVars, link, recent, budget, history>>

\* QoS 0 and 1 messages, a packet the client cannot read, a PUBLISH with both QoS
\* bits, and one whose remaining bytes never come.
StrayPackets == {Pkt("publish", 0, 0, 0), Pkt("publish", 0, 0, 1), Pkt("publish", 0, 0, 3),
                 Pkt("unreadable", 0, 0, 0), Pkt("endless", 0, 0, 0)}

BrokerSends(p) ==
    /\ BrokerUp /\ budget > 0
    /\ budget' = budget - 1
    /\ Answer(broker.on, p)
    /\ UNCHANGED <<stack, clientVars, kaVars, link, broker, recent, history>>

\* The peer is gone and nobody has said so.
LinkGoesSilent(t) ==
    /\ link[t] = "open"
    /\ link' = [link EXCEPT ![t] = "silent"]
    /\ wire' = [wire EXCEPT ![t] = <<>>]
    /\ UNCHANGED <<stack, clientVars, kaVars, broker, recent, budget, history>>

\* What closing transport t does, whoever closes it.
CloseLink(t) ==
    /\ link' = [link EXCEPT ![t] = "closed"]
    /\ wire' = [wire EXCEPT ![t] = <<>>]
    /\ broker' = [broker EXCEPT !.on = IF @ = t THEN 0 ELSE @]
    /\ UNCHANGED recent

-----------------------------------------------------------------------------
(***************************************************************************)
(* SendPacket.                                                             *)
(***************************************************************************)
CanSend == transport # 0 /\ link[transport] \in {"open", "silent"}

\* The transport takes packet p.  A silent link swallows it, and so does a broker
\* without a session.
Sends(p) ==
    /\ CanSend
    /\ IF link[transport] = "open" /\ (p.type = "connect" \/ broker.on = transport)
       THEN BrokerTakes(transport, p) ELSE UNCHANGED <<wire, broker>>
    /\ recent' = TRUE

\* There is no transport, or its Send fails, open or not.
SendFails == UNCHANGED <<wire, broker, recent>>

SendPacket(p) == Sends(p) \/ SendFails

-----------------------------------------------------------------------------
(***************************************************************************)
(* Teardown, by whichever thread noticed that the connection ended.        *)
(***************************************************************************)
\* Mutant: transport_ is copied where it has to be moved.
GiveUpCopiesTransport(x) ==
    /\ At(x, "give_up")
    /\ Continue(x, [Top(x) EXCEPT !.pc = "hush", !.t = transport])
    /\ connected' = FALSE
    /\ connecting' = FALSE
    /\ connack' = "none"
    /\ rxBuf' = <<>>
    /\ held' = [i \in BrokerIds |-> 0]
    /\ topics' = [i \in 1 .. MaxPacketId |-> 0]
    /\ cut' = IF transport = 0 THEN cut ELSE cut \cup InFlight
    /\ UNCHANGED <<transport, lastId, kaVars, linkVars, budget, delivered, told, answered,
                   lapses>>

GiveUp(x) ==
    /\ At(x, "give_up")
    /\ Continue(x, [Top(x) EXCEPT !.pc = "hush", !.t = transport])
    /\ transport' = 0
    /\ connected' = FALSE
    /\ connecting' = FALSE
    /\ connack' = "none"
    /\ rxBuf' = <<>>
    /\ held' = [i \in BrokerIds |-> 0]
    /\ topics' = [i \in 1 .. MaxPacketId |-> 0]
    /\ cut' = IF transport = 0 THEN cut ELSE cut \cup InFlight
    /\ lapses' = IF transport \in {0, Top(x).own} THEN lapses ELSE lapses \cup {"strayed"}
    /\ UNCHANGED <<lastId, kaVars, linkVars, budget, delivered, told, answered>>

\* keepalive_running_ and ping_sent_ms_ are reset outside the lock.
Hush(x) ==
    /\ At(x, "hush")
    /\ kaRunning' = FALSE
    /\ ping' = FALSE
    /\ IF Top(x).t = 0 THEN Return(x) ELSE GoTo(x, "drop")
    /\ UNCHANGED <<clientVars, keepAlive, kaTask, linkVars, budget, history>>

\* Mutant: the transport is dropped without TcpClient::Disconnect unless there is a
\* goodbye to say.
DropUnlessBye(x) ==
    /\ At(x, "drop")
    /\ LET f == [Top(x) EXCEPT !.pc = "tell"]
       IN IF f.bye /\ link[f.t] \in {"open", "silent"}
          THEN /\ CloseLink(f.t)
               /\ SetStack(x, <<TeardownFrame(f.t, FALSE), f>> \o Tail(stack[x]))
          ELSE Continue(x, f) /\ UNCHANGED linkVars
    /\ UNCHANGED <<clientVars, kaVars, budget, history>>

\* DISCONNECT if there is a goodbye to say, then TcpClient::Disconnect, which
\* reports a close that it makes itself to OnTransportClosed.
Drop(x) ==
    /\ At(x, "drop")
    /\ LET f == [Top(x) EXCEPT !.pc = "tell"]
       IN IF link[f.t] \in {"open", "silent"}
          THEN /\ CloseLink(f.t)
               /\ SetStack(x, <<TeardownFrame(f.t, FALSE), f>> \o Tail(stack[x]))
          ELSE Continue(x, f) /\ UNCHANGED linkVars
    /\ UNCHANGED <<clientVars, kaVars, budget, history>>

Tell(x) ==
    /\ At(x, "tell")
    /\ told' = [told EXCEPT ![Top(x).t] = @ + 1]
    /\ Callback(x, Tail(stack[x]))
    /\ UNCHANGED <<clientVars, kaVars, linkVars, delivered, answered, cut, lapses>>

Teardown(x) == GiveUp(x) \/ Hush(x) \/ Drop(x) \/ Tell(x)

-----------------------------------------------------------------------------
(***************************************************************************)
(* The keep-alive task.                                                    *)
(***************************************************************************)
\* Two threads in StopKeepAlive or StartKeepAlive at once race on keepalive_task_.
OnKeepAliveTask(x) == stack[x] # <<>> /\ Top(x).pc \in {"stop", "join", "start"}

StopKeepAlive(x) ==
    /\ At(x, "stop")
    /\ kaRunning' = FALSE
    /\ GoTo(x, IF kaTask THEN "join" ELSE Top(x).then)
    /\ lapses' = IF \E y \in Actors \ {x} : OnKeepAliveTask(y)
                 THEN lapses \cup {"raced"} ELSE lapses
    /\ UNCHANGED <<clientVars, keepAlive, kaTask, ping, linkVars, budget, delivered, told,
                   answered, cut>>

\* ITask::Stop waits until the loop has returned.
JoinKeepAlive(x) ==
    /\ At(x, "join") /\ Idle(Ka)
    /\ kaTask' = FALSE
    /\ GoTo(x, Top(x).then)
    /\ UNCHANGED <<clientVars, keepAlive, kaRunning, ping, linkVars, budget, history>>

StartKeepAlive(x) ==
    /\ At(x, "start")
    /\ recent' = TRUE
    /\ ping' = FALSE
    /\ kaRunning' = TRUE
    /\ kaTask' = TRUE
    /\ stack' = [stack EXCEPT ![Ka] = <<[Frame0 EXCEPT !.pc = "loop"]>>,
                              ![x] = <<[Top(x) EXCEPT !.pc = "up"]>> \o Tail(@)]
    /\ UNCHANGED <<clientVars, keepAlive, link, wire, broker, budget, history>>

\* A keep-alive period goes by without a packet; only the loop's next look at
\* last_sent_ms_ can tell.
TimePasses ==
    /\ At(Ka, "loop") /\ kaRunning /\ ~ping /\ recent
    /\ recent' = FALSE
    /\ UNCHANGED <<stack, clientVars, kaVars, link, wire, broker, budget, history>>

\* Mutant: the loop does not look at keepalive_running_ again.
KaExitNever ==
    /\ At(Ka, "loop") /\ ~kaRunning /\ ping
    /\ Return(Ka)
    /\ UNCHANGED <<clientVars, kaVars, linkVars, budget, history>>

KaExit ==
    /\ At(Ka, "loop") /\ ~kaRunning
    /\ Return(Ka)
    /\ UNCHANGED <<clientVars, kaVars, linkVars, budget, history>>

\* Nothing has gone out for a whole period: PINGREQ, over whatever transport_ is now.
KaPing ==
    /\ At(Ka, "loop") /\ kaRunning /\ ~ping /\ ~recent
    /\ Sends(Pkt("pingreq", 0, 0, 0))
    /\ Continue(Ka, [Top(Ka) EXCEPT !.pc = "store", !.t = transport])
    /\ UNCHANGED <<clientVars, kaVars, link, budget, history>>

\* A PINGREQ that cannot be sent is tried again after the next tick.
KaPingFails ==
    /\ At(Ka, "loop") /\ kaRunning /\ ~ping /\ ~recent
    /\ SendFails
    /\ GoTo(Ka, "tick")
    /\ UNCHANGED <<clientVars, kaVars, link, budget, history>>

KaTick ==
    /\ At(Ka, "tick")
    /\ GoTo(Ka, "loop")
    /\ UNCHANGED <<clientVars, kaVars, linkVars, budget, history>>

\* ping_sent_ms_ is set after the send has returned.
KaStore ==
    /\ At(Ka, "store")
    /\ ping' = TRUE
    /\ answered' = FALSE
    /\ GoTo(Ka, "loop")
    /\ lapses' = IF answered THEN lapses \cup {"late"} ELSE lapses
    /\ UNCHANGED <<clientVars, keepAlive, kaTask, kaRunning, linkVars, budget, delivered, told, cut>>

\* Mutant: a ping without an answer is waited for.
KaTimeoutWaits ==
    /\ At(Ka, "loop") /\ kaRunning /\ ping /\ ~connected
    /\ Callback(Ka, <<TeardownFrame(Top(Ka).t, FALSE)>>)
    /\ UNCHANGED <<clientVars, kaVars, linkVars, history>>

\* No PINGRESP for a whole period: on_error_, Teardown(false), and the loop ends.
KaTimeout ==
    /\ At(Ka, "loop") /\ kaRunning /\ ping
    /\ Callback(Ka, <<TeardownFrame(Top(Ka).t, FALSE)>>)
    /\ UNCHANGED <<clientVars, kaVars, linkVars, history>>

KeepAlive == KaExit \/ KaPing \/ KaPingFails \/ KaTick \/ KaStore \/ KaTimeout

-----------------------------------------------------------------------------
(***************************************************************************)
(* The application: Connect, Disconnect, Publish, Subscribe, Unsubscribe.  *)
(***************************************************************************)
\* Connect, with the keep-alive period that SetKeepAlive has left.
Connect(clean, period) ==
    /\ Idle(App) /\ ~connected /\ transport = 0
    /\ \E t \in Transports : link[t] = "none"
    /\ connecting' = TRUE
    /\ connack' = "none"
    /\ rxBuf' = <<>>
    /\ keepAlive' = period
    /\ SetStack(App, <<[Frame0 EXCEPT !.pc = "create", !.p = Pkt("connect", 0, 0, clean)]>>)
    /\ UNCHANGED <<transport, connected, held, topics, lastId, kaTask, kaRunning, ping, linkVars,
                   budget, history>>

\* The factory or TcpClient::Connect fails, and connecting_ stays set.
CreateFails ==
    /\ At(App, "create")
    /\ Return(App)
    /\ UNCHANGED <<clientVars, kaVars, linkVars, budget, history>>

Create ==
    /\ At(App, "create")
    /\ LET t == CHOOSE t \in Transports :
                    link[t] = "none" /\ \A u \in Transports : u < t => link[u] # "none"
       IN /\ link' = [link EXCEPT ![t] = "open"]
          /\ Continue(App, [Top(App) EXCEPT !.pc = "assign", !.own = t])
    /\ UNCHANGED <<clientVars, kaVars, wire, broker, recent, budget, history>>

Assign ==
    /\ At(App, "assign")
    /\ transport' = Top(App).own
    /\ GoTo(App, "send_connect")
    /\ UNCHANGED <<connected, connecting, connack, rxBuf, held, topics, lastId, kaVars, linkVars,
                   budget, history>>

SendConnect ==
    /\ At(App, "send_connect")
    /\ \/ Sends(Top(App).p) /\ GoTo(App, "wait")
       \/ SendFails /\ Continue(App, TeardownFrame(Top(App).own, FALSE))
    /\ UNCHANGED <<clientVars, kaVars, link, budget, history>>

\* StartKeepAlive returns at once when the period is zero.
WaitAccepted ==
    /\ At(App, "wait") /\ connack = "ok"
    /\ IF keepAlive THEN Continue(App, [Top(App) EXCEPT !.pc = "stop", !.then = "start"])
                    ELSE GoTo(App, "up")
    /\ UNCHANGED <<clientVars, kaVars, linkVars, budget, history>>

WaitRefused ==
    /\ At(App, "wait") /\ connack = "refused"
    /\ Continue(App, TeardownFrame(Top(App).own, FALSE))
    /\ UNCHANGED <<clientVars, kaVars, linkVars, budget, history>>

WaitTimeout ==
    /\ At(App, "wait") /\ connack = "none"
    /\ Continue(App, TeardownFrame(Top(App).own, TRUE))
    /\ UNCHANGED <<clientVars, kaVars, linkVars, budget, history>>

\* on_connected_, and Connect returns success.
ConnectReturns ==
    /\ At(App, "up")
    /\ Callback(App, Tail(stack[App]))
    /\ UNCHANGED <<clientVars, kaVars, linkVars, history>>

Disconnect ==
    /\ Idle(App)
    /\ transport # 0 \/ kaTask
    /\ SetStack(App, <<DisconnectFrame>>)
    /\ UNCHANGED <<clientVars, kaVars, linkVars, budget, history>>

\* Mutant: every request goes out under the same id.
NextPacketIdStays == IF lastId = 0 THEN 1 ELSE lastId

NextPacketId == IF lastId = MaxPacketId THEN 1 ELSE lastId + 1

\* A request is prepared under the lock.  A subscription records its filter,
\* here the number of the request.  Messages of QoS 0 are not counted: an
\* application may send them for ever.
Prepare(type, qos) ==
    /\ Idle(App) /\ connected
    /\ IF type = "publish" /\ qos = 0 THEN UNCHANGED budget
       ELSE budget > 0 /\ budget' = budget - 1
    /\ LET id == IF type = "publish" /\ qos = 0 THEN 0 ELSE NextPacketId
           n == IF type = "publish" THEN qos ELSE budget
       IN /\ lastId' = IF id = 0 THEN lastId ELSE id
          /\ topics' = IF type = "publish" THEN topics ELSE [topics EXCEPT ![id] = n]
          /\ SetStack(App, <<[Frame0 EXCEPT !.pc = "send", !.p = Pkt(type, id, 0, n)]>>)
    /\ UNCHANGED <<transport, connected, connecting, connack, rxBuf, held, kaVars, linkVars,
                   history>>

Publish == \E qos \in 0 .. 2 : Prepare("publish", qos)

Subscribe == Prepare("subscribe", 0)

Unsubscribe == Prepare("unsubscribe", 0)

\* A request that cannot be sent takes its filter back.
SendRequest ==
    /\ At(App, "send")
    /\ \/ Sends(Top(App).p) /\ UNCHANGED topics
       \/ /\ SendFails
          /\ topics' = IF Top(App).p.type = "publish" THEN topics
                       ELSE [topics EXCEPT ![Top(App).p.id] = 0]
    /\ Return(App)
    /\ UNCHANGED <<transport, connected, connecting, connack, rxBuf, held, lastId, kaVars, link,
                   budget, history>>

Application ==
    \/ \E clean \in {0, 1}, period \in BOOLEAN : Connect(clean, period)
    \/ CreateFails \/ Create \/ Assign \/ SendConnect
    \/ WaitAccepted \/ WaitRefused \/ WaitTimeout \/ ConnectReturns
    \/ Disconnect
    \/ Publish \/ Subscribe \/ Unsubscribe \/ SendRequest

-----------------------------------------------------------------------------
(***************************************************************************)
(* The receive thread.                                                     *)
(***************************************************************************)
\* OnTransportData with the next n packets, or the bytes of them.
OnTransportData(t, n) ==
    /\ Idle(Rx) /\ link[t] = "open" /\ n \in 1 .. Len(wire[t])
    /\ wire' = [wire EXCEPT ![t] = SubSeq(@, n + 1, Len(@))]
    /\ LET buffer == rxBuf \o SubSeq(wire[t], 1, n)
           f == [Frame0 EXCEPT !.own = t]
       IN IF Len(buffer) > MaxBuffer
          THEN rxBuf' = <<>> /\ SetStack(Rx, <<[f EXCEPT !.pc = "overflow"]>>)
          ELSE rxBuf' = buffer /\ SetStack(Rx, <<[f EXCEPT !.pc = "take"]>>)
    /\ UNCHANGED <<transport, connected, connecting, connack, held, topics, lastId, kaVars, link,
                   broker, recent, budget, history>>

Overflow ==
    /\ At(Rx, "overflow")
    /\ Callback(Rx, <<TeardownFrame(Top(Rx).own, FALSE)>>)
    /\ UNCHANGED <<clientVars, kaVars, linkVars, history>>

\* TakePacket: nothing, or a packet that is still incomplete, ends the loop.
TakePacket ==
    /\ At(Rx, "take")
    /\ IF rxBuf = <<>> \/ Head(rxBuf).type = "endless"
       THEN Return(Rx) /\ UNCHANGED rxBuf
       ELSE /\ rxBuf' = Tail(rxBuf)
            /\ Continue(Rx, [Top(Rx) EXCEPT !.pc = "handle", !.p = Head(rxBuf)])
    /\ UNCHANGED <<transport, connected, connecting, connack, held, topics, lastId, kaVars,
                   linkVars, budget, history>>

Handling(type) == At(Rx, "handle") /\ Top(Rx).p.type = type

\* The packet in hand is of a connection that has been given up since.
Stale == IF transport = Top(Rx).own THEN lapses ELSE lapses \cup {"stale"}

\* Mutant: a CONNACK is believed whether or not one is awaited.
HandleConnackAlways ==
    /\ Handling("connack")
    /\ connecting' = FALSE
    /\ connected' = (Top(Rx).p.n = 1)
    /\ connack' = IF Top(Rx).p.n = 1 THEN "ok" ELSE "refused"
    /\ Continue(Rx, TakeNext)
    /\ UNCHANGED <<transport, rxBuf, held, topics, lastId, kaVars, linkVars, budget, history>>

HandleConnack ==
    /\ Handling("connack")
    /\ IF connecting
       THEN /\ connecting' = FALSE
            /\ connected' = (Top(Rx).p.n = 1)
            /\ connack' = IF Top(Rx).p.n = 1 THEN "ok" ELSE "refused"
            /\ lapses' = Stale
       ELSE UNCHANGED <<connecting, connected, connack, lapses>>
    /\ Continue(Rx, TakeNext)
    /\ UNCHANGED <<transport, rxBuf, held, topics, lastId, kaVars, linkVars, budget, delivered,
                   told, answered, cut>>

\* HandlePublish: both QoS bits set ends the connection; QoS 0 and 1 are delivered,
\* QoS 1 after its PUBACK.
HandlePublish ==
    /\ Handling("publish") /\ Top(Rx).p.n # 2
    /\ IF Top(Rx).p.n = 3
       THEN /\ Callback(Rx, <<TeardownFrame(Top(Rx).own, FALSE), TakeNext>>)
            /\ UNCHANGED <<wire, broker, recent>>
       ELSE /\ IF Top(Rx).p.n = 1 THEN SendPacket(Pkt("puback", Top(Rx).p.id, 0, 0))
                                  ELSE UNCHANGED <<wire, broker, recent>>
            /\ Continue(Rx, [Top(Rx) EXCEPT !.pc = "deliver", !.m = 0])
            /\ UNCHANGED budget
    /\ UNCHANGED <<clientVars, kaVars, link, history>>

\* Mutant: a QoS 2 message is delivered on arrival.
HoldPublishDelivers ==
    /\ Handling("publish") /\ Top(Rx).p.n = 2
    /\ delivered' = [delivered EXCEPT ![Top(Rx).p.m] = @ + 1]
    /\ GoTo(Rx, "pubrec")
    /\ UNCHANGED <<clientVars, kaVars, linkVars, budget, told, answered, cut, lapses>>

\* Mutant: the PUBREC goes out and the message is not held.
HoldPublishForgets ==
    /\ Handling("publish") /\ Top(Rx).p.n = 2
    /\ GoTo(Rx, "pubrec")
    /\ UNCHANGED <<clientVars, kaVars, linkVars, budget, history>>

\* HandlePublish with QoS 2: emplace keeps the first copy.
HoldPublish ==
    /\ Handling("publish") /\ Top(Rx).p.n = 2
    /\ held' = [held EXCEPT ![Top(Rx).p.id] = IF @ = 0 THEN Top(Rx).p.m ELSE @]
    /\ lapses' = Stale
    /\ GoTo(Rx, "pubrec")
    /\ UNCHANGED <<transport, connected, connecting, connack, rxBuf, topics, lastId, kaVars,
                   linkVars, budget, delivered, told, answered, cut>>

SendPubrec ==
    /\ At(Rx, "pubrec")
    /\ SendPacket(Pkt("pubrec", Top(Rx).p.id, 0, 0))
    /\ Continue(Rx, TakeNext)
    /\ UNCHANGED <<clientVars, kaVars, link, budget, history>>

HandlePubrel ==
    /\ Handling("pubrel")
    /\ Continue(Rx, [Top(Rx) EXCEPT !.pc = "pubcomp", !.m = held[Top(Rx).p.id]])
    /\ held' = [held EXCEPT ![Top(Rx).p.id] = 0]
    /\ lapses' = IF held[Top(Rx).p.id] = 0 THEN lapses ELSE Stale
    /\ UNCHANGED <<transport, connected, connecting, connack, rxBuf, topics, lastId, kaVars,
                   linkVars, budget, delivered, told, answered, cut>>

SendPubcomp ==
    /\ At(Rx, "pubcomp")
    /\ SendPacket(Pkt("pubcomp", Top(Rx).p.id, 0, 0))
    /\ Continue(Rx, IF Top(Rx).m = 0 THEN TakeNext ELSE [Top(Rx) EXCEPT !.pc = "deliver"])
    /\ UNCHANGED <<clientVars, kaVars, link, budget, history>>

\* on_message_; m is 0 for a message of QoS 0 or 1.
Deliver ==
    /\ At(Rx, "deliver")
    /\ delivered' = [m \in Msgs |-> IF m = Top(Rx).m THEN delivered[m] + 1 ELSE delivered[m]]
    /\ Callback(Rx, <<TakeNext>>)
    /\ UNCHANGED <<clientVars, kaVars, linkVars, told, answered, cut, lapses>>

HandlePubrec ==
    /\ Handling("pubrec")
    /\ SendPacket(Pkt("pubrel", Top(Rx).p.id, 0, 0))
    /\ Continue(Rx, TakeNext)
    /\ UNCHANGED <<clientVars, kaVars, link, budget, history>>

\* on_publish_ack_, or on_error_ for a packet that cannot be read.
HandlePublishComplete ==
    /\ \E type \in {"puback", "pubcomp", "unreadable"} : Handling(type)
    /\ Callback(Rx, <<TakeNext>>)
    /\ UNCHANGED <<clientVars, kaVars, linkVars, history>>

\* HandleSuback and HandleUnsuback take the filter; a refusal is reported with it.
HandleSuback ==
    /\ \E type \in {"suback", "subnack", "unsuback"} : Handling(type)
    /\ Continue(Rx, IF Handling("subnack")
                    THEN [Top(Rx) EXCEPT !.pc = "refused", !.m = topics[Top(Rx).p.id]]
                    ELSE TakeNext)
    /\ topics' = [topics EXCEPT ![Top(Rx).p.id] = 0]
    /\ UNCHANGED <<transport, connected, connecting, connack, rxBuf, held, lastId, kaVars,
                   linkVars, budget, history>>

ReportRefused ==
    /\ At(Rx, "refused")
    /\ Callback(Rx, <<TakeNext>>)
    /\ UNCHANGED <<clientVars, kaVars, linkVars, history>>

HandlePingresp ==
    /\ Handling("pingresp")
    /\ ping' = FALSE
    /\ answered' = At(Ka, "store")
    /\ Continue(Rx, TakeNext)
    /\ UNCHANGED <<clientVars, keepAlive, kaTask, kaRunning, linkVars, budget, delivered, told, cut,
                   lapses>>

\* The transport reports the peer's close, or the module's.
OnTransportClosed(t) ==
    /\ Idle(Rx) /\ link[t] \in {"open", "silent"}
    /\ CloseLink(t)
    /\ SetStack(Rx, <<TeardownFrame(t, FALSE)>>)
    /\ UNCHANGED <<clientVars, kaVars, budget, history>>

Handlers ==
    \/ Overflow \/ TakePacket
    \/ HandleConnack \/ HandlePublish \/ HoldPublish \/ SendPubrec
    \/ HandlePubrel \/ SendPubcomp \/ Deliver \/ HandlePubrec
    \/ HandlePublishComplete \/ HandleSuback \/ ReportRefused \/ HandlePingresp

Receive == Handlers \/ \E t \in Transports : \E n \in 1 .. Len(wire[t]) : OnTransportData(t, n)

-----------------------------------------------------------------------------
Calls(x) == Teardown(x) \/ StopKeepAlive(x) \/ JoinKeepAlive(x) \/ StartKeepAlive(x)

Broker ==
    \/ \E m \in Msgs : BrokerPublishes(m) \/ BrokerReleasesAgain(m)
    \/ \E p \in StrayPackets : BrokerSends(p)

Next ==
    \/ \E x \in Actors : Calls(x)
    \/ KeepAlive \/ TimePasses
    \/ Application
    \/ Receive
    \/ Broker
    \/ \E t \in Transports : LinkGoesSilent(t) \/ OnTransportClosed(t)

\* The steps of a call that is under way: a thread is scheduled, a wait ends at
\* its timeout, and the receive thread takes what has arrived.
AppRuns == ~Idle(App) /\ (Calls(App) \/ Application)
RxRuns == (~Idle(Rx) /\ (Calls(Rx) \/ Handlers)) \/ (Idle(Rx) /\ Receive)
KaRuns == ~Idle(Ka) /\ (Calls(Ka) \/ KeepAlive)

Fairness ==
    /\ WF_(stack[App])(AppRuns) /\ WF_(stack[Rx])(RxRuns) /\ WF_(stack[Ka])(KaRuns)
    /\ WF_recent(TimePasses)

Spec == Init /\ [][Next]_vars /\ Fairness

-----------------------------------------------------------------------------
(***************************************************************************)
(* Properties.                                                             *)
(***************************************************************************)
PacketTypes == {"none", "connect", "connack", "publish", "puback", "pubrec", "pubrel", "pubcomp",
                "subscribe", "suback", "subnack", "unsubscribe", "unsuback", "pingreq",
                "pingresp", "unreadable", "endless"}

IsPacket(p) ==
    /\ p.type \in PacketTypes
    /\ p.id \in 0 .. MaxPacketId \cup BrokerIds
    /\ p.m \in Msgs \cup {0}
    /\ p.n \in Nat

\* Type invariant; held and topics have entries under the ids in use only.
TypeOK ==
    /\ \A x \in Actors : \A i \in 1 .. Len(stack[x]) :
           /\ IsPacket(stack[x][i].p)
           /\ {stack[x][i].own, stack[x][i].t} \subseteq {0} \cup Transports
    /\ transport \in {0} \cup Transports
    /\ link \in [Transports -> {"none", "open", "silent", "closed"}]
    /\ {connected, connecting, keepAlive, kaTask, kaRunning, ping, recent, answered} \subseteq BOOLEAN
    /\ connack \in {"none", "ok", "refused"}
    /\ Len(rxBuf) <= MaxBuffer /\ \A i \in DOMAIN rxBuf : IsPacket(rxBuf[i])
    /\ held \in [BrokerIds -> Msgs \cup {0}]
    /\ topics \in [1 .. MaxPacketId -> 0 .. MaxEvents]
    /\ lastId \in 0 .. MaxPacketId
    /\ \A t \in Transports : \A i \in DOMAIN wire[t] : IsPacket(wire[t][i])
    /\ broker.on \in {0} \cup Transports
    /\ delivered \in [Msgs -> Nat]
    /\ told \in [Transports -> Nat]
    /\ cut \subseteq Msgs
    /\ lapses \subseteq {"strayed", "stale", "raced", "late"}

\* A QoS 2 message reaches on_message_ at most once, whatever is resent, unless a
\* packet of a connection that was given up was still being handled (HandlePublish
\* holds, HandlePubrel delivers what it erases, Teardown forgets).
QosTwoAtMostOnce == "stale" \notin lapses => \A m \in Msgs : delivered[m] <= 1

\* A QoS 2 message that the broker counts as received has been delivered, or its
\* handshake was under way when a session ended.
QosTwoNotLost ==
    (Idle(Rx) /\ lapses = {}) =>
        \A m \in Msgs : broker.st[m] = "done" /\ m \notin cut => delivered[m] = 1

AtRest == \A x \in {App, Rx} : Idle(x)

\* When no call is under way, a session is connected exactly when there is a
\* transport, and unless the keep-alive period is zero its task is running: no interleaving of Connect,
\* Teardown and the packet handlers leaves one without the other, unless a packet of a
\* connection that was given up was taken for one of the next, or two threads raced on
\* keepalive_task_.
ConnectedIsUsable ==
    ( /\ AtRest /\ (Idle(Ka) \/ Top(Ka).pc \in {"loop", "store", "tick"})
      /\ lapses \cap {"stale", "raced"} = {} )
    => /\ connected <=> transport # 0
       /\ connected /\ keepAlive => kaTask /\ kaRunning /\ ~Idle(Ka)

\* on_disconnected_ runs at most once for a connection, although three threads and
\* the transport's own report may all tear it down; and once it is over it has run.
ToldOnce ==
    /\ \A t \in Transports : told[t] <= 1
    /\ AtRest /\ Idle(Ka) /\ transport = 0 =>
           \A t \in Transports : link[t] # "none" => told[t] = 1

\* A refused subscription is reported with the filter that was asked for.
RefusalNamesFilter ==
    At(Rx, "refused") /\ transport = Top(Rx).own => Top(Rx).m = Top(Rx).p.n

\* The application's calls return, Connect, Disconnect and the requests, and with them
\* the callbacks that run on its own thread.
CallReturns == stack[App] # <<>> ~> stack[App] = <<>>

\* The broker of a session with a keep-alive period has gone without a close.
Abandoned == connected /\ keepAlive /\ transport # 0 /\ link[transport] = "silent"

\* A broker that has stopped answering without a close is noticed by the keep-alive
\* task, which ends the session.  There are two ways to put that off for ever, and no
\* other: the application goes on sending, so that the link is never idle for a period
\* and no PINGREQ is due, or every PINGREQ fails to go out.
DeadBrokerNoticed ==
    []<><<SendRequest>>_vars \/ []<><<KaPingFails>>_vars \/ (Abandoned ~> ~Abandoned)

\* Every connection opens, closes and is then reported as ended exactly once: the
\* client implements ConnectionLife, its liveness included.
Life == INSTANCE ConnectionLife WITH
            Conns <- Transports,
            phase <- [t \in Transports |-> IF link[t] = "silent" THEN "open" ELSE link[t]],
            told <- told

LifeSpec == Life!Spec

-----------------------------------------------------------------------------
(***************************************************************************)
(* What comments of the code promise and the code does not keep: TLC finds *)
(* a counterexample to each of these.                                      *)
(***************************************************************************)
\* Teardown ("Closes the connection from whichever thread noticed it ended"): the
\* connection that is closed is the one whose end was noticed.
TeardownEndsItsOwn == "strayed" \notin lapses

\* pending_qos2_ ("is what makes QoS 2 exactly-once"): a QoS 2 message has reached
\* on_message_ once by the time the broker counts it as received.
QosTwoExactlyOnce ==
    Idle(Rx) => \A m \in Msgs : broker.st[m] = "done" => delivered[m] = 1

\* SoftwareMqttClient ("a callback may publish, subscribe or disconnect"): on
\* whichever thread it runs, the keep-alive task does not join itself.
CallbackMayDisconnect == ~At(Ka, "join")
=============================================================================
