# esp-modem-link: TLA+ specifications

Specifications of esp-modem-link, a C++ library that gives an application TCP, UDP,
TLS, HTTP, MQTT and WebSocket connections over a cellular module driven by AT commands.
The modules here model the AT channel and the bring-up of the link, the sockets of the
two supported modules, the TCP client that sits on them, and the MQTT, WebSocket and
HTTP clients; TLC checks them on small instances and TLAPS proves the most important
invariants for every instance.
Paths are relative to the repository, which is under `src/` (the library itself is
`src/src`, the platform layer `src/platform`).

## 1. The system

    application
      CellularNetwork / NetworkInterface           src/src/network, src/src/device
        HTTP, MQTT, WebSocket clients              src/src/protocol
          HalTcpClient, HalUdpClient               src/src/hal
            IModuleHal: routes and holds           src/src/hal/imodule_hal.h
              Ml307Hal | Air780eHal                src/src/modules
                AtUart, ResponseParser,            src/src/at_channel
                UrcDispatcher, baud alignment
                  event group, task, timer, UART   src/platform

| Part | State | Operations | Interacts with |
|---|---|---|---|
| AtUart | `command_mutex_`, `command_in_progress_`, `prompt_armed_`, event bits, response buffer and parsed response | SendCommand, SendCommandWithData, SendDataAfterPrompt, SendLine, GetResponseLines; ReceiveTask, ProcessLine | any thread sends; the receive task appends lines and sets bits; URC handlers run on it |
| UrcDispatcher | prefix to handlers | Subscribe, Unsubscribe, Dispatch | called by the receive task, handlers run without the lock |
| Baud alignment | none of its own | FindModuleBaudRate, SetModuleBaudRate | commands over a channel that may be at the wrong rate |
| Air780eHal | `slots_`, the counters and flag of the TLS switch, `open_wait_`, `close_pending_id_`, `rx_pending_`, `rx_close_serial_`, `send_wait_` | open, close, send, ReceiveLoop (a reader task of its own), event lines | threads, reader, receive task |
| Ml307Hal | `slots_` with a quarantine, `open_wait_` | open, close, send, socket URCs | threads, receive task |
| IModuleHal | `tcp_routes_`, `udp_routes_`, `undelivered_` | Subscribe, Unsubscribe, Dispatch, hold, discard | HALs dispatch, clients subscribe |
| HalTcpClient | `connected_`, `connect_id_`, `subscription_`, `generation_` | Connect, Disconnect, Send, OnTcpData, OnTcpClose | callbacks on the thread that connects or on the task that dispatches |
| MQTT client | connection flags, `pending_qos2_`, `pending_topics_`, keep-alive task | Connect, Disconnect, Publish, Subscribe, packets | TCP callbacks and the keep-alive task |
| WebSocket client | handshake and close state, inbound queue, maintain task | Connect, Close, Send, frames, reconnection | TCP callbacks and the maintain task |
| HTTP client | transport, parser, pending bytes | Execute, Open, Read, Write, Close | TCP callbacks |

What is hard. The module names a *cid* in its events and nothing else, so every late
or crossed event of one socket looks like an event of the next on that cid. Answers
carry no number, so a late answer looks like the answer to the next command. Every
lock is dropped before an AT command, which takes seconds, and before a callback,
which is user code and may call back in. Commands, prompts and acknowledgements time
out and may still arrive.

What makes each part correct: a payload goes out only on a prompt and a call ends on
its own answer (AtUart); the module-wide TLS switch is never moved under a socket,
every announced byte is fetched, every peer close finishes (Air780E); nothing the
module reports for a socket is lost or given to another between the socket's opening
and its route, and no cid leaks (IModuleHal, HalTcpClient, ML307); both ends of the
UART are at one rate when bring-up succeeds (baud alignment); each connection's end is
told once, a peer gone silent is noticed on a link that is idle, messages arrive once and
whole (MQTT, WebSocket); an answer belongs to the request it is given to, is complete, and nothing
with side effects is sent twice (HTTP).

## 2. Modules

| Module | Models | Extends |
|---|---|---|
| `AtUart` | the AT channel, its users and the module's answers | |
| `AtUartProofs` | theorems about `AtUart` | `AtUart`, `TLAPS` |
| `Air780eSockets` | pool, TLS switch, open and close, reader of the Air780E HAL | |
| `Air780eSocketsProofs` | theorems about `Air780eSockets` | `Air780eSockets`, `TLAPS` |
| `Ml307Tcp` | HalTcpClient over the routes of IModuleHal over the sockets of the ML307 HAL | |
| `BaudAlignment` | the search for the module's rate, the switch and bring-up | |
| `BaudAlignmentProofs` | theorems about `BaudAlignment` | `BaudAlignment`, `TLAPS` |
| `ConnectionLife` | what a protocol client promises of its connections (abstract) | |
| `MqttClient` | SoftwareMqttClient, its three threads and a broker; implements `ConnectionLife` | instantiates it |
| `WsClient` | SoftwareWsClient, its three threads and a server | |
| `HttpParser` | the incremental parser, as operators | |
| `HttpClient` | SoftwareHttpClient over `HttpParser` and a server | `HttpParser` |
| `StackTheorems` | lemmas on call stacks, used by the three modules below | `TLAPS` |
| `Ml307TcpProofs` | theorems about `Ml307Tcp` | `Ml307Tcp`, `StackTheorems` |
| `MqttClientProofs` | theorems about `MqttClient` | `MqttClient`, `StackTheorems` |
| `WsClientProofs` | theorems about `WsClient` | `WsClient`, `StackTheorems` |
| `HttpClientProofs` | theorems about `HttpClient` | `HttpClient`, `TLAPS` |
| `MC...` | sets of threads or clients, answers and symmetry for TLC | the module they are named after |

Definitions under a comment that begins "Mutant:" are not part of the model.
Each is a plausible mistake in the definition that follows it and is used to confirm
that a property notices it; `PROJECT.json` lists which.

### AtUart

`pc`/`call` are where each caller is in `SendCommand` and its siblings; `mutex` is
`command_mutex_`, `cip` is `command_in_progress_`, `armed` is `prompt_armed_`, `bits`
the event group, `buffer` the lines received in the window and `parsed` what
`GetResponseLines` returns. `rxpc`/`rxline` are where the receive task is with the
line in its hands. `uplink` and `wire` are the two directions of the UART. Each access
to shared state is one action: `ClearResponse`, `ClearBits`, `WriteCommand`, the waits,
`Disarm`, `WritePayload`, `EndWindow`, `Result` on the caller's side; `RxTake`,
`RxCheck`, `RxAppend`, `RxSignal`, `RxPrompt`, `RxSetPrompt` on the task's. A handler
that breaks the rule not to send is `RxHandlerSends`. The module (external) answers in
order, late, or not at all, and treats a payload it did not ask for as a command line.
A line carries the number of the command that provoked it and a bit the line that set
it; only properties look at them.

Left out: bytes below lines (`ReceiveTask` assembling a line, a baud change in the
middle of one), `SendRaw` (writes without the mutex), `Stop` and destruction. A write
that fails (`WriteCommandFails`) leaves nothing on the wire; in the code a short write
(at_uart.cpp:72) may leave the beginning of a command there. `SendCommandWithData`
always has a suffix: without one (at_uart.cpp:113) it sends its prefix with no line end
and no payload and waits as `SendCommand` does, and nothing in the library calls it so.

### Air780eSockets

Threads run `OpenSocket` (`Reserve` ... `Hold`) and `CloseConnection` (`CloseArm` ...
`CloseWait`); the reader runs `ReceiveLoop` (`TakePending` ... `Report`); the handlers
of event lines run on the receive task. `slots` is `slots_`; `open`, `switching` are
the counters and `ssl_switch_in_progress_`; `cipssl` is the switch in the module.
`RetirePool`, `RetireRx`, `Unreserve` are the three critical sections of `RetireSlot`,
entered by an open that failed, by a close and by the reader, and `AfterRetire` says
where each goes on. `NotePeerClosed` has two critical sections; `note` is what it
carries from one to the other. `marks` records what befell the socket a cid has now:
its flags were cleared for an earlier occupant, a read failed, its CLOSE OK was taken
for an answer.

`ApplySslSwitch` is one step for three commands (the TLS version, AT+CIPSSL and its
readback): no other thread is at the switch meanwhile, and where one of the commands fails
the switch may have moved or not. A payload that cannot be decoded (air780e_hal.cpp:1067)
is a read that fails.

Left out: the acknowledgement of sends, UDP datagrams without a sender
(air780e_hal.cpp:1084), initialisation and queries, stopping the reader.

### Ml307Tcp

A thread and the receive task have a call stack (`stack`), because `SubscribeTcp`
calls the user's callbacks while `Connect` is under way and they may disconnect or
connect again. `slots` and `quarantine` are the pool (free cids in the order of their
release while their quarantine runs), `routes` and `undelivered` are those of
IModuleHal, `client` the fields of HalTcpClient. `AllocateConnectionId`, `Taken`,
`EnsureSocketFree`/`CidWasHeld`, `OpenOnId`/`OpenBusy`/`OpenFails`,
`WaitForOpenResult`, `Opened`, `SubscribeTcp`, `DispatchHeld`, `HeldEnd`, `Finish` are
the steps of `Connect`; `Disconnect`, `Unsubscribe`, `CloseConnection` those of
`Disconnect`; `Release` and `Discard` are `ReleaseConnectionId`, wherever it is
called; `OnDisconn`, `DispatchTcpData`, `RecordOpenResult` are the URC handlers. The
module (external) may hold sockets of an earlier run when the program starts, may take
an AT+MIPOPEN whose answer is lost, and announces a close it was asked for later.

One assumption is about time: `Settle` ends a quarantine only when the previous
occupant's teardown has been delivered, which is what ml307_hal.h says the quarantine
is long enough for.

`lapses` records that a cid was mistaken: `settling`, it was taken out of quarantine
because no other was free; `foreign`, an event or close of another socket released it or
was reported on it; `stale`, a handler of an earlier connection was called after the
client had connected again. The code has no defence against these three (the first is documented as a
choice), so the properties are stated for behaviours without one.
`UsedCidHasOwner` fails when `foreign` or `stale` alone is allowed for two clients.

Left out: TLS configuration of a cid, UDP, sends, the destructor of the client. A data
callback may disconnect and do nothing else, and `on_disconnected_` inside `Disconnect`
(hal_tcp_client.cpp:85) does not connect again; a `Connect` after it has returned does.

### BaudAlignment

`host` and `module` are the rates of the two ends, `requested` what the channel had at
first, `current`, `todo`, `entry`, `found`, `attempts` the locals of `SetModuleBaudRate`
and `FindModuleBaudRate`. `AlignBeforeIdentify` starts the search (`MoveHostTo`,
`QueryAnswered`, `QuerySilent`, `SearchFails`); `Detect` or `CreateModule` identifies;
`AlignAfterIdentify` to `Land` are the switch, its confirmation and the way back, which
is the same search again. The module (external) hears what is sent at its rate, or
everything when it is at automatic baud (`AutoBaud`); any answer may be lost, a set may
be acknowledged and not taken or taken and not acknowledged, and the host may be unable
to move. `lapses` names the two ways in which the code knows that it may be wrong: a
module created by name that was never heard (`unheard`), and a lost acknowledgement of
the set (`ackLost`, documented at baud_alignment.cpp:206). A module that answers AT+IPR?
names the rate it answers at, so the move of `Land` is to where the host is and its
failure (baud_alignment.cpp:261) does not occur.

Bring-up ends here where `Assemble` begins: `Initialize` of the HAL
(cellular_device.cpp:45) may still fail, for reasons that are not about rates.

### MqttClient, WsClient

Three threads are inside each client: the application's, the transport's receive
thread, and the keep-alive or maintenance task. Each has a call stack (`stack`), since
callbacks call back in and `TcpClient::Disconnect` reports its own close while
`Teardown` is under way. Every critical section of `mutex_`, every atomic accessed
outside it and every callback is a step. `transport` is `transport_` (0 for null),
`link` the connection below each transport; the other variables carry the name of the
field they model in their comment. `GiveUp`, `Drop` and `Tell` are the three parts of
`Teardown`; `StopKeepAlive`/`StopMaintain` and the `Join` actions are the end of a task.
The broker (external) resumes a session or not, resends PUBLISH and PUBREL, and may send
stray or oversized packets; the server (external) sends messages in fragments, control
frames between them and malformed frames; the link may go silent or end at any time, and
a `Send` may fail on a link that is open. Time is abstracted: a timeout may fire whenever
what it waits for is not there.

The keep-alive and the heartbeat ping only a link over which nothing has gone out for a
whole period. `recent` says that something has, since the task last looked: every send
that succeeds sets it (`last_sent_ms_`), and `TimePasses` clears it where the task looks at
the clock. So an application that sends often enough is never pinged for. `KaPingFails` and
`MtPingFails` are a ping that does not go out and is tried again a tick later. A session
has a keep-alive period or none (`keepAlive`, from `SetKeepAlive`); with none
`StartKeepAlive` starts no task. A WebSocket client has a heartbeat or none
(`SetHeartbeat`) and a schedule (`SetAutoReconnect`) that is off, of `MaxRetries` retries
or unlimited; `ping` is `ping_sent_ms_`, which `Ping` of the application sets too, so that
a ping moves the deadline of the one before it (`PingStore`). With `Chatty`, what the
application sends over a silent link does not count against `MaxEvents`: it may go on for
ever.

A callback may call `Disconnect` or `Close`; the class comment of the MQTT client allows
`Publish` and `Subscribe` from it as well, which are left out. Also left out are bytes
of an old MQTT session that are appended after the next has begun
(software_mqtt_client.cpp:341): what a handler has in hand when its session is given up
is modelled (lapse `stale`), what it has yet to append is not.

`MqttClient!Life` maps each transport to a connection of `ConnectionLife`; `LifeSpec`
says that every connection opens once, closes for good, and is then told of exactly
once, without fail.

### HttpParser, HttpClient

The stream is in tokens (a status, a header, a chunk size, CR, LF, a byte of a body) and
a piece may end between any two. A body is any sequence of bytes, CR and LF, and the head
and the chunks of a response each end their lines in CR LF or in LF. `TakeLine` is the
code's: it looks for CR LF in all that is buffered first, and for LF only where there is
none. `Feed` runs `Turn` as long as the parser moves; it is a
recursive function, with `Word` values of `size_t`. In `HttpClient`, `pc` and `req` are
the thread that drives the client; the receive thread picks a piece up (`Arrive`) and
handles it later (`OnTransportData`), also when the client has dropped the transport
since. `ExecuteDone`/`ExecuteFails`, `OpenDone`/`OpenFails`, `Read`, `ReadEnd`, `Write`,
`EndBody` and `Close` are the operations; `RepeatOrGiveUp` and `Redirected` are the
repeat and the next hop. Servers (external) answer with a length, in chunks or until
they close, early or late, and a link ends at any point.

`GET` stands for every method that may be repeated, HEAD and OPTIONS included, and a HEAD
answer, which has a length and no body, is left out. `SetKeepAlive` is called before the
first request only. A redirect that cannot be resolved (software_http_client.cpp:357) ends
a call as one beyond the limit does. A Content-Length beyond `int` is read modulo
`Word`, where the code rejects it; `ResponsesAssumption` excludes such lengths.

### Lapses

The clients keep a connection in fields that several threads replace, and some paths do
not ask which connection they are about. `lapses` records each time that happens, and a
property says which of them it excludes:

| Module | Lapse | Where |
|---|---|---|
| MQTT | `strayed`: a Teardown takes the next session's transport | software_mqtt_client.cpp:155 |
| | `raced`: two threads stop the keep-alive task at once | :293 |
| | `late`: PINGRESP handled before `ping_sent` is stored | :334 |
| | `stale`: a packet of a session that was given up is still being handled | :360 |
| WebSocket | `strayed`, `raced`, `stale`: as above | software_ws_client.cpp:705, :733, :460 |
| | `zombie`: Establish marks a connection open that was torn down | :306 |
| | `late`: `connected_` cleared after another connection opened | :707 |
| | `unsent`, `fragment`: a fragment counted as sent fails, or goes to the next connection | :374 |
| HTTP | `abandoned`: a response not read to its end leaves the transport to the next request | software_http_client.cpp:479 |
| | `stale`: a handler of the old transport feeds the new parser | :180 |
| | `unended`: Write ends an upload whose server answered early | :664 |
| | `diverted`: a call refused during an upload has cleared `streaming_` | :401 |
| | `mixed`: a server answers with a line that ends in LF and CR LF further on, in the body or in another line | http_parser.cpp:97 |

Left out: the encodings (packets, frames, masking, the accept key, header text, URLs),
the destructors, `OnError` of the transport (no HAL calls it), redirects switched off.

## 3. Runs

Runs that pass:

| Run | Instance | Properties | Shows |
|---|---|---|---|
| `at_uart` | 2 threads, 2 calls | `CommandWindowExclusive`, `PayloadPerPrompt`, `AnswersInStep`, `ReadbackIsOwn` | windows do not overlap and are always closed; a payload costs a prompt and a prompt pays for one payload; as long as nobody gave up, answers and read-back lines are the caller's own |
| `at_uart_live` | 1 thread and a handler that sends | `HandlerCallUnanswered`, `CallReturns` | a handler's command is never answered, and still every call returns |
| `air780e_modes` | 2 threads, TLS and plaintext, 1 cid, 1 open each | `SwitchFollowsReservations`, `ReservationsCovered`, `SocketsMatchSwitch`, `PeerCloseFinishes`, `CallReturns` | the switch is never moved under a socket; a peer close finishes; the switch and every call end |
| `air780e_reader` | 1 thread, 2 cids, 2 chunks, budget 1 | `NoStrandedData` | every announced chunk is fetched, apart from the two ways `marks` names |
| `ml307_tcp` | 1 client, 2 cids, 2 connects, 2 chunks, a hold of 1 chunk | `StreamComplete`, `ConnectedIsLive`, `UsedCidHasOwner` | client, route, pool and socket agree at rest, the stream is whole, and no cid in use is without an owner |
| `baud` | every pair of 4 rates and automatic, 4 attempts | `EndsAgree`, `FailureHasCause` | success leaves the ends at one rate, failure has a cause the code cannot help |
| `mqtt` | 2 sessions, clean or resumed, 1 QoS 2 message | `QosTwoAtMostOnce`, `QosTwoNotLost`, `ConnectedIsUsable`, `ToldOnce` | QoS 2 across sessions; flags, task and transport agree at rest; each end is told once |
| `mqtt_requests` | 1 session with or without keep-alive, 2 requests, stray packets or callbacks that disconnect | `RefusalNamesFilter`, `LifeSpec`, `CallReturns`, `DeadBrokerNoticed` | the refinement of `ConnectionLife`; calls return; a silent broker is noticed, but for the two delays below |
| `ws` | 2 connections; no heartbeat and no schedule, a heartbeat and 1 retry, or unlimited retries; sends and pings over a silent link without end | `OpenIsUsable`, `ToldOnce`, `EndIsTold`, `Reconnects`, `DeadPeerNoticed` | an open client is usable, each end is told, a lost connection is tried again as its schedule says, a silent peer is noticed, but for the three delays below |
| `ws_frames` | 1 connection, 3 of: frames, sends, pings, settings, callbacks that close | `MessagesWhole`, `OutboundWhole`, `CallReturns` | messages are whole both ways; no thread joins itself |
| `http` | 2 calls, 2 transports, 5 answers, CR and LF in their bodies, in pieces of one token or all there is | `AnswerIsOwn`, `EofMeansWhole`, `RepeatsAreSafe`, `RedirectsAreSafe`, `UploadFramed` | no answer is short or another's unless its line ends are mixed, nothing is repeated or sent out of frame |

What the three properties about links promise, and what not:
- `DeadBrokerNoticed`: a session with a keep-alive period over a silent link ends, unless
  requests go out for ever (then the link is never idle, and the code sends no PINGREQ,
  software_mqtt_client.cpp:331) or every PINGREQ fails to go out (:334). Without a
  keep-alive period nothing is promised, as `StartKeepAlive` says.
- `DeadPeerNoticed`: the same of a WebSocket with a heartbeat, unless frames go out for
  ever (software_ws_client.cpp:807), the application pings for ever (:422) or every ping of
  the heartbeat fails (:808). TLC refutes either property when one of its delays is left
  out.
- `Reconnects`: with a schedule of so many retries a lost connection is open again or the
  schedule is exhausted; with an unlimited one another attempt is made, however many have
  failed; without a schedule, the default, the client stays down (:814).

`at_uart` and `air780e_modes` also check `TypeOK`; those of the other modules hold on the
instances of `ml307_tcp`, `mqtt`, `ws` and `baud`.

The run that ends in a violation shows where the code does not do what a comment of it
says; the finding in `PROJECT.json` quotes the line. `reservation_leak`
(`ReservationGivenBack`): the peer closes right after CONNECT OK, and the reader retires
the slot before the open marks it as holding a reservation.

More disagreements of this kind are stated at the end of the modules, under "What
comments of the code promise", and not kept as runs. TLC refutes each when its name is
added to the invariants of a run of the module:

| Property | Trace |
|---|---|
| `AtUart!PayloadOnOwnPrompt` | a prompt of a send that timed out arrives after the next send has armed itself (at_uart.h:96) |
| `Air780eSockets!OpenOutcomeIsOwn` | two threads open at once and share one `open_wait_` (air780e_hal.h:264) |
| `Air780eSockets!CloseEndsItsOwnSocket` | the close line of one socket is handled after the next has its cid (air780e_hal.cpp:1114) |
| `Ml307Tcp!BytesInOrder` | a chunk is dispatched between the registration of the route and the delivery of the hold (imodule_hal.h:140) |
| `Ml307Tcp!OwnCloseIsQuiet` | a data callback inside `Connect` disconnects before `subscription_` is assigned (hal_tcp_client.cpp:76) |
| `MqttClient!TeardownEndsItsOwn` | a thread notices the end of one session, the application connects again, and the `Teardown` of the first takes the new transport (software_mqtt_client.h:103) |
| `MqttClient!QosTwoExactlyOnce` | `Teardown` clears `pending_qos2_`, the session is resumed and PUBREL finds nothing (software_mqtt_client.h:153) |
| `MqttClient!CallbackMayDisconnect` | the keep-alive task ends the session, its callback disconnects and joins the task it runs on (software_mqtt_client.h:33; with `Ka` in `HangupActors`) |
| `WsClient!OpenHasTransport` | the server accepts and closes; `Teardown` runs between the handshake and `state_ = kOpen` (software_ws_client.h:86) |
| `HttpClient!HeadOutsideBody` | the server answers before an upload ends, `Write` ends the upload, and with keep-alive the next head goes into the open body (software_http_client.cpp:218) |
| `HttpClient!BodyIsNotFraming` | the head of a response ends its lines in LF, its body has CR LF twice, and all of it arrives in one piece: `TakeLine` takes the head for a part of one line that ends in the body, then finds an empty line there, and what is left completes a response with the wrong body (tests/test_http_parser.cpp:147 says that a CRLF in a body "must not be mistaken for framing"; its head ends in CR LF) |

Three more are visible in the models: the
answer to a `SendLine` can land in another command's response (at_uart.cpp:177 says it
arrives as an idle line); `SendCommandWithData` reports success when the module
prompts and then refuses (response_parser.cpp:64); and a close event of a socket left
by an earlier run, handled while the same cid is being opened, frees it under the open
(ml307_hal.cpp:1007), which is the lapse `foreign`.

### Bounds

Two threads and one cid are enough for every race of two critical sections and for a
cid to change hands; two cids are needed where the reader serves one after the other
(`air780e_reader`) and where the quarantine chooses (`ml307_tcp`). Two calls, opens or
connects are enough for a late event of the first to meet the second. `MaxWire`
limits how far the receive task falls behind; one or two lines suffice for a line to
be overtaken. `Budget` 1 makes the reader stop after each chunk; `MaxHeld` 1 makes the
second chunk overflow the hold. `MaxOpens`, `MaxCalls`, `MaxConnects`, `MaxData` and
`MaxChunks` bound the environment only. `ml307_tcp` does not explore beyond a lapse
(`MCNoLapse`): its properties say nothing of such states. Two sessions of MQTT or
WebSocket are what it takes for one to be taken for the other; the runs with one session
spend the states on packets, frames and requests instead (`MaxEvents`), and their
liveness properties need no second session. `MaxRetries` 1 lets a reconnection succeed,
fail and run out. In `ws` nothing spends `MaxEvents` (it is 0): what the application sends
over a silent link is free there (`Chatty`), and frames are the business of `ws_frames`,
where three events leave room for a control frame between two fragments. `MaxBuffer` 1 in
`mqtt_requests` makes a second packet overflow the buffer. QoS 0 messages do not
count there: an application may publish for ever. `http` makes two calls, so that
what one leaves on a transport meets
the next, and follows one redirect; bodies have one to four bytes or one chunk, and a
piece is one token or all that is there (`MaxPiece` 1), so that every place is a cut in some
behaviour; the theorems hold for every `MaxPiece` and so for every cut. `Word` 8 is larger
than any of the bodies. The runs of the clients and of bring-up do not check
for deadlock: with their bounds used up the system rests. Symmetry is used in the
safety run `at_uart` over threads only.

### Fairness

`FairSpec` (`Spec` in `MqttClient` and `WsClient`) assumes weak fairness of each thread's steps, of the reader and of the
receive task, and of the keep-alive or maintenance task where there is one: they are
operating-system threads that keep running, and every wait of a sender has a timeout. In
the two clients `TimePasses` is weakly fair as well: a period without a send ends. Nothing is assumed of the module, the broker or the server: they may never answer. In
`Air780eSockets`, `CallReturns` says nothing of a thread that waits for its turn in
`Reserve`: that would need a fair condition variable. Calls that have not begun are
not fair: the application need not make them.

## 4. Proofs

| Theorem | States |
|---|---|
| `AtUartProofs!TypeCorrect` | `Spec => []TypeOK` |
| `AtUartProofs!WindowExclusive` | `Spec => []CommandWindowExclusive` |
| `AtUartProofs!HandlerUnanswered` | `Spec => []HandlerCallUnanswered` |
| `AtUartProofs!PayloadNeedsPrompt` | `Spec => []PayloadPerPrompt` |
| `AtUartProofs!AnswersStayInStep` | `Spec => []AnswersInStep` |
| `AtUartProofs!ReadbackStaysOwn` | `Spec => []ReadbackIsOwn` |
| `Air780eSocketsProofs!TypeCorrect` | `Spec => []TypeOK` |
| `Air780eSocketsProofs!SwitchSafe` | `Spec => []SwitchFollowsReservations` |
| `Air780eSocketsProofs!CountersCover` | `Spec => []ReservationsCovered` |
| `Air780eSocketsProofs!SocketsSafe` | `Spec => []SocketsMatchSwitch` |
| `Air780eSocketsProofs!PayloadFetched` | `Spec => []NoStrandedData` |
| `Ml307TcpProofs!TypeCorrect` | `Spec => []TypeOK` |
| `Ml307TcpProofs!Ml307Invariant` | `Spec => []CidInv` |
| `Ml307TcpProofs!Ml307UsedCidHasOwner` | `Spec => []UsedCidHasOwner` |
| `BaudAlignmentProofs!TypeCorrect` | `Spec => []TypeOK` |
| `BaudAlignmentProofs!EndsSafe` | `Spec => []EndsAgree` |
| `BaudAlignmentProofs!FailureExcused` | `Spec => []FailureHasCause` |
| `MqttClientProofs!MqttInvariant` | `Spec => []MqttInv` |
| `MqttClientProofs!TypeCorrect` | `Spec => []TypeOK` |
| `MqttClientProofs!MqttToldOnce` | `Spec => []ToldOnce` |
| `MqttClientProofs!MqttConnectedIsUsable` | `Spec => []ConnectedIsUsable` |
| `MqttClientProofs!MqttQosTwoAtMostOnce` | `Spec => []QosTwoAtMostOnce` |
| `MqttClientProofs!LifeSafety` | `Spec => Life!Init /\ [][Life!Next]_(Life!vars)` |
| `WsClientProofs!TypeCorrect` | `Spec => []TypeOK` |
| `WsClientProofs!WsToldOnce` | `Spec => []ToldOnce` |
| `WsClientProofs!WsOpenIsUsable` | `Spec => []OpenIsUsable` |
| `WsClientProofs!WsOutboundWhole` | `Spec => []OutboundWhole` |
| `HttpClientProofs!HttpInvariant` | `Spec => []HttpInv` |
| `HttpClientProofs!HttpRedirectsAreSafe` | `Spec => []RedirectsAreSafe` |
| `HttpClientProofs!HttpRepeatsAreSafe` | `Spec => []RepeatsAreSafe` |
| `HttpClientProofs!HttpUploadFramed` | `Spec => []UploadFramed` |
| `HttpClientProofs!HttpFollowsAnswer` | `Spec => []AnswerInv` |
| `HttpClientProofs!HttpAnswerIsOwn` | `Spec => []AnswerIsOwn` |
| `HttpClientProofs!HttpEofMeansWhole` | `Spec => []EofMeansWhole` |

They hold for any set of application threads on the AT channel and on the Air780E
(finite there, since its invariant counts them), any number of TCP clients, cids, rates, calls,
connections, events, retries, message parts and redirects, from the assumptions named
in the modules: the receive task and the reader are not application threads, the three
threads of a protocol client are different, the bounds are numbers, rates are positive
and the two known ones differ, and the responses of HTTP servers are well formed, with a
body of any bytes and of a size that a `size_t` holds (`ResponsesAssumption`; a size that wraps to 0 is an
empty body to the parser, and with a body of `Word` bytes TLC finds `AnswerIsOwn` violated).

*AtUart.* `CommandWindowExclusive` is not inductive: it must also be known that
`SendLine` never reaches the points between the clearing of the response and its
result, and that only `SendDataAfterPrompt` disarms a prompt. `WindowInv` adds that
(`WindowOps`). The proof has a lemma per action and side.

`HandlerCallUnanswered` needs `HandlerInv`: while a handler's command is under way the
receive task is inside the handler, so the bit the command cleared stays clear.

`PayloadPerPrompt` needs `PayloadInv`. `KindInv` says which lines can set which bit,
`IdInv` that the caller inside a call has the last number drawn, and `PromptInv` that the
right of a call to write its payload is in one place at most (`OnePlace`): with the caller
that has not written its command, on the uplink, on the wire, in the receive task's
hands, in the bit, with the caller that woke, or used. Each step hands it on or loses it,
so no prompt pays for two payloads.

`AnswersInStep` and `ReadbackIsOwn` promise something only as long as no answer has been
late. `StepInv` says what a channel in step looks like: with nobody waiting nothing is
under way (`RestInv`); a command under way is the last thing written and has no answer yet
(`UplinkInv`); what the module collects is about to be written by the call it asked
(`CollectInv`); a line that ends a wait is the last that is not an event (`OrderInv`) and
belongs to the call that waits (`LiveInv`); and each caller has the lines of its own command
in the buffer (`CallInv`). It rests on the three invariants above (`ChannelInv`) and on
lemmas about what the parser makes of a buffer (`ParsedStatus`, `ParsedLines`).

*Air780E.* Three invariants make up `ModeInv`. `SwitchInv` adds to
`SwitchFollowsReservations` that at most one thread is at the switch, that the flag is
up while one is, and that a thread whose switch succeeded finds the module in its
mode; it is needed because the mutex is dropped while AT+CIPSSL is sent. `CoverInv`
adds to `ReservationsCovered` in which phase of a call a thread can be, which decides
whether `RetireSlot` gives a reservation back. The counting argument rests on four
lemmas about finite sets (an element joins, leaves, or passes from the set of actors
that owe a reservation to the set of slots that hold one) and on `Go`, through which
every actor moves. `SocketsMatchSwitch` then follows: a slot that holds a reservation
makes the counter of its mode positive.

`NoStrandedData` needs only `AgeInv` on top of the types: the serials of the module's
sockets were given out before, so a cid that is taken again does not find the bytes of its
last socket under its new serial. Each step then hands the duty to fetch on: from the
announcement to the flag, from the flag to the batch of the reader, and back to the flag
when the budget runs out.

*ML307.* `CidInv` has four layers. `TypeInv` says which calls can be on the stack of a
thread and which of them can wait for another. `Serials` and `Unique` say that the serial
of a connect is in its innermost call and nowhere else until its route exists, so that a
cid taken again is told from the cid a pending close speaks of. `Own` says that a client
that is still on the connection of a route has the cid of that route, and that one that is
connecting is not connected. `Ownership`, for behaviours without a lapse, adds to
`UsedCidHasOwner` what makes it inductive: a close is held only for a free cid, or for one
whose `Connect` has yet to void the hold (`ClosedHeld`, which is why
`AllocateConnectionId` discards); a call that will report a held close, or reports one,
does not have its cid any more, or the call it waits for is closing it (`CallsSafe`,
`ReportsSafe`); and the receive task reports a close while the cid it released is still in
quarantine (`TaskSafe`). The theorem covers any number of clients; the run, one.

*BaudAlignment.* Neither property is inductive: success and failure are decided at the
end of a search that may run twice. `IInv` adds which rates can be in the list and on
the channel (`ScanInv`, `PlaceInv`), where the ends hear each other (`HearInv`), and that
as long as nothing excuses a failure the module is at a candidate still to be tried, or
the channel has reached it (`ReachInv`). One lemma per action keeps it; two lemmas say
what the candidates are and what `Tail` leaves of them.

*MQTT.* `ToldOnce` is about what three threads do with one `transport_`, each with its own
call stack. `MqttInv` says which calls can be on which stack and in which order (`TypeInv`),
that a transport that exists belongs to one frame of one stack, to `transport_`, or to
nobody once it is closed and reported (`OwnerInv`), and that while `Connect` makes a
transport there is none (`ConnectInv`). `Drop` takes `transport_` under the lock, and that
hands ownership to its frame; only an owner reports. Every action pushes, replaces or pops
the top frame: the lemmas of `StackTheorems` say what that does to a stack, and three lemmas
(`StackSet`, `Continues`, `OnTop`) what it does to the owners. `LifeSafety` is the refinement
of `ConnectionLife` but for its fairness: the initial states are initial states there, and
every step is a step of it or a stutter. `ConnectedIsUsable` needs `UsableInv` on top of it:
`connected_`, the CONNACK and `transport_` go together except inside `Connect`
(`FlagsInv`); a thread that has given `transport_` up, and is about to clear
`keepalive_running_`, meets no session but one that `Connect` is still making, and that only
on the keep-alive task, which `Connect` joins (`DroppedInv`); a session has its task, will
have it, or is about to end (`TaskInv`).

`QosTwoAtMostOnce` is about the order of the packets that the client has not handled yet:
the one in hand, those in `rx_buffer_` and those on the wire of `transport_`, one queue
(`Queue`). `QosInv` says that a message in that queue, or held in `pending_qos2_`, was sent
in this session and is in one place only; that it is *settled*, which means that the broker
will not send it any more, once a PUBREL of its id follows it; and that what has been taken
out for `on_message_` is settled and in neither place (`OnceInv`). That a release is of the
message it finds needs the broker to use an id for one message at a time (`UniqueIds`).
A new session starts from nothing: no packet passes over a transport before its CONNECT
(`FreshInv`), what is left in the buffer is dropped or can never be taken (`BufferInv`), and
nothing is held (`HoldInv`). The proof follows the queue rather than the threads: each
action leaves it as it is, shortens it, moves its first packet or appends one to it, and
only the outermost calls of the receive path and of the application matter to that. A PUBREL
in hand when its connection is given up can take a message that the next connection holds,
while the broker can still resend that message: `HandlePubrel` records this as the lapse
`stale`, as `HandlePublish` does for the message it holds.

*WebSocket.* The invariants are stacked, each proved from the ones before. `BaseInv` is
the analogue of `MqttInv`. `PhaseInv` says what `transport_` and the reports are in each
state of the client and that one thread at a time opens a connection; `ToldOnce` follows.
`ConnectedInv` ties `connected_` to the state, and `MaintainInv` the maintenance task to
the calls that start it and wait for it; `OpenIsUsable` follows. `DialInv` and
`OutboundInv` follow a frame from the choice of its opcode to the wire, and say that
`send_fragment_open_` is what the server is in, but for the frame on its way:
`OutboundWhole`.

*HTTP.* `HttpInv` has a part about the call (`CallInv`: which requests of a hop have been
sent before each attempt, that only a GET has a second, that credentials stay at their
origin) and one about the connection (`ConnInv`: until a `Write` gives an upload up, the
server is inside a body exactly while the client is).

`AnswerIsOwn` and `EofMeansWhole` depend on what the parser makes of a stream that comes
in any pieces. `AnswerInv` adds to `HttpInv` that only the client's own transport has
anything under way (`WireInv`) and, as long as no connection was left in the middle and no
response mixed its line ends (`lapses = {}`), where the connection is when the driving thread is somewhere (`PlaceInv`):
before a request nothing is under way (`Quiet`), and after it the answer is still to come
(`Unanswered`) or the parser is at a place in it (`Parsing`). A place in a response is
one of the disjuncts of `Stage`, which says what the parser has taken and which tokens
follow; `TurnKeepsPlace` shows, state by state, that one turn of the parser's loop leads
from a place to a place, and `RunKeepsPlace` that `Feed` does, by the least number of turns
for which it would not. CR and LF in a body are what makes the lines hard: `TakeLine` sees
everything that is buffered. In a response that is not `Mixed`, a line that ends in CR LF
has none before its end, and behind one that ends in LF there is none at all (`NoPair`,
`PartsUnmixed`), so that what is buffered behind a line does not change it
(`BufferUnmixed`, `EndsLine`). Where the response is mixed this fails, and so do the
properties (`BodyIsNotFraming`). `StreamInv` says that what was read and what is queued to be read
are the body so far, so that the end of the stream is the end of the body.

Only model-checked:
- `StreamComplete` and `ConnectedIsLive` of `Ml307Tcp`: they hold for one client. With two,
  `ConnectedIsLive` fails as stated: a `Discard` that comes late voids a close that is held
  for the next socket on its cid;
- `QosTwoNotLost` of `MqttClient`: where `QosTwoAtMostOnce` bounds what the queue may hold,
  it needs to know what the queue must hold, packets of ended sessions included, and no
  invariant for that has been found yet;
- `RefusalNamesFilter` of `MqttClient`: it holds while the packet ids do not wrap, as in its
  run. With more requests than ids (`MaxEvents = 2`, `MaxPacketId = 1`) TLC finds it
  violated: a late SUBACK carries an id that is in use again;
- `MessagesWhole` of `WsClient`: checked for one connection. With more, the contents of the
  buffer and of the open message must be tied to the right transport through every overlap
  of a teardown with the next handshake, and no invariant for that has been found yet;
- the liveness properties and the fairness of the refinement of `ConnectionLife`: outside
  what the proof system does.

## 5. What is left

1. The reports of `Ml307Tcp` with several clients, which need a lapse for the late
   `Discard`.
2. The acknowledgement of sends of the Air780E (air780e_hal.cpp 856-923, 1244-1256).
3. The life cycle of a HAL and its URC handlers; byte assembly in `ReceiveTask`.

Not modelled: encodings of packets, frames, URLs and headers (string work without
state), the UDP client (the shape of the TCP client without hold and closes), the POSIX
timer (nothing in the library creates one), the ESP-IDF wrappers and serial ports
(device I/O), tools and examples.
