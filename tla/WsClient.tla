------------------------------ MODULE WsClient ------------------------------
(***************************************************************************)
(* SoftwareWsClient (src/src/protocol/websocket): a WebSocket that is      *)
(* opened by the application and reopened by the maintenance task.         *)
(*                                                                         *)
(* Three threads are inside the client: the application's, the transport's *)
(* receive thread and the maintenance task, which sends the heartbeat      *)
(* while the connection is open and reconnects while it is down.  Each has *)
(* a call stack: callbacks may close, and TcpClient::Disconnect reports    *)
(* its own close while Teardown is under way.  Every critical section of   *)
(* mutex_, every atomic outside it and every callback is a step.           *)
(*                                                                         *)
(* SendFrame looks the transport up and sends in one step.  The maintenance*)
(* task knows itself by maintain_thread_, which its loop sets before any   *)
(* callback can run on it.  The server and the link are external.          *)
(***************************************************************************)
EXTENDS Naturals, Sequences

CONSTANTS
    App, Rx, Mt,    \* application thread, receive thread, maintenance task
    MaxConnects,    \* bound: transports
    MaxRetries,     \* ReconnectConfig::max_retries where it is not negative
    MaxParts,       \* kMaxMessageBytes, in frames
    MaxEvents,      \* bound: frames of the server, sends, pings and settings of the
                    \* application and callbacks that close, together
    CloseActors,    \* the threads on which a callback closes
    Settings,       \* what SetHeartbeat and SetAutoReconnect may have been given
    Chatty          \* the application goes on, without a bound, to send and ping over
                    \* a link that has gone silent

ASSUME ActorsAssumption ==
    App # Rx /\ App # Mt /\ Rx # Mt /\ CloseActors \subseteq {App, Rx, Mt}

Schedules == {"off", "limited", "unlimited"}

ASSUME SettingsAssumption ==
    Settings \subseteq [heartbeat : BOOLEAN, schedule : Schedules] /\ Chatty \in BOOLEAN

ASSUME BoundsAssumption == {MaxConnects, MaxRetries, MaxParts, MaxEvents} \subseteq Nat

Actors == {App, Rx, Mt}

Transports == 1 .. MaxConnects

\* What arrives: a handshake head or a frame.  fin and start are about data frames,
\* m is the message a frame is part of.
Item(type, start, fin, m) == [type |-> type, start |-> start, fin |-> fin, m |-> m]

NoItem == Item("none", FALSE, FALSE, 0)

\* The locals of a call.
Frame0 == [pc |-> "none", p |-> NoItem, parts |-> <<>>, own |-> 0, t |-> 0, open |-> FALSE,
           n |-> 0, then |-> "none"]

NoFragment == [open |-> FALSE, parts |-> <<>>]

VARIABLES
    stack,        \* the calls each thread is in, innermost first
    state,        \* state_: down, handshaking or open
    transport,    \* transport_; 0 for null
    connected,    \* connected_
    userClosed,   \* user_closed_
    attempt,      \* reconnect_attempt_
    exhausted,    \* reconnect_exhausted_
    hs,           \* handshake_done_ and handshake_error_: none, ok or bad
    rxBuf,        \* rx_buffer_, in heads and frames
    frag,         \* fragment_open_ and the frames in fragment_payload_
    sendFrag,     \* send_fragment_open_
    closeSent,    \* close_sent_
    heartbeat,    \* heartbeat_enabled_, with an interval that is not zero
    schedule,     \* reconnect_: off, limited to MaxRetries or unlimited
    mtTask,       \* maintain_task_ is set
    mtRunning,    \* maintain_running_
    ping,         \* ping_sent_ms_: none (zero), sent or, past the deadline, overdue
    recent,       \* last_sent_ms_ is less than heartbeat_interval_ ago
    link,         \* each transport's connection: none, open, silent or closed
    wire,         \* what is on its way to the receive thread
    server,       \* the server: message under way each way on its connection
    budget,       \* what is left of MaxEvents
    opened,       \* history: transports that the application was told are open
    told,         \* history: how often on_disconnected_ ran for each transport
    lapses        \* history: how one connection was taken for another

clientVars == <<state, transport, connected, userClosed, attempt, exhausted, hs, rxBuf, frag,
                sendFrag, closeSent>>
config == <<heartbeat, schedule>>
mtVars == <<config, mtTask, mtRunning, ping>>
linkVars == <<link, wire, server, recent>>
history == <<opened, told, lapses>>
vars == <<stack, clientVars, mtVars, linkVars, budget, history>>

Init ==
    /\ stack = [x \in Actors |-> <<>>]
    /\ state = "down"
    /\ transport = 0
    /\ connected = FALSE
    /\ userClosed = FALSE
    /\ attempt = 0
    /\ exhausted = FALSE
    /\ hs = "none"
    /\ rxBuf = <<>>
    /\ frag = NoFragment
    /\ sendFrag = FALSE
    /\ closeSent = FALSE
    /\ \E c \in Settings : heartbeat = c.heartbeat /\ schedule = c.schedule
    /\ mtTask = FALSE
    /\ mtRunning = FALSE
    /\ ping = "none"
    /\ recent = FALSE
    /\ link = [t \in Transports |-> "none"]
    /\ wire = [t \in Transports |-> <<>>]
    /\ server = [on |-> 0, sending |-> FALSE, receiving |-> FALSE, malformed |-> FALSE]
    /\ budget = MaxEvents
    /\ opened = {}
    /\ told = [t \in Transports |-> 0]
    /\ lapses = {}

-----------------------------------------------------------------------------
(***************************************************************************)
(* Call stacks.                                                            *)
(***************************************************************************)
Top(x) == Head(stack[x])

At(x, l) == stack[x] # <<>> /\ Top(x).pc = l

Idle(x) == stack[x] = <<>>

SetStack(x, s) == stack' = [stack EXCEPT ![x] = s]

Continue(x, f) == SetStack(x, <<f>> \o Tail(stack[x]))

GoTo(x, l) == Continue(x, [Top(x) EXCEPT !.pc = l])

Return(x) == SetStack(x, Tail(stack[x]))

\* Teardown, called about the transport `own'.
TeardownFrame(own) == [Frame0 EXCEPT !.pc = "give_up", !.own = own]

\* Fail: on_error_, SendCloseFrame, Teardown.
FailFrame(own) == [Frame0 EXCEPT !.pc = "fail", !.own = own]

CloseFrame == [Frame0 EXCEPT !.pc = "close", !.own = transport]

MtLoop == <<[Frame0 EXCEPT !.pc = "loop"]>>

Draining == [Frame0 EXCEPT !.pc = "drain", !.own = Top(Rx).own]

\* A callback returns, or calls Close first; x goes on with the calls s.
Callback(x, s) ==
    \/ SetStack(x, s) /\ UNCHANGED budget
    \/ /\ x \in CloseActors /\ budget > 0
       /\ budget' = budget - 1
       /\ SetStack(x, <<CloseFrame>> \o s)

-----------------------------------------------------------------------------
(***************************************************************************)
(* The server and the link (external).                                     *)
(***************************************************************************)
Answer(t, p) == wire' = [wire EXCEPT ![t] = Append(@, p)]

\* The server takes what the client sends over transport t: the upgrade, a frame
\* (start: not a continuation), a ping, a pong or a close.
ServerTakes(t, p) ==
    CASE p.type = "upgrade" ->
            \E type \in {"accept", "refuse"} :
                /\ Answer(t, Item(type, FALSE, FALSE, 0))
                /\ server' = [server EXCEPT !.on = IF type = "accept" THEN t ELSE 0,
                                            !.sending = FALSE, !.receiving = FALSE]
      [] p.type = "data" ->
            /\ server' = [server EXCEPT !.receiving = ~p.fin,
                                        !.malformed = @ \/ server.receiving = p.start]
            /\ UNCHANGED wire
      [] p.type = "ping" -> Answer(t, Item("pong", FALSE, TRUE, 0)) /\ UNCHANGED server
      [] p.type = "close" -> Answer(t, Item("close", FALSE, TRUE, 0)) /\ UNCHANGED server
      [] OTHER -> UNCHANGED <<wire, server>>

ServerUp == server.on # 0 /\ link[server.on] = "open"

\* One more frame of a message, which the server numbers by what budget it leaves.
ServerSendsData ==
    /\ ServerUp /\ budget > 0
    /\ budget' = budget - 1
    /\ \E fin \in BOOLEAN :
           /\ Answer(server.on, Item("data", ~server.sending, fin, server.on))
           /\ server' = [server EXCEPT !.sending = ~fin]
    /\ UNCHANGED <<stack, clientVars, mtVars, link, recent, history>>

\* A ping, a close, a close of one byte, a frame the codec rejects, and a frame that
\* breaks off a message or continues none.
ServerSends(type) ==
    /\ ServerUp /\ budget > 0
    /\ budget' = budget - 1
    /\ Answer(server.on, Item(type, server.sending, TRUE, server.on))
    /\ UNCHANGED <<stack, clientVars, mtVars, link, server, recent, history>>

StrayTypes == {"ping", "close", "badclose", "invalid", "data"}

LinkGoesSilent(t) ==
    /\ link[t] = "open"
    /\ link' = [link EXCEPT ![t] = "silent"]
    /\ wire' = [wire EXCEPT ![t] = <<>>]
    /\ UNCHANGED <<stack, clientVars, mtVars, server, recent, budget, history>>

CloseLink(t) ==
    /\ link' = [link EXCEPT ![t] = "closed"]
    /\ wire' = [wire EXCEPT ![t] = <<>>]
    /\ server' = [server EXCEPT !.on = IF @ = t THEN 0 ELSE @]
    /\ UNCHANGED recent

-----------------------------------------------------------------------------
(***************************************************************************)
(* Sending.                                                                *)
(***************************************************************************)
CanSend(t) == t # 0 /\ link[t] \in {"open", "silent"}

Transmit(t, p) ==
    IF t # 0 /\ link[t] = "open" /\ (p.type = "upgrade" \/ server.on = t)
    THEN ServerTakes(t, p) ELSE UNCHANGED <<wire, server>>

\* SendFrame: last_sent_ms_ is set once the transport has taken the frame.
Sends(p) == CanSend(transport) /\ Transmit(transport, p) /\ recent' = TRUE

\* There is no transport, or its Send fails, open or not.
SendFails == UNCHANGED <<wire, server, recent>>

SendFrame(type) == Sends(Item(type, FALSE, TRUE, 0)) \/ SendFails

-----------------------------------------------------------------------------
(***************************************************************************)
(* Teardown, by whichever thread noticed that the connection ended.        *)
(***************************************************************************)
\* Mutant: transport_ is copied where it has to be moved.
GiveUpCopiesTransport(x) ==
    /\ At(x, "give_up")
    /\ rxBuf' = <<>>
    /\ frag' = NoFragment
    /\ sendFrag' = FALSE
    /\ closeSent' = FALSE
    /\ ping' = "none"
    /\ IF transport = 0 THEN Return(x)
       ELSE Continue(x, [Top(x) EXCEPT !.pc = "drop", !.t = transport, !.open = state = "open"])
    /\ UNCHANGED <<state, transport, connected, userClosed, attempt, exhausted, hs, config, mtTask,
                   mtRunning, linkVars, budget, history>>

GiveUp(x) ==
    /\ At(x, "give_up")
    /\ state' = "down"
    /\ transport' = 0
    /\ rxBuf' = <<>>
    /\ frag' = NoFragment
    /\ sendFrag' = FALSE
    /\ closeSent' = FALSE
    /\ ping' = "none"
    /\ IF transport = 0 THEN Return(x)
       ELSE Continue(x, [Top(x) EXCEPT !.pc = "drop", !.t = transport, !.open = state = "open"])
    /\ lapses' = IF transport \in {0, Top(x).own} /\ (state = "down" \/ transport # 0)
                 THEN lapses ELSE lapses \cup {"strayed"}
    /\ UNCHANGED <<connected, userClosed, attempt, exhausted, hs, config, mtTask, mtRunning,
                   linkVars, budget, opened, told>>

\* Mutant: the report is left to the nested Teardown, which finds nothing to report.
DropTellsNested(x) ==
    /\ At(x, "drop")
    /\ LET f == [Top(x) EXCEPT !.pc = "tell"]
       IN IF CanSend(f.t)
          THEN CloseLink(f.t) /\ SetStack(x, <<TeardownFrame(f.t)>> \o Tail(stack[x]))
          ELSE /\ SetStack(x, (IF f.open THEN <<f>> ELSE <<>>) \o Tail(stack[x]))
               /\ UNCHANGED linkVars
    /\ UNCHANGED <<clientVars, mtVars, budget, history>>

\* TcpClient::Disconnect, which reports a close that it makes itself.
Drop(x) ==
    /\ At(x, "drop")
    /\ LET f == [Top(x) EXCEPT !.pc = "tell"]
           rest == (IF f.open THEN <<f>> ELSE <<>>) \o Tail(stack[x])
       IN IF CanSend(f.t)
          THEN CloseLink(f.t) /\ SetStack(x, <<TeardownFrame(f.t)>> \o rest)
          ELSE SetStack(x, rest) /\ UNCHANGED linkVars
    /\ UNCHANGED <<clientVars, mtVars, budget, history>>

\* connected_ is cleared after the lock is gone, and after Disconnect.
Tell(x) ==
    /\ At(x, "tell")
    /\ connected' = FALSE
    /\ told' = [told EXCEPT ![Top(x).t] = @ + 1]
    /\ Callback(x, Tail(stack[x]))
    /\ lapses' = IF state = "open" THEN lapses \cup {"late"} ELSE lapses
    /\ UNCHANGED <<state, transport, userClosed, attempt, exhausted, hs, rxBuf, frag, sendFrag,
                   closeSent, mtVars, linkVars, opened>>

\* SendCloseFrame; nothing is sent where nothing is open, and whether the Send failed
\* is not looked at.
SendCloseFrame(x) ==
    /\ closeSent' = (closeSent \/ state = "open")
    /\ \/ state = "open" /\ Transmit(transport, Item("close", FALSE, TRUE, 0))
       \/ UNCHANGED <<wire, server>>
    /\ recent' = (recent \/ (state = "open" /\ transport # 0))

Fail(x) ==
    /\ At(x, "fail")
    /\ Callback(x, <<[Top(x) EXCEPT !.pc = "fail_close"]>> \o Tail(stack[x]))
    /\ UNCHANGED <<clientVars, mtVars, linkVars, history>>

FailCloses(x) ==
    /\ At(x, "fail_close")
    /\ SendCloseFrame(x)
    /\ GoTo(x, "give_up")
    /\ UNCHANGED <<state, transport, connected, userClosed, attempt, exhausted, hs, rxBuf, frag,
                   sendFrag, mtVars, link, budget, history>>

Teardown(x) == GiveUp(x) \/ Drop(x) \/ Tell(x) \/ Fail(x) \/ FailCloses(x)

-----------------------------------------------------------------------------
(***************************************************************************)
(* Close, and the start and stop of the maintenance task.                  *)
(***************************************************************************)
\* Close: with 1006, which is refused, the socket is dropped, otherwise a close frame
\* goes first.
Close(x) ==
    /\ At(x, "close")
    /\ userClosed' = TRUE
    /\ \E then \in {"close_frame", "refuse"} :
           Continue(x, [Top(x) EXCEPT !.pc = "stop", !.then = then])
    /\ UNCHANGED <<state, transport, connected, attempt, exhausted, hs, rxBuf, frag, sendFrag,
                   closeSent, mtVars, linkVars, budget, history>>

\* on_error_, for the code 1006.
CloseRefused(x) ==
    /\ At(x, "refuse")
    /\ Callback(x, <<[Top(x) EXCEPT !.pc = "give_up"]>> \o Tail(stack[x]))
    /\ UNCHANGED <<clientVars, mtVars, linkVars, history>>

\* The wait for the peer's close frame ends by a Teardown or by its timeout.
CloseSends(x) ==
    /\ At(x, "close_frame")
    /\ SendCloseFrame(x)
    /\ IF state = "open" /\ transport # 0 THEN GoTo(x, "give_up") ELSE Return(x)
    /\ UNCHANGED <<state, transport, connected, userClosed, attempt, exhausted, hs, rxBuf, frag,
                   sendFrag, mtVars, link, budget, history>>

\* Mutant: a callback on the maintenance task waits for its own task.
StopMaintainJoins(x) ==
    /\ At(x, "stop")
    /\ mtRunning' = FALSE
    /\ GoTo(x, IF mtTask THEN "join" ELSE Top(x).then)
    /\ UNCHANGED <<clientVars, config, mtTask, ping, linkVars, budget, history>>

StopMaintain(x) ==
    /\ At(x, "stop")
    /\ mtRunning' = FALSE
    /\ GoTo(x, IF mtTask /\ x # Mt THEN "join" ELSE Top(x).then)
    /\ lapses' = IF \E y \in Actors \ {x} : ~Idle(y) /\ Top(y).pc \in {"stop", "join", "start"}
                 THEN lapses \cup {"raced"} ELSE lapses
    /\ UNCHANGED <<clientVars, config, mtTask, ping, linkVars, budget, opened, told>>

JoinMaintain(x) ==
    /\ At(x, "join") /\ Idle(Mt)
    /\ mtTask' = FALSE
    /\ GoTo(x, Top(x).then)
    /\ UNCHANGED <<clientVars, config, mtRunning, ping, linkVars, budget, history>>

StartMaintain ==
    /\ At(App, "start")
    /\ mtRunning' = TRUE
    /\ mtTask' = TRUE
    /\ stack' = [stack EXCEPT ![Mt] = MtLoop, ![App] = <<[Top(App) EXCEPT !.pc = "up"]>>]
    /\ UNCHANGED <<clientVars, config, ping, linkVars, budget, history>>

Calls(x) ==
    Teardown(x) \/ Close(x) \/ CloseRefused(x) \/ CloseSends(x) \/ StopMaintain(x) \/ JoinMaintain(x)

-----------------------------------------------------------------------------
(***************************************************************************)
(* Establish, by the application or by the maintenance task.               *)
(***************************************************************************)
\* What is left of the calls of x when Establish fails.
AfterFailure(x) == IF x = Mt THEN <<[Top(x) EXCEPT !.pc = "failed"]>> ELSE <<>>

Establish(x) ==
    /\ At(x, "establish")
    /\ IF state # "down"
       THEN /\ SetStack(x, AfterFailure(x))
            /\ UNCHANGED <<state, hs, rxBuf, frag, sendFrag, closeSent>>
       ELSE /\ GoTo(x, "create")
            /\ state' = "handshaking"
            /\ hs' = "none"
            /\ rxBuf' = <<>>
            /\ frag' = NoFragment
            /\ sendFrag' = FALSE
            /\ closeSent' = FALSE
    /\ UNCHANGED <<transport, connected, userClosed, attempt, exhausted, mtVars, linkVars, budget,
                   history>>

\* Mutant: a connect that fails leaves the client handshaking.
CreateFailsStays(x) ==
    /\ At(x, "create")
    /\ SetStack(x, AfterFailure(x))
    /\ UNCHANGED <<clientVars, mtVars, linkVars, budget, history>>

NextTransport ==
    {t \in Transports : link[t] = "none" /\ \A u \in Transports : u < t => link[u] # "none"}

\* The factory or TcpClient::Connect fails, and the transport is spent.
CreateFails(x) ==
    /\ At(x, "create")
    /\ state' = "down"
    /\ link' = [t \in Transports |-> IF t \in NextTransport THEN "closed" ELSE link[t]]
    /\ SetStack(x, AfterFailure(x))
    /\ UNCHANGED <<transport, connected, userClosed, attempt, exhausted, hs, rxBuf, frag, sendFrag,
                   closeSent, mtVars, wire, server, recent, budget, history>>

Create(x) ==
    /\ At(x, "create")
    /\ \E t \in NextTransport :
           /\ link' = [link EXCEPT ![t] = "open"]
           /\ Continue(x, [Top(x) EXCEPT !.pc = "assign", !.own = t])
    /\ UNCHANGED <<clientVars, mtVars, wire, server, recent, budget, history>>

Assign(x) ==
    /\ At(x, "assign")
    /\ transport' = Top(x).own
    /\ GoTo(x, "upgrade")
    /\ UNCHANGED <<state, connected, userClosed, attempt, exhausted, hs, rxBuf, frag, sendFrag,
                   closeSent, mtVars, linkVars, budget, history>>

\* The request goes out through the local handle.
SendUpgrade(x) ==
    /\ At(x, "upgrade")
    /\ \/ /\ CanSend(Top(x).own)
          /\ Transmit(Top(x).own, Item("upgrade", FALSE, FALSE, 0))
          /\ GoTo(x, "wait")
       \/ /\ SetStack(x, <<TeardownFrame(Top(x).own)>> \o AfterFailure(x))
          /\ UNCHANGED <<wire, server>>
    /\ UNCHANGED <<clientVars, mtVars, link, recent, budget, history>>

\* The wait looks at handshake_done_ and not at what has become of the transport.
WaitOpen(x) ==
    /\ At(x, "wait") /\ hs = "ok"
    /\ state' = "open"
    /\ connected' = TRUE
    /\ recent' = TRUE
    /\ Continue(x, IF x = App THEN [Top(x) EXCEPT !.pc = "stop", !.then = "start"]
                   ELSE [Top(x) EXCEPT !.pc = "reconnected"])
    /\ opened' = IF transport = Top(x).own THEN opened \cup {transport} ELSE opened
    /\ lapses' = IF transport = Top(x).own THEN lapses ELSE lapses \cup {"zombie"}
    /\ UNCHANGED <<transport, userClosed, attempt, exhausted, hs, rxBuf, frag, sendFrag, closeSent,
                   mtVars, link, wire, server, budget, told>>

\* The upgrade was refused, or the wait ends at its timeout.
WaitFails(x) ==
    /\ At(x, "wait") /\ hs # "ok"
    /\ SetStack(x, <<TeardownFrame(Top(x).own)>> \o AfterFailure(x))
    /\ UNCHANGED <<clientVars, mtVars, linkVars, budget, history>>

Establishing(x) ==
    Establish(x) \/ CreateFails(x) \/ Create(x) \/ Assign(x) \/ SendUpgrade(x) \/ WaitOpen(x)
        \/ WaitFails(x)

-----------------------------------------------------------------------------
(***************************************************************************)
(* The application.                                                        *)
(***************************************************************************)
Connect ==
    /\ Idle(App) /\ state = "down"
    /\ \E t \in Transports : link[t] = "none"
    /\ userClosed' = FALSE
    /\ attempt' = 0
    /\ exhausted' = FALSE
    /\ SetStack(App, <<[Frame0 EXCEPT !.pc = "establish"]>>)
    /\ UNCHANGED <<state, transport, connected, hs, rxBuf, frag, sendFrag, closeSent, mtVars,
                   linkVars, budget, history>>

ConnectReturns ==
    /\ At(App, "up")
    /\ Callback(App, <<>>)
    /\ UNCHANGED <<clientVars, mtVars, linkVars, history>>

AppCloses ==
    /\ Idle(App)
    /\ state = "open" \/ mtTask
    /\ SetStack(App, <<CloseFrame>>)
    /\ UNCHANGED <<clientVars, mtVars, linkVars, budget, history>>

Live(t) == t # 0 /\ link[t] = "open"

\* A frame of the application, which counts unless it is a message of its own over a
\* connection that has gone silent.
Spends(fragment) ==
    IF Chatty /\ ~fragment /\ state = "open" /\ transport # 0 /\ link[transport] = "silent"
    THEN UNCHANGED budget ELSE budget > 0 /\ budget' = budget - 1

\* Mutant: every fragment names its kind.
SendFragmentStarts ==
    /\ Idle(App) /\ state = "open"
    /\ \E fin \in BOOLEAN :
           /\ Spends(sendFrag \/ ~fin)
           /\ sendFrag' = ~fin
           /\ SetStack(App, <<[Frame0 EXCEPT !.pc = "send_data", !.own = transport,
                                             !.p = Item("data", TRUE, fin, 0)]>>)
    /\ UNCHANGED <<state, transport, connected, userClosed, attempt, exhausted, hs, rxBuf, frag,
                   closeSent, mtVars, linkVars, history>>

\* Send and SendFragment: what the frame is depends on send_fragment_open_, which is
\* moved on before the frame is sent.
SendFragment ==
    /\ Idle(App) /\ state = "open"
    /\ \E fin \in BOOLEAN :
           /\ Spends(sendFrag \/ ~fin)
           /\ sendFrag' = ~fin
           /\ SetStack(App, <<[Frame0 EXCEPT !.pc = "send_data", !.own = transport,
                                             !.p = Item("data", ~sendFrag, fin, 0)]>>)
    /\ UNCHANGED <<state, transport, connected, userClosed, attempt, exhausted, hs, rxBuf, frag,
                   closeSent, mtVars, linkVars, history>>

SendData ==
    /\ At(App, "send_data")
    /\ Sends(Top(App).p) \/ (~Live(transport) /\ SendFails)
    /\ Return(App)
    /\ lapses' = IF transport \in {0, Top(App).own} THEN lapses ELSE lapses \cup {"fragment"}
    /\ UNCHANGED <<clientVars, mtVars, link, budget, opened, told>>

\* The transport refuses the frame, and the server goes without it.
SendDataFails ==
    /\ At(App, "send_data") /\ Live(transport)
    /\ Return(App)
    /\ lapses' = lapses \cup {"unsent"}
    /\ UNCHANGED <<clientVars, mtVars, linkVars, budget, opened, told>>

\* Ping, which looks for a transport and not at the state.
Ping ==
    /\ Idle(App)
    /\ Spends(FALSE)
    /\ Sends(Item("ping", FALSE, TRUE, 0))
    /\ SetStack(App, <<[Frame0 EXCEPT !.pc = "store_ping"]>>)
    /\ UNCHANGED <<clientVars, mtVars, link, history>>

\* The payload is too long, or the frame does not go out: on_error_.
PingFails ==
    /\ Idle(App)
    /\ Callback(App, <<>>)
    /\ UNCHANGED <<clientVars, mtVars, linkVars, history>>

\* ping_sent_ms_ is one for both: the deadline of a ping before this one is moved.
PingStore ==
    /\ At(App, "store_ping")
    /\ ping' = "sent"
    /\ Return(App)
    /\ UNCHANGED <<clientVars, config, mtTask, mtRunning, linkVars, budget, history>>

SetHeartbeat ==
    /\ Idle(App) /\ budget > 0
    /\ budget' = budget - 1
    /\ heartbeat' \in {c.heartbeat : c \in Settings}
    /\ UNCHANGED <<stack, clientVars, schedule, mtTask, mtRunning, ping, linkVars, history>>

SetAutoReconnect ==
    /\ Idle(App) /\ budget > 0
    /\ budget' = budget - 1
    /\ schedule' \in {c.schedule : c \in Settings}
    /\ attempt' = 0
    /\ exhausted' = FALSE
    /\ UNCHANGED <<stack, state, transport, connected, userClosed, hs, rxBuf, frag, sendFrag,
                   closeSent, heartbeat, mtTask, mtRunning, ping, linkVars, history>>

Application ==
    \/ Connect \/ ConnectReturns \/ StartMaintain \/ AppCloses
    \/ SendFragment \/ SendData \/ SendDataFails
    \/ Ping \/ PingFails \/ PingStore
    \/ SetHeartbeat \/ SetAutoReconnect

-----------------------------------------------------------------------------
(***************************************************************************)
(* The maintenance task.                                                   *)
(***************************************************************************)
MtExit ==
    /\ At(Mt, "loop") /\ ~mtRunning
    /\ Return(Mt)
    /\ UNCHANGED <<clientVars, mtVars, linkVars, budget, history>>

\* A pass of the loop that finds the connection open, which resets the count of attempts.
MtOpen ==
    /\ At(Mt, "loop") /\ mtRunning /\ state = "open"
    /\ attempt' = 0
    /\ UNCHANGED <<state, transport, connected, userClosed, exhausted, hs, rxBuf, frag, sendFrag,
                   closeSent>>

\* A heartbeat interval without a frame, or the deadline of a ping, goes by: it matters
\* where the loop looks at the clock.
TimePasses ==
    /\ At(Mt, "loop") /\ mtRunning /\ state = "open" /\ heartbeat
    /\ \/ ping = "none" /\ recent /\ recent' = FALSE /\ UNCHANGED ping
       \/ ping = "sent" /\ ping' = "overdue" /\ UNCHANGED recent
    /\ UNCHANGED <<stack, clientVars, config, mtTask, mtRunning, link, wire, server, budget, history>>

\* There is no heartbeat, or nothing is due.
MtNothing ==
    /\ MtOpen
    /\ ~heartbeat \/ ping = "sent" \/ (ping = "none" /\ recent)
    /\ UNCHANGED <<stack, mtVars, linkVars, budget, history>>

PingDue == heartbeat /\ ping = "none" /\ ~recent

\* SendPing: the frame goes out, and ping_sent_ms_ is set once it has.
MtPing ==
    /\ MtOpen /\ PingDue
    /\ Sends(Item("ping", FALSE, TRUE, 0))
    /\ Continue(Mt, [Top(Mt) EXCEPT !.pc = "store", !.own = transport])
    /\ UNCHANGED <<mtVars, link, budget, history>>

\* The ping does not go out: on_error_, and the next one is sent a tick later.
MtPingFails ==
    /\ MtOpen /\ PingDue
    /\ Callback(Mt, <<[Top(Mt) EXCEPT !.pc = "tick"]>>)
    /\ UNCHANGED <<mtVars, linkVars, history>>

MtTick ==
    /\ At(Mt, "tick")
    /\ GoTo(Mt, "loop")
    /\ UNCHANGED <<clientVars, mtVars, linkVars, budget, history>>

MtStore ==
    /\ At(Mt, "store")
    /\ ping' = "sent"
    /\ GoTo(Mt, "loop")
    /\ UNCHANGED <<clientVars, config, mtTask, mtRunning, linkVars, budget, history>>

\* Mutant: a pong that does not come is waited for.
MtTimeoutWaits ==
    /\ MtOpen /\ heartbeat /\ ping = "overdue" /\ ~connected
    /\ Callback(Mt, <<TeardownFrame(Top(Mt).own)>> \o stack[Mt])
    /\ UNCHANGED <<mtVars, linkVars, history>>

\* The Teardown is about the transport of the last ping of the loop.
MtTimeout ==
    /\ MtOpen /\ heartbeat /\ ping = "overdue"
    /\ Callback(Mt, <<TeardownFrame(Top(Mt).own)>> \o stack[Mt])
    /\ UNCHANGED <<mtVars, linkVars, history>>

MtDown == At(Mt, "loop") /\ mtRunning /\ state = "down" /\ schedule # "off" /\ ~userClosed

RetriesLeft == schedule = "unlimited" \/ attempt < MaxRetries

MtRetry ==
    /\ MtDown /\ RetriesLeft
    /\ Continue(Mt, [Frame0 EXCEPT !.pc = "backoff", !.n = attempt])
    /\ UNCHANGED <<clientVars, mtVars, linkVars, budget, history>>

MtBackoff ==
    /\ At(Mt, "backoff")
    /\ IF mtRunning THEN GoTo(Mt, "establish") ELSE Return(Mt)
    /\ UNCHANGED <<clientVars, mtVars, linkVars, budget, history>>

\* Mutant: an attempt that fails is not counted.
MtFailedUncounted ==
    /\ At(Mt, "failed")
    /\ Callback(Mt, MtLoop)
    /\ UNCHANGED <<clientVars, mtVars, linkVars, history>>

\* The count of attempts is the one read before the backoff.  It is kept up to
\* MaxRetries: beyond that only the length of the backoff depends on it.
MtFailed ==
    /\ At(Mt, "failed")
    /\ attempt' = IF Top(Mt).n < MaxRetries THEN Top(Mt).n + 1 ELSE MaxRetries
    /\ Callback(Mt, MtLoop)
    /\ UNCHANGED <<state, transport, connected, userClosed, exhausted, hs, rxBuf, frag, sendFrag,
                   closeSent, mtVars, linkVars, history>>

MtReconnected ==
    /\ At(Mt, "reconnected")
    /\ attempt' = 0
    /\ exhausted' = FALSE
    /\ Callback(Mt, MtLoop)
    /\ UNCHANGED <<state, transport, connected, userClosed, hs, rxBuf, frag, sendFrag, closeSent,
                   mtVars, linkVars, history>>

MtGivesUp ==
    /\ MtDown /\ ~RetriesLeft /\ ~exhausted
    /\ exhausted' = TRUE
    /\ Callback(Mt, MtLoop)
    /\ UNCHANGED <<state, transport, connected, userClosed, attempt, hs, rxBuf, frag, sendFrag,
                   closeSent, mtVars, linkVars, history>>

Maintain ==
    MtExit \/ MtNothing \/ MtPing \/ MtPingFails \/ MtTick \/ MtStore \/ MtTimeout
        \/ MtRetry \/ MtBackoff \/ MtFailed \/ MtReconnected \/ MtGivesUp

-----------------------------------------------------------------------------
(***************************************************************************)
(* The receive thread.                                                     *)
(***************************************************************************)
\* Bytes of transport t that arrive while another transport is the client's.
Stale(t) == IF t = transport THEN lapses ELSE lapses \cup {"stale"}

\* QueueInbound and ConsumeHandshakeLocked.
OnTransportData(t, n) ==
    /\ Idle(Rx) /\ link[t] = "open" /\ n \in 1 .. Len(wire[t])
    /\ wire' = [wire EXCEPT ![t] = SubSeq(@, n + 1, Len(@))]
    /\ LET buffer == rxBuf \o SubSeq(wire[t], 1, n)
           head == hs = "none" /\ buffer[1].type \in {"accept", "refuse"}
       IN IF Len(buffer) > MaxParts
          THEN rxBuf' = <<>> /\ UNCHANGED hs /\ SetStack(Rx, <<FailFrame(t)>>)
          ELSE /\ rxBuf' = IF head THEN Tail(buffer) ELSE buffer
               /\ hs' = IF head THEN (IF buffer[1].type = "accept" THEN "ok" ELSE "bad") ELSE hs
               /\ SetStack(Rx, <<[Frame0 EXCEPT !.pc = "drain", !.own = t]>>)
    /\ lapses' = Stale(t)
    /\ UNCHANGED <<state, transport, connected, userClosed, attempt, exhausted, frag, sendFrag,
                   closeSent, mtVars, link, server, recent, budget, opened, told>>

\* TakeFrame: a frame the codec rejects fails the connection.
DrainFrames ==
    /\ At(Rx, "drain")
    /\ CASE hs = "none" \/ rxBuf = <<>> -> Return(Rx) /\ UNCHANGED rxBuf
         [] OTHER ->
              IF Head(rxBuf).type = "invalid"
              THEN SetStack(Rx, <<FailFrame(Top(Rx).own)>>) /\ UNCHANGED rxBuf
              ELSE /\ Continue(Rx, [Top(Rx) EXCEPT !.pc = "handle", !.p = Head(rxBuf)])
                   /\ rxBuf' = Tail(rxBuf)
    /\ UNCHANGED <<state, transport, connected, userClosed, attempt, exhausted, hs, frag, sendFrag,
                   closeSent, mtVars, linkVars, budget, history>>

Handling(type) == At(Rx, "handle") /\ Top(Rx).p.type = type

\* Mutant: a message that starts inside another is joined to it.
HandleDataFrameJoins ==
    /\ Handling("data")
    /\ LET p == Top(Rx).p
           parts == Append(frag.parts, p)
       IN IF p.fin
          THEN /\ Continue(Rx, [Top(Rx) EXCEPT !.pc = "deliver", !.parts = parts])
               /\ frag' = NoFragment
          ELSE /\ Continue(Rx, Draining)
               /\ frag' = [open |-> TRUE, parts |-> parts]
    /\ UNCHANGED <<state, transport, connected, userClosed, attempt, exhausted, hs, rxBuf, sendFrag,
                   closeSent, mtVars, linkVars, budget, history>>

\* HandleDataFrame: the frame starts a message, continues one, or breaks the rules.
HandleDataFrame ==
    /\ Handling("data")
    /\ LET p == Top(Rx).p
           parts == IF p.start THEN <<p>> ELSE Append(frag.parts, p)
       IN CASE p.start = frag.open ->
                 /\ SetStack(Rx, <<FailFrame(Top(Rx).own), Draining>>)
                 /\ UNCHANGED frag
            [] p.start # frag.open /\ Len(parts) > MaxParts ->
                 /\ SetStack(Rx, <<FailFrame(Top(Rx).own), Draining>>)
                 /\ frag' = [frag EXCEPT !.parts = parts]
            [] p.start # frag.open /\ Len(parts) <= MaxParts /\ p.fin ->
                 /\ Continue(Rx, [Top(Rx) EXCEPT !.pc = "deliver", !.parts = parts])
                 /\ frag' = NoFragment
            [] OTHER ->
                 /\ Continue(Rx, Draining)
                 /\ frag' = [open |-> TRUE, parts |-> parts]
    /\ lapses' = Stale(Top(Rx).own)
    /\ UNCHANGED <<state, transport, connected, userClosed, attempt, exhausted, hs, rxBuf, sendFrag,
                   closeSent, mtVars, linkVars, budget, opened, told>>

Deliver ==
    /\ At(Rx, "deliver")
    /\ Callback(Rx, <<Draining>>)
    /\ UNCHANGED <<clientVars, mtVars, linkVars, history>>

HandlePing ==
    /\ Handling("ping")
    /\ SendFrame("pong")
    /\ Continue(Rx, Draining)
    /\ UNCHANGED <<clientVars, mtVars, link, budget, history>>

HandlePong ==
    /\ Handling("pong")
    /\ ping' = "none"
    /\ Callback(Rx, <<Draining>>)
    /\ UNCHANGED <<clientVars, config, mtTask, mtRunning, linkVars, history>>

\* The peer's close is answered unless a close frame has gone out; then Teardown.
HandleCloseFrame ==
    /\ Handling("close")
    /\ closeSent' = TRUE
    /\ SetStack(Rx, IF closeSent THEN <<TeardownFrame(Top(Rx).own), Draining>>
                    ELSE <<[Top(Rx) EXCEPT !.pc = "answer"]>>)
    /\ UNCHANGED <<state, transport, connected, userClosed, attempt, exhausted, hs, rxBuf, frag,
                   sendFrag, mtVars, linkVars, budget, history>>

AnswerClose ==
    /\ At(Rx, "answer")
    /\ SendFrame("closed")
    /\ SetStack(Rx, <<TeardownFrame(Top(Rx).own), Draining>>)
    /\ UNCHANGED <<clientVars, mtVars, link, budget, history>>

HandleBadClose ==
    /\ Handling("badclose")
    /\ SetStack(Rx, <<FailFrame(Top(Rx).own), Draining>>)
    /\ UNCHANGED <<clientVars, mtVars, linkVars, budget, history>>

OnTransportClosed(t) ==
    /\ Idle(Rx) /\ CanSend(t)
    /\ CloseLink(t)
    /\ SetStack(Rx, <<TeardownFrame(t)>>)
    /\ UNCHANGED <<clientVars, mtVars, budget, history>>

Receive ==
    \/ \E t \in Transports : \E n \in 1 .. Len(wire[t]) : OnTransportData(t, n)
    \/ DrainFrames \/ HandleDataFrame \/ Deliver \/ HandlePing \/ HandlePong
    \/ HandleCloseFrame \/ AnswerClose \/ HandleBadClose

-----------------------------------------------------------------------------
Next ==
    \/ \E x \in Actors : Calls(x)
    \/ \E x \in {App, Mt} : Establishing(x)
    \/ Application
    \/ Maintain \/ TimePasses
    \/ Receive
    \/ ServerSendsData \/ \E type \in StrayTypes : ServerSends(type)
    \/ \E t \in Transports : LinkGoesSilent(t) \/ OnTransportClosed(t)

\* A thread that is in a call is scheduled, a wait ends at its timeout, the receive
\* thread takes what has arrived, the maintenance task keeps turning and time passes.
AppRuns == ~Idle(App) /\ (Calls(App) \/ Establishing(App) \/ Application)
RxRuns == Calls(Rx) \/ Receive
MtRuns == ~Idle(Mt) /\ (Calls(Mt) \/ Establishing(Mt) \/ Maintain)

Fairness ==
    /\ WF_(stack[App])(AppRuns) /\ WF_(stack[Rx])(RxRuns)
    /\ WF_<<stack[Mt], exhausted>>(MtRuns)
    /\ WF_<<ping, recent>>(TimePasses)

Spec == Init /\ [][Next]_vars /\ Fairness

-----------------------------------------------------------------------------
(***************************************************************************)
(* Properties.                                                             *)
(***************************************************************************)
\* Type invariant; the count of attempts stays within max_retries.
TypeOK ==
    /\ state \in {"down", "handshaking", "open"}
    /\ transport \in {0} \cup Transports
    /\ {connected, userClosed, exhausted, sendFrag, closeSent, heartbeat, mtTask, mtRunning, recent}
           \subseteq BOOLEAN
    /\ schedule \in Schedules /\ ping \in {"none", "sent", "overdue"}
    /\ attempt \in 0 .. MaxRetries
    /\ hs \in {"none", "ok", "bad"}
    /\ Len(rxBuf) <= MaxParts
    /\ frag.open \in BOOLEAN /\ Len(frag.parts) <= MaxParts + 1
    /\ link \in [Transports -> {"none", "open", "silent", "closed"}]
    /\ budget \in 0 .. MaxEvents
    /\ opened \subseteq Transports
    /\ told \in [Transports -> Nat]
    /\ lapses \subseteq {"strayed", "raced", "zombie", "late", "fragment", "unsent", "stale"}

\* A Teardown or an Establish has worked on a connection that was not its own: the
\* race that OpenHasTransport is about, and the ones next to it.
Confused == lapses \cap {"strayed", "raced", "zombie"} # {}

AtRest == Idle(App) /\ Idle(Rx) /\ (Idle(Mt) \/ Top(Mt).pc \in {"loop", "store", "tick"})

\* When no call is under way the client is open exactly when it has a transport,
\* IsConnected agrees, and the maintenance task is there for it.
OpenIsUsable ==
    (AtRest /\ ~Confused) =>
        /\ state = "open" <=> transport # 0
        /\ "late" \notin lapses => (state = "open" <=> connected)
        /\ state # "handshaking"
        /\ state = "open" => mtTask /\ (mtRunning \/ userClosed)

\* A message handed to on_message_ is the frames of one message of one connection,
\* from the frame that opened it to the one with fin, whatever came in between.
MessagesWhole ==
    (At(Rx, "deliver") /\ "stale" \notin lapses) =>
        LET parts == Top(Rx).parts
        IN /\ \A i \in DOMAIN parts :
                  /\ parts[i].m = Top(Rx).own
                  /\ parts[i].start <=> i = 1
                  /\ parts[i].fin <=> i = Len(parts)

\* The frames that reach the server are messages: a start, continuations, a fin,
\* unless a frame failed to go out or went out on a later connection.
OutboundWhole == server.malformed => lapses \cap {"unsent", "fragment", "strayed", "zombie"} # {}

\* on_disconnected_ runs at most once for a connection, only when the client no longer
\* holds it, and, unless connections were taken for one another, only for one the
\* application was told is open.
ToldOnce ==
    \A t \in Transports :
        /\ told[t] <= 1
        /\ told[t] = 1 => transport # t /\ (t \in opened \/ Confused)

\* A connection that was told to be open is reported as ended once it is given up,
\* unless a Teardown about another transport went in between.
EndIsTold ==
    \A t \in Transports :
        (t \in opened /\ transport # t) ~> (told[t] = 1 \/ Confused)

\* Connect, Close and the sends return.
CallReturns == ~Idle(App) ~> Idle(App)

\* The client is down, and the maintenance task has been asked to reconnect it.
Lost == schedule # "off" /\ state # "open" /\ mtRunning /\ ~userClosed /\ ~Confused

\* With a reconnect schedule of so many retries, a connection that drops is opened again
\* or the retries are used up; with an unlimited one there is another attempt, however
\* many have failed; without a schedule nothing is promised.
Reconnects ==
    Lost ~> ~Lost \/ exhausted \/ (schedule = "unlimited" /\ At(Mt, "establish"))

\* The peer has gone without a close, with the heartbeat on.
Abandoned ==
    /\ state = "open" /\ heartbeat /\ transport # 0 /\ link[transport] = "silent"
    /\ ~userClosed /\ ~Confused

\* A peer that has stopped answering is noticed by the heartbeat, which gives the
\* connection up.  There are three ways to put that off for ever, and no other: the
\* application goes on sending, so that no ping is due; it goes on pinging, which moves
\* the deadline; or every ping of the heartbeat fails to go out.
DeadPeerNoticed ==
    \/ []<><<SendData>>_vars \/ []<><<PingStore>>_vars \/ []<><<MtPingFails>>_vars
    \/ Abandoned ~> ~Abandoned

-----------------------------------------------------------------------------
(***************************************************************************)
(* What comments of the code promise and the code does not keep: TLC finds *)
(* a counterexample to each of these.                                      *)
(***************************************************************************)
\* Establish ("so a successful return means a usable connection"): an open client
\* has a transport.
OpenHasTransport == state = "open" => transport # 0
=============================================================================
