------------------------------- MODULE AtUart -------------------------------
(***************************************************************************)
(* The AT command channel (src/at_channel/at_uart.cpp): application        *)
(* threads that send commands, the receive task that turns the module's    *)
(* lines into responses, and the module at the other end of the UART.      *)
(*                                                                         *)
(* Every access to state the two sides share (command_in_progress_, the    *)
(* response under response_mutex_, the event bits, prompt_armed_) is a     *)
(* step of its own, so that the races between a command that gives up and  *)
(* a line that is already in the receive task's hands can happen.          *)
(*                                                                         *)
(* A line carries the number of the command that provoked it.  The code    *)
(* cannot see that number: it is there so that the properties can tell     *)
(* whose answer a call was completed by.  For the same reason an event bit *)
(* holds the line that set it; the code only tells NoLine (clear) from any *)
(* other value (set).                                                      *)
(***************************************************************************)
EXTENDS Naturals, Sequences

CONSTANTS
    Threads,         \* threads of the application that use the channel
    Rx,              \* the receive task, when a URC handler sends on it
    Free,            \* the value of command_mutex_ when nobody holds it
    MaxCalls,        \* bound: no call is made once so many got the mutex
    MaxUrcs,         \* bound: unsolicited lines of the module
    MaxWire,         \* bound: lines on their way to the receive task
    Ops,             \* the channel operations the threads call
    HandlerMaySend   \* whether a URC handler breaks the rule not to send

ASSUME CallersAssumption ==
    /\ Rx \notin Threads
    /\ Free \notin Threads \cup {Rx}

ASSUME BoundsAssumption ==
    /\ MaxCalls \in Nat
    /\ MaxUrcs \in Nat
    /\ MaxWire \in Nat
    /\ HandlerMaySend \in BOOLEAN

AllOps == {"SendCommand", "SendCommandWithData", "SendDataAfterPrompt", "SendLine"}

ASSUME OpsAssumption == Ops \subseteq AllOps

Callers == Threads \cup {Rx}

(***************************************************************************)
(* Lines.  "gt" is ">" followed by CRLF, a line; "prompt" is "> " with no  *)
(* terminator, which never becomes a line.  "event" is an answer that is   *)
(* no response (CONNECT OK, SEND OK), "urc" a line nothing provoked.       *)
(***************************************************************************)
LineKinds == {"echo", "info", "event", "urc", "ok", "error", "gt", "prompt"}

Line == [kind : LineKinds, cmd : Nat]

NoLine == [kind |-> "none", cmd |-> 0]

MaybeLine == Line \cup {NoLine}

Msg(k, id) == [kind |-> k, cmd |-> id]

\* What ends a response for ProcessLine, and what ends it for ParseResponse:
\* the parser also stops at a ">" line and counts it as success.
StatusKinds == {"ok", "error"}
FinalKinds == StatusKinds \cup {"gt"}

\* ParseResponse: an echo in the first place is dropped, the first final line
\* decides, and the lines in front of it are the response's lines.
ParseResponse(b) ==
    LET body == IF b # <<>> /\ b[1].kind = "echo" THEN Tail(b) ELSE b
        finals == {i \in 1 .. Len(body) : body[i].kind \in FinalKinds}
        first == CHOOSE i \in finals : \A j \in finals : i <= j
    IN  IF finals = {}
        THEN [status |-> NoLine, lines |-> body]
        ELSE [status |-> body[first], lines |-> SubSeq(body, 1, first - 1)]

EmptyResponse == [status |-> NoLine, lines |-> <<>>]

ParsedOk(p) == p.status.kind \in {"ok", "gt"}

VARIABLES
    pc,          \* where each caller is in the call it makes
    call,        \* that call: operation, number, result, line that ended it
    mutex,       \* command_mutex_
    nextId,      \* number of the next call that gets the mutex
    cip,         \* command_in_progress_
    armed,       \* prompt_armed_
    bits,        \* event_group_: ResponseDone and DataPrompt
    buffer,      \* response_buffer_, as the lines in it
    parsed,      \* parsed_response_
    rxpc,        \* where the receive task is with its line
    rxline,      \* the line in its hands
    uplink,      \* bytes written to the module
    wire,        \* lines written by the module
    collecting,  \* the send the module is collecting a payload for
    urcs,        \* unsolicited lines so far
    payloads,    \* history: payloads written, each with its prompt
    late,        \* history: an answer may come that no call waits for
    readback     \* what the last GetResponseLines returned

callVars == <<pc, call, mutex, nextId>>
sharedVars == <<cip, armed, bits, buffer, parsed>>
rxVars == <<rxpc, rxline>>
moduleVars == <<uplink, wire, collecting, urcs>>
historyVars == <<payloads, late, readback>>
vars == <<callVars, sharedVars, rxVars, moduleVars, historyVars>>

NoCall == [op |-> "none", id |-> 0, res |-> "none", by |-> NoLine]

NoReadback == [id |-> 0, fresh |-> FALSE, lines |-> <<>>]

NotCollecting == [op |-> "none", id |-> 0]

NoBits == [done |-> NoLine, prompt |-> NoLine]

Init ==
    /\ pc = [t \in Callers |-> "idle"]
    /\ call = [t \in Callers |-> NoCall]
    /\ mutex = Free
    /\ nextId = 1
    /\ cip = FALSE
    /\ armed = FALSE
    /\ bits = NoBits
    /\ buffer = <<>>
    /\ parsed = EmptyResponse
    /\ rxpc = "idle"
    /\ rxline = NoLine
    /\ uplink = <<>>
    /\ wire = <<>>
    /\ collecting = NotCollecting
    /\ urcs = 0
    /\ payloads = {}
    /\ late = FALSE
    /\ readback = NoReadback

-----------------------------------------------------------------------------
(***************************************************************************)
(* The sending side.                                                       *)
(***************************************************************************)
HasBit(line) == line # NoLine

GoTo(t, l) == pc' = [pc EXCEPT ![t] = l]

Ends(t, res, by) == call' = [call EXCEPT ![t] = [@ EXCEPT !.res = res, !.by = by]]

\* A thread calls the channel; a call number is drawn with the mutex.
Invoke(t, op) ==
    /\ pc[t] = "idle"
    /\ call' = [call EXCEPT ![t] = [NoCall EXCEPT !.op = op]]
    /\ GoTo(t, "lock")
    /\ UNCHANGED <<mutex, nextId, sharedVars, moduleVars, historyVars>>

\* lock_guard on command_mutex_, then command_in_progress_ = true.  SendLine
\* takes the mutex only.
Acquire(t) ==
    /\ pc[t] = "lock"
    /\ mutex = Free
    /\ mutex' = t
    /\ call' = [call EXCEPT ![t] = [@ EXCEPT !.id = nextId]]
    /\ nextId' = nextId + 1
    /\ IF call[t].op = "SendLine"
       THEN GoTo(t, "write") /\ UNCHANGED cip
       ELSE GoTo(t, "clear") /\ cip' = TRUE
    /\ UNCHANGED <<armed, bits, buffer, parsed, rxVars, moduleVars, historyVars>>

\* Mutant: the lines of the previous response stay in the buffer.
ClearResponseKeepsBuffer(t) ==
    /\ pc[t] = "clear"
    /\ parsed' = EmptyResponse
    /\ GoTo(t, "clearbits")
    /\ UNCHANGED <<call, mutex, nextId, cip, armed, bits, buffer, rxVars, moduleVars,
                   historyVars>>

\* response_buffer_ and parsed_response_ are reset under response_mutex_.
ClearResponse(t) ==
    /\ pc[t] = "clear"
    /\ buffer' = <<>>
    /\ parsed' = EmptyResponse
    /\ GoTo(t, "clearbits")
    /\ UNCHANGED <<call, mutex, nextId, cip, armed, bits, rxVars, moduleVars,
                   historyVars>>

\* Mutant: a bit left by an earlier call is not cleared.
ClearBitsKeepsDone(t) ==
    /\ pc[t] = "clearbits"
    /\ GoTo(t, "write")
    /\ UNCHANGED <<call, mutex, nextId, sharedVars, rxVars, moduleVars, historyVars>>

\* SendCommand leaves the DataPrompt bit alone, the other two clear both.
ClearBits(t) ==
    /\ pc[t] = "clearbits"
    /\ bits' = IF call[t].op = "SendCommand" THEN [bits EXCEPT !.done = NoLine]
               ELSE NoBits
    /\ GoTo(t, "write")
    /\ UNCHANGED <<call, mutex, nextId, cip, armed, buffer, parsed, rxVars,
                   moduleVars, historyVars>>

\* Writes the command.  SendDataAfterPrompt arms the prompt first.  A SendLine
\* ends here: its answer is for the URC handlers.
WriteCommand(t) ==
    /\ pc[t] = "write"
    /\ uplink' = Append(uplink, [op |-> call[t].op, id |-> call[t].id])
    /\ armed' = (armed \/ call[t].op = "SendDataAfterPrompt")
    /\ CASE call[t].op = "SendLine" ->
              /\ GoTo(t, "idle") /\ Ends(t, "ok", NoLine)
              /\ mutex' = Free /\ late' = TRUE
         [] call[t].op = "SendCommand" ->
              GoTo(t, "wait") /\ UNCHANGED <<call, mutex, late>>
         [] OTHER ->
              GoTo(t, "waitprompt") /\ UNCHANGED <<call, mutex, late>>
    /\ UNCHANGED <<nextId, cip, bits, buffer, parsed, rxVars, wire, collecting,
                   urcs, payloads, readback>>

\* Mutant: the early return forgets command_in_progress_.
WriteCommandFailsLeavesWindow(t) ==
    /\ pc[t] = "write"
    /\ armed' = (armed /\ call[t].op # "SendDataAfterPrompt")
    /\ Ends(t, "txfail", NoLine)
    /\ mutex' = Free
    /\ GoTo(t, "idle")
    /\ UNCHANGED <<nextId, cip, bits, buffer, parsed, rxVars, moduleVars, historyVars>>

\* uart_.Send failed before the command was out: both flags are taken back and
\* the call returns kTransmitFailed.
WriteCommandFails(t) ==
    /\ pc[t] = "write"
    /\ armed' = (armed /\ call[t].op # "SendDataAfterPrompt")
    /\ cip' = (cip /\ call[t].op = "SendLine")
    /\ Ends(t, "txfail", NoLine)
    /\ mutex' = Free
    /\ GoTo(t, "idle")
    /\ UNCHANGED <<nextId, bits, buffer, parsed, rxVars, moduleVars, historyVars>>

\* WaitBits(ResponseDone), cleared on exit.
WaitDone(t) ==
    /\ pc[t] = "wait"
    /\ HasBit(bits.done)
    /\ bits' = [bits EXCEPT !.done = NoLine]
    /\ Ends(t, "none", bits.done)
    /\ GoTo(t, "endwindow")
    /\ UNCHANGED <<mutex, nextId, cip, armed, buffer, parsed, rxVars, moduleVars,
                   historyVars>>

\* Mutant: the wait starts over instead of giving up.
WaitTimeoutLoops(t) ==
    /\ pc[t] = "wait"
    /\ ~HasBit(bits.done)
    /\ UNCHANGED vars

WaitTimeout(t) ==
    /\ pc[t] = "wait"
    /\ ~HasBit(bits.done)
    /\ Ends(t, "timeout", NoLine)
    /\ late' = TRUE
    /\ GoTo(t, "endwindow")
    /\ UNCHANGED <<mutex, nextId, sharedVars, rxVars, moduleVars, payloads, readback>>

\* Mutant: the result of the wait is not tested.
WaitPromptUntested(t) ==
    /\ pc[t] = "waitprompt"
    /\ IF call[t].op = "SendDataAfterPrompt"
       THEN bits' = NoBits /\ GoTo(t, "disarm")
       ELSE bits' = [bits EXCEPT !.prompt = NoLine] /\ GoTo(t, "payload")
    /\ Ends(t, "none", bits.prompt)
    /\ UNCHANGED <<mutex, nextId, cip, armed, buffer, parsed, rxVars, moduleVars,
                   historyVars>>

\* SendCommandWithData waits for the prompt alone and SendDataAfterPrompt for
\* the prompt or a response; clear-on-exit clears every bit waited for.
WaitPrompt(t) ==
    /\ pc[t] = "waitprompt"
    /\ HasBit(bits.prompt)
    /\ IF call[t].op = "SendDataAfterPrompt"
       THEN bits' = NoBits /\ GoTo(t, "disarm")
       ELSE bits' = [bits EXCEPT !.prompt = NoLine] /\ GoTo(t, "payload")
    /\ Ends(t, "none", bits.prompt)
    /\ UNCHANGED <<mutex, nextId, cip, armed, buffer, parsed, rxVars, moduleVars,
                   historyVars>>

WaitRefused(t) ==
    /\ pc[t] = "waitprompt"
    /\ call[t].op = "SendDataAfterPrompt"
    /\ ~HasBit(bits.prompt)
    /\ HasBit(bits.done)
    /\ bits' = NoBits
    /\ Ends(t, "none", bits.done)
    /\ GoTo(t, "disarm")
    /\ UNCHANGED <<mutex, nextId, cip, armed, buffer, parsed, rxVars, moduleVars,
                   historyVars>>

WaitPromptTimeout(t) ==
    /\ pc[t] = "waitprompt"
    /\ ~HasBit(bits.prompt)
    /\ call[t].op = "SendDataAfterPrompt" => ~HasBit(bits.done)
    /\ Ends(t, "timeout", NoLine)
    /\ late' = TRUE
    /\ GoTo(t, IF call[t].op = "SendDataAfterPrompt" THEN "disarm" ELSE "endwindow")
    /\ UNCHANGED <<mutex, nextId, sharedVars, rxVars, moduleVars, payloads, readback>>

\* Mutant: any of the two bits lets the payload out.
DisarmOnEitherBit(t) ==
    /\ pc[t] = "disarm"
    /\ armed' = FALSE
    /\ GoTo(t, IF HasBit(call[t].by) THEN "payload" ELSE "endwindow")
    /\ UNCHANGED <<call, mutex, nextId, cip, bits, buffer, parsed, rxVars,
                   moduleVars, historyVars>>

\* prompt_armed_ = false once the wait is over, whatever ended it.
Disarm(t) ==
    /\ pc[t] = "disarm"
    /\ armed' = FALSE
    /\ GoTo(t, IF call[t].by.kind \in {"prompt", "gt"} THEN "payload" ELSE "endwindow")
    /\ UNCHANGED <<call, mutex, nextId, cip, bits, buffer, parsed, rxVars,
                   moduleVars, historyVars>>

\* The payload goes out.  SendCommandWithData then waits for the response,
\* SendDataAfterPrompt is done.
WritePayload(t) ==
    /\ pc[t] = "payload"
    /\ uplink' = Append(uplink, [op |-> "payload", id |-> call[t].id])
    /\ payloads' = payloads \cup {<<call[t].id, call[t].by>>}
    /\ IF call[t].op = "SendDataAfterPrompt"
       THEN GoTo(t, "endwindow") /\ Ends(t, "ok", call[t].by)
       ELSE GoTo(t, "wait") /\ UNCHANGED call
    /\ UNCHANGED <<mutex, nextId, sharedVars, rxVars, wire, collecting, urcs,
                   late, readback>>

WritePayloadFails(t) ==
    /\ pc[t] = "payload"
    /\ Ends(t, "txfail", NoLine)
    /\ late' = TRUE
    /\ GoTo(t, "endwindow")
    /\ UNCHANGED <<mutex, nextId, sharedVars, rxVars, moduleVars, payloads, readback>>

\* command_in_progress_ = false.
EndWindow(t) ==
    /\ pc[t] = "endwindow"
    /\ cip' = FALSE
    /\ GoTo(t, "result")
    /\ UNCHANGED <<call, mutex, nextId, armed, bits, buffer, parsed, rxVars,
                   moduleVars, historyVars>>

\* The result is read under response_mutex_ and the command mutex released.  A
\* SendDataAfterPrompt that was answered OK without a prompt is a timeout.
Result(t) ==
    /\ pc[t] = "result"
    /\ IF call[t].res # "none"
       THEN UNCHANGED call
       ELSE Ends(t, CASE ~ParsedOk(parsed) -> "error"
                      [] call[t].op = "SendDataAfterPrompt" -> "timeout"
                      [] OTHER -> "ok", call[t].by)
    /\ mutex' = Free
    /\ GoTo(t, "idle")
    /\ UNCHANGED <<nextId, sharedVars, rxVars, moduleVars, historyVars>>

\* GetResponseLines takes response_mutex_ only, after the call has returned.
GetResponseLines(t) ==
    /\ pc[t] = "idle"
    /\ call[t].op = "SendCommand" /\ call[t].res = "ok"
    /\ readback' = [id |-> call[t].id, fresh |-> call[t].id = nextId - 1,
                    lines |-> parsed.lines]
    /\ UNCHANGED <<callVars, sharedVars, rxVars, moduleVars, payloads, late>>

-----------------------------------------------------------------------------
(***************************************************************************)
(* The receive task.                                                       *)
(***************************************************************************)
RxStep(next) == rxpc' = next /\ UNCHANGED rxline

\* The next line or prompt is framed.  A line is dispatched to the URC handlers
\* here, before anything else is done with it; handlers only record state.
RxTake ==
    /\ rxpc = "idle"
    /\ wire # <<>>
    /\ rxline' = Head(wire)
    /\ wire' = Tail(wire)
    /\ rxpc' = IF Head(wire).kind = "prompt" THEN "prompt" ELSE "check"
    /\ UNCHANGED <<callVars, sharedVars, uplink, collecting, urcs, historyVars>>

\* A handler that breaks the rule stated in ProcessLine and sends a command:
\* the receive task itself is the caller, and is not back before it returns.
RxHandlerSends ==
    /\ HandlerMaySend
    /\ rxpc = "check"
    /\ rxline.kind = "urc"
    /\ Invoke(Rx, "SendCommand")
    /\ RxStep("handling")

RxHandlerReturns ==
    /\ rxpc = "handling"
    /\ pc[Rx] = "idle"
    /\ RxStep("check2")
    /\ UNCHANGED <<callVars, sharedVars, moduleVars, historyVars>>

\* if (command_in_progress_)
RxCheck ==
    /\ rxpc \in {"check", "check2"}
    /\ RxStep(IF cip THEN "append" ELSE "idle")
    /\ UNCHANGED <<callVars, sharedVars, moduleVars, historyVars>>

AfterAppend(line) ==
    CASE line.kind \in StatusKinds -> "signal"
      [] line.kind = "gt" -> "setprompt"
      [] OTHER -> "idle"

RxAppend ==
    /\ rxpc = "append"
    /\ buffer' = Append(buffer, rxline)
    /\ RxStep(AfterAppend(rxline))
    /\ UNCHANGED <<callVars, cip, armed, bits, parsed, moduleVars, historyVars>>

\* A status line: the whole buffer is parsed and ResponseDone is set, both under
\* response_mutex_.
RxSignal ==
    /\ rxpc = "signal"
    /\ parsed' = ParseResponse(buffer)
    /\ bits' = [bits EXCEPT !.done = rxline]
    /\ RxStep("idle")
    /\ UNCHANGED <<callVars, cip, armed, buffer, moduleVars, historyVars>>

\* prompt_armed_.exchange(false): the prompt is consumed in any case, and only
\* signalled when it was armed.
RxPrompt ==
    /\ rxpc = "prompt"
    /\ armed' = FALSE
    /\ RxStep(IF armed THEN "setprompt" ELSE "idle")
    /\ UNCHANGED <<callVars, cip, bits, buffer, parsed, moduleVars, historyVars>>

RxSetPrompt ==
    /\ rxpc = "setprompt"
    /\ bits' = [bits EXCEPT !.prompt = rxline]
    /\ RxStep("idle")
    /\ UNCHANGED <<callVars, cip, armed, buffer, parsed, moduleVars, historyVars>>

-----------------------------------------------------------------------------
(***************************************************************************)
(* The module (external).  It takes what was written to it in order, at a  *)
(* time of its own choosing, and may leave any command unanswered.         *)
(***************************************************************************)
Emit(lines) ==
    /\ wire' = wire \o lines
    /\ Len(wire') <= MaxWire

Replies(op, id) ==
    CASE op = "SendCommand" ->
           {<<>>, <<Msg("ok", id)>>, <<Msg("error", id)>>,
            <<Msg("echo", id), Msg("info", id), Msg("ok", id)>>}
      [] op = "SendLine" -> {<<>>, <<Msg("event", id)>>, <<Msg("error", id)>>}
      [] OTHER -> {<<>>, <<Msg("error", id)>>, <<Msg("ok", id)>>}

\* Answers the oldest command without asking for a payload.
ModuleReplies ==
    /\ uplink # <<>> /\ collecting = NotCollecting
    /\ Head(uplink).op # "payload"
    /\ \E reply \in Replies(Head(uplink).op, Head(uplink).id) : Emit(reply)
    /\ uplink' = Tail(uplink)
    /\ UNCHANGED <<callVars, sharedVars, rxVars, collecting, urcs, historyVars>>

\* Prompts for the payload and starts to collect it.
ModulePrompts ==
    /\ uplink # <<>> /\ collecting = NotCollecting
    /\ Head(uplink).op \in {"SendDataAfterPrompt", "SendCommandWithData"}
    /\ Emit(<<Msg(IF Head(uplink).op = "SendDataAfterPrompt" THEN "prompt" ELSE "gt",
                  Head(uplink).id)>>)
    /\ collecting' = Head(uplink)
    /\ uplink' = Tail(uplink)
    /\ UNCHANGED <<callVars, sharedVars, rxVars, urcs, historyVars>>

\* While it collects, whatever is written is payload, a command included.  The
\* acknowledgement is an event for one kind of send and a status for the other.
ModuleCollects ==
    /\ uplink # <<>> /\ collecting # NotCollecting
    /\ \E k \in IF collecting.op = "SendDataAfterPrompt" THEN {"event"} ELSE StatusKinds :
         Emit(<<Msg(k, collecting.id)>>)
    /\ collecting' = NotCollecting
    /\ uplink' = Tail(uplink)
    /\ UNCHANGED <<callVars, sharedVars, rxVars, urcs, historyVars>>

\* A payload nobody is collecting is read as a command line and refused.
ModuleRefusesStray ==
    /\ uplink # <<>> /\ collecting = NotCollecting
    /\ Head(uplink).op = "payload"
    /\ Emit(<<Msg("error", Head(uplink).id)>>)
    /\ uplink' = Tail(uplink)
    /\ UNCHANGED <<callVars, sharedVars, rxVars, collecting, urcs, historyVars>>

ModuleUrc ==
    /\ urcs < MaxUrcs
    /\ Emit(<<Msg("urc", 0)>>)
    /\ urcs' = urcs + 1
    /\ UNCHANGED <<callVars, sharedVars, rxVars, uplink, collecting, historyVars>>

-----------------------------------------------------------------------------
Calls(t) ==
    /\ nextId <= MaxCalls
    /\ \E op \in Ops : Invoke(t, op)
    /\ UNCHANGED rxVars

Sender(t) ==
    \/ Acquire(t) \/ ClearResponse(t) \/ ClearBits(t)
    \/ WriteCommand(t) \/ WriteCommandFails(t)
    \/ WaitDone(t) \/ WaitTimeout(t)
    \/ WaitPrompt(t) \/ WaitRefused(t) \/ WaitPromptTimeout(t)
    \/ Disarm(t) \/ WritePayload(t) \/ WritePayloadFails(t)
    \/ EndWindow(t) \/ Result(t)

ReceiveTask ==
    \/ RxTake \/ RxHandlerSends \/ RxHandlerReturns \/ RxCheck \/ RxAppend
    \/ RxSignal \/ RxPrompt \/ RxSetPrompt

Module ==
    \/ ModuleReplies \/ ModulePrompts \/ ModuleCollects \/ ModuleRefusesStray
    \/ ModuleUrc

\* Nothing is left to do: the calls are made and every line has been read.
Quiet ==
    /\ nextId > MaxCalls
    /\ \A t \in Callers : pc[t] = "idle"
    /\ rxpc = "idle" /\ wire = <<>> /\ uplink = <<>> /\ urcs = MaxUrcs
    /\ UNCHANGED vars

Next ==
    \/ \E t \in Threads : Calls(t) \/ GetResponseLines(t)
    \/ \E t \in Callers : Sender(t)
    \/ ReceiveTask
    \/ Module
    \/ Quiet

Spec == Init /\ [][Next]_vars

\* The operating system keeps running every thread and the receive task, and
\* every wait of a sender ends by its timeout at the latest.  Nothing is assumed
\* of the module.
FairSpec ==
    /\ Spec
    /\ \A t \in Callers : WF_vars(Sender(t))
    /\ WF_vars(ReceiveTask)

-----------------------------------------------------------------------------
(***************************************************************************)
(* Properties.                                                             *)
(***************************************************************************)
PcValues == {"idle", "lock", "clear", "clearbits", "write", "wait", "waitprompt",
             "disarm", "payload", "endwindow", "result"}

RxPcValues == {"idle", "handling", "check", "check2", "append", "signal", "prompt",
               "setprompt"}

CallType == [op : AllOps \cup {"none"}, id : Nat,
             res : {"none", "ok", "error", "timeout", "txfail"}, by : MaybeLine]

Request == [op : AllOps \cup {"payload", "none"}, id : Nat]

\* The values the state of the channel, its users and the module can take.
TypeOK ==
    /\ pc \in [Callers -> PcValues]
    /\ call \in [Callers -> CallType]
    /\ mutex \in Callers \cup {Free}
    /\ nextId \in Nat
    /\ cip \in BOOLEAN
    /\ armed \in BOOLEAN
    /\ bits \in [done : MaybeLine, prompt : MaybeLine]
    /\ buffer \in Seq(Line)
    /\ parsed \in [status : MaybeLine, lines : Seq(Line)]
    /\ rxpc \in RxPcValues
    /\ rxline \in MaybeLine
    /\ (rxpc # "idle" => rxline \in Line)
    /\ uplink \in Seq(Request)
    /\ wire \in Seq(Line)
    /\ collecting \in Request
    /\ urcs \in Nat
    /\ \A t \in Callers : pc[t] = "payload" => call[t].by \in Line
    /\ payloads \subseteq (Nat \X Line)
    /\ late \in BOOLEAN
    /\ readback \in [id : Nat, fresh : BOOLEAN, lines : Seq(Line)]

InCall(t) == pc[t] \notin {"idle", "lock"}

InWindow(t) == InCall(t) /\ call[t].op # "SendLine" /\ pc[t] # "result"

\* Command windows do not overlap, and none is left open: a caller past the lock
\* is the one that holds command_mutex_; command_in_progress_ is true exactly
\* inside some caller's window; and the prompt is armed only while a
\* SendDataAfterPrompt waits for it.  A flag that an early return forgot to take
\* back would fold idle lines into a response nobody reads, or hand the next
\* stray prompt to the next payload.
CommandWindowExclusive ==
    /\ \A t \in Callers : InCall(t) <=> mutex = t
    /\ cip <=> \E t \in Callers : InWindow(t)
    /\ armed => \E t \in Callers : /\ call[t].op = "SendDataAfterPrompt"
                                  /\ pc[t] \in {"waitprompt", "disarm"}

\* iat_channel.h calls it a hard rule that a payload is not written unless the
\* prompt arrived.  Every payload was released by a prompt the receive task took
\* off the wire, never by a status line or a leftover of the event bits, and no
\* prompt released two payloads.
PayloadPerPrompt ==
    /\ \A p \in payloads : p[2].kind \in {"prompt", "gt"}
    /\ \A p, q \in payloads : p[2] = q[2] => p = q

Answered(t) == pc[t] = "idle" /\ call[t].res \in {"ok", "error"} /\ call[t].op # "SendLine"

\* As long as no call has given up and no SendLine was sent, the answers stay in
\* step with the commands: a call that returns an answer was ended by a line the
\* module wrote for it, and SendCommand reports what that line said.
AnswersInStep ==
    late \/ \A t \in Callers :
        Answered(t) =>
            /\ call[t].by.cmd = call[t].id
            /\ call[t].op = "SendCommand" => call[t].res = call[t].by.kind

\* As long as the answers are in step, GetResponseLines after a SendCommand that
\* no other call followed returns no response line of another command, although
\* it takes no part in the command mutex; events and unsolicited lines may be
\* among them.
ReadbackIsOwn ==
    (~late /\ readback.fresh) =>
        \A i \in DOMAIN readback.lines :
            \/ readback.lines[i].kind \in {"event", "urc"}
            \/ readback.lines[i].cmd = readback.id

\* A command sent by a URC handler, on the receive task, is never answered: the
\* task that would read the answer is the one that waits.  This is what the rule
\* in ProcessLine ("they must not send") guards against; a leftover event bit
\* must not make such a call look answered.
HandlerCallUnanswered == call[Rx].res \notin {"ok", "error"}

\* Every call returns, although the module may never answer, other threads may
\* hold the mutex, and a handler may block the receive task.
CallReturns == \A t \in Callers : (pc[t] # "idle") ~> (pc[t] = "idle")

-----------------------------------------------------------------------------
(***************************************************************************)
(* What comments of the code promise and the code does not keep: TLC finds *)
(* a counterexample to each of these.                                      *)
(***************************************************************************)
\* at_uart.h on prompt_armed_ ("Without it, a prompt left over from a command
\* that timed out would satisfy the next command's wait before its own prompt had
\* arrived"): a payload goes out on the prompt of its own command.
PayloadOnOwnPrompt == \A p \in payloads : p[2].cmd = p[1]
=============================================================================
