---------------------------- MODULE AtUartProofs ----------------------------
(* Proofs about the AT channel of AtUart. *)
EXTENDS AtUart, WellFoundedInduction, TLAPS

-----------------------------------------------------------------------------
(* What the operators on lines return. *)

\* The first final line of a response exists: a set of line numbers has a least one.
LEMMA LeastIndex ==
    ASSUME NEW S \in SUBSET Nat, S # {}
    PROVE  \E i \in S : \A j \in S : i <= j
<1>1. PICK m \in S : \A k \in S : ~ (<<k, m>> \in OpToRel(<, Nat))
  BY WFMin, NatLessThanWellFounded, Zenon
<1>2. \A k \in S : ~ (k < m)
  BY <1>1, Zenon DEF OpToRel
<1> QED  BY <1>2

\* ParseResponse takes its status and its lines from the buffer: whatever lines a
\* response window collected, the parsed response is made of lines.
LEMMA ParseResponseType ==
    ASSUME NEW b \in Seq(Line)
    PROVE  ParseResponse(b) \in [status : MaybeLine, lines : Seq(Line)]
<1> DEFINE body == IF b # <<>> /\ b[1].kind = "echo" THEN Tail(b) ELSE b
           finals == {i \in 1 .. Len(body) : body[i].kind \in FinalKinds}
           first == CHOOSE i \in finals : \A j \in finals : i <= j
<1>1. body \in Seq(Line)
  OBVIOUS
<1>2. CASE finals = {}
  <2>1. ParseResponse(b) = [status |-> NoLine, lines |-> body]
    BY <1>2 DEF ParseResponse
  <2> QED  BY <1>1, <2>1 DEF MaybeLine
<1>3. CASE finals # {}
  <2>1. ParseResponse(b) = [status |-> body[first], lines |-> SubSeq(body, 1, first - 1)]
    BY <1>3 DEF ParseResponse
  <2>2. Len(body) \in Nat
    BY <1>1
  <2>3. \E i \in finals : \A j \in finals : i <= j
    <3>1. finals \in SUBSET Nat
      BY <2>2
    <3> HIDE DEF finals
    <3> QED  BY <1>3, <3>1, LeastIndex
  <2>4. first \in finals
    BY <2>3
  <2>5. first \in 1 .. Len(body)
    BY <2>4
  <2>6. body[first] \in Line /\ SubSeq(body, 1, first - 1) \in Seq(Line)
    <3> HIDE DEF body, finals, first
    <3>1. body[first] \in Line
      BY <1>1, <2>5
    <3>2. \A i \in 1 .. (first - 1) : body[i] \in Line
      BY <1>1, <2>2, <2>5
    <3> QED  BY <1>1, <2>2, <2>5, <3>1, <3>2
  <2> HIDE DEF body, finals, first
  <2> QED  BY <2>1, <2>6 DEF MaybeLine
<1> QED  BY <1>2, <1>3

\* The module's answers are lines.
LEMMA RepliesType ==
    ASSUME NEW op, NEW id \in Nat
    PROVE  Replies(op, id) \subseteq Seq(Line)
<1>1. \A k \in LineKinds : Msg(k, id) \in Line
  BY DEF Msg, Line
<1>2. /\ Msg("ok", id) \in Line /\ Msg("error", id) \in Line /\ Msg("echo", id) \in Line
      /\ Msg("info", id) \in Line /\ Msg("event", id) \in Line
  BY <1>1 DEF LineKinds
<1>3. CASE op = "SendCommand"
  BY <1>2, <1>3 DEF Replies
<1>4. CASE op = "SendLine"
  BY <1>2, <1>4 DEF Replies
<1>5. CASE op # "SendCommand" /\ op # "SendLine"
  BY <1>2, <1>5 DEF Replies
<1> QED  BY <1>3, <1>4, <1>5

-----------------------------------------------------------------------------
(* Type correctness: TypeOK is inductive. *)

Results == {"none", "ok", "error", "timeout", "txfail"}

\* Recording how a call ended changes that call only, and only its result.
LEMMA EndsType ==
    ASSUME call \in [Callers -> CallType], NEW t \in Callers,
           NEW res \in Results, NEW by \in MaybeLine, Ends(t, res, by)
    PROVE  /\ call' \in [Callers -> CallType]
           /\ call'[t].by = by /\ call'[t].op = call[t].op
           /\ \A u \in Callers : u # t => call'[u] = call[u]
<1>1. call[t] \in CallType
  OBVIOUS
<1>2. [call[t] EXCEPT !.res = res, !.by = by] \in CallType
  BY <1>1 DEF CallType, Results
<1>3. call' = [call EXCEPT ![t] = [call[t] EXCEPT !.res = res, !.by = by]]
  BY DEF Ends
<1> QED  BY <1>1, <1>2, <1>3 DEF CallType

\* A caller goes on to a program point.
LEMMA GoToType ==
    ASSUME pc \in [Callers -> PcValues], NEW t \in Callers, NEW l \in PcValues, GoTo(t, l)
    PROVE  /\ pc' \in [Callers -> PcValues]
           /\ pc'[t] = l
           /\ \A u \in Callers : u # t => pc'[u] = pc[u]
BY DEF GoTo

\* The channel starts with typed values.
LEMMA InitTypeOK == Init => TypeOK
<1> SUFFICES ASSUME Init PROVE TypeOK
  OBVIOUS
<1>1. NoCall \in CallType
  BY DEF NoCall, CallType, MaybeLine
<1>2. pc \in [Callers -> PcValues] /\ call \in [Callers -> CallType]
  BY <1>1 DEF Init, PcValues
<1>3. \A t \in Callers : pc[t] # "payload"
  BY DEF Init
<1>4. /\ bits \in [done : MaybeLine, prompt : MaybeLine]
      /\ parsed \in [status : MaybeLine, lines : Seq(Line)]
      /\ readback \in [id : Nat, fresh : BOOLEAN, lines : Seq(Line)]
  BY DEF Init, NoBits, EmptyResponse, NoReadback, MaybeLine
<1>5. buffer \in Seq(Line) /\ wire \in Seq(Line) /\ uplink \in Seq(Request)
  BY DEF Init
<1>6. mutex \in Callers \cup {Free} /\ nextId \in Nat /\ urcs \in Nat
  BY DEF Init
<1>7. /\ cip \in BOOLEAN /\ armed \in BOOLEAN /\ late \in BOOLEAN
      /\ rxpc \in RxPcValues /\ rxline \in MaybeLine
      /\ (rxpc # "idle" => rxline \in Line)
  BY DEF Init, RxPcValues, MaybeLine
<1>8. collecting \in Request /\ payloads \subseteq (Nat \X Line)
  BY DEF Init, NotCollecting, Request
<1> QED  BY <1>2, <1>3, <1>4, <1>5, <1>6, <1>7, <1>8 DEF TypeOK
\* Every step of a caller inside SendCommand, SendCommandWithData, SendLine or
\* SendDataAfterPrompt keeps the types.
LEMMA SenderTypeOK ==
    ASSUME TypeOK, NEW t \in Callers, Sender(t)
    PROVE  TypeOK'
<1> USE DEF callVars, sharedVars, rxVars, moduleVars, historyVars
<1>0. /\ pc \in [Callers -> PcValues] /\ call \in [Callers -> CallType]
      /\ call[t].by \in MaybeLine /\ NoLine \in MaybeLine
      /\ bits.done \in MaybeLine /\ bits.prompt \in MaybeLine
  BY DEF TypeOK, CallType, MaybeLine
<1>1. CASE Acquire(t)
  <2>1. [call[t] EXCEPT !.id = nextId] \in CallType
    BY <1>0 DEF TypeOK, CallType
  <2>2. call' \in [Callers -> CallType] /\ \A u \in Callers : call'[u].by = call[u].by
    BY <1>1, <1>0, <2>1 DEF Acquire, CallType
  <2>3. pc' \in [Callers -> PcValues] /\ \A u \in Callers : pc'[u] = "payload" => pc[u] = "payload"
    BY <1>1, <1>0 DEF Acquire, GoTo, PcValues
  <2>4. mutex' \in Callers \cup {Free} /\ nextId' \in Nat
    BY <1>1 DEF Acquire, TypeOK
  <2>5. cip' \in BOOLEAN
    BY <1>1, Zenon DEF Acquire, TypeOK
  <2> QED  BY <1>1, <2>2, <2>3, <2>4, <2>5 DEF Acquire, TypeOK
<1>2. CASE ClearResponse(t)
  <2>1. /\ pc' \in [Callers -> PcValues]
        /\ \A u \in Callers : u # t => pc'[u] = pc[u]
    BY <1>2, <1>0 DEF ClearResponse, GoTo, PcValues
  <2>2. pc'[t] = "payload" => call[t].by \in Line
    BY <1>2, <1>0 DEF ClearResponse, GoTo, PcValues, MaybeLine, NoLine
  <2> QED  BY <1>2, <1>0, <2>1, <2>2 DEF ClearResponse, TypeOK, EmptyResponse
<1>3. CASE ClearBits(t)
  <2>1. /\ pc' \in [Callers -> PcValues]
        /\ \A u \in Callers : u # t => pc'[u] = pc[u]
    BY <1>3, <1>0 DEF ClearBits, GoTo, PcValues
  <2>2. pc'[t] = "payload" => call[t].by \in Line
    BY <1>3, <1>0 DEF ClearBits, GoTo, PcValues, MaybeLine, NoLine
  <2> QED  BY <1>3, <1>0, <2>1, <2>2 DEF ClearBits, TypeOK, NoBits
<1>4. CASE WriteCommand(t)
  <2>1. /\ call' \in [Callers -> CallType]
        /\ \A u \in Callers : u # t => call'[u] = call[u]
    BY <1>4, <1>0, EndsType DEF WriteCommand, Results
  <2>2. /\ pc' \in [Callers -> PcValues]
        /\ \A u \in Callers : u # t => pc'[u] = pc[u]
    BY <1>4, <1>0 DEF WriteCommand, GoTo, PcValues
  <2>3. pc'[t] = "payload" => call'[t].by \in Line
    BY <1>4, <1>0, EndsType DEF WriteCommand, GoTo, PcValues, Results, HasBit, MaybeLine
  <2>4. uplink' \in Seq(Request) /\ mutex' \in Callers \cup {Free}
    BY <1>4, <1>0 DEF WriteCommand, TypeOK, Request, CallType
  <2>5. late' \in BOOLEAN /\ armed' \in BOOLEAN
    <3>1. CASE call[t].op = "SendLine"
      BY <1>4, <3>1, Zenon DEF WriteCommand, TypeOK
    <3>2. CASE call[t].op # "SendLine"
      <4>1. late' = late
        BY <1>4, <3>2 DEF WriteCommand
      <4> QED  BY <1>4, <4>1, Zenon DEF WriteCommand, TypeOK
    <3> QED  BY <3>1, <3>2
  <2> QED  BY <1>4, <1>0, <2>1, <2>2, <2>3, <2>4, <2>5 DEF WriteCommand, TypeOK
<1>5. CASE WriteCommandFails(t)
  <2>1. /\ call' \in [Callers -> CallType]
        /\ \A u \in Callers : u # t => call'[u] = call[u]
    BY <1>5, <1>0, EndsType DEF WriteCommandFails, Results
  <2>2. /\ pc' \in [Callers -> PcValues]
        /\ \A u \in Callers : u # t => pc'[u] = pc[u]
    BY <1>5, <1>0 DEF WriteCommandFails, GoTo, PcValues
  <2>3. pc'[t] = "payload" => call'[t].by \in Line
    BY <1>5, <1>0, EndsType DEF WriteCommandFails, GoTo, PcValues, Results, HasBit, MaybeLine
  <2> QED  BY <1>5, <1>0, <2>1, <2>2, <2>3 DEF WriteCommandFails, TypeOK
<1>6. CASE WaitDone(t)
  <2>1. /\ call' \in [Callers -> CallType]
        /\ \A u \in Callers : u # t => call'[u] = call[u]
    BY <1>6, <1>0, EndsType DEF WaitDone, Results
  <2>2. /\ pc' \in [Callers -> PcValues]
        /\ \A u \in Callers : u # t => pc'[u] = pc[u]
    BY <1>6, <1>0 DEF WaitDone, GoTo, PcValues
  <2>3. pc'[t] = "payload" => call'[t].by \in Line
    BY <1>6, <1>0, EndsType DEF WaitDone, GoTo, PcValues, Results, HasBit, MaybeLine
  <2> QED  BY <1>6, <1>0, <2>1, <2>2, <2>3 DEF WaitDone, TypeOK
<1>7. CASE WaitTimeout(t)
  <2>1. /\ call' \in [Callers -> CallType]
        /\ \A u \in Callers : u # t => call'[u] = call[u]
    BY <1>7, <1>0, EndsType DEF WaitTimeout, Results
  <2>2. /\ pc' \in [Callers -> PcValues]
        /\ \A u \in Callers : u # t => pc'[u] = pc[u]
    BY <1>7, <1>0 DEF WaitTimeout, GoTo, PcValues
  <2>3. pc'[t] = "payload" => call'[t].by \in Line
    BY <1>7, <1>0, EndsType DEF WaitTimeout, GoTo, PcValues, Results, HasBit, MaybeLine
  <2> QED  BY <1>7, <1>0, <2>1, <2>2, <2>3 DEF WaitTimeout, TypeOK
<1>8. CASE WaitPrompt(t)
  <2>1. /\ call' \in [Callers -> CallType]
        /\ \A u \in Callers : u # t => call'[u] = call[u]
    BY <1>8, <1>0, EndsType DEF WaitPrompt, Results
  <2>2. /\ pc' \in [Callers -> PcValues]
        /\ \A u \in Callers : u # t => pc'[u] = pc[u]
    BY <1>8, <1>0 DEF WaitPrompt, GoTo, PcValues
  <2>3. pc'[t] = "payload" => call'[t].by \in Line
    BY <1>8, <1>0, EndsType DEF WaitPrompt, GoTo, PcValues, Results, HasBit, MaybeLine
  <2>4. bits' \in [done : MaybeLine, prompt : MaybeLine]
    BY <1>8, <1>0 DEF WaitPrompt, TypeOK, NoBits
  <2> QED  BY <1>8, <1>0, <2>1, <2>2, <2>3, <2>4 DEF WaitPrompt, TypeOK
<1>9. CASE WaitRefused(t)
  <2>1. /\ call' \in [Callers -> CallType]
        /\ \A u \in Callers : u # t => call'[u] = call[u]
    BY <1>9, <1>0, EndsType DEF WaitRefused, Results
  <2>2. /\ pc' \in [Callers -> PcValues]
        /\ \A u \in Callers : u # t => pc'[u] = pc[u]
    BY <1>9, <1>0 DEF WaitRefused, GoTo, PcValues
  <2>3. pc'[t] = "payload" => call'[t].by \in Line
    BY <1>9, <1>0, EndsType DEF WaitRefused, GoTo, PcValues, Results, HasBit, MaybeLine
  <2> QED  BY <1>9, <1>0, <2>1, <2>2, <2>3 DEF WaitRefused, TypeOK, NoBits
<1>10. CASE WaitPromptTimeout(t)
  <2>1. /\ call' \in [Callers -> CallType]
        /\ \A u \in Callers : u # t => call'[u] = call[u]
    BY <1>10, <1>0, EndsType DEF WaitPromptTimeout, Results
  <2>2. /\ pc' \in [Callers -> PcValues]
        /\ \A u \in Callers : u # t => pc'[u] = pc[u]
    BY <1>10, <1>0 DEF WaitPromptTimeout, GoTo, PcValues
  <2>3. pc'[t] = "payload" => call'[t].by \in Line
    BY <1>10, <1>0, EndsType DEF WaitPromptTimeout, GoTo, PcValues, Results, HasBit, MaybeLine
  <2> QED  BY <1>10, <1>0, <2>1, <2>2, <2>3 DEF WaitPromptTimeout, TypeOK
<1>11. CASE Disarm(t)
  <2>1. /\ pc' \in [Callers -> PcValues]
        /\ \A u \in Callers : u # t => pc'[u] = pc[u]
    BY <1>11, <1>0 DEF Disarm, GoTo, PcValues
  <2>2. pc'[t] = "payload" => call[t].by \in Line
    BY <1>11, <1>0 DEF Disarm, GoTo, PcValues, MaybeLine, NoLine
  <2> QED  BY <1>11, <1>0, <2>1, <2>2 DEF Disarm, TypeOK, NoLine
<1>12. CASE WritePayload(t)
  <2>1. /\ call' \in [Callers -> CallType]
        /\ \A u \in Callers : u # t => call'[u] = call[u]
    BY <1>12, <1>0, EndsType DEF WritePayload, Results
  <2>2. /\ pc' \in [Callers -> PcValues]
        /\ \A u \in Callers : u # t => pc'[u] = pc[u]
    BY <1>12, <1>0 DEF WritePayload, GoTo, PcValues
  <2>3. pc'[t] = "payload" => call'[t].by \in Line
    BY <1>12, <1>0, EndsType DEF WritePayload, GoTo, PcValues, Results, HasBit, MaybeLine
  <2>4. uplink' \in Seq(Request) /\ payloads' \subseteq (Nat \X Line)
    BY <1>12, <1>0 DEF WritePayload, TypeOK, Request, CallType
  <2> QED  BY <1>12, <1>0, <2>1, <2>2, <2>3, <2>4 DEF WritePayload, TypeOK
<1>13. CASE WritePayloadFails(t)
  <2>1. /\ call' \in [Callers -> CallType]
        /\ \A u \in Callers : u # t => call'[u] = call[u]
    BY <1>13, <1>0, EndsType DEF WritePayloadFails, Results
  <2>2. /\ pc' \in [Callers -> PcValues]
        /\ \A u \in Callers : u # t => pc'[u] = pc[u]
    BY <1>13, <1>0 DEF WritePayloadFails, GoTo, PcValues
  <2>3. pc'[t] = "payload" => call'[t].by \in Line
    BY <1>13, <1>0, EndsType DEF WritePayloadFails, GoTo, PcValues, Results, HasBit, MaybeLine
  <2> QED  BY <1>13, <1>0, <2>1, <2>2, <2>3 DEF WritePayloadFails, TypeOK
<1>14. CASE EndWindow(t)
  <2>1. /\ pc' \in [Callers -> PcValues]
        /\ \A u \in Callers : u # t => pc'[u] = pc[u]
    BY <1>14, <1>0 DEF EndWindow, GoTo, PcValues
  <2>2. pc'[t] = "payload" => call[t].by \in Line
    BY <1>14, <1>0 DEF EndWindow, GoTo, PcValues, MaybeLine, NoLine
  <2> QED  BY <1>14, <1>0, <2>1, <2>2 DEF EndWindow, TypeOK
<1>15. CASE Result(t)
  <2>1. /\ call' \in [Callers -> CallType]
        /\ \A u \in Callers : u # t => call'[u] = call[u]
    BY <1>15, <1>0, EndsType DEF Result, Results
  <2>2. /\ pc' \in [Callers -> PcValues]
        /\ \A u \in Callers : u # t => pc'[u] = pc[u]
    BY <1>15, <1>0 DEF Result, GoTo, PcValues
  <2>3. pc'[t] = "payload" => call'[t].by \in Line
    BY <1>15, <1>0, EndsType DEF Result, GoTo, PcValues, Results, HasBit, MaybeLine
  <2> QED  BY <1>15, <1>0, <2>1, <2>2, <2>3 DEF Result, TypeOK
<1> QED
  BY <1>1, <1>2, <1>3, <1>4, <1>5, <1>6, <1>7, <1>8, <1>9, <1>10, <1>11, <1>12, <1>13, <1>14,
     <1>15 DEF Sender

\* A thread entering a call, and a thread reading the response lines back.
LEMMA CallsTypeOK ==
    ASSUME TypeOK, NEW t \in Callers, NEW op \in AllOps, Invoke(t, op),
           rxpc' \in RxPcValues, rxline' \in MaybeLine, rxpc' # "idle" => rxline' \in Line
    PROVE  TypeOK'
<1> USE DEF sharedVars, moduleVars, historyVars
<1>1. [NoCall EXCEPT !.op = op] \in CallType
  BY DEF NoCall, CallType, MaybeLine
<1>2. /\ call' \in [Callers -> CallType]
      /\ \A u \in Callers : u # t => call'[u] = call[u]
  BY <1>1 DEF Invoke, TypeOK
<1>3. /\ pc' \in [Callers -> PcValues] /\ pc'[t] # "payload"
      /\ \A u \in Callers : u # t => pc'[u] = pc[u]
  BY DEF Invoke, TypeOK, GoTo, PcValues
<1> QED  BY <1>2, <1>3 DEF Invoke, TypeOK

\* Reading the response back (GetResponseLines) keeps the types.
LEMMA GetResponseLinesTypeOK ==
    ASSUME TypeOK, NEW t \in Callers, GetResponseLines(t)
    PROVE  TypeOK'
<1> USE DEF callVars, sharedVars, rxVars, moduleVars
<1>1. readback' \in [id : Nat, fresh : BOOLEAN, lines : Seq(Line)]
  <2>1. call[t].id \in Nat /\ parsed.lines \in Seq(Line)
    BY DEF TypeOK, CallType
  <2> QED  BY <2>1 DEF GetResponseLines
<1> QED  BY <1>1 DEF GetResponseLines, TypeOK

\* Every step of the receive task keeps the types.
LEMMA ReceiveTaskTypeOK ==
    ASSUME TypeOK, ReceiveTask
    PROVE  TypeOK'
<1> USE DEF callVars, sharedVars, moduleVars, historyVars, RxStep, RxPcValues
<1>1. CASE RxTake
  <2>1. Head(wire) \in Line /\ wire' \in Seq(Line)
    BY <1>1 DEF RxTake, TypeOK
  <2> QED  BY <1>1, <2>1 DEF RxTake, TypeOK, MaybeLine
<1>2. CASE RxHandlerSends
  <2>1. Rx \in Callers /\ "SendCommand" \in AllOps
    BY DEF Callers, AllOps
  <2> QED  BY <1>2, <2>1, CallsTypeOK DEF RxHandlerSends, TypeOK
<1>3. CASE RxHandlerReturns
  BY <1>3 DEF RxHandlerReturns, TypeOK
<1>4. CASE RxCheck
  BY <1>4 DEF RxCheck, TypeOK
<1>5. CASE RxAppend
  <2>1. buffer' \in Seq(Line)
    BY <1>5 DEF RxAppend, TypeOK
  <2> QED  BY <1>5, <2>1 DEF RxAppend, TypeOK, AfterAppend
<1>6. CASE RxSignal
  <2>1. parsed' \in [status : MaybeLine, lines : Seq(Line)]
    BY <1>6, ParseResponseType DEF RxSignal, TypeOK
  <2> QED  BY <1>6, <2>1 DEF RxSignal, TypeOK
<1>7. CASE RxPrompt
  BY <1>7 DEF RxPrompt, TypeOK
<1>8. CASE RxSetPrompt
  BY <1>8 DEF RxSetPrompt, TypeOK
<1> QED
  BY <1>1, <1>2, <1>3, <1>4, <1>5, <1>6, <1>7, <1>8 DEF ReceiveTask

\* Every step of the module keeps the types.
LEMMA ModuleTypeOK ==
    ASSUME TypeOK, Module
    PROVE  TypeOK'
<1> USE DEF callVars, sharedVars, rxVars, historyVars
<1>1. \A k \in LineKinds, id \in Nat : <<Msg(k, id)>> \in Seq(Line)
  BY DEF Msg, Line
<1>2. ASSUME uplink # <<>> PROVE Head(uplink) \in Request /\ Tail(uplink) \in Seq(Request)
  BY <1>2 DEF TypeOK
<1>3. ASSUME NEW lines \in Seq(Line), Emit(lines) PROVE wire' \in Seq(Line)
  BY <1>3 DEF Emit, TypeOK
<1>4. CASE ModuleReplies
  <2>1. wire' \in Seq(Line)
    BY <1>2, <1>3, <1>4, RepliesType DEF ModuleReplies, Request
  <2> QED  BY <1>2, <1>4, <2>1 DEF ModuleReplies, TypeOK
<1>5. CASE ModulePrompts
  <2>1. wire' \in Seq(Line)
    BY <1>1, <1>2, <1>3, <1>5 DEF ModulePrompts, Request, LineKinds
  <2> QED  BY <1>2, <1>5, <2>1 DEF ModulePrompts, TypeOK
<1>6. CASE ModuleCollects
  <2>1. wire' \in Seq(Line)
    BY <1>1, <1>3, <1>6 DEF ModuleCollects, Request, LineKinds, StatusKinds, TypeOK
  <2> QED  BY <1>2, <1>6, <2>1 DEF ModuleCollects, TypeOK, NotCollecting, Request
<1>7. CASE ModuleRefusesStray
  <2>1. wire' \in Seq(Line)
    BY <1>1, <1>2, <1>3, <1>7 DEF ModuleRefusesStray, Request, LineKinds
  <2> QED  BY <1>2, <1>7, <2>1 DEF ModuleRefusesStray, TypeOK
<1>8. CASE ModuleUrc
  <2>1. wire' \in Seq(Line)
    BY <1>1, <1>3, <1>8 DEF ModuleUrc, LineKinds
  <2> QED  BY <1>8, <2>1 DEF ModuleUrc, TypeOK
<1> QED
  BY <1>4, <1>5, <1>6, <1>7, <1>8 DEF Module

\* A step that changes nothing keeps the types.
LEMMA StutterTypeOK ==
    ASSUME TypeOK, UNCHANGED vars
    PROVE  TypeOK'
BY DEF TypeOK, vars, callVars, sharedVars, rxVars, moduleVars, historyVars

\* Every step of the threads, the receive task and the module keeps the types.
LEMMA NextTypeOK == TypeOK /\ [Next]_vars => TypeOK'
<1> SUFFICES ASSUME TypeOK, [Next]_vars PROVE TypeOK'
  OBVIOUS
<1>1. ASSUME NEW t \in Threads, Calls(t) PROVE TypeOK'
  <2>1. PICK op \in Ops : Invoke(t, op)
    BY <1>1 DEF Calls
  <2> QED
    BY <1>1, <2>1, CallsTypeOK, OpsAssumption DEF Calls, TypeOK, rxVars, Callers
<1>2. ASSUME NEW t \in Threads, GetResponseLines(t) PROVE TypeOK'
  BY <1>2, GetResponseLinesTypeOK DEF Callers
<1>3. ASSUME NEW t \in Callers, Sender(t) PROVE TypeOK'
  BY <1>3, SenderTypeOK
<1>4. CASE ReceiveTask
  BY <1>4, ReceiveTaskTypeOK
<1>5. CASE Module
  BY <1>5, ModuleTypeOK
<1>6. CASE Quiet \/ UNCHANGED vars
  BY <1>6, StutterTypeOK DEF Quiet
<1> QED
  BY <1>1, <1>2, <1>3, <1>4, <1>5, <1>6 DEF Next

\* Every state of the channel has the types TypeOK names, for any number of threads,
\* calls and lines.
THEOREM TypeCorrect == Spec => []TypeOK
BY InitTypeOK, NextTypeOK, PTL DEF Spec

-----------------------------------------------------------------------------
(* The command window. *)

\* What the window invariant needs to be inductive: the points of the code that
\* SendLine and the other operations never reach.
WindowOps ==
    \A t \in Callers :
        /\ pc[t] \in PcValues \ {"idle", "lock", "write"} => call[t].op # "SendLine"
        /\ pc[t] = "disarm" => call[t].op = "SendDataAfterPrompt"

WindowInv == CommandWindowExclusive /\ WindowOps

\* The channel starts with no window open.
LEMMA InitWindow == Init => WindowInv
BY CallersAssumption DEF Init, WindowInv, WindowOps, CommandWindowExclusive, InCall,
   InWindow, Callers

\* A step of the caller that holds the mutex changes that caller alone, so it is
\* enough to look at the holder.
LEMMA HolderStep ==
    ASSUME TypeOK, TypeOK', WindowInv, NEW t \in Callers,
           \A u \in Callers : u # t => pc'[u] = pc[u] /\ call'[u] = call[u],
           mutex \in {Free, t},
           mutex' = IF InCall(t)' THEN t ELSE Free,
           cip' = InWindow(t)',
           armed' => /\ call'[t].op = "SendDataAfterPrompt"
                     /\ pc'[t] \in {"waitprompt", "disarm"},
           /\ pc'[t] \in PcValues \ {"idle", "lock", "write"} => call'[t].op # "SendLine"
           /\ pc'[t] = "disarm" => call'[t].op = "SendDataAfterPrompt"
    PROVE  WindowInv'
<1>1. \A u \in Callers : u # t => ~InCall(u) /\ ~InCall(u)'
  BY CallersAssumption DEF WindowInv, CommandWindowExclusive, InCall, Callers
<1>2. \A u \in Callers : InCall(u)' <=> mutex' = u
  BY <1>1, CallersAssumption DEF Callers
<1>3. cip' <=> \E u \in Callers : InWindow(u)'
  BY <1>1 DEF InWindow
<1>4. WindowOps'
  BY DEF WindowInv, WindowOps
<1> QED  BY <1>2, <1>3, <1>4 DEF WindowInv, CommandWindowExclusive

\* Every step of a caller keeps the windows apart.
LEMMA SenderWindow ==
    ASSUME TypeOK, TypeOK', WindowInv, NEW t \in Callers, Sender(t)
    PROVE  WindowInv'
<1> USE DEF callVars, sharedVars
<1>0. /\ pc \in [Callers -> PcValues] /\ call \in [Callers -> CallType]
      /\ cip \in BOOLEAN /\ armed \in BOOLEAN
  BY DEF TypeOK
<1>a. ASSUME InCall(t)
      PROVE  /\ mutex = t /\ \A u \in Callers : u # t => ~InCall(u)
             /\ cip <=> InWindow(t)
             /\ armed => /\ call[t].op = "SendDataAfterPrompt"
                         /\ pc[t] \in {"waitprompt", "disarm"}
  BY <1>a DEF WindowInv, CommandWindowExclusive, InWindow, InCall
<1>b. /\ pc[t] \in PcValues \ {"idle", "lock", "write"} => call[t].op # "SendLine"
      /\ pc[t] = "disarm" => call[t].op = "SendDataAfterPrompt"
  BY DEF WindowInv, WindowOps
<1>1. CASE Acquire(t)
  <2>1. \A u \in Callers : ~InCall(u)
    BY <1>1, CallersAssumption DEF Acquire, WindowInv, CommandWindowExclusive, Callers
  <2>2. ~cip /\ ~armed
    BY <2>1 DEF WindowInv, CommandWindowExclusive, InWindow, InCall
  <2>3. /\ call'[t].op = call[t].op
        /\ \A u \in Callers : u # t => pc'[u] = pc[u] /\ call'[u] = call[u]
    BY <1>0, <1>1 DEF Acquire, GoTo, CallType
  <2>4. CASE call[t].op = "SendLine"
    <3>1. pc'[t] = "write" /\ cip' = cip
      BY <1>0, <1>1, <2>4 DEF Acquire, GoTo
    <3>2. cip' = InWindow(t)' /\ InCall(t)'
      BY <1>0, <2>2, <2>3, <2>4, <3>1 DEF InWindow, InCall
    <3> QED  BY <1>1, <2>2, <2>3, <2>4, <3>1, <3>2, HolderStep DEF Acquire
  <2>5. CASE call[t].op # "SendLine"
    <3>1. pc'[t] = "clear" /\ cip' = TRUE
      BY <1>0, <1>1, <2>5 DEF Acquire, GoTo
    <3>2. cip' = InWindow(t)' /\ InCall(t)'
      BY <2>3, <2>5, <3>1 DEF InWindow, InCall
    <3> QED  BY <1>1, <2>2, <2>3, <2>5, <3>1, <3>2, HolderStep DEF Acquire
  <2> QED  BY <2>4, <2>5
<1>2. CASE ClearResponse(t)
  <2>1. InCall(t)
    BY <1>2 DEF ClearResponse, InCall
  <2>2. /\ call'[t].op = call[t].op
        /\ \A u \in Callers : u # t => pc'[u] = pc[u] /\ call'[u] = call[u]
    BY <1>0, <1>2 DEF ClearResponse, GoTo, Ends, CallType
  <2>3. mutex' = IF InCall(t)' THEN t ELSE Free
    BY <1>0, <1>a, <1>2, <2>1 DEF ClearResponse, GoTo, InCall
  <2>4. cip' = InWindow(t)'
    BY <1>0, <1>a, <1>b, <1>2, <2>1, <2>2 DEF ClearResponse, GoTo, InCall, InWindow, PcValues
  <2>5. armed' => /\ call'[t].op = "SendDataAfterPrompt"
                  /\ pc'[t] \in {"waitprompt", "disarm"}
    BY <1>0, <1>a, <1>2, <2>1, <2>2 DEF ClearResponse, GoTo
  <2>6. /\ pc'[t] \in PcValues \ {"idle", "lock", "write"} => call'[t].op # "SendLine"
        /\ pc'[t] = "disarm" => call'[t].op = "SendDataAfterPrompt"
    BY <1>0, <1>b, <1>2, <2>2 DEF ClearResponse, GoTo, PcValues
  <2> QED  BY <1>a, <2>1, <2>2, <2>3, <2>4, <2>5, <2>6, HolderStep
<1>3. CASE ClearBits(t)
  <2>1. InCall(t)
    BY <1>3 DEF ClearBits, InCall
  <2>2. /\ call'[t].op = call[t].op
        /\ \A u \in Callers : u # t => pc'[u] = pc[u] /\ call'[u] = call[u]
    BY <1>0, <1>3 DEF ClearBits, GoTo, Ends, CallType
  <2>3. mutex' = IF InCall(t)' THEN t ELSE Free
    BY <1>0, <1>a, <1>3, <2>1 DEF ClearBits, GoTo, InCall
  <2>4. cip' = InWindow(t)'
    BY <1>0, <1>a, <1>b, <1>3, <2>1, <2>2 DEF ClearBits, GoTo, InCall, InWindow, PcValues
  <2>5. armed' => /\ call'[t].op = "SendDataAfterPrompt"
                  /\ pc'[t] \in {"waitprompt", "disarm"}
    BY <1>0, <1>a, <1>3, <2>1, <2>2 DEF ClearBits, GoTo
  <2>6. /\ pc'[t] \in PcValues \ {"idle", "lock", "write"} => call'[t].op # "SendLine"
        /\ pc'[t] = "disarm" => call'[t].op = "SendDataAfterPrompt"
    BY <1>0, <1>b, <1>3, <2>2 DEF ClearBits, GoTo, PcValues
  <2> QED  BY <1>a, <2>1, <2>2, <2>3, <2>4, <2>5, <2>6, HolderStep
<1>4. CASE WriteCommand(t)
  <2>1. InCall(t)
    BY <1>4 DEF WriteCommand, InCall
  <2>2. /\ call'[t].op = call[t].op
        /\ \A u \in Callers : u # t => pc'[u] = pc[u] /\ call'[u] = call[u]
    BY <1>0, <1>4 DEF WriteCommand, GoTo, Ends, CallType
  <2>3. mutex' = IF InCall(t)' THEN t ELSE Free
    BY <1>0, <1>a, <1>4, <2>1 DEF WriteCommand, GoTo, InCall
  <2>4. cip' = InWindow(t)'
    BY <1>0, <1>a, <1>b, <1>4, <2>1, <2>2 DEF WriteCommand, GoTo, InCall, InWindow, PcValues
  <2>5. armed' => /\ call'[t].op = "SendDataAfterPrompt"
                  /\ pc'[t] \in {"waitprompt", "disarm"}
    BY <1>0, <1>a, <1>4, <2>1, <2>2 DEF WriteCommand, GoTo
  <2>6. /\ pc'[t] \in PcValues \ {"idle", "lock", "write"} => call'[t].op # "SendLine"
        /\ pc'[t] = "disarm" => call'[t].op = "SendDataAfterPrompt"
    BY <1>0, <1>b, <1>4, <2>2 DEF WriteCommand, GoTo, PcValues
  <2> QED  BY <1>a, <2>1, <2>2, <2>3, <2>4, <2>5, <2>6, HolderStep
<1>5. CASE WriteCommandFails(t)
  <2>1. InCall(t)
    BY <1>5 DEF WriteCommandFails, InCall
  <2>2. /\ call'[t].op = call[t].op
        /\ \A u \in Callers : u # t => pc'[u] = pc[u] /\ call'[u] = call[u]
    BY <1>0, <1>5 DEF WriteCommandFails, GoTo, Ends, CallType
  <2>3. mutex' = IF InCall(t)' THEN t ELSE Free
    BY <1>0, <1>a, <1>5, <2>1 DEF WriteCommandFails, GoTo, InCall
  <2>4. cip' = InWindow(t)'
    BY <1>0, <1>a, <1>b, <1>5, <2>1, <2>2 DEF WriteCommandFails, GoTo, InCall, InWindow, PcValues
  <2>5. armed' => /\ call'[t].op = "SendDataAfterPrompt"
                  /\ pc'[t] \in {"waitprompt", "disarm"}
    BY <1>0, <1>a, <1>5, <2>1, <2>2 DEF WriteCommandFails, GoTo
  <2>6. /\ pc'[t] \in PcValues \ {"idle", "lock", "write"} => call'[t].op # "SendLine"
        /\ pc'[t] = "disarm" => call'[t].op = "SendDataAfterPrompt"
    BY <1>0, <1>b, <1>5, <2>2 DEF WriteCommandFails, GoTo, PcValues
  <2> QED  BY <1>a, <2>1, <2>2, <2>3, <2>4, <2>5, <2>6, HolderStep
<1>6. CASE WaitDone(t)
  <2>1. InCall(t)
    BY <1>6 DEF WaitDone, InCall
  <2>2. /\ call'[t].op = call[t].op
        /\ \A u \in Callers : u # t => pc'[u] = pc[u] /\ call'[u] = call[u]
    BY <1>0, <1>6 DEF WaitDone, GoTo, Ends, CallType
  <2>3. mutex' = IF InCall(t)' THEN t ELSE Free
    BY <1>0, <1>a, <1>6, <2>1 DEF WaitDone, GoTo, InCall
  <2>4. cip' = InWindow(t)'
    BY <1>0, <1>a, <1>b, <1>6, <2>1, <2>2 DEF WaitDone, GoTo, InCall, InWindow, PcValues
  <2>5. armed' => /\ call'[t].op = "SendDataAfterPrompt"
                  /\ pc'[t] \in {"waitprompt", "disarm"}
    BY <1>0, <1>a, <1>6, <2>1, <2>2 DEF WaitDone, GoTo
  <2>6. /\ pc'[t] \in PcValues \ {"idle", "lock", "write"} => call'[t].op # "SendLine"
        /\ pc'[t] = "disarm" => call'[t].op = "SendDataAfterPrompt"
    BY <1>0, <1>b, <1>6, <2>2 DEF WaitDone, GoTo, PcValues
  <2> QED  BY <1>a, <2>1, <2>2, <2>3, <2>4, <2>5, <2>6, HolderStep
<1>7. CASE WaitTimeout(t)
  <2>1. InCall(t)
    BY <1>7 DEF WaitTimeout, InCall
  <2>2. /\ call'[t].op = call[t].op
        /\ \A u \in Callers : u # t => pc'[u] = pc[u] /\ call'[u] = call[u]
    BY <1>0, <1>7 DEF WaitTimeout, GoTo, Ends, CallType
  <2>3. mutex' = IF InCall(t)' THEN t ELSE Free
    BY <1>0, <1>a, <1>7, <2>1 DEF WaitTimeout, GoTo, InCall
  <2>4. cip' = InWindow(t)'
    BY <1>0, <1>a, <1>b, <1>7, <2>1, <2>2 DEF WaitTimeout, GoTo, InCall, InWindow, PcValues
  <2>5. armed' => /\ call'[t].op = "SendDataAfterPrompt"
                  /\ pc'[t] \in {"waitprompt", "disarm"}
    BY <1>0, <1>a, <1>7, <2>1, <2>2 DEF WaitTimeout, GoTo
  <2>6. /\ pc'[t] \in PcValues \ {"idle", "lock", "write"} => call'[t].op # "SendLine"
        /\ pc'[t] = "disarm" => call'[t].op = "SendDataAfterPrompt"
    BY <1>0, <1>b, <1>7, <2>2 DEF WaitTimeout, GoTo, PcValues
  <2> QED  BY <1>a, <2>1, <2>2, <2>3, <2>4, <2>5, <2>6, HolderStep
<1>8. CASE WaitPrompt(t)
  <2>1. InCall(t)
    BY <1>8 DEF WaitPrompt, InCall
  <2>2. /\ call'[t].op = call[t].op
        /\ \A u \in Callers : u # t => pc'[u] = pc[u] /\ call'[u] = call[u]
    BY <1>0, <1>8 DEF WaitPrompt, GoTo, Ends, CallType
  <2>3. mutex' = IF InCall(t)' THEN t ELSE Free
    BY <1>0, <1>a, <1>8, <2>1 DEF WaitPrompt, GoTo, InCall
  <2>4. cip' = InWindow(t)'
    BY <1>0, <1>a, <1>b, <1>8, <2>1, <2>2 DEF WaitPrompt, GoTo, InCall, InWindow, PcValues
  <2>5. armed' => /\ call'[t].op = "SendDataAfterPrompt"
                  /\ pc'[t] \in {"waitprompt", "disarm"}
    BY <1>0, <1>a, <1>8, <2>1, <2>2 DEF WaitPrompt, GoTo
  <2>6. /\ pc'[t] \in PcValues \ {"idle", "lock", "write"} => call'[t].op # "SendLine"
        /\ pc'[t] = "disarm" => call'[t].op = "SendDataAfterPrompt"
    BY <1>0, <1>b, <1>8, <2>2 DEF WaitPrompt, GoTo, PcValues
  <2> QED  BY <1>a, <2>1, <2>2, <2>3, <2>4, <2>5, <2>6, HolderStep
<1>9. CASE WaitRefused(t)
  <2>1. InCall(t)
    BY <1>9 DEF WaitRefused, InCall
  <2>2. /\ call'[t].op = call[t].op
        /\ \A u \in Callers : u # t => pc'[u] = pc[u] /\ call'[u] = call[u]
    BY <1>0, <1>9 DEF WaitRefused, GoTo, Ends, CallType
  <2>3. mutex' = IF InCall(t)' THEN t ELSE Free
    BY <1>0, <1>a, <1>9, <2>1 DEF WaitRefused, GoTo, InCall
  <2>4. cip' = InWindow(t)'
    BY <1>0, <1>a, <1>b, <1>9, <2>1, <2>2 DEF WaitRefused, GoTo, InCall, InWindow, PcValues
  <2>5. armed' => /\ call'[t].op = "SendDataAfterPrompt"
                  /\ pc'[t] \in {"waitprompt", "disarm"}
    BY <1>0, <1>a, <1>9, <2>1, <2>2 DEF WaitRefused, GoTo
  <2>6. /\ pc'[t] \in PcValues \ {"idle", "lock", "write"} => call'[t].op # "SendLine"
        /\ pc'[t] = "disarm" => call'[t].op = "SendDataAfterPrompt"
    BY <1>0, <1>b, <1>9, <2>2 DEF WaitRefused, GoTo, PcValues
  <2> QED  BY <1>a, <2>1, <2>2, <2>3, <2>4, <2>5, <2>6, HolderStep
<1>10. CASE WaitPromptTimeout(t)
  <2>1. InCall(t)
    BY <1>10 DEF WaitPromptTimeout, InCall
  <2>2. /\ call'[t].op = call[t].op
        /\ \A u \in Callers : u # t => pc'[u] = pc[u] /\ call'[u] = call[u]
    BY <1>0, <1>10 DEF WaitPromptTimeout, GoTo, Ends, CallType
  <2>3. mutex' = IF InCall(t)' THEN t ELSE Free
    BY <1>0, <1>a, <1>10, <2>1 DEF WaitPromptTimeout, GoTo, InCall
  <2>4. cip' = InWindow(t)'
    BY <1>0, <1>a, <1>b, <1>10, <2>1, <2>2 DEF WaitPromptTimeout, GoTo, InCall, InWindow, PcValues
  <2>5. armed' => /\ call'[t].op = "SendDataAfterPrompt"
                  /\ pc'[t] \in {"waitprompt", "disarm"}
    BY <1>0, <1>a, <1>10, <2>1, <2>2 DEF WaitPromptTimeout, GoTo
  <2>6. /\ pc'[t] \in PcValues \ {"idle", "lock", "write"} => call'[t].op # "SendLine"
        /\ pc'[t] = "disarm" => call'[t].op = "SendDataAfterPrompt"
    BY <1>0, <1>b, <1>10, <2>2 DEF WaitPromptTimeout, GoTo, PcValues
  <2> QED  BY <1>a, <2>1, <2>2, <2>3, <2>4, <2>5, <2>6, HolderStep
<1>11. CASE Disarm(t)
  <2>1. InCall(t)
    BY <1>11 DEF Disarm, InCall
  <2>2. /\ call'[t].op = call[t].op
        /\ \A u \in Callers : u # t => pc'[u] = pc[u] /\ call'[u] = call[u]
    BY <1>0, <1>11 DEF Disarm, GoTo, Ends, CallType
  <2>3. mutex' = IF InCall(t)' THEN t ELSE Free
    BY <1>0, <1>a, <1>11, <2>1 DEF Disarm, GoTo, InCall
  <2>4. cip' = InWindow(t)'
    BY <1>0, <1>a, <1>b, <1>11, <2>1, <2>2 DEF Disarm, GoTo, InCall, InWindow, PcValues
  <2>5. armed' => /\ call'[t].op = "SendDataAfterPrompt"
                  /\ pc'[t] \in {"waitprompt", "disarm"}
    BY <1>0, <1>a, <1>11, <2>1, <2>2 DEF Disarm, GoTo
  <2>6. /\ pc'[t] \in PcValues \ {"idle", "lock", "write"} => call'[t].op # "SendLine"
        /\ pc'[t] = "disarm" => call'[t].op = "SendDataAfterPrompt"
    BY <1>0, <1>b, <1>11, <2>2 DEF Disarm, GoTo, PcValues
  <2> QED  BY <1>a, <2>1, <2>2, <2>3, <2>4, <2>5, <2>6, HolderStep
<1>12. CASE WritePayload(t)
  <2>1. InCall(t)
    BY <1>12 DEF WritePayload, InCall
  <2>2. /\ call'[t].op = call[t].op
        /\ \A u \in Callers : u # t => pc'[u] = pc[u] /\ call'[u] = call[u]
    BY <1>0, <1>12 DEF WritePayload, GoTo, Ends, CallType
  <2>3. mutex' = IF InCall(t)' THEN t ELSE Free
    BY <1>0, <1>a, <1>12, <2>1 DEF WritePayload, GoTo, InCall
  <2>4. cip' = InWindow(t)'
    BY <1>0, <1>a, <1>b, <1>12, <2>1, <2>2 DEF WritePayload, GoTo, InCall, InWindow, PcValues
  <2>5. armed' => /\ call'[t].op = "SendDataAfterPrompt"
                  /\ pc'[t] \in {"waitprompt", "disarm"}
    BY <1>0, <1>a, <1>12, <2>1, <2>2 DEF WritePayload, GoTo
  <2>6. /\ pc'[t] \in PcValues \ {"idle", "lock", "write"} => call'[t].op # "SendLine"
        /\ pc'[t] = "disarm" => call'[t].op = "SendDataAfterPrompt"
    BY <1>0, <1>b, <1>12, <2>2 DEF WritePayload, GoTo, PcValues
  <2> QED  BY <1>a, <2>1, <2>2, <2>3, <2>4, <2>5, <2>6, HolderStep
<1>13. CASE WritePayloadFails(t)
  <2>1. InCall(t)
    BY <1>13 DEF WritePayloadFails, InCall
  <2>2. /\ call'[t].op = call[t].op
        /\ \A u \in Callers : u # t => pc'[u] = pc[u] /\ call'[u] = call[u]
    BY <1>0, <1>13 DEF WritePayloadFails, GoTo, Ends, CallType
  <2>3. mutex' = IF InCall(t)' THEN t ELSE Free
    BY <1>0, <1>a, <1>13, <2>1 DEF WritePayloadFails, GoTo, InCall
  <2>4. cip' = InWindow(t)'
    BY <1>0, <1>a, <1>b, <1>13, <2>1, <2>2 DEF WritePayloadFails, GoTo, InCall, InWindow, PcValues
  <2>5. armed' => /\ call'[t].op = "SendDataAfterPrompt"
                  /\ pc'[t] \in {"waitprompt", "disarm"}
    BY <1>0, <1>a, <1>13, <2>1, <2>2 DEF WritePayloadFails, GoTo
  <2>6. /\ pc'[t] \in PcValues \ {"idle", "lock", "write"} => call'[t].op # "SendLine"
        /\ pc'[t] = "disarm" => call'[t].op = "SendDataAfterPrompt"
    BY <1>0, <1>b, <1>13, <2>2 DEF WritePayloadFails, GoTo, PcValues
  <2> QED  BY <1>a, <2>1, <2>2, <2>3, <2>4, <2>5, <2>6, HolderStep
<1>14. CASE EndWindow(t)
  <2>1. InCall(t)
    BY <1>14 DEF EndWindow, InCall
  <2>2. /\ call'[t].op = call[t].op
        /\ \A u \in Callers : u # t => pc'[u] = pc[u] /\ call'[u] = call[u]
    BY <1>0, <1>14 DEF EndWindow, GoTo, Ends, CallType
  <2>3. mutex' = IF InCall(t)' THEN t ELSE Free
    BY <1>0, <1>a, <1>14, <2>1 DEF EndWindow, GoTo, InCall
  <2>4. cip' = InWindow(t)'
    BY <1>0, <1>a, <1>b, <1>14, <2>1, <2>2 DEF EndWindow, GoTo, InCall, InWindow, PcValues
  <2>5. armed' => /\ call'[t].op = "SendDataAfterPrompt"
                  /\ pc'[t] \in {"waitprompt", "disarm"}
    BY <1>0, <1>a, <1>14, <2>1, <2>2 DEF EndWindow, GoTo
  <2>6. /\ pc'[t] \in PcValues \ {"idle", "lock", "write"} => call'[t].op # "SendLine"
        /\ pc'[t] = "disarm" => call'[t].op = "SendDataAfterPrompt"
    BY <1>0, <1>b, <1>14, <2>2 DEF EndWindow, GoTo, PcValues
  <2> QED  BY <1>a, <2>1, <2>2, <2>3, <2>4, <2>5, <2>6, HolderStep
<1>15. CASE Result(t)
  <2>1. InCall(t)
    BY <1>15 DEF Result, InCall
  <2>2. /\ call'[t].op = call[t].op
        /\ \A u \in Callers : u # t => pc'[u] = pc[u] /\ call'[u] = call[u]
    BY <1>0, <1>15 DEF Result, GoTo, Ends, CallType
  <2>3. mutex' = IF InCall(t)' THEN t ELSE Free
    BY <1>0, <1>a, <1>15, <2>1 DEF Result, GoTo, InCall
  <2>4. cip' = InWindow(t)'
    BY <1>0, <1>a, <1>b, <1>15, <2>1, <2>2 DEF Result, GoTo, InCall, InWindow, PcValues
  <2>5. armed' => /\ call'[t].op = "SendDataAfterPrompt"
                  /\ pc'[t] \in {"waitprompt", "disarm"}
    BY <1>0, <1>a, <1>15, <2>1, <2>2 DEF Result, GoTo
  <2>6. /\ pc'[t] \in PcValues \ {"idle", "lock", "write"} => call'[t].op # "SendLine"
        /\ pc'[t] = "disarm" => call'[t].op = "SendDataAfterPrompt"
    BY <1>0, <1>b, <1>15, <2>2 DEF Result, GoTo, PcValues
  <2> QED  BY <1>a, <2>1, <2>2, <2>3, <2>4, <2>5, <2>6, HolderStep
<1> QED
  BY <1>1, <1>2, <1>3, <1>4, <1>5, <1>6, <1>7, <1>8, <1>9, <1>10, <1>11, <1>12, <1>13, <1>14,
     <1>15 DEF Sender

\* Steps that leave the callers, the mutex and command_in_progress_ alone and do
\* not arm the prompt.
LEMMA OtherStepWindow ==
    ASSUME WindowInv, UNCHANGED <<pc, call, mutex, cip>>, armed' => armed
    PROVE  WindowInv'
BY DEF WindowInv, WindowOps, CommandWindowExclusive, InCall, InWindow

\* Entering a call takes nothing.
LEMMA InvokeWindow ==
    ASSUME TypeOK, WindowInv, NEW t \in Callers, NEW op, Invoke(t, op)
    PROVE  WindowInv'
<1>1. /\ pc[t] = "idle" /\ pc'[t] = "lock" /\ UNCHANGED <<mutex, cip, armed>>
      /\ \A u \in Callers : u # t => pc'[u] = pc[u] /\ call'[u] = call[u]
  BY DEF Invoke, GoTo, TypeOK, sharedVars
<1>2. ~InCall(t) /\ ~InCall(t)'
  BY <1>1 DEF InCall
<1>3. \A u \in Callers : (InCall(u)' <=> InCall(u)) /\ (InWindow(u)' <=> InWindow(u))
  BY <1>1, <1>2 DEF InCall, InWindow
<1>4. /\ \A u \in Callers : InCall(u)' <=> mutex' = u
      /\ cip' <=> \E u \in Callers : InWindow(u)'
  BY <1>1, <1>3 DEF WindowInv, CommandWindowExclusive
<1>5. armed' => \E u \in Callers : /\ call'[u].op = "SendDataAfterPrompt"
                                  /\ pc'[u] \in {"waitprompt", "disarm"}
  BY <1>1 DEF WindowInv, CommandWindowExclusive
<1>6. WindowOps'
  BY <1>1 DEF WindowInv, WindowOps
<1> QED  BY <1>4, <1>5, <1>6 DEF WindowInv, CommandWindowExclusive

\* Every step keeps the command windows apart and the flags inside them.
LEMMA NextWindow == TypeOK /\ TypeOK' /\ WindowInv /\ [Next]_vars => WindowInv'
<1> SUFFICES ASSUME TypeOK, TypeOK', WindowInv, [Next]_vars PROVE WindowInv'
  OBVIOUS
<1> USE DEF callVars, sharedVars
<1>1. ASSUME NEW t \in Threads, Calls(t) PROVE WindowInv'
  BY <1>1, InvokeWindow DEF Calls, Callers
<1>2. ASSUME NEW t \in Threads, GetResponseLines(t) PROVE WindowInv'
  BY <1>2, OtherStepWindow DEF GetResponseLines
<1>3. ASSUME NEW t \in Callers, Sender(t) PROVE WindowInv'
  BY <1>3, SenderWindow
<1>4. CASE ReceiveTask
  <2>1. CASE RxHandlerSends
    BY <2>1, InvokeWindow DEF RxHandlerSends, Callers
  <2>2. CASE RxTake \/ RxHandlerReturns \/ RxCheck \/ RxAppend \/ RxSignal \/ RxPrompt
             \/ RxSetPrompt
    BY <2>2, OtherStepWindow DEF RxTake, RxHandlerReturns, RxCheck, RxAppend, RxSignal,
       RxPrompt, RxSetPrompt
  <2> QED  BY <1>4, <2>1, <2>2 DEF ReceiveTask
<1>5. CASE Module
  BY <1>5, OtherStepWindow DEF Module, ModuleReplies, ModulePrompts, ModuleCollects,
     ModuleRefusesStray, ModuleUrc
<1>6. CASE Quiet \/ UNCHANGED vars
  BY <1>6, OtherStepWindow DEF Quiet, vars
<1> QED
  BY <1>1, <1>2, <1>3, <1>4, <1>5, <1>6 DEF Next

\* Command windows never overlap and none is left open, for any number of threads:
\* what command_mutex_, command_in_progress_ and prompt_armed_ are there for.
THEOREM WindowExclusive == Spec => []CommandWindowExclusive
<1>1. Spec => []TypeOK
  BY TypeCorrect
<1>2. Init => WindowInv
  BY InitWindow
<1>3. WindowInv => CommandWindowExclusive
  BY DEF WindowInv
<1> QED  BY <1>1, <1>2, <1>3, NextWindow, PTL DEF Spec

-----------------------------------------------------------------------------
(* What a step of a caller leaves alone. *)

\* Recording how a call ended leaves its operation and number, and every other call.
LEMMA EndsKeeps ==
    ASSUME call \in [Callers -> CallType], NEW t \in Callers, NEW res, NEW by, Ends(t, res, by)
    PROVE  /\ \A u \in Callers : u # t => call'[u] = call[u]
           /\ call'[t].op = call[t].op /\ call'[t].id = call[t].id
           /\ call'[t].res = res /\ call'[t].by = by
<1>1. call[t] \in CallType
  OBVIOUS
<1> QED  BY <1>1 DEF Ends, CallType

\* A caller inside a call changes its own place and call only, never the operation
\* it runs; it may clear event bits and never sets one.
LEMMA SenderKeeps ==
    ASSUME TypeOK, NEW t \in Callers, Sender(t)
    PROVE  /\ \A u \in Callers : u # t => pc'[u] = pc[u] /\ call'[u] = call[u]
           /\ call'[t].op = call[t].op
           /\ UNCHANGED <<rxpc, rxline, wire, collecting, readback>>
           /\ bits'.done \in {bits.done, NoLine} /\ bits'.prompt \in {bits.prompt, NoLine}
<1> USE DEF NoBits, sharedVars, rxVars, moduleVars, historyVars
<1>0. /\ pc \in [Callers -> PcValues] /\ call \in [Callers -> CallType]
      /\ bits \in [done : MaybeLine, prompt : MaybeLine]
      /\ DOMAIN call[t] = {"op", "id", "res", "by"}
  BY DEF TypeOK, CallType
<1>1. CASE Acquire(t)
  BY <1>0, <1>1 DEF Acquire, GoTo, Ends
<1>2. CASE ClearResponse(t)
  BY <1>0, <1>2 DEF ClearResponse, GoTo, Ends
<1>3. CASE ClearBits(t)
  BY <1>0, <1>3 DEF ClearBits, GoTo, Ends
<1>4. CASE WriteCommand(t)
  <2>1. UNCHANGED call \/ \E res, by : Ends(t, res, by)
    BY <1>4 DEF WriteCommand
  <2>2. /\ \A u \in Callers : u # t => call'[u] = call[u]
        /\ call'[t].op = call[t].op
    BY <1>0, <2>1, EndsKeeps
  <2>3. \A u \in Callers : u # t => pc'[u] = pc[u]
    BY <1>0, <1>4 DEF WriteCommand, GoTo
  <2> QED  BY <1>4, <2>2, <2>3 DEF WriteCommand
<1>5. CASE WriteCommandFails(t)
  BY <1>0, <1>5 DEF WriteCommandFails, GoTo, Ends
<1>6. CASE WaitDone(t)
  BY <1>0, <1>6 DEF WaitDone, GoTo, Ends
<1>7. CASE WaitTimeout(t)
  BY <1>0, <1>7 DEF WaitTimeout, GoTo, Ends
<1>8. CASE WaitPrompt(t)
  BY <1>0, <1>8 DEF WaitPrompt, GoTo, Ends
<1>9. CASE WaitRefused(t)
  BY <1>0, <1>9 DEF WaitRefused, GoTo, Ends
<1>10. CASE WaitPromptTimeout(t)
  BY <1>0, <1>10 DEF WaitPromptTimeout, GoTo, Ends
<1>11. CASE Disarm(t)
  BY <1>0, <1>11 DEF Disarm, GoTo, Ends
<1>12. CASE WritePayload(t)
  <2>1. UNCHANGED call \/ \E res, by : Ends(t, res, by)
    BY <1>12 DEF WritePayload
  <2>2. /\ \A u \in Callers : u # t => call'[u] = call[u]
        /\ call'[t].op = call[t].op
    BY <1>0, <2>1, EndsKeeps
  <2>3. \A u \in Callers : u # t => pc'[u] = pc[u]
    BY <1>0, <1>12 DEF WritePayload, GoTo
  <2> QED  BY <1>12, <2>2, <2>3 DEF WritePayload
<1>13. CASE WritePayloadFails(t)
  BY <1>0, <1>13 DEF WritePayloadFails, GoTo, Ends
<1>14. CASE EndWindow(t)
  BY <1>0, <1>14 DEF EndWindow, GoTo, Ends
<1>15. CASE Result(t)
  <2>1. UNCHANGED call \/ \E res, by : Ends(t, res, by)
    BY <1>15 DEF Result
  <2>2. /\ \A u \in Callers : u # t => call'[u] = call[u]
        /\ call'[t].op = call[t].op
    BY <1>0, <2>1, EndsKeeps
  <2>3. \A u \in Callers : u # t => pc'[u] = pc[u]
    BY <1>0, <1>15 DEF Result, GoTo
  <2> QED  BY <1>15, <2>2, <2>3 DEF Result
<1> QED
  BY <1>1, <1>2, <1>3, <1>4, <1>5, <1>6, <1>7, <1>8, <1>9, <1>10, <1>11, <1>12,
      <1>13, <1>14, <1>15 DEF Sender

\* Entering a call: the caller waits for the mutex with a new call, without a number.
LEMMA InvokeKeeps ==
    ASSUME TypeOK, NEW t \in Callers, NEW op, Invoke(t, op)
    PROVE  /\ \A u \in Callers : u # t => pc'[u] = pc[u] /\ call'[u] = call[u]
           /\ pc[t] = "idle" /\ pc'[t] = "lock"
           /\ call'[t] = [NoCall EXCEPT !.op = op]
           /\ UNCHANGED <<mutex, nextId, sharedVars, moduleVars, historyVars>>
BY DEF TypeOK, Invoke, GoTo

-----------------------------------------------------------------------------
(* A command sent by a URC handler. *)

\* While a handler's command is under way the receive task is inside the handler, so
\* that no bit can be set: the command, which cleared ResponseDone, finds it clear and
\* times out.
HandlerInv ==
    /\ pc[Rx] # "idle" => rxpc = "handling" /\ call[Rx].op = "SendCommand"
    /\ pc[Rx] \notin {"waitprompt", "disarm", "payload"}
    /\ pc[Rx] \in {"write", "wait"} => bits.done = NoLine
    /\ pc[Rx] \in {"endwindow", "result"} => call[Rx].res = "timeout"
    /\ HandlerCallUnanswered

\* Every step of the handler's own command.
LEMMA HandlerSends ==
    ASSUME TypeOK, HandlerInv, Sender(Rx)
    PROVE  HandlerInv'
<1>0. Rx \in Callers /\ UNCHANGED rxpc /\ call'[Rx].op = call[Rx].op
  BY SenderKeeps DEF Callers
<1> USE DEF HandlerInv, HandlerCallUnanswered, TypeOK, CallType, GoTo, Ends, HasBit,
        sharedVars, NoLine
<1>1. CASE Acquire(Rx) \/ ClearResponse(Rx)
  BY <1>0, <1>1 DEF Acquire, ClearResponse
<1>2. CASE ClearBits(Rx)
  BY <1>0, <1>2 DEF ClearBits
<1>3. CASE WriteCommand(Rx)
  BY <1>0, <1>3 DEF WriteCommand
<1>4. CASE WriteCommandFails(Rx)
  BY <1>0, <1>4 DEF WriteCommandFails
<1>5. CASE WaitDone(Rx)
  BY <1>5 DEF WaitDone
<1>a. CASE WaitTimeout(Rx)
  BY <1>0, <1>a DEF WaitTimeout
<1>6. CASE WaitPrompt(Rx) \/ WaitRefused(Rx) \/ WaitPromptTimeout(Rx)
  BY <1>6 DEF WaitPrompt, WaitRefused, WaitPromptTimeout
<1>7. CASE Disarm(Rx) \/ WritePayload(Rx) \/ WritePayloadFails(Rx)
  BY <1>7 DEF Disarm, WritePayload, WritePayloadFails
<1>8. CASE EndWindow(Rx)
  BY <1>0, <1>8 DEF EndWindow
<1>9. CASE Result(Rx)
  BY <1>0, <1>9 DEF Result
<1> QED
  BY <1>1, <1>2, <1>3, <1>4, <1>5, <1>a, <1>6, <1>7, <1>8, <1>9 DEF Sender

\* A step that leaves the handler's command alone and sets no ResponseDone under it.
LEMMA HandlerKept ==
    ASSUME HandlerInv, UNCHANGED <<pc[Rx], call[Rx]>>,
           pc[Rx] # "idle" => rxpc' = rxpc /\ bits'.done \in {bits.done, NoLine}
    PROVE  HandlerInv'
BY DEF HandlerInv, HandlerCallUnanswered

\* Every step keeps the command of a handler unanswered.
LEMMA NextHandler == TypeOK /\ HandlerInv /\ [Next]_vars => HandlerInv'
<1> SUFFICES ASSUME TypeOK, HandlerInv, [Next]_vars PROVE HandlerInv'
  OBVIOUS
<1> USE DEF callVars, sharedVars, rxVars
<1>0. Rx \in Callers /\ Rx \notin Threads
  BY CallersAssumption DEF Callers
<1>1. ASSUME NEW t \in Threads, Calls(t) PROVE HandlerInv'
  <2>1. PICK op \in Ops : Invoke(t, op)
    BY <1>1 DEF Calls
  <2> QED  BY <1>0, <1>1, <2>1, InvokeKeeps, HandlerKept DEF Calls, Callers
<1>2. ASSUME NEW t \in Threads, GetResponseLines(t) PROVE HandlerInv'
  BY <1>2, HandlerKept DEF GetResponseLines
<1>3. ASSUME NEW t \in Callers, Sender(t) PROVE HandlerInv'
  BY <1>0, <1>3, HandlerSends, SenderKeeps, HandlerKept
<1>4. CASE ReceiveTask
  <2>1. CASE RxHandlerSends
    <3>1. /\ pc'[Rx] = "lock" /\ call'[Rx].op = "SendCommand" /\ call'[Rx].res = "none"
          /\ rxpc' = "handling"
      BY <1>0, <2>1, InvokeKeeps DEF RxHandlerSends, RxStep, NoCall
    <3> QED  BY <3>1 DEF HandlerInv, HandlerCallUnanswered
  <2>2. CASE RxHandlerReturns
    BY <2>2, HandlerKept DEF RxHandlerReturns
  <2>3. CASE RxTake \/ RxCheck \/ RxAppend \/ RxSignal \/ RxPrompt \/ RxSetPrompt
    <3>1. rxpc # "handling" /\ UNCHANGED <<pc, call>>
      BY <2>3 DEF RxTake, RxCheck, RxAppend, RxSignal, RxPrompt, RxSetPrompt
    <3>2. pc[Rx] = "idle"
      BY <3>1 DEF HandlerInv
    <3> QED  BY <3>1, <3>2, HandlerKept
  <2> QED  BY <1>4, <2>1, <2>2, <2>3 DEF ReceiveTask
<1>5. CASE Module
  BY <1>5, HandlerKept DEF Module, ModuleReplies, ModulePrompts, ModuleCollects,
     ModuleRefusesStray, ModuleUrc
<1>6. CASE Quiet \/ UNCHANGED vars
  BY <1>6, HandlerKept DEF Quiet, vars
<1> QED
  BY <1>1, <1>2, <1>3, <1>4, <1>5, <1>6 DEF Next

\* A command sent by a URC handler is never reported as answered, whatever bits
\* earlier commands left behind: ProcessLine says of the handlers that "they must not
\* send", and this is what happens to one that does.
THEOREM HandlerUnanswered == Spec => []HandlerCallUnanswered
<1>1. Spec => []TypeOK
  BY TypeCorrect
<1>2. Init => HandlerInv
  BY CallersAssumption DEF Init, HandlerInv, HandlerCallUnanswered, Callers, NoCall
<1>3. HandlerInv => HandlerCallUnanswered
  BY DEF HandlerInv
<1> QED  BY <1>1, <1>2, <1>3, NextHandler, PTL DEF Spec

-----------------------------------------------------------------------------
(* Payloads and prompts. *)

PromptKinds == {"prompt", "gt"}

\* ResponseDone is set by status lines and DataPrompt by prompts, and a payload goes
\* out only on a prompt.
KindInv ==
    /\ bits.done = NoLine \/ bits.done.kind \in StatusKinds
    /\ bits.prompt = NoLine \/ bits.prompt.kind \in PromptKinds
    /\ rxpc = "signal" => rxline.kind \in StatusKinds
    /\ rxpc = "setprompt" => rxline.kind \in PromptKinds
    /\ rxpc = "prompt" => rxline.kind = "prompt"
    /\ \A t \in Callers : pc[t] = "payload" => call[t].by.kind \in PromptKinds
    /\ \A p \in payloads : p[2].kind \in PromptKinds

\* Call numbers: each is drawn once, and the caller inside a call has the last one.
IdInv ==
    /\ nextId > 0
    /\ \A t \in Callers : /\ call[t].id < nextId
                          /\ pc[t] = "lock" => call[t].id = 0
                          /\ InCall(t) => call[t].id = nextId - 1 /\ call[t].id > 0
    /\ \A t, u \in Callers : call[t].id = call[u].id /\ call[t].id # 0 => t = u

\* Where the right of call i to write its payload is: the payload is written; the
\* caller has the prompt; the bit is set; the receive task has the prompt in its hands;
\* the prompt is on the wire; the command is on its way to the module; the caller has
\* not written it yet.
Paid(i) == \E p \in payloads : p[2].cmd = i
Held(i) == \E t \in Callers : /\ pc[t] \in {"disarm", "payload"}
                              /\ call[t].by.kind \in PromptKinds
                              /\ call[t].by.cmd = i
Lit(i) == bits.prompt # NoLine /\ bits.prompt.cmd = i
Read(i) == rxpc # "idle" /\ rxline.kind \in PromptKinds /\ rxline.cmd = i
Sent(i) == \E k \in DOMAIN wire : wire[k].kind \in PromptKinds /\ wire[k].cmd = i
Asked(i) == \E k \in DOMAIN uplink : uplink[k].op # "payload" /\ uplink[k].id = i
Coming(i) == \E t \in Callers : pc[t] \in {"clear", "clearbits", "write"} /\ call[t].id = i

\* It is in one of these places at most.
OnePlace(i) ==
    /\ Held(i) => ~Paid(i)
    /\ Lit(i) => ~Paid(i) /\ ~Held(i)
    /\ Read(i) => ~Paid(i) /\ ~Held(i) /\ ~Lit(i)
    /\ Sent(i) => ~Paid(i) /\ ~Held(i) /\ ~Lit(i) /\ ~Read(i)
    /\ Asked(i) => ~Paid(i) /\ ~Held(i) /\ ~Lit(i) /\ ~Read(i) /\ ~Sent(i)
    /\ Coming(i) => ~Paid(i) /\ ~Held(i) /\ ~Lit(i) /\ ~Read(i) /\ ~Sent(i) /\ ~Asked(i)
    /\ Paid(i) \/ Held(i) \/ Lit(i) \/ Read(i) \/ Sent(i) \/ Asked(i) => i < nextId

\* And once in it: no two prompts on the wire, commands on their way or payloads
\* written are of the same call.
SentOnce ==
    \A j, k \in DOMAIN wire :
        ( /\ wire[j].kind \in PromptKinds /\ wire[k].kind \in PromptKinds
          /\ wire[j].cmd = wire[k].cmd ) => j = k

AskedOnce ==
    \A j, k \in DOMAIN uplink :
        ( /\ uplink[j].op # "payload" /\ uplink[k].op # "payload"
          /\ uplink[j].id = uplink[k].id ) => j = k

PaidOnce == \A p, q \in payloads : p[2].cmd = q[2].cmd => p = q

PromptInv == (\A i \in Nat : OnePlace(i)) /\ SentOnce /\ AskedOnce /\ PaidOnce

PayloadInv == KindInv /\ IdInv /\ PromptInv

\* Every step keeps the kinds of lines apart.
LEMMA NextKind == TypeOK /\ KindInv /\ [Next]_vars => KindInv'
<1> SUFFICES ASSUME TypeOK, KindInv, [Next]_vars PROVE KindInv'
  OBVIOUS
<1> USE DEF callVars, sharedVars, rxVars, historyVars, PromptKinds
<1>1. ASSUME NEW t \in Threads, Calls(t) PROVE KindInv'
  <2>1. PICK op \in Ops : Invoke(t, op)
    BY <1>1 DEF Calls
  <2> QED  BY <1>1, <2>1, InvokeKeeps DEF Calls, Callers, KindInv
<1>2. ASSUME NEW t \in Threads, GetResponseLines(t) PROVE KindInv'
  BY <1>2 DEF GetResponseLines, KindInv
<1>3. ASSUME NEW t \in Callers, Sender(t) PROVE KindInv'
  <2>0. pc \in [Callers -> PcValues] /\ call \in [Callers -> CallType]
    BY DEF TypeOK
  <2>1. pc'[t] = "payload" => call'[t].by.kind \in PromptKinds
    <3>1. CASE WaitPrompt(t)
      <4>1. call'[t].by = bits.prompt
        BY <2>0, <3>1, EndsKeeps DEF WaitPrompt
      <4> QED  BY <3>1, <4>1 DEF WaitPrompt, HasBit, KindInv
    <3>2. CASE Disarm(t)
      BY <2>0, <3>2 DEF Disarm, GoTo
    <3>3. CASE ~WaitPrompt(t) /\ ~Disarm(t)
      <4>1. pc'[t] # "payload"
        BY <2>0, <1>3, <3>3 DEF Sender, Acquire, ClearResponse, ClearBits, WriteCommand,
           WriteCommandFails, WaitDone, WaitTimeout, WaitRefused, WaitPromptTimeout,
           WritePayload, WritePayloadFails, EndWindow, Result, GoTo
      <4> QED  BY <4>1
    <3> QED  BY <3>1, <3>2, <3>3
  <2>2. \A p \in payloads' : p[2].kind \in PromptKinds
    <3>1. CASE WritePayload(t)
      BY <3>1 DEF WritePayload, KindInv
    <3>2. CASE ~WritePayload(t)
      <4>1. UNCHANGED payloads
        BY <1>3, <3>2 DEF Sender, Acquire, ClearResponse, ClearBits, WriteCommand,
           WriteCommandFails, WaitDone, WaitTimeout, WaitPrompt, WaitRefused,
           WaitPromptTimeout, Disarm, WritePayloadFails, EndWindow, Result
      <4> QED  BY <4>1 DEF KindInv
    <3> QED  BY <3>1, <3>2
  <2> QED  BY <1>3, <2>1, <2>2, SenderKeeps DEF KindInv
<1>4. CASE ReceiveTask
  <2>1. CASE RxHandlerSends
    <3>1. Rx \in Callers
      BY DEF Callers
    <3> QED  BY <2>1, <3>1, InvokeKeeps DEF RxHandlerSends, RxStep, KindInv
  <2>2. CASE RxTake \/ RxHandlerReturns \/ RxCheck \/ RxPrompt
    BY <2>2 DEF RxTake, RxHandlerReturns, RxCheck, RxPrompt, RxStep, KindInv
  <2>3. CASE RxAppend
    BY <2>3 DEF RxAppend, AfterAppend, RxStep, KindInv
  <2>4. CASE RxSignal \/ RxSetPrompt
    <3>1. bits \in [done : MaybeLine, prompt : MaybeLine]
      BY DEF TypeOK
    <3> QED  BY <2>4, <3>1 DEF RxSignal, RxSetPrompt, RxStep, KindInv
  <2> QED  BY <1>4, <2>1, <2>2, <2>3, <2>4 DEF ReceiveTask
<1>5. CASE Module
  BY <1>5 DEF Module, ModuleReplies, ModulePrompts, ModuleCollects,
     ModuleRefusesStray, ModuleUrc, KindInv
<1>6. CASE Quiet \/ UNCHANGED vars
  BY <1>6 DEF Quiet, vars, KindInv
<1> QED
  BY <1>1, <1>2, <1>3, <1>4, <1>5, <1>6 DEF Next

\* The caller that gets the mutex draws the next number; no other step inside a call
\* changes a number.
LEMMA SenderIds ==
    ASSUME TypeOK, NEW t \in Callers, Sender(t)
    PROVE  \/ /\ Acquire(t) /\ call'[t].id = nextId /\ nextId' = nextId + 1
              /\ call'[t].by = call[t].by /\ pc'[t] \in {"clear", "write"}
           \/ /\ ~Acquire(t) /\ call'[t].id = call[t].id /\ nextId' = nextId
              /\ InCall(t) /\ pc'[t] # "lock" /\ pc'[t] # "clear"
<1>0. /\ pc \in [Callers -> PcValues] /\ call \in [Callers -> CallType]
      /\ call[t] \in CallType
  BY DEF TypeOK
<1>1. CASE Acquire(t)
  BY <1>0, <1>1 DEF Acquire, GoTo, CallType
<1>2. CASE ~Acquire(t)
  <2>1. UNCHANGED call \/ \E res, by : Ends(t, res, by)
    BY <1>2 DEF Sender, ClearResponse, ClearBits, WriteCommand, WriteCommandFails, WaitDone,
       WaitTimeout, WaitPrompt, WaitRefused, WaitPromptTimeout, Disarm, WritePayload,
       WritePayloadFails, EndWindow, Result, sharedVars
  <2>2. call'[t].id = call[t].id
    BY <1>0, <2>1, EndsKeeps
  <2>3. nextId' = nextId
    BY <1>2 DEF Sender, ClearResponse, ClearBits, WriteCommand, WriteCommandFails, WaitDone,
       WaitTimeout, WaitPrompt, WaitRefused, WaitPromptTimeout, Disarm, WritePayload,
       WritePayloadFails, EndWindow, Result
  <2>4. InCall(t) /\ pc'[t] # "lock" /\ pc'[t] # "clear"
    BY <1>0, <1>2 DEF Sender, ClearResponse, ClearBits, WriteCommand, WriteCommandFails,
       WaitDone, WaitTimeout, WaitPrompt, WaitRefused, WaitPromptTimeout, Disarm,
       WritePayload, WritePayloadFails, EndWindow, Result, GoTo, InCall
  <2> QED  BY <1>2, <2>2, <2>3, <2>4
<1> QED  BY <1>1, <1>2

\* Every step keeps the call numbers apart.
LEMMA NextId == TypeOK /\ WindowInv /\ IdInv /\ [Next]_vars => IdInv'
<1> SUFFICES ASSUME TypeOK, WindowInv, IdInv, [Next]_vars PROVE IdInv'
  OBVIOUS
<1> USE DEF callVars
<1>0. nextId \in Nat /\ \A u \in Callers : call[u].id \in Nat
  BY DEF TypeOK, CallType
<1>a. ASSUME NEW t \in Callers, NEW op, Invoke(t, op) PROVE IdInv'
  <2>1. /\ \A u \in Callers : u # t => pc'[u] = pc[u] /\ call'[u] = call[u]
        /\ pc'[t] = "lock" /\ call'[t].id = 0 /\ nextId' = nextId
    BY <1>a, InvokeKeeps DEF NoCall
  <2> QED  BY <1>0, <2>1 DEF IdInv, InCall
<1>1. ASSUME NEW t \in Threads, Calls(t) PROVE IdInv'
  BY <1>1, <1>a DEF Calls, Callers
<1>2. ASSUME NEW t \in Threads, GetResponseLines(t) PROVE IdInv'
  BY <1>2 DEF GetResponseLines, IdInv, InCall
<1>3. ASSUME NEW t \in Callers, Sender(t) PROVE IdInv'
  <2>0. \A u \in Callers : u # t => pc'[u] = pc[u] /\ call'[u] = call[u]
    BY <1>3, SenderKeeps
  <2>1. CASE Acquire(t)
    <3>1. call'[t].id = nextId /\ nextId' = nextId + 1 /\ pc'[t] \in {"clear", "write"}
      BY <1>3, <2>1, SenderIds
    <3>2. \A u \in Callers : ~InCall(u)
      BY <2>1, CallersAssumption DEF Acquire, WindowInv, CommandWindowExclusive, Callers
    <3>3. \A u \in Callers : u # t => ~InCall(u)'
      BY <2>0, <3>2 DEF InCall
    <3> QED  BY <1>0, <2>0, <3>1, <3>3 DEF IdInv
  <2>2. CASE ~Acquire(t)
    <3>1. call'[t].id = call[t].id /\ nextId' = nextId /\ InCall(t) /\ pc'[t] # "lock"
      BY <1>3, <2>2, SenderIds
    <3> QED  BY <1>0, <2>0, <3>1 DEF IdInv, InCall
  <2> QED  BY <2>1, <2>2
<1>4. CASE ReceiveTask
  <2>1. CASE RxHandlerSends
    BY <2>1, <1>a DEF RxHandlerSends, Callers
  <2>2. CASE ~RxHandlerSends
    BY <1>4, <2>2 DEF ReceiveTask, RxTake, RxHandlerReturns, RxCheck, RxAppend, RxSignal,
       RxPrompt, RxSetPrompt, IdInv, InCall
  <2> QED  BY <2>1, <2>2
<1>5. CASE Module
  BY <1>5 DEF Module, ModuleReplies, ModulePrompts, ModuleCollects,
     ModuleRefusesStray, ModuleUrc, IdInv, InCall
<1>6. CASE Quiet \/ UNCHANGED vars
  BY <1>6 DEF Quiet, vars, IdInv, InCall
<1> QED
  BY <1>1, <1>2, <1>3, <1>4, <1>5, <1>6 DEF Next

\* The elements of a queue after something was put at its end or taken from its head.
LEMMA QueueGrows ==
    ASSUME NEW S, NEW q \in Seq(S), NEW r \in Seq(S)
    PROVE  /\ q \o r \in Seq(S) /\ Len(q \o r) = Len(q) + Len(r)
           /\ \A k \in DOMAIN q : k \in DOMAIN (q \o r) /\ (q \o r)[k] = q[k]
           /\ \A k \in DOMAIN (q \o r) :
                 \/ k \in DOMAIN q
                 \/ k - Len(q) \in DOMAIN r /\ (q \o r)[k] = r[k - Len(q)] /\ k > Len(q)
OBVIOUS

LEMMA QueueAppends ==
    ASSUME NEW S, NEW q \in Seq(S), NEW x \in S
    PROVE  /\ Append(q, x) \in Seq(S) /\ Len(Append(q, x)) = Len(q) + 1
           /\ \A k \in DOMAIN q : k \in DOMAIN Append(q, x) /\ Append(q, x)[k] = q[k]
           /\ \A k \in DOMAIN Append(q, x) :
                 k \in DOMAIN q \/ (k = Len(q) + 1 /\ Append(q, x)[k] = x)
OBVIOUS

LEMMA QueueShrinks ==
    ASSUME NEW S, NEW q \in Seq(S), q # <<>>
    PROVE  /\ Tail(q) \in Seq(S) /\ Len(Tail(q)) = Len(q) - 1 /\ Len(q) \in Nat
           /\ 1 \in DOMAIN q /\ Head(q) = q[1] /\ Head(q) \in S
           /\ \A k \in DOMAIN Tail(q) : k \in Nat /\ k > 0 /\ k + 1 \in DOMAIN q
                                        /\ Tail(q)[k] = q[k + 1]
OBVIOUS

\* The right to write a payload stays where it is, moves on by one place, or is lost.
LEMMA PlaceMoves ==
    ASSUME NEW i \in Nat, OnePlace(i), nextId \in Nat, nextId' \in Nat, nextId <= nextId',
           Paid(i)' => Paid(i) \/ (Held(i) /\ ~Held(i)'),
           Held(i)' => Held(i) \/ (Lit(i) /\ ~Lit(i)'),
           Lit(i)' => Lit(i) \/ (Read(i) /\ ~Read(i)'),
           Read(i)' => Read(i) \/ (Sent(i) /\ ~Sent(i)'),
           Sent(i)' => Sent(i) \/ (Asked(i) /\ ~Asked(i)'),
           Asked(i)' => Asked(i) \/ (Coming(i) /\ ~Coming(i)' /\ i < nextId),
           Coming(i)' => Coming(i) \/ i >= nextId
    PROVE  OnePlace(i)'
<1>1. i < nextId => i < nextId'
  OBVIOUS
<1>2. i >= nextId => ~(i < nextId)
  OBVIOUS
<1> QED  BY <1>1, <1>2 DEF OnePlace

\* A caller leaves the rights of the other callers alone.
LEMMA HeldByOne ==
    ASSUME TypeOK, WindowInv, NEW t \in Callers, InCall(t) \/ mutex = Free,
           \A u \in Callers : u # t => pc'[u] = pc[u] /\ call'[u] = call[u]
    PROVE  /\ \A i : Held(i)' => /\ pc'[t] \in {"disarm", "payload"}
                                 /\ call'[t].by.kind \in PromptKinds /\ call'[t].by.cmd = i
           /\ \A i : Coming(i)' => pc'[t] \in {"clear", "clearbits", "write"} /\ call'[t].id = i
<1>1. \A u \in Callers : u # t => ~InCall(u)
  BY CallersAssumption DEF WindowInv, CommandWindowExclusive, Callers
<1> QED  BY <1>1 DEF Held, Coming, InCall

\* Every step of a caller keeps the rights apart.
LEMMA SenderPrompt ==
    ASSUME TypeOK, WindowInv, PayloadInv, NEW t \in Callers, Sender(t)
    PROVE  PromptInv'
<1> USE DEF PayloadInv
<1>0. /\ pc \in [Callers -> PcValues] /\ call \in [Callers -> CallType]
      /\ nextId \in Nat /\ nextId' \in Nat /\ nextId <= nextId'
      /\ uplink \in Seq(Request) /\ payloads \subseteq (Nat \X Line)
      /\ call[t] \in CallType /\ call[t].id \in Nat
  BY SenderIds DEF TypeOK, CallType
<1>k. /\ \A u \in Callers : u # t => pc'[u] = pc[u] /\ call'[u] = call[u]
      /\ UNCHANGED <<rxpc, rxline, wire>>
      /\ bits'.prompt \in {bits.prompt, NoLine}
  BY SenderKeeps
<1>a. InCall(t) \/ mutex = Free
  BY SenderIds DEF Acquire
<1>b. /\ \A i : Held(i)' => /\ pc'[t] \in {"disarm", "payload"}
                            /\ call'[t].by.kind \in PromptKinds /\ call'[t].by.cmd = i
      /\ \A i : Coming(i)' => pc'[t] \in {"clear", "clearbits", "write"} /\ call'[t].id = i
  BY <1>a, <1>k, HeldByOne
<1>c. /\ \A i : Lit(i)' => Lit(i)
      /\ \A i : Read(i)' <=> Read(i)
      /\ \A i : Sent(i)' <=> Sent(i)
      /\ SentOnce'
  BY <1>k DEF Lit, Read, Sent, SentOnce, PromptInv
<1>d. ASSUME UNCHANGED <<uplink, payloads>>
      PROVE  /\ \A i : Paid(i)' <=> Paid(i)
             /\ \A i : Asked(i)' <=> Asked(i)
             /\ PaidOnce' /\ AskedOnce'
  BY <1>d DEF Paid, Asked, PaidOnce, AskedOnce, PromptInv
<1>1. CASE Acquire(t)
  <2>1. call'[t].id = nextId /\ pc'[t] \in {"clear", "write"}
    BY <1>1, SenderIds
  <2>2. UNCHANGED <<uplink, payloads>>
    BY <1>1 DEF Acquire, moduleVars, historyVars
  <2>3. ASSUME NEW i \in Nat PROVE OnePlace(i)'
    <3>1. OnePlace(i) /\ ~Held(i)' /\ (Coming(i)' => i >= nextId)
      BY <1>0, <1>b, <2>1 DEF PromptInv
    <3> QED  BY <1>0, <1>c, <1>d, <2>2, <3>1, PlaceMoves
  <2> QED  BY <1>c, <1>d, <2>2, <2>3 DEF PromptInv
<1>2. CASE WriteCommand(t)
  <2> DEFINE r == [op |-> call[t].op, id |-> call[t].id]
  <2>1. /\ pc[t] = "write" /\ pc'[t] \in {"idle", "wait", "waitprompt"}
        /\ uplink' = Append(uplink, r) /\ UNCHANGED payloads
    BY <1>0, <1>2 DEF WriteCommand, GoTo
  <2>2. r \in Request /\ r.id = call[t].id
    BY <1>0 DEF Request, CallType
  <2> HIDE DEF r
  <2>3. Coming(call[t].id) /\ call[t].id < nextId
    BY <1>0, <2>1 DEF Coming, IdInv
  <2>4. ~Asked(call[t].id)
    BY <1>0, <2>3 DEF PromptInv, OnePlace
  <2>5. \A i : Asked(i)' => Asked(i) \/ i = call[t].id
    BY <1>0, <2>1, <2>2, QueueAppends DEF Asked
  <2>6. AskedOnce'
    <3> SUFFICES ASSUME NEW j \in DOMAIN uplink', NEW k \in DOMAIN uplink',
                        uplink'[j].op # "payload", uplink'[k].op # "payload",
                        uplink'[j].id = uplink'[k].id
                 PROVE  j = k
      BY DEF AskedOnce
    <3> QED  BY <1>0, <2>1, <2>2, <2>4, QueueAppends DEF Asked, AskedOnce, PromptInv
  <2>7. PaidOnce' /\ \A i : Paid(i)' <=> Paid(i)
    BY <2>1 DEF PaidOnce, Paid, PromptInv
  <2>8. ASSUME NEW i \in Nat PROVE OnePlace(i)'
    <3>1. OnePlace(i) /\ ~Held(i)' /\ ~Coming(i)'
      BY <1>b, <2>1 DEF PromptInv
    <3>2. Asked(i)' => Asked(i) \/ (Coming(i) /\ i < nextId)
      BY <2>3, <2>5
    <3> QED  BY <1>0, <1>c, <2>7, <3>1, <3>2, PlaceMoves
  <2> QED  BY <1>c, <2>6, <2>7, <2>8 DEF PromptInv
<1>3. CASE WaitPrompt(t)
  <2>1. /\ UNCHANGED <<uplink, payloads>>
        /\ pc'[t] \in {"disarm", "payload"} /\ call'[t].by = bits.prompt
        /\ bits.prompt # NoLine /\ bits'.prompt = NoLine
    <3>1. call'[t].by = bits.prompt
      BY <1>0, <1>3, EndsKeeps DEF WaitPrompt
    <3> QED  BY <1>0, <1>3, <3>1 DEF WaitPrompt, GoTo, HasBit, NoBits, moduleVars, historyVars,
                TypeOK
  <2>2. ASSUME NEW i \in Nat PROVE OnePlace(i)'
    <3>1. OnePlace(i) /\ ~Lit(i)' /\ ~Coming(i)'
      BY <1>b, <2>1 DEF PromptInv, Lit
    <3>2. Held(i)' => Lit(i)
      BY <1>b, <2>1 DEF Lit
    <3> QED  BY <1>0, <1>c, <1>d, <2>1, <3>1, <3>2, PlaceMoves
  <2> QED  BY <1>c, <1>d, <2>1, <2>2 DEF PromptInv
<1>4. CASE WritePayload(t)
  <2> DEFINE r == [op |-> "payload", id |-> call[t].id]
             b == call[t].by
  <2>1. /\ pc[t] = "payload" /\ pc'[t] \in {"endwindow", "wait"}
        /\ uplink' = Append(uplink, r) /\ payloads' = payloads \cup {<<call[t].id, b>>}
    BY <1>0, <1>4 DEF WritePayload, GoTo
  <2>2. r \in Request /\ r.op = "payload" /\ b \in Line /\ b.cmd \in Nat /\ b.kind \in PromptKinds
    BY <1>0, <2>1 DEF Request, CallType, KindInv, TypeOK, Line
  <2> HIDE DEF r, b
  <2>3. Held(b.cmd)
    BY <2>1, <2>2 DEF Held, b
  <2>4. ~Paid(b.cmd)
    BY <2>2, <2>3 DEF PromptInv, OnePlace
  <2>5. PaidOnce'
    BY <2>1, <2>2, <2>4 DEF PaidOnce, Paid, PromptInv
  <2>6. \A i : Paid(i)' => Paid(i) \/ i = b.cmd
    BY <2>1 DEF Paid
  <2>7. \A i : Asked(i)' => Asked(i)
    BY <1>0, <2>1, <2>2, QueueAppends DEF Asked
  <2>8. AskedOnce'
    BY <1>0, <2>1, <2>2, QueueAppends DEF AskedOnce, PromptInv
  <2>9. ASSUME NEW i \in Nat PROVE OnePlace(i)'
    <3>1. OnePlace(i) /\ ~Held(i)' /\ ~Coming(i)'
      BY <1>b, <2>1 DEF PromptInv
    <3>2. Paid(i)' => Paid(i) \/ Held(i)
      BY <2>3, <2>6
    <3> QED  BY <1>0, <1>c, <2>7, <3>1, <3>2, PlaceMoves
  <2> QED  BY <1>c, <2>5, <2>8, <2>9 DEF PromptInv
<1>5. CASE WaitRefused(t) \/ WaitPromptTimeout(t)
  <2>1. UNCHANGED <<uplink, payloads>> /\ pc'[t] \in {"disarm", "endwindow"}
    BY <1>0, <1>5 DEF WaitRefused, WaitPromptTimeout, GoTo, moduleVars, historyVars
  <2>2. call'[t].by \in {bits.done, NoLine}
    BY <1>0, <1>5, EndsKeeps DEF WaitRefused, WaitPromptTimeout
  <2>3. call'[t].by.kind \notin PromptKinds
    BY <2>2 DEF KindInv, NoLine, StatusKinds, PromptKinds
  <2>4. ASSUME NEW i \in Nat PROVE OnePlace(i)'
    <3>1. OnePlace(i) /\ ~Held(i)' /\ ~Coming(i)'
      BY <1>b, <2>1, <2>3 DEF PromptInv
    <3> QED  BY <1>0, <1>c, <1>d, <2>1, <3>1, PlaceMoves
  <2> QED  BY <1>c, <1>d, <2>1, <2>4 DEF PromptInv
<1>6. CASE Disarm(t)
  <2>1. /\ UNCHANGED <<uplink, payloads, call>>
        /\ pc[t] = "disarm" /\ pc'[t] \in {"payload", "endwindow"}
    BY <1>0, <1>6 DEF Disarm, GoTo, moduleVars, historyVars
  <2>2. ASSUME NEW i \in Nat PROVE OnePlace(i)'
    <3>1. OnePlace(i) /\ ~Coming(i)'
      BY <1>b, <2>1 DEF PromptInv
    <3>2. Held(i)' => Held(i)
      BY <1>b, <2>1 DEF Held
    <3> QED  BY <1>0, <1>c, <1>d, <2>1, <3>1, <3>2, PlaceMoves
  <2> QED  BY <1>c, <1>d, <2>1, <2>2 DEF PromptInv
<1>7. CASE ClearResponse(t) \/ ClearBits(t)
  <2>1. /\ UNCHANGED <<uplink, payloads, call>>
        /\ pc[t] \in {"clear", "clearbits"} /\ pc'[t] \in {"clearbits", "write"}
    BY <1>0, <1>7 DEF ClearResponse, ClearBits, GoTo, moduleVars, historyVars
  <2>2. ASSUME NEW i \in Nat PROVE OnePlace(i)'
    <3>1. OnePlace(i) /\ ~Held(i)'
      BY <1>b, <2>1 DEF PromptInv
    <3>2. Coming(i)' => Coming(i)
      BY <1>b, <2>1 DEF Coming
    <3> QED  BY <1>0, <1>c, <1>d, <2>1, <3>1, <3>2, PlaceMoves
  <2> QED  BY <1>c, <1>d, <2>1, <2>2 DEF PromptInv
<1>8. CASE \/ WriteCommandFails(t) \/ WaitDone(t) \/ WaitTimeout(t) \/ WritePayloadFails(t)
           \/ EndWindow(t) \/ Result(t)
  <2>1. UNCHANGED <<uplink, payloads>> /\ pc'[t] \in {"idle", "endwindow", "result"}
    BY <1>0, <1>8 DEF WriteCommandFails, WaitDone, WaitTimeout, WritePayloadFails, EndWindow,
       Result, GoTo, moduleVars, historyVars
  <2>2. ASSUME NEW i \in Nat PROVE OnePlace(i)'
    <3>1. OnePlace(i) /\ ~Held(i)' /\ ~Coming(i)'
      BY <1>b, <2>1 DEF PromptInv
    <3> QED  BY <1>0, <1>c, <1>d, <2>1, <3>1, PlaceMoves
  <2> QED  BY <1>c, <1>d, <2>1, <2>2 DEF PromptInv
<1> QED
  BY <1>1, <1>2, <1>3, <1>4, <1>5, <1>6, <1>7, <1>8 DEF Sender

\* A step that moves no prompt leaves the rights where they are, or loses some.
LEMMA PlacesKept ==
    ASSUME TypeOK, PromptInv, nextId' = nextId,
           \A i : Paid(i)' => Paid(i), \A i : Held(i)' => Held(i), \A i : Lit(i)' => Lit(i),
           \A i : Read(i)' => Read(i), \A i : Sent(i)' => Sent(i),
           \A i : Asked(i)' => Asked(i), \A i : Coming(i)' => Coming(i),
           SentOnce', AskedOnce', PaidOnce'
    PROVE  PromptInv'
<1>1. ASSUME NEW i \in Nat PROVE OnePlace(i)'
  <2>1. nextId \in Nat /\ nextId' \in Nat /\ nextId <= nextId' /\ OnePlace(i)
    BY DEF TypeOK, PromptInv
  <2> QED  BY <2>1, PlaceMoves
<1> QED  BY <1>1 DEF PromptInv

\* Entering a call touches no right.
LEMMA InvokePrompt ==
    ASSUME TypeOK, PromptInv, NEW t \in Callers, NEW op, Invoke(t, op),
           \A i : Read(i)' => Read(i)
    PROVE  PromptInv'
<1>1. /\ \A u \in Callers : u # t => pc'[u] = pc[u] /\ call'[u] = call[u]
      /\ pc'[t] = "lock"
      /\ UNCHANGED <<nextId, bits, wire, uplink, payloads>>
  BY InvokeKeeps DEF sharedVars, moduleVars, historyVars
<1>2. (\A i : Held(i)' => Held(i)) /\ (\A i : Coming(i)' => Coming(i))
  BY <1>1 DEF Held, Coming
<1>3. /\ \A i : Paid(i)' => Paid(i)
      /\ \A i : Lit(i)' => Lit(i)
      /\ \A i : Sent(i)' => Sent(i)
      /\ \A i : Asked(i)' => Asked(i)
      /\ SentOnce' /\ AskedOnce' /\ PaidOnce'
  BY <1>1 DEF Paid, Lit, Sent, Asked, SentOnce, AskedOnce, PaidOnce, PromptInv
<1> QED  BY <1>1, <1>2, <1>3, PlacesKept

\* Every step of the receive task keeps the rights apart.
LEMMA ReceivePrompt ==
    ASSUME TypeOK, PayloadInv, ReceiveTask
    PROVE  PromptInv'
<1> USE DEF PayloadInv, callVars, sharedVars, moduleVars, historyVars
<1>0. /\ nextId \in Nat /\ nextId' \in Nat /\ nextId <= nextId' /\ wire \in Seq(Line)
      /\ bits \in [done : MaybeLine, prompt : MaybeLine]
  BY DEF ReceiveTask, RxTake, RxHandlerSends, Invoke, RxHandlerReturns, RxCheck, RxAppend, RxSignal,
     RxPrompt, RxSetPrompt, TypeOK
<1>1. CASE RxHandlerSends
  <2>1. Rx \in Callers
    BY DEF Callers
  <2>2. \A i : Read(i)' => Read(i)
    BY <1>1 DEF Read, RxHandlerSends, RxStep
  <2> QED  BY <1>1, <2>1, <2>2, InvokePrompt DEF RxHandlerSends
<1>2. ASSUME UNCHANGED <<pc, call, uplink, payloads>>
      PROVE  /\ \A i : Held(i)' <=> Held(i)
             /\ \A i : Coming(i)' <=> Coming(i)
             /\ \A i : Paid(i)' <=> Paid(i)
             /\ \A i : Asked(i)' <=> Asked(i)
             /\ AskedOnce' /\ PaidOnce'
  BY <1>2 DEF Held, Coming, Paid, Asked, AskedOnce, PaidOnce, PromptInv
<1>3. CASE RxTake
  <2>1. /\ UNCHANGED <<pc, call, uplink, payloads, bits>>
        /\ wire # <<>> /\ wire' = Tail(wire) /\ rxline' = Head(wire) /\ rxpc = "idle"
    BY <1>3 DEF RxTake
  <2>2. SentOnce'
    <3> SUFFICES ASSUME NEW j \in DOMAIN wire', NEW k \in DOMAIN wire',
                        wire'[j].kind \in PromptKinds, wire'[k].kind \in PromptKinds,
                        wire'[j].cmd = wire'[k].cmd
                 PROVE  j = k
      BY DEF SentOnce
    <3>1. j + 1 = k + 1
      BY <1>0, <2>1, QueueShrinks DEF SentOnce, PromptInv
    <3> QED  BY <1>0, <2>1, <3>1, QueueShrinks
  <2>3. \A i : Lit(i)' <=> Lit(i)
    BY <2>1 DEF Lit
  <2>4. \A i : Sent(i)' => Sent(i)
    BY <1>0, <2>1, QueueShrinks DEF Sent
  <2>5. \A i : Read(i)' => Sent(i) /\ ~Sent(i)'
    <3> SUFFICES ASSUME NEW i, Read(i)' PROVE Sent(i) /\ ~Sent(i)'
      OBVIOUS
    <3>1. 1 \in DOMAIN wire /\ wire[1].kind \in PromptKinds /\ wire[1].cmd = i
      BY <1>0, <2>1, QueueShrinks DEF Read
    <3>2. ASSUME NEW k \in DOMAIN wire', wire'[k].kind \in PromptKinds, wire'[k].cmd = i
          PROVE  FALSE
      <4>1. k \in Nat /\ k > 0 /\ k + 1 \in DOMAIN wire /\ wire'[k] = wire[k + 1]
        BY <1>0, <2>1, QueueShrinks
      <4>2. k + 1 = 1
        BY <3>1, <3>2, <4>1 DEF SentOnce, PromptInv
      <4> QED  BY <4>1, <4>2
    <3> QED  BY <3>1, <3>2 DEF Sent
  <2>6. ASSUME NEW i \in Nat PROVE OnePlace(i)'
    <3>1. OnePlace(i)
      BY DEF PromptInv
    <3> QED  BY <1>0, <1>2, <2>1, <2>3, <2>4, <2>5, <3>1, PlaceMoves
  <2> QED  BY <1>2, <2>1, <2>2, <2>6 DEF PromptInv
<1>4. CASE RxSetPrompt
  <2>1. /\ UNCHANGED <<pc, call, uplink, payloads, wire, rxline>>
        /\ rxpc = "setprompt" /\ rxpc' = "idle" /\ bits'.prompt = rxline
    BY <1>0, <1>4 DEF RxSetPrompt, RxStep
  <2>2. SentOnce' /\ \A i : Sent(i)' <=> Sent(i)
    BY <2>1 DEF SentOnce, Sent, PromptInv
  <2>3. \A i : Lit(i)' => Read(i)
    BY <2>1 DEF Lit, Read, KindInv
  <2>4. \A i : ~Read(i)'
    BY <2>1 DEF Read
  <2>5. ASSUME NEW i \in Nat PROVE OnePlace(i)'
    <3>1. OnePlace(i)
      BY DEF PromptInv
    <3> QED  BY <1>0, <1>2, <2>1, <2>2, <2>3, <2>4, <3>1, PlaceMoves
  <2> QED  BY <1>2, <2>1, <2>2, <2>5 DEF PromptInv
<1>5. CASE RxHandlerReturns \/ RxCheck \/ RxAppend \/ RxSignal \/ RxPrompt
  <2>1. /\ UNCHANGED <<pc, call, uplink, payloads, wire, rxline, nextId>>
        /\ rxpc # "idle" /\ bits'.prompt = bits.prompt
    BY <1>0, <1>5 DEF RxHandlerReturns, RxCheck, RxAppend, RxSignal, RxPrompt, RxStep
  <2>2. SentOnce' /\ \A i : Sent(i)' <=> Sent(i)
    BY <2>1 DEF SentOnce, Sent, PromptInv
  <2>3. (\A i : Lit(i)' => Lit(i)) /\ (\A i : Read(i)' => Read(i))
    BY <2>1 DEF Lit, Read
  <2> QED  BY <1>2, <2>1, <2>2, <2>3, PlacesKept
<1> QED
  BY <1>1, <1>3, <1>4, <1>5 DEF ReceiveTask

\* The module takes a command and writes lines, none of them a prompt.
LEMMA AnswerPrompt ==
    ASSUME TypeOK, PromptInv, NEW lines \in Seq(Line), wire' = wire \o lines,
           \A k \in DOMAIN lines : lines[k].kind \notin PromptKinds,
           uplink' = uplink \/ (uplink # <<>> /\ uplink' = Tail(uplink)),
           UNCHANGED <<pc, call, payloads, nextId, bits, rxpc, rxline>>
    PROVE  PromptInv'
<1>0. wire \in Seq(Line) /\ uplink \in Seq(Request)
  BY DEF TypeOK
<1>1. ASSUME NEW k \in DOMAIN wire', wire'[k].kind \in PromptKinds
      PROVE  k \in DOMAIN wire /\ wire'[k] = wire[k]
  BY <1>0, <1>1, QueueGrows
<1>2. SentOnce' /\ \A i : Sent(i)' => Sent(i)
  BY <1>1 DEF SentOnce, Sent, PromptInv
<1>3. \A i : Asked(i)' => Asked(i)
  <2>1. CASE uplink' = uplink
    BY <2>1 DEF Asked
  <2>2. CASE uplink # <<>> /\ uplink' = Tail(uplink)
    BY <1>0, <2>2, QueueShrinks DEF Asked
  <2> QED  BY <2>1, <2>2
<1>4. AskedOnce'
  <2> SUFFICES ASSUME NEW j \in DOMAIN uplink', NEW k \in DOMAIN uplink',
                      uplink'[j].op # "payload", uplink'[k].op # "payload",
                      uplink'[j].id = uplink'[k].id, uplink # <<>>, uplink' = Tail(uplink)
               PROVE  j = k
    BY DEF AskedOnce, PromptInv
  <2>1. j + 1 = k + 1
    BY <1>0, QueueShrinks DEF AskedOnce, PromptInv
  <2> QED  BY <1>0, <2>1, QueueShrinks
<1>5. /\ \A i : Held(i)' => Held(i)
      /\ \A i : Coming(i)' => Coming(i)
      /\ \A i : Paid(i)' => Paid(i)
      /\ \A i : Lit(i)' => Lit(i)
      /\ \A i : Read(i)' => Read(i)
      /\ PaidOnce'
  BY DEF Held, Coming, Paid, Lit, Read, PaidOnce, PromptInv
<1> QED  BY <1>2, <1>3, <1>4, <1>5, PlacesKept

\* Replies hold no prompt, and a line by itself is what it says.
LEMMA RepliesPrompt ==
    ASSUME NEW op, NEW id \in Nat, NEW reply \in Replies(op, id)
    PROVE  \A k \in DOMAIN reply : /\ reply[k].kind \in {"ok", "error", "echo", "info", "event"}
                                   /\ reply[k].cmd = id
BY DEF Replies, Msg

\* Every step of the module keeps the rights apart.
LEMMA ModulePrompt ==
    ASSUME TypeOK, PayloadInv, Module
    PROVE  PromptInv'
<1> USE DEF PayloadInv, callVars, sharedVars, rxVars, historyVars
<1>0. /\ nextId \in Nat /\ wire \in Seq(Line) /\ uplink \in Seq(Request)
      /\ \A k \in LineKinds, id \in Nat : <<Msg(k, id)>> \in Seq(Line)
  BY DEF TypeOK, Msg, Line
<1>1. ASSUME uplink # <<>> PROVE Head(uplink) \in Request /\ Head(uplink).id \in Nat
  <2>1. Head(uplink) \in Request
    BY <1>0, <1>1
  <2> QED  BY <2>1 DEF Request
<1>2. CASE ModuleReplies
  <2>1. PICK reply \in Replies(Head(uplink).op, Head(uplink).id) : wire' = wire \o reply
    BY <1>2 DEF ModuleReplies, Emit
  <2>2. reply \in Seq(Line) /\ \A k \in DOMAIN reply : reply[k].kind \notin PromptKinds
    BY <1>1, <1>2, RepliesType, RepliesPrompt DEF ModuleReplies, PromptKinds
  <2> QED  BY <1>2, <2>1, <2>2, AnswerPrompt DEF ModuleReplies
<1>3. CASE ModuleCollects \/ ModuleRefusesStray \/ ModuleUrc
  <2>1. PICK k \in {"event", "ok", "error", "urc"}, id \in Nat : wire' = wire \o <<Msg(k, id)>>
    BY <1>1, <1>3 DEF ModuleCollects, ModuleRefusesStray, ModuleUrc, Emit, StatusKinds, TypeOK,
       Request
  <2>2. <<Msg(k, id)>> \in Seq(Line) /\ \A j \in DOMAIN <<Msg(k, id)>> :
            <<Msg(k, id)>>[j].kind \notin PromptKinds
    BY <1>0 DEF LineKinds, Msg, PromptKinds
  <2> QED  BY <1>3, <2>1, <2>2, AnswerPrompt DEF ModuleCollects, ModuleRefusesStray, ModuleUrc
<1>4. CASE ModulePrompts
  <2> DEFINE h == Head(uplink)
             l == Msg(IF h.op = "SendDataAfterPrompt" THEN "prompt" ELSE "gt", h.id)
  <2>1. /\ uplink # <<>> /\ h.op # "payload" /\ wire' = wire \o <<l>> /\ uplink' = Tail(uplink)
        /\ UNCHANGED <<pc, call, payloads, nextId, bits, rxpc, rxline>>
    BY <1>4 DEF ModulePrompts, Emit
  <2>2. l \in Line /\ <<l>> \in Seq(Line) /\ l.cmd = h.id /\ h.id \in Nat
    BY <1>0, <1>1, <2>1 DEF Msg, Line, LineKinds
  <2>3. 1 \in DOMAIN uplink /\ uplink[1] = h
    BY <1>0, <2>1
  <2> HIDE DEF h, l
  <2>n. PICK n \in Nat : n = h.id
    BY <2>2
  <2>4. Asked(n) /\ ~Sent(n)
    <3>1. Asked(n)
      BY <2>1, <2>3, <2>n DEF Asked
    <3> QED  BY <3>1 DEF PromptInv, OnePlace
  <2>5. ~Asked(n)'
    <3> SUFFICES ASSUME NEW k \in DOMAIN uplink', uplink'[k].op # "payload", uplink'[k].id = n
                 PROVE  FALSE
      BY DEF Asked
    <3>1. k \in Nat /\ k > 0 /\ k + 1 \in DOMAIN uplink /\ uplink'[k] = uplink[k + 1]
      BY <1>0, <2>1, QueueShrinks
    <3>2. k + 1 = 1
      BY <2>1, <2>3, <2>n, <3>1 DEF AskedOnce, PromptInv
    <3> QED  BY <3>1, <3>2
  <2>6. ASSUME NEW k \in DOMAIN wire'
        PROVE  (k \in DOMAIN wire /\ wire'[k] = wire[k]) \/ (k = Len(wire) + 1 /\ wire'[k] = l)
    BY <1>0, <2>1, <2>2, QueueGrows
  <2>7. SentOnce'
    <3> SUFFICES ASSUME NEW j \in DOMAIN wire', NEW k \in DOMAIN wire',
                        wire'[j].kind \in PromptKinds, wire'[k].kind \in PromptKinds,
                        wire'[j].cmd = wire'[k].cmd
                 PROVE  j = k
      BY DEF SentOnce
    <3> QED  BY <2>2, <2>n, <2>4, <2>6 DEF SentOnce, Sent, PromptInv
  <2>8. \A i : Sent(i)' => Sent(i) \/ i = n
    BY <2>2, <2>n, <2>6 DEF Sent
  <2>9. (\A i : Asked(i)' => Asked(i)) /\ AskedOnce'
    <3>1. \A i : Asked(i)' => Asked(i)
      BY <1>0, <2>1, QueueShrinks DEF Asked
    <3> SUFFICES ASSUME NEW j \in DOMAIN uplink', NEW k \in DOMAIN uplink',
                        uplink'[j].op # "payload", uplink'[k].op # "payload",
                        uplink'[j].id = uplink'[k].id
                 PROVE  j = k
      BY <3>1 DEF AskedOnce
    <3>2. j + 1 = k + 1
      BY <1>0, <2>1, QueueShrinks DEF AskedOnce, PromptInv
    <3> QED  BY <1>0, <2>1, <3>2, QueueShrinks
  <2>10. /\ \A i : Held(i)' <=> Held(i)
         /\ \A i : Coming(i)' <=> Coming(i)
         /\ \A i : Paid(i)' <=> Paid(i)
         /\ \A i : Lit(i)' <=> Lit(i)
         /\ \A i : Read(i)' <=> Read(i)
         /\ PaidOnce'
    BY <2>1 DEF Held, Coming, Paid, Lit, Read, PaidOnce, PromptInv
  <2>11. ASSUME NEW i \in Nat PROVE OnePlace(i)'
    <3>1. OnePlace(i) /\ nextId' \in Nat /\ nextId <= nextId'
      BY <1>0, <2>1 DEF PromptInv
    <3>2. Sent(i)' => Sent(i) \/ (Asked(i) /\ ~Asked(i)')
      BY <2>4, <2>5, <2>8
    <3> QED  BY <1>0, <2>9, <2>10, <3>1, <3>2, PlaceMoves
  <2> QED  BY <2>7, <2>9, <2>10, <2>11 DEF PromptInv
<1> QED  BY <1>2, <1>3, <1>4 DEF Module

\* Every step keeps the rights to write a payload apart.
LEMMA NextPayload == TypeOK /\ WindowInv /\ PayloadInv /\ [Next]_vars => PayloadInv'
<1> SUFFICES ASSUME TypeOK, WindowInv, PayloadInv, [Next]_vars PROVE PayloadInv'
  OBVIOUS
<1>0. KindInv' /\ IdInv'
  BY NextKind, NextId DEF PayloadInv
<1>1. ASSUME NEW t \in Threads, Calls(t) PROVE PromptInv'
  <2>1. \A i : Read(i)' => Read(i)
    BY <1>1 DEF Calls, rxVars, Read
  <2> QED  BY <1>1, <2>1, InvokePrompt DEF Calls, Callers, PayloadInv
<1>2. ASSUME UNCHANGED <<callVars, sharedVars, rxVars, moduleVars, payloads>> PROVE PromptInv'
  BY <1>2 DEF PayloadInv, PromptInv, OnePlace, SentOnce, AskedOnce, PaidOnce, Paid, Held, Lit,
     Read, Sent, Asked, Coming, callVars, sharedVars, rxVars, moduleVars
<1>3. ASSUME NEW t \in Callers, Sender(t) PROVE PromptInv'
  BY <1>3, SenderPrompt
<1>4. ASSUME ReceiveTask PROVE PromptInv'
  BY <1>4, ReceivePrompt
<1>5. ASSUME Module PROVE PromptInv'
  BY <1>5, ModulePrompt
<1>6. ASSUME Quiet \/ UNCHANGED vars PROVE PromptInv'
  BY <1>2, <1>6 DEF Quiet, vars, historyVars
<1> QED
  BY <1>0, <1>1, <1>2, <1>3, <1>4, <1>5, <1>6 DEF Next, PayloadInv, GetResponseLines

\* The windows and the rights hold from the start and for good.
LEMMA PayloadInvariant == Spec => [](TypeOK /\ WindowInv /\ PayloadInv)
<1>1. Init => PayloadInv
  <2> SUFFICES ASSUME Init PROVE PayloadInv
    OBVIOUS
  <2>1. KindInv /\ IdInv
    BY DEF Init, KindInv, IdInv, NoBits, NoCall, InCall
  <2>2. \A i \in Nat : ~Paid(i) /\ ~Held(i) /\ ~Lit(i) /\ ~Read(i) /\ ~Sent(i) /\ ~Asked(i)
                       /\ ~Coming(i)
    BY DEF Init, Paid, Held, Lit, Read, Sent, Asked, Coming, NoBits
  <2>3. SentOnce /\ AskedOnce /\ PaidOnce
    BY DEF Init, SentOnce, AskedOnce, PaidOnce
  <2> QED  BY <2>1, <2>2, <2>3 DEF PayloadInv, PromptInv, OnePlace
<1> QED  BY <1>1, TypeCorrect, InitWindow, NextWindow, NextPayload, PTL DEF Spec

\* A payload is written only on a prompt that the receive task took off the wire, and
\* no prompt lets out two payloads, in SendCommandWithData as in SendDataAfterPrompt,
\* however many calls gave up before.
THEOREM PayloadNeedsPrompt == Spec => []PayloadPerPrompt
<1>1. PayloadInv => PayloadPerPrompt
  BY DEF PayloadInv, KindInv, PromptInv, PaidOnce, PayloadPerPrompt, PromptKinds
<1> QED  BY <1>1, PayloadInvariant, PTL

-----------------------------------------------------------------------------
(* Answers in step with commands. *)

EventKinds == {"event", "urc"}
EndKinds == StatusKinds \cup PromptKinds

\* The lines the module has written and no call has been ended by: on the wire, in the
\* receive task's hands, behind an event bit.
InFlight ==
    {wire[k] : k \in DOMAIN wire}
        \cup (IF rxpc = "idle" THEN {} ELSE {rxline})
        \cup ({bits.done, bits.prompt} \ {NoLine})

\* Nothing in flight but events, which no call waits for.
Still == \A l \in InFlight : l.kind \in EventKinds

Waiting(t) == pc[t] \in {"wait", "waitprompt"}

\* A line is for the call that waits, and of a kind the call is waiting for.
Expected(l) ==
    \E t \in Callers :
        /\ Waiting(t) /\ call[t].id = l.cmd
        /\ l.kind \in {"echo", "info"} => call[t].op = "SendCommand"
        /\ l.kind \in PromptKinds => call[t].op # "SendCommand" /\ pc[t] = "waitprompt"

\* The module collects the payload of call i.
Asking(i) == collecting # NotCollecting /\ collecting.id = i

\* The module asks for the payload of a call whose command it has read.
AskingInv == \A i \in Nat : Asking(i) => i < nextId /\ ~Coming(i)

\* Call t has still to write the payload the module collects.
Owing(t) == Asking(call[t].id) /\ pc[t] \in {"waitprompt", "disarm", "payload"}

\* With nobody waiting, no command and no answer is under way.
RestInv ==
    (\A t \in Callers : ~Waiting(t)) =>
        Still /\ \A k \in DOMAIN uplink : uplink[k].op = "payload"

\* A command under way is the last thing written and nothing has answered it; a
\* payload under way is the next thing the module reads, and it is collecting.
UplinkInv ==
    \A k \in DOMAIN uplink :
        IF uplink[k].op = "payload"
        THEN k = 1 /\ collecting # NotCollecting
        ELSE /\ k = Len(uplink) /\ Still
             /\ \E t \in Callers :
                  /\ call[t].id = uplink[k].id /\ call[t].op = uplink[k].op
                  /\ pc[t] = IF call[t].op = "SendCommand" THEN "wait" ELSE "waitprompt"

\* What the module collects is written by the call it asked, or under way already.
CollectInv ==
    collecting # NotCollecting =>
        /\ collecting.op \in {"SendDataAfterPrompt", "SendCommandWithData"}
        /\ \A t \in Callers : Owing(t) =>
              /\ uplink = <<>> /\ call[t].op = collecting.op
              /\ \A l \in InFlight : l.kind \notin StatusKinds
              /\ pc[t] # "waitprompt" => call[t].by.kind \in PromptKinds
        /\ (\A t \in Callers : ~Owing(t)) =>
              /\ uplink # <<>> /\ uplink[1].op = "payload"
              /\ collecting.op = "SendCommandWithData" =>
                    /\ Still /\ Len(uplink) = 1
                    /\ \E t \in Callers : call[t].id = collecting.id /\ pc[t] = "wait"

\* A line that ends a wait is the last that is not an event.
OrderInv ==
    /\ \A j, k \in DOMAIN wire :
          j < k /\ wire[j].kind \in EndKinds => wire[k].kind \in EventKinds
    /\ rxpc # "idle" /\ rxline.kind \in EndKinds =>
          \A k \in DOMAIN wire : wire[k].kind \in EventKinds
    /\ bits # NoBits =>
          /\ \A k \in DOMAIN wire : wire[k].kind \in EventKinds
          /\ rxpc = "idle" \/ rxline.kind \in EventKinds
          /\ bits.done = NoLine \/ bits.prompt = NoLine

LiveInv ==
    \A l \in InFlight :
        /\ l.kind \in EventKinds \/ Expected(l)
        /\ l.kind \in PromptKinds => Asking(l.cmd)

\* The line that ended a wait is of the call, and SendCommand has its response parsed.
EndedByOwn(t) ==
    /\ pc[t] \in {"waitprompt", "disarm", "payload"} => call[t].op # "SendCommand"
    /\ pc[t] \in {"disarm", "payload", "endwindow", "result"} => call[t].by.cmd = call[t].id
    /\ pc[t] \in {"disarm", "payload"} /\ call[t].by.kind \in PromptKinds =>
          Asking(call[t].id)
    /\ call[t].op = "SendCommand" /\ pc[t] \in {"endwindow", "result"} =>
          /\ call[t].res = "none" /\ call[t].by.kind \in StatusKinds
          /\ parsed.status = call[t].by

Own(l, id) == l.kind \in EventKinds \/ l.cmd = id

\* What a SendCommand finds in the buffer: its own lines and events, and no final line
\* but the one that is about to be signalled.
OwnBuffer(t) ==
    /\ call[t].op = "SendCommand" /\ pc[t] \in {"clearbits", "write", "wait"} =>
          \A k \in DOMAIN buffer :
              /\ Own(buffer[k], call[t].id)
              /\ buffer[k].kind \in FinalKinds /\ bits.done = NoLine =>
                    k = Len(buffer) /\ rxpc = "signal"
    /\ call[t].op = "SendCommand" /\ pc[t] = "wait" /\ rxpc = "signal" =>
          buffer # <<>> /\ buffer[Len(buffer)] = rxline

\* And what it finds in the parsed response, until the next call draws a number.
Reading(t) ==
    /\ call[t].op = "SendCommand"
    /\ \/ pc[t] \in {"clearbits", "write", "wait", "endwindow", "result"}
       \/ Answered(t) /\ call[t].id = nextId - 1

OwnResponse(t) ==
    /\ call[t].op = "SendCommand" /\ pc[t] = "wait" /\ bits.done # NoLine =>
          parsed.status = bits.done
    /\ Reading(t) => \A k \in DOMAIN parsed.lines : Own(parsed.lines[k], call[t].id)

\* The answer a call returned with is its own, and is what the line said.
AnsweredByOwn(t) ==
    Answered(t) => /\ call[t].by.cmd = call[t].id
                   /\ call[t].op = "SendCommand" => call[t].res = call[t].by.kind

CallInv(t) == EndedByOwn(t) /\ OwnBuffer(t) /\ OwnResponse(t) /\ AnsweredByOwn(t)

LineInv == RestInv /\ UplinkInv /\ CollectInv /\ OrderInv /\ LiveInv

StepInv == ~late => LineInv /\ \A t \in Callers : CallInv(t)

\* What is known of every state, apart from the order of the answers.
ChannelInv == TypeOK /\ WindowInv /\ PayloadInv /\ AskingInv

\* Only the number drawn with the mutex begins a command.
LEMMA CommandsBegin ==
    ASSUME TypeOK, NEW t \in Callers, Sender(t)
    PROVE  \A i : Coming(i)' => Coming(i) \/ i = nextId
<1>0. pc \in [Callers -> PcValues] /\ call \in [Callers -> CallType]
  BY DEF TypeOK
<1>1. \A u \in Callers : u # t => pc'[u] = pc[u] /\ call'[u] = call[u]
  BY SenderKeeps
<1>2. CASE Acquire(t)
  <2>1. call'[t].id = nextId
    BY <1>2, SenderIds
  <2> QED  BY <1>1, <2>1 DEF Coming
<1>3. CASE ~Acquire(t)
  <2>1. call'[t].id = call[t].id
    BY <1>3, SenderIds
  <2>2. pc'[t] \in {"clear", "clearbits", "write"} => pc[t] \in {"clear", "clearbits", "write"}
    BY <1>0, <1>3 DEF Sender, ClearResponse, ClearBits, WriteCommand, WriteCommandFails,
       WaitDone, WaitTimeout, WaitPrompt, WaitRefused, WaitPromptTimeout, Disarm,
       WritePayload, WritePayloadFails, EndWindow, Result, GoTo
  <2> QED  BY <1>1, <2>1, <2>2 DEF Coming
<1> QED  BY <1>2, <1>3

\* Every step keeps the module from asking for what was not sent.
LEMMA NextAsking ==
    TypeOK /\ WindowInv /\ PayloadInv /\ AskingInv /\ [Next]_vars => AskingInv'
<1> SUFFICES ASSUME TypeOK, WindowInv, PayloadInv, AskingInv, [Next]_vars PROVE AskingInv'
  OBVIOUS
<1> USE DEF callVars, sharedVars, rxVars, moduleVars
<1>0. nextId \in Nat /\ uplink \in Seq(Request)
  BY DEF TypeOK
<1>1. ASSUME NEW t \in Callers, NEW op, Invoke(t, op) PROVE AskingInv'
  <2>1. /\ \A u \in Callers : u # t => pc'[u] = pc[u] /\ call'[u] = call[u]
        /\ pc'[t] = "lock" /\ UNCHANGED <<nextId, collecting>>
    BY <1>1, InvokeKeeps
  <2>2. \A i : (Coming(i)' => Coming(i)) /\ (Asking(i)' <=> Asking(i))
    BY <2>1 DEF Coming, Asking
  <2> QED  BY <2>1, <2>2 DEF AskingInv
<1>2. ASSUME NEW t \in Callers, Sender(t) PROVE AskingInv'
  <2>1. UNCHANGED collecting /\ nextId' \in {nextId, nextId + 1}
    BY <1>2, SenderKeeps, SenderIds
  <2>2. \A i : Asking(i)' <=> Asking(i)
    BY <2>1 DEF Asking
  <2>3. \A i : Coming(i)' => Coming(i) \/ i = nextId
    BY <1>2, CommandsBegin
  <2> QED  BY <1>0, <2>1, <2>2, <2>3 DEF AskingInv
<1>3. ASSUME UNCHANGED <<pc, call, nextId>>, collecting' \in {collecting, NotCollecting}
      PROVE  AskingInv'
  <2>1. \A i : (Coming(i)' <=> Coming(i)) /\ (Asking(i)' => Asking(i))
    BY <1>3 DEF Coming, Asking
  <2> QED  BY <1>3, <2>1 DEF AskingInv
<1>4. CASE ModulePrompts
  <2>1. /\ uplink # <<>> /\ Head(uplink).op # "payload" /\ collecting' = Head(uplink)
        /\ UNCHANGED <<pc, call, nextId>>
    BY <1>4 DEF ModulePrompts
  <2>2. \A i : Asking(i)' => Asked(i)
    <3>1. 1 \in DOMAIN uplink /\ uplink[1] = Head(uplink)
      BY <1>0, <2>1, QueueShrinks
    <3> QED  BY <2>1, <3>1 DEF Asking, Asked
  <2>3. \A i \in Nat : Asked(i) => i < nextId /\ ~Coming(i)
    BY DEF PayloadInv, PromptInv, OnePlace
  <2>4. \A i : Coming(i)' <=> Coming(i)
    BY <2>1 DEF Coming
  <2> QED  BY <2>1, <2>2, <2>3, <2>4 DEF AskingInv
<1>5. CASE \E t \in Threads : Calls(t) \/ GetResponseLines(t)
  BY <1>1, <1>3, <1>5 DEF Calls, GetResponseLines, Callers
<1>6. CASE ReceiveTask
  <2>1. Rx \in Callers
    BY DEF Callers
  <2> QED
    BY <1>1, <1>3, <1>6, <2>1 DEF ReceiveTask, RxHandlerSends, RxTake, RxHandlerReturns, RxCheck,
       RxAppend, RxSignal, RxPrompt, RxSetPrompt
<1>7. CASE Module
  BY <1>3, <1>4, <1>7 DEF Module, ModuleReplies, ModuleCollects, ModuleRefusesStray, ModuleUrc
<1>8. CASE Quiet \/ UNCHANGED vars
  BY <1>3, <1>8 DEF Quiet, vars
<1> QED
  BY <1>2, <1>5, <1>6, <1>7, <1>8 DEF Next

LEMMA ChannelInvariant == Spec => []ChannelInv
<1>1. Init => AskingInv
  BY DEF Init, AskingInv, Asking
<1>2. TypeOK /\ WindowInv /\ PayloadInv /\ AskingInv <=> ChannelInv
  BY DEF ChannelInv
<1> QED  BY <1>1, <1>2, PayloadInvariant, NextAsking, PTL DEF Spec

\* At most one caller is inside a call.
LEMMA OneInside ==
    ASSUME WindowInv, NEW t \in Callers, NEW u \in Callers, InCall(t), u # t
    PROVE  ~InCall(u) /\ ~Waiting(u)
BY DEF WindowInv, CommandWindowExclusive, InCall, Waiting

\* With nothing but events in flight the bits are clear, and the order is right.
LEMMA StillOrder ==
    ASSUME ChannelInv, Still
    PROVE  bits = NoBits /\ OrderInv
<1>1. /\ bits \in [done : MaybeLine, prompt : MaybeLine]
      /\ bits.done = NoLine \/ bits.done.kind \in StatusKinds
      /\ bits.prompt = NoLine \/ bits.prompt.kind \in PromptKinds
  BY DEF ChannelInv, TypeOK, PayloadInv, KindInv
<1>2. bits.done = NoLine /\ bits.prompt = NoLine
  BY <1>1 DEF Still, InFlight, StatusKinds, PromptKinds, EventKinds
<1>3. bits = NoBits
  BY <1>1, <1>2 DEF NoBits
<1>4. /\ \A k \in DOMAIN wire : wire[k].kind \in EventKinds
      /\ rxpc # "idle" => rxline.kind \in EventKinds
  BY DEF Still, InFlight
<1>5. \A x \in EventKinds : x \notin EndKinds
  BY DEF EventKinds, EndKinds, StatusKinds, PromptKinds
<1> QED  BY <1>3, <1>4, <1>5 DEF OrderInv

\* Nothing comes into flight but events.
LEMMA FlightShrinks ==
    ASSUME \A l \in InFlight' : l \in InFlight \/ l.kind \in EventKinds
    PROVE  /\ Still => Still'
           /\ (\A l \in InFlight : l.kind \notin StatusKinds) =>
                 \A l \in InFlight' : l.kind \notin StatusKinds
BY DEF Still, EventKinds, StatusKinds

\* A step that leaves callers and uplink alone and puts nothing but events into flight.
LEMMA LinesKept ==
    ASSUME ChannelInv, LineInv, UNCHANGED <<pc, call, uplink, collecting>>,
           \A l \in InFlight' : l \in InFlight \/ l.kind \in EventKinds
    PROVE  RestInv' /\ UplinkInv' /\ CollectInv' /\ LiveInv'
<1> USE DEF LineInv
<1>0. /\ Still => Still'
      /\ (\A l \in InFlight : l.kind \notin StatusKinds)
             => \A l \in InFlight' : l.kind \notin StatusKinds
  BY FlightShrinks
<1>1. /\ \A t \in Callers : Waiting(t)' <=> Waiting(t)
      /\ \A t \in Callers : Owing(t)' <=> Owing(t)
      /\ \A i : Asking(i)' <=> Asking(i)
      /\ \A l : Expected(l)' <=> Expected(l)
  BY DEF Waiting, Owing, Asking, Expected
<1>2. RestInv'
  BY <1>0, <1>1 DEF RestInv
<1>3. UplinkInv'
  BY <1>0 DEF UplinkInv
<1>4. CollectInv'
  BY <1>0, <1>1 DEF CollectInv
<1>5. LiveInv'
  BY <1>1 DEF LiveInv, EventKinds, PromptKinds
<1> QED  BY <1>2, <1>3, <1>4, <1>5

\* A step of a caller while nobody waits, which writes nothing.
LEMMA RestingStep ==
    ASSUME ChannelInv, ChannelInv', LineInv, NEW t \in Callers,
           \A u \in Callers : u # t => pc'[u] = pc[u] /\ call'[u] = call[u],
           \A u \in Callers : ~Waiting(u), ~Waiting(t)',
           UNCHANGED <<uplink, collecting>>, InFlight' \subseteq InFlight,
           Owing(t) => Owing(t)',
           Owing(t)' => Owing(t) /\ call'[t].op = call[t].op /\ call'[t].by = call[t].by
    PROVE  LineInv'
<1> USE DEF LineInv
<1>0. /\ \A u \in Callers : ~Waiting(u)'
      /\ \A u \in Callers : Owing(u)' <=> Owing(u)
      /\ \A u \in Callers : Owing(u) => call'[u].op = call[u].op /\ call'[u].by = call[u].by
      /\ \A u \in Callers : pc[u] # "wait" /\ pc[u] # "waitprompt"
  BY DEF Waiting, Owing, Asking
<1>1. Still /\ Still' /\ \A k \in DOMAIN uplink : uplink[k].op = "payload"
  BY FlightShrinks DEF RestInv
<1>2. RestInv'
  BY <1>1 DEF RestInv
<1>3. UplinkInv'
  BY <1>1 DEF UplinkInv
<1>4. CollectInv'
  <2>1. \A l \in InFlight' : l.kind \notin StatusKinds
    BY <1>1 DEF Still, StatusKinds, EventKinds
  <2> QED  BY <1>0, <2>1 DEF CollectInv
<1>5. OrderInv'
  <2>1. (ChannelInv /\ Still => OrderInv)'
    BY StillOrder, PTL
  <2> QED  BY <1>1, <2>1
<1>6. LiveInv'
  BY <1>1 DEF LiveInv, Still, EventKinds, PromptKinds
<1> QED  BY <1>2, <1>3, <1>4, <1>5, <1>6

\* The wait of a call ends: what ended it was the last line but events.
LEMMA WaitEnds ==
    ASSUME ChannelInv, ChannelInv', LineInv, NEW t \in Callers, Waiting(t), ~Waiting(t)',
           \A u \in Callers : u # t => pc'[u] = pc[u] /\ call'[u] = call[u],
           bits # NoBits, bits' = NoBits,
           UNCHANGED <<wire, rxpc, rxline, uplink, collecting>>,
           call'[t].op = call[t].op,
           Owing(t) => Owing(t)' /\ call'[t].by.kind \in PromptKinds,
           Owing(t)' => Owing(t)
    PROVE  Still' /\ LineInv'
<1> USE DEF LineInv
<1>0. /\ bits \in [done : MaybeLine, prompt : MaybeLine]
      /\ bits.done = NoLine \/ bits.done.kind \in StatusKinds
      /\ bits.prompt = NoLine \/ bits.prompt.kind \in PromptKinds
  BY DEF ChannelInv, TypeOK, PayloadInv, KindInv
<1>1. bits.done # NoLine \/ bits.prompt # NoLine
  BY <1>0 DEF NoBits
<1>2. ~Still
  BY <1>0, <1>1 DEF Still, InFlight, StatusKinds, PromptKinds, EventKinds
<1>3. Still'
  <2>1. /\ \A k \in DOMAIN wire' : wire'[k].kind \in EventKinds
        /\ rxpc' = "idle" \/ rxline'.kind \in EventKinds
        /\ bits'.done = NoLine /\ bits'.prompt = NoLine
    BY DEF OrderInv, NoBits
  <2> QED  BY <2>1 DEF Still, InFlight
<1>4. \A k \in DOMAIN uplink : uplink[k].op = "payload"
  BY <1>2 DEF UplinkInv
<1>5. InCall(t) /\ \A u \in Callers : u # t => ~InCall(u) /\ ~Waiting(u)
  BY OneInside DEF Waiting, InCall, ChannelInv
<1>6. /\ \A u \in Callers : ~Waiting(u)'
      /\ \A u \in Callers : Owing(u)' <=> Owing(u)
      /\ \A u \in Callers : Owing(u) => u = t
  BY <1>5 DEF Waiting, Owing, Asking, InCall
<1>7. RestInv'
  BY <1>3, <1>4 DEF RestInv
<1>8. UplinkInv'
  BY <1>4 DEF UplinkInv
<1>9. CollectInv'
  <2>1. \A l \in InFlight' : l.kind \notin StatusKinds
    BY <1>3 DEF Still, StatusKinds, EventKinds
  <2> QED  BY <1>2, <1>6, <2>1 DEF CollectInv
<1>10. OrderInv'
  <2>1. (ChannelInv /\ Still => OrderInv)'
    BY StillOrder, PTL
  <2> QED  BY <1>3, <2>1
<1>11. LiveInv'
  BY <1>3 DEF LiveInv, Still, EventKinds, PromptKinds
<1> QED  BY <1>3, <1>7, <1>8, <1>9, <1>10, <1>11

\* The callers that are not inside a call keep what they have.
LEMMA OthersKeep ==
    ASSUME ChannelInv, NEW t \in Callers, InCall(t) \/ mutex = Free,
           \A u \in Callers : u # t => pc'[u] = pc[u] /\ call'[u] = call[u],
           \/ InCall(t) /\ nextId' = nextId
           \/ nextId' = nextId + 1,
           \A u \in Callers : CallInv(u)
    PROVE  \A u \in Callers : u # t => CallInv(u)'
<1> SUFFICES ASSUME NEW u \in Callers, u # t PROVE CallInv(u)'
  OBVIOUS
<1>0. nextId \in Nat /\ call[u].id \in Nat /\ call[t].id \in Nat
  BY DEF ChannelInv, TypeOK, CallType
<1>1. ~InCall(u)
  BY CallersAssumption DEF ChannelInv, WindowInv, CommandWindowExclusive, Callers
<1>2. pc'[u] \in {"idle", "lock"} /\ pc[u] = pc'[u] /\ call'[u] = call[u]
  BY <1>1 DEF InCall
<1>3. call[u].id # nextId' - 1
  BY <1>0 DEF ChannelInv, PayloadInv, IdInv
<1>4. ~Reading(u)' /\ (Answered(u)' <=> Answered(u))
  BY <1>2, <1>3 DEF Reading, Answered
<1>5. AnsweredByOwn(u)'
  BY <1>2, <1>4 DEF CallInv, AnsweredByOwn
<1> QED  BY <1>2, <1>4, <1>5 DEF CallInv, EndedByOwn, OwnBuffer, OwnResponse

\* A caller inside a call puts no line into flight.
LEMMA SenderFlight ==
    ASSUME TypeOK, NEW t \in Callers, Sender(t)
    PROVE  InFlight' \subseteq InFlight
BY SenderKeeps DEF InFlight

\* Steps of a caller that does not wait and writes nothing.
LEMMA RestingCaller ==
    ASSUME ChannelInv, ChannelInv', LineInv, \A u \in Callers : CallInv(u),
           NEW t \in Callers, Sender(t), ~late',
           \/ Acquire(t) \/ ClearResponse(t) \/ ClearBits(t) \/ WriteCommandFails(t)
           \/ Disarm(t) \/ EndWindow(t) \/ Result(t)
    PROVE  LineInv' /\ CallInv(t)'
<1>0. /\ pc \in [Callers -> PcValues] /\ call \in [Callers -> CallType] /\ call[t] \in CallType
      /\ TypeOK /\ parsed \in [status : MaybeLine, lines : Seq(Line)] /\ buffer \in Seq(Line)
  BY DEF ChannelInv, TypeOK
<1>k. /\ \A u \in Callers : u # t => pc'[u] = pc[u] /\ call'[u] = call[u]
      /\ call'[t].op = call[t].op
      /\ UNCHANGED <<rxpc, rxline, wire, collecting>>
      /\ InFlight' \subseteq InFlight
  BY <1>0, SenderKeeps, SenderFlight
<1>a. InCall(t) \/ mutex = Free
  BY <1>0, SenderIds DEF Acquire
<1>b. ~Waiting(t) /\ ~Waiting(t)' /\ pc'[t] # "waitprompt"
  BY <1>0 DEF Acquire, ClearResponse, ClearBits, WriteCommandFails, Disarm, EndWindow, Result,
     Waiting, GoTo
<1>c. \A u \in Callers : ~Waiting(u)
  BY <1>a, <1>b, CallersAssumption DEF ChannelInv, WindowInv, CommandWindowExclusive, Waiting,
     InCall, Callers
<1>d. Still /\ bits = NoBits
  BY <1>c, StillOrder DEF LineInv, RestInv
<1>e. UNCHANGED uplink
  BY DEF Acquire, ClearResponse, ClearBits, WriteCommandFails, Disarm, EndWindow, Result,
     moduleVars
<1>f. CallInv(t)
  OBVIOUS
<1>1. CASE ~Disarm(t)
  <2>1. ~Owing(t) /\ ~Owing(t)'
    BY <1>0, <1>1 DEF Acquire, ClearResponse, ClearBits, WriteCommandFails, EndWindow, Result,
       Owing, GoTo
  <2>2. LineInv'
    BY <1>b, <1>c, <1>e, <1>k, <2>1, RestingStep
  <2>3. CASE Acquire(t)
    <3>1. pc'[t] = "clear" \/ (pc'[t] = "write" /\ call[t].op = "SendLine")
      BY <1>0, <2>3 DEF Acquire, GoTo
    <3> QED  BY <1>k, <2>2, <3>1 DEF CallInv, EndedByOwn, OwnBuffer, OwnResponse, AnsweredByOwn,
                Reading, Answered
  <2>4. CASE ClearResponse(t)
    <3>1. pc'[t] = "clearbits" /\ buffer' = <<>> /\ parsed' = EmptyResponse
      BY <1>0, <2>4 DEF ClearResponse, GoTo
    <3> QED  BY <2>2, <3>1 DEF CallInv, EndedByOwn, OwnBuffer, OwnResponse, AnsweredByOwn,
                Reading, Answered, EmptyResponse
  <2>5. CASE ClearBits(t)
    <3>1. /\ pc[t] = "clearbits" /\ pc'[t] = "write" /\ UNCHANGED <<call, buffer, parsed>>
          /\ bits.done = NoLine
      BY <1>0, <1>d, <2>5 DEF ClearBits, GoTo, NoBits
    <3>2. OwnBuffer(t)' /\ OwnResponse(t)'
      BY <1>f, <1>k, <3>1 DEF CallInv, OwnBuffer, OwnResponse, Reading, Answered
    <3> QED  BY <2>2, <3>1, <3>2 DEF CallInv, EndedByOwn, AnsweredByOwn, Answered
  <2>6. CASE WriteCommandFails(t)
    <3>1. pc'[t] = "idle" /\ call'[t].res = "txfail"
      BY <1>0, <2>6, EndsKeeps DEF WriteCommandFails, GoTo
    <3> QED  BY <2>2, <3>1 DEF CallInv, EndedByOwn, OwnBuffer, OwnResponse, AnsweredByOwn,
                Reading, Answered
  <2>7. CASE EndWindow(t)
    <3>1. pc[t] = "endwindow" /\ pc'[t] = "result" /\ UNCHANGED <<call, parsed>>
      BY <1>0, <2>7 DEF EndWindow, GoTo
    <3> QED  BY <1>f, <2>2, <3>1 DEF CallInv, EndedByOwn, OwnBuffer, OwnResponse, AnsweredByOwn,
                Reading, Answered
  <2>8. CASE Result(t)
    <3>1. /\ pc[t] = "result" /\ pc'[t] = "idle" /\ UNCHANGED parsed
          /\ call'[t].by = call[t].by /\ call'[t].id = call[t].id
          /\ call'[t].op = "SendCommand" =>
                call'[t].res = IF parsed.status.kind \in {"ok", "gt"} THEN "ok" ELSE "error"
      <4>1. CASE call[t].res # "none"
        BY <1>0, <1>f, <2>8, <4>1 DEF Result, GoTo, sharedVars, CallInv, EndedByOwn
      <4>2. CASE call[t].res = "none"
        BY <1>0, <2>8, <4>2, EndsKeeps DEF Result, GoTo, sharedVars, ParsedOk
      <4> QED  BY <4>1, <4>2
    <3>2. AnsweredByOwn(t)'
      BY <1>f, <1>k, <3>1 DEF CallInv, EndedByOwn, AnsweredByOwn, StatusKinds
    <3>3. OwnResponse(t)'
      BY <1>f, <1>k, <3>1 DEF CallInv, OwnResponse, Reading
    <3> QED  BY <2>2, <3>1, <3>2, <3>3 DEF CallInv, EndedByOwn, OwnBuffer
  <2> QED  BY <1>1, <2>3, <2>4, <2>5, <2>6, <2>7, <2>8
<1>2. CASE Disarm(t)
  <2>1. /\ pc[t] = "disarm" /\ call[t].op = "SendDataAfterPrompt" /\ UNCHANGED call
        /\ pc'[t] = IF call[t].by.kind \in PromptKinds THEN "payload" ELSE "endwindow"
    BY <1>0, <1>2 DEF Disarm, GoTo, ChannelInv, WindowInv, WindowOps, PromptKinds
  <2>2. \A i : Asking(i)' <=> Asking(i)
    BY <1>k DEF Asking
  <2>3. /\ Owing(t) => Owing(t)'
        /\ Owing(t)' => Owing(t) /\ call'[t].op = call[t].op /\ call'[t].by = call[t].by
    BY <2>1, <2>2 DEF Owing, Asking, LineInv, CollectInv
  <2>4. LineInv'
    BY <1>b, <1>c, <1>e, <1>k, <2>3, RestingStep
  <2>5. EndedByOwn(t)'
    BY <1>f, <2>1, <2>2 DEF CallInv, EndedByOwn
  <2> QED  BY <2>1, <2>4, <2>5 DEF CallInv, OwnBuffer, OwnResponse, AnsweredByOwn, Reading, Answered
<1> QED  BY <1>1, <1>2

\* The receive task has no answer in its hands while nobody waits.
LEMMA StillReceives ==
    ASSUME ChannelInv, Still
    PROVE  rxpc # "signal"
BY DEF Still, InFlight, ChannelInv, PayloadInv, KindInv, StatusKinds, EventKinds

\* The line behind a bit is of the caller that waits for it.
LEMMA BitIsOwn ==
    ASSUME ChannelInv, LineInv, NEW t \in Callers, Waiting(t), NEW l \in InFlight,
           l.kind \in EndKinds
    PROVE  /\ l.cmd = call[t].id
           /\ l.kind \in PromptKinds => /\ Asking(call[t].id) /\ call[t].op # "SendCommand"
                                        /\ pc[t] = "waitprompt"
<1>1. l.kind \notin EventKinds
  BY DEF EndKinds, EventKinds, StatusKinds, PromptKinds
<1>2. PICK u \in Callers :
          /\ Waiting(u) /\ call[u].id = l.cmd
          /\ l.kind \in PromptKinds => call[u].op # "SendCommand" /\ pc[u] = "waitprompt"
  BY <1>1 DEF LineInv, LiveInv, Expected
<1>3. u = t
  BY <1>2, OneInside DEF ChannelInv, Waiting, InCall
<1>4. l.kind \in PromptKinds => Asking(l.cmd)
  BY DEF LineInv, LiveInv
<1> QED  BY <1>2, <1>3, <1>4

\* A wait that ends with a bit.
LEMMA WaitingCaller ==
    ASSUME ChannelInv, ChannelInv', LineInv, \A u \in Callers : CallInv(u),
           NEW t \in Callers, Sender(t),
           WaitDone(t) \/ WaitPrompt(t) \/ WaitRefused(t)
    PROVE  LineInv' /\ CallInv(t)'
<1>0. /\ pc \in [Callers -> PcValues] /\ call \in [Callers -> CallType] /\ call[t] \in CallType
      /\ TypeOK /\ bits \in [done : MaybeLine, prompt : MaybeLine]
      /\ bits.done = NoLine \/ bits.done.kind \in StatusKinds
      /\ bits.prompt = NoLine \/ bits.prompt.kind \in PromptKinds
  BY DEF ChannelInv, TypeOK, PayloadInv, KindInv
<1>k. /\ \A u \in Callers : u # t => pc'[u] = pc[u] /\ call'[u] = call[u]
      /\ call'[t].op = call[t].op /\ call'[t].id = call[t].id
      /\ UNCHANGED <<rxpc, rxline, wire, collecting, uplink, parsed>>
  <2>1. call'[t].id = call[t].id
    BY <1>0, EndsKeeps DEF WaitDone, WaitPrompt, WaitRefused
  <2> QED  BY <1>0, <2>1, SenderKeeps DEF WaitDone, WaitPrompt, WaitRefused, moduleVars
<1>a. Waiting(t) /\ ~Waiting(t)'
  BY <1>0 DEF WaitDone, WaitPrompt, WaitRefused, Waiting, GoTo
<1>b. CallInv(t)
  OBVIOUS
<1>c. \A i : Asking(i)' <=> Asking(i)
  BY <1>k DEF Asking
<1>o. bits # NoBits => bits.done = NoLine \/ bits.prompt = NoLine
  BY DEF LineInv, OrderInv
<1>1. CASE WaitDone(t)
  <2>1. /\ pc[t] = "wait" /\ bits.done # NoLine /\ pc'[t] = "endwindow"
        /\ call'[t].by = bits.done /\ call'[t].res = "none"
        /\ bits' = [bits EXCEPT !.done = NoLine]
    BY <1>0, <1>1, EndsKeeps DEF WaitDone, GoTo, HasBit
  <2>2. bits # NoBits /\ bits' = NoBits
    BY <1>0, <1>o, <2>1 DEF NoBits
  <2>3. LineInv'
    BY <1>a, <1>k, <2>1, <2>2, WaitEnds DEF Owing
  <2>4. bits.done \in InFlight /\ bits.done.kind \in EndKinds
    BY <1>0, <2>1 DEF InFlight, EndKinds
  <2>5. EndedByOwn(t)'
    BY <1>0, <1>a, <1>b, <1>k, <2>1, <2>4, BitIsOwn DEF CallInv, OwnResponse, EndedByOwn
  <2>6. OwnResponse(t)'
    BY <1>b, <1>k, <2>1 DEF CallInv, OwnResponse, Reading, Answered
  <2> QED  BY <2>1, <2>3, <2>5, <2>6 DEF CallInv, OwnBuffer, AnsweredByOwn, Answered
<1>2. CASE WaitPrompt(t)
  <2>1. /\ pc[t] = "waitprompt" /\ bits.prompt # NoLine /\ pc'[t] \in {"disarm", "payload"}
        /\ call'[t].by = bits.prompt
        /\ bits' \in {NoBits, [bits EXCEPT !.prompt = NoLine]}
    BY <1>0, <1>2, EndsKeeps DEF WaitPrompt, GoTo, HasBit
  <2>2. bits # NoBits /\ bits' = NoBits
    BY <1>0, <1>o, <2>1 DEF NoBits
  <2>3. bits.prompt \in InFlight /\ bits.prompt.kind \in EndKinds
    BY <1>0, <2>1 DEF InFlight, EndKinds
  <2>4. /\ bits.prompt.kind \in PromptKinds /\ bits.prompt.cmd = call[t].id
        /\ Asking(call[t].id) /\ call[t].op # "SendCommand"
    BY <1>0, <1>a, <2>1, <2>3, BitIsOwn
  <2>5. LineInv'
    BY <1>0, <1>a, <1>c, <1>k, <2>1, <2>2, <2>4, WaitEnds DEF Owing, Asking
  <2>6. EndedByOwn(t)'
    BY <1>c, <1>k, <2>1, <2>4 DEF EndedByOwn, Asking
  <2> QED  BY <1>k, <2>1, <2>4, <2>5, <2>6 DEF CallInv, OwnBuffer, OwnResponse, AnsweredByOwn,
              Answered, Reading
<1>3. CASE WaitRefused(t)
  <2>1. /\ pc[t] = "waitprompt" /\ bits.done # NoLine /\ pc'[t] = "disarm"
        /\ call'[t].by = bits.done /\ call[t].op = "SendDataAfterPrompt"
        /\ bits' = NoBits
    BY <1>0, <1>3, EndsKeeps DEF WaitRefused, GoTo, HasBit
  <2>2. bits # NoBits
    BY <2>1 DEF NoBits
  <2>3. bits.done \in InFlight /\ bits.done.kind \in EndKinds
    BY <1>0, <2>1 DEF InFlight, EndKinds
  <2>4. bits.done.kind \in StatusKinds /\ bits.done.cmd = call[t].id
    BY <1>0, <1>a, <2>1, <2>3, BitIsOwn
  <2>5. ~Owing(t) /\ ~Owing(t)'
    <3>1. ~Owing(t)
      BY <2>3, <2>4 DEF LineInv, CollectInv, Owing, Asking
    <3> QED  BY <1>k, <2>1, <3>1 DEF Owing, Asking
  <2>6. LineInv'
    BY <1>a, <1>k, <2>1, <2>2, <2>5, WaitEnds
  <2>7. EndedByOwn(t)'
    BY <1>k, <2>1, <2>4 DEF EndedByOwn, StatusKinds, PromptKinds
  <2> QED  BY <1>k, <2>1, <2>6, <2>7 DEF CallInv, OwnBuffer, OwnResponse, AnsweredByOwn,
              Answered, Reading
<1> QED  BY <1>1, <1>2, <1>3

\* The command goes out: nothing else is under way but an earlier payload.
LEMMA WritingCaller ==
    ASSUME ChannelInv, ChannelInv', LineInv, \A u \in Callers : CallInv(u),
           NEW t \in Callers, Sender(t), WriteCommand(t), ~late'
    PROVE  LineInv' /\ CallInv(t)'
<1> DEFINE r == [op |-> call[t].op, id |-> call[t].id]
<1>0. /\ pc \in [Callers -> PcValues] /\ call \in [Callers -> CallType] /\ call[t] \in CallType
      /\ TypeOK /\ uplink \in Seq(Request) /\ r \in Request
  BY DEF ChannelInv, TypeOK, CallType, Request
<1>k. /\ \A u \in Callers : u # t => pc'[u] = pc[u]
      /\ UNCHANGED <<rxpc, rxline, wire, collecting, buffer, parsed, bits, call>>
      /\ pc[t] = "write" /\ uplink' = Append(uplink, r)
      /\ pc'[t] = IF call[t].op = "SendCommand" THEN "wait" ELSE "waitprompt"
      /\ call[t].op # "SendLine"
  <2>1. call[t].op # "SendLine"
    BY DEF WriteCommand
  <2>2. UNCHANGED <<rxpc, rxline, wire, collecting>> /\ \A u \in Callers : u # t => pc'[u] = pc[u]
    BY <1>0, SenderKeeps
  <2> QED  BY <1>0, <2>1, <2>2 DEF WriteCommand, GoTo
<1>q. r.op = call[t].op /\ r.id = call[t].id
  OBVIOUS
<1> HIDE DEF r
<1>a. InCall(t) /\ \A u \in Callers : u # t => ~InCall(u) /\ ~Waiting(u)
  BY <1>k, OneInside DEF InCall, ChannelInv
<1>b. Still /\ bits = NoBits /\ rxpc # "signal"
      /\ \A k \in DOMAIN uplink : uplink[k].op = "payload"
  <2>1. \A u \in Callers : ~Waiting(u)
    BY <1>a, <1>k DEF Waiting
  <2> QED  BY <2>1, StillOrder, StillReceives DEF LineInv, RestInv
<1>c. InFlight' = InFlight /\ Still'
  BY <1>b, <1>k DEF InFlight, Still
<1>d. \A u \in Callers : ~Owing(u) /\ (Owing(u)' => u = t)
  <2>1. \A u \in Callers : u # t => ~Owing(u) /\ ~Owing(u)'
    BY <1>a, <1>k DEF Owing, InCall
  <2>2. ~Owing(t)
    BY <1>k DEF Owing
  <2> QED  BY <2>1, <2>2
<1>1. RestInv'
  <2>1. Waiting(t)'
    BY <1>k DEF Waiting
  <2> QED  BY <2>1 DEF RestInv
<1>2. UplinkInv'
  <2> SUFFICES ASSUME NEW k \in DOMAIN uplink'
               PROVE  IF uplink'[k].op = "payload"
                      THEN k = 1 /\ collecting' # NotCollecting
                      ELSE /\ k = Len(uplink') /\ Still'
                           /\ \E u \in Callers :
                                /\ call'[u].id = uplink'[k].id /\ call'[u].op = uplink'[k].op
                                /\ pc'[u] = IF call'[u].op = "SendCommand" THEN "wait"
                                            ELSE "waitprompt"
    BY DEF UplinkInv
  <2>1. CASE k \in DOMAIN uplink
    <3>1. uplink'[k] = uplink[k] /\ uplink[k].op = "payload"
      BY <1>0, <1>b, <1>k, <2>1, QueueAppends
    <3> QED  BY <1>k, <2>1, <3>1 DEF LineInv, UplinkInv
  <2>2. CASE k \notin DOMAIN uplink
    <3>1. k = Len(uplink') /\ uplink'[k] = r
      BY <1>0, <1>k, <2>2, QueueAppends
    <3>2. r.op # "payload"
      BY <1>0, <1>q DEF CallType, AllOps
    <3> QED  BY <1>c, <1>k, <1>q, <3>1, <3>2
  <2> QED  BY <2>1, <2>2
<1>3. CollectInv'
  <2> SUFFICES ASSUME collecting # NotCollecting PROVE CollectInv'
    BY <1>k DEF CollectInv
  <2>1. /\ collecting.op \in {"SendDataAfterPrompt", "SendCommandWithData"}
        /\ uplink # <<>> /\ uplink[1].op = "payload"
        /\ collecting.op # "SendCommandWithData"
    BY <1>a, <1>d, <1>k DEF LineInv, CollectInv, InCall
  <2>2. uplink' # <<>> /\ uplink'[1].op = "payload"
    BY <1>0, <1>k, <2>1, QueueAppends
  <2>3. ~Owing(t)'
    <3>1. call[t].id \in Nat /\ Coming(call[t].id)
      BY <1>0, <1>k DEF Coming, CallType
    <3>2. ~Asking(call[t].id)
      BY <3>1 DEF ChannelInv, AskingInv
    <3> QED  BY <1>k, <3>2 DEF Owing, Asking
  <2> QED  BY <1>d, <1>k, <2>1, <2>2, <2>3 DEF CollectInv
<1>4. OrderInv' /\ LiveInv'
  <2>1. (ChannelInv /\ Still => OrderInv)'
    BY StillOrder, PTL
  <2> QED  BY <1>c, <2>1 DEF LiveInv, Still, EventKinds, PromptKinds
<1>5. CallInv(t)'
  <2>1. CallInv(t)
    OBVIOUS
  <2>2. OwnBuffer(t)' /\ OwnResponse(t)'
    BY <1>b, <1>k, <2>1 DEF CallInv, OwnBuffer, OwnResponse, Reading, Answered, NoBits
  <2> QED  BY <1>k, <2>2 DEF CallInv, EndedByOwn, AnsweredByOwn, Answered
<1> QED  BY <1>1, <1>2, <1>3, <1>4, <1>5 DEF LineInv

\* The payload goes out: it is the only thing under way, and the module collects it.
LEMMA PayingCaller ==
    ASSUME ChannelInv, ChannelInv', LineInv, \A u \in Callers : CallInv(u),
           NEW t \in Callers, Sender(t), WritePayload(t)
    PROVE  LineInv' /\ CallInv(t)'
<1> DEFINE r == [op |-> "payload", id |-> call[t].id]
<1>0. /\ pc \in [Callers -> PcValues] /\ call \in [Callers -> CallType] /\ call[t] \in CallType
      /\ TypeOK /\ uplink \in Seq(Request) /\ r \in Request
  BY DEF ChannelInv, TypeOK, CallType, Request
<1>k. /\ \A u \in Callers : u # t => pc'[u] = pc[u] /\ call'[u] = call[u]
      /\ UNCHANGED <<rxpc, rxline, wire, collecting, bits>>
      /\ pc[t] = "payload" /\ uplink' = Append(uplink, r)
      /\ pc'[t] = IF call[t].op = "SendDataAfterPrompt" THEN "endwindow" ELSE "wait"
      /\ call'[t].op = call[t].op /\ call'[t].id = call[t].id /\ call'[t].by = call[t].by
  <2>1. UNCHANGED call \/ \E res : Ends(t, res, call[t].by)
    BY DEF WritePayload
  <2>2. call'[t].id = call[t].id /\ call'[t].by = call[t].by
    BY <1>0, <2>1, EndsKeeps
  <2>3. /\ \A u \in Callers : u # t => pc'[u] = pc[u] /\ call'[u] = call[u]
        /\ UNCHANGED <<rxpc, rxline, wire, collecting>>
        /\ call'[t].op = call[t].op
    BY <1>0, SenderKeeps
  <2> QED  BY <1>0, <2>2, <2>3 DEF WritePayload, GoTo, sharedVars
<1>q. r.op = "payload"
  OBVIOUS
<1> HIDE DEF r
<1>a. InCall(t) /\ \A u \in Callers : u # t => ~InCall(u) /\ ~Waiting(u)
  BY <1>k, OneInside DEF InCall, ChannelInv
<1>b. Still /\ Still'
  <2>1. \A u \in Callers : ~Waiting(u)
    BY <1>a, <1>k DEF Waiting
  <2>2. InFlight' = InFlight
    BY <1>k DEF InFlight
  <2> QED  BY <2>1, <2>2 DEF LineInv, RestInv, Still
<1>c. CallInv(t)
  OBVIOUS
<1>d. call[t].op # "SendCommand" /\ call[t].by.cmd = call[t].id /\ Asking(call[t].id)
  <2>1. call[t].by.kind \in PromptKinds
    BY <1>k DEF ChannelInv, PayloadInv, KindInv
  <2> QED  BY <1>c, <1>k, <2>1 DEF CallInv, EndedByOwn
<1>e. /\ uplink = <<>> /\ collecting # NotCollecting /\ collecting.id = call[t].id
      /\ call[t].op = collecting.op
  BY <1>d, <1>k DEF LineInv, CollectInv, Owing, Asking
<1>f. /\ uplink' = <<r>> /\ Len(uplink') = 1 /\ uplink' # <<>>
      /\ uplink'[1] = r /\ DOMAIN uplink' = {1}
  BY <1>0, <1>e, <1>k
<1>g. \A u \in Callers : ~Owing(u)'
  BY <1>a, <1>k DEF Owing, InCall
<1>1. RestInv' /\ UplinkInv'
  BY <1>b, <1>e, <1>f, <1>k, <1>q DEF RestInv, UplinkInv
<1>2. CollectInv'
  <2>1. collecting.op \in {"SendDataAfterPrompt", "SendCommandWithData"}
    BY <1>e DEF LineInv, CollectInv
  <2>2. collecting.op = "SendCommandWithData" => call'[t].id = collecting'.id /\ pc'[t] = "wait"
    BY <1>e, <1>k
  <2> QED  BY <1>b, <1>f, <1>g, <1>k, <1>q, <2>1, <2>2 DEF CollectInv
<1>3. OrderInv' /\ LiveInv'
  <2>1. (ChannelInv /\ Still => OrderInv)'
    BY StillOrder, PTL
  <2> QED  BY <1>b, <2>1 DEF LiveInv, Still, EventKinds, PromptKinds
<1>4. CallInv(t)'
  BY <1>d, <1>k DEF CallInv, EndedByOwn, OwnBuffer, OwnResponse, AnsweredByOwn, Answered, Reading
<1> QED  BY <1>1, <1>2, <1>3, <1>4 DEF LineInv

\* Every step of a caller inside a call.
LEMMA SenderInStep ==
    ASSUME ChannelInv, ChannelInv', StepInv, NEW t \in Callers, Sender(t)
    PROVE  StepInv'
<1> SUFFICES ASSUME ~late' PROVE LineInv' /\ \A u \in Callers : CallInv(u)'
  BY DEF StepInv
<1>0. TypeOK /\ late \in BOOLEAN
  BY DEF ChannelInv, TypeOK
<1>1. ~(WaitTimeout(t) \/ WaitPromptTimeout(t) \/ WritePayloadFails(t))
  BY DEF WaitTimeout, WaitPromptTimeout, WritePayloadFails
<1>2. late' = late \/ late'
  <2>1. CASE WriteCommand(t)
    BY <2>1 DEF WriteCommand
  <2>2. CASE ~WriteCommand(t)
    BY <1>1, <2>2 DEF Sender, Acquire, ClearResponse, ClearBits, WriteCommandFails, WaitDone,
       WaitPrompt, WaitRefused, Disarm, WritePayload, EndWindow, Result, historyVars
  <2> QED  BY <2>1, <2>2
<1>3. LineInv /\ \A u \in Callers : CallInv(u)
  BY <1>2 DEF StepInv
<1>4. LineInv' /\ CallInv(t)'
  <2>1. CASE \/ Acquire(t) \/ ClearResponse(t) \/ ClearBits(t) \/ WriteCommandFails(t)
             \/ Disarm(t) \/ EndWindow(t) \/ Result(t)
    BY <1>3, <2>1, RestingCaller
  <2>2. CASE WaitDone(t) \/ WaitPrompt(t) \/ WaitRefused(t)
    BY <1>3, <2>2, WaitingCaller
  <2>3. CASE WriteCommand(t)
    BY <1>3, <2>3, WritingCaller
  <2>4. CASE WritePayload(t)
    BY <1>3, <2>4, PayingCaller
  <2> QED  BY <1>1, <2>1, <2>2, <2>3, <2>4 DEF Sender
<1>5. \A u \in Callers : u # t => CallInv(u)'
  <2>1. \A u \in Callers : u # t => pc'[u] = pc[u] /\ call'[u] = call[u]
    BY <1>0, SenderKeeps
  <2>2. /\ InCall(t) \/ mutex = Free
        /\ \/ InCall(t) /\ nextId' = nextId
           \/ nextId' = nextId + 1
    BY <1>0, SenderIds DEF Acquire
  <2> QED  BY <1>3, <2>1, <2>2, OthersKeep
<1> QED  BY <1>4, <1>5

\* A caller that enters a call has nothing under way.
LEMMA InvokeInStep ==
    ASSUME ChannelInv, ChannelInv', StepInv, NEW t \in Callers, NEW op, Invoke(t, op),
           UNCHANGED rxline, (rxpc = "idle") <=> (rxpc' = "idle"),
           (rxpc = "signal") <=> (rxpc' = "signal")
    PROVE  StepInv'
<1>0. TypeOK
  BY DEF ChannelInv
<1>k. /\ \A u \in Callers : u # t => pc'[u] = pc[u] /\ call'[u] = call[u]
      /\ pc[t] = "idle" /\ pc'[t] = "lock"
      /\ UNCHANGED <<nextId, bits, buffer, parsed, uplink, wire, collecting, late>>
  BY <1>0, InvokeKeeps DEF sharedVars, moduleVars, historyVars
<1> SUFFICES ASSUME ~late PROVE LineInv' /\ \A u \in Callers : CallInv(u)'
  BY <1>k DEF StepInv
<1>1. LineInv /\ \A u \in Callers : CallInv(u)
  BY DEF StepInv
<1>2. InFlight' = InFlight /\ (Still' <=> Still)
  BY <1>k DEF InFlight, Still
<1>3. /\ \A u \in Callers : Waiting(u)' <=> Waiting(u)
      /\ \A u \in Callers : Owing(u)' <=> Owing(u)
      /\ \A u \in Callers : Waiting(u) \/ Owing(u) =>
            u # t /\ pc'[u] = pc[u] /\ call'[u] = call[u]
      /\ \A i : Asking(i)' <=> Asking(i)
  BY <1>k DEF Waiting, Owing, Asking
<1>4. RestInv'
  BY <1>1, <1>2, <1>3, <1>k DEF LineInv, RestInv
<1>5. UplinkInv'
  <2>1. \A u \in Callers : pc[u] = "wait" \/ pc[u] = "waitprompt" =>
            pc'[u] = pc[u] /\ call'[u] = call[u]
    BY <1>k
  <2>2. ASSUME NEW k \in DOMAIN uplink, uplink[k].op # "payload"
        PROVE  \E u \in Callers :
                 /\ call'[u].id = uplink[k].id /\ call'[u].op = uplink[k].op
                 /\ pc'[u] = IF call'[u].op = "SendCommand" THEN "wait" ELSE "waitprompt"
    <3>1. PICK u \in Callers :
                 /\ call[u].id = uplink[k].id /\ call[u].op = uplink[k].op
                 /\ pc[u] = IF call[u].op = "SendCommand" THEN "wait" ELSE "waitprompt"
      BY <1>1, <2>2 DEF LineInv, UplinkInv
    <3> QED  BY <2>1, <3>1
  <2> QED  BY <1>1, <1>2, <1>k, <2>2 DEF LineInv, UplinkInv
<1>6. CollectInv'
  <2>1. \A u \in Callers : pc[u] = "wait" => pc'[u] = pc[u] /\ call'[u] = call[u]
    BY <1>k
  <2> QED  BY <1>1, <1>2, <1>3, <1>k, <2>1 DEF LineInv, CollectInv
<1>7. OrderInv' /\ LiveInv'
  <2>1. \A l : Expected(l) => Expected(l)'
    <3> SUFFICES ASSUME NEW l, Expected(l) PROVE Expected(l)'
      OBVIOUS
    <3>1. PICK u \in Callers :
            /\ Waiting(u) /\ call[u].id = l.cmd
            /\ l.kind \in {"echo", "info"} => call[u].op = "SendCommand"
            /\ l.kind \in PromptKinds => call[u].op # "SendCommand" /\ pc[u] = "waitprompt"
      BY DEF Expected
    <3>2. Waiting(u)' /\ call'[u] = call[u] /\ pc'[u] = pc[u]
      BY <1>3, <3>1
    <3> QED  BY <3>1, <3>2 DEF Expected
  <2>2. LiveInv'
    BY <1>1, <1>2, <1>3, <2>1 DEF LineInv, LiveInv
  <2> QED  BY <1>1, <1>k, <2>2 DEF LineInv, OrderInv
<1>8. ASSUME NEW u \in Callers, u # t PROVE CallInv(u)'
  <2>1. CallInv(u) /\ pc'[u] = pc[u] /\ call'[u] = call[u]
    BY <1>1, <1>8, <1>k
  <2>2. EndedByOwn(u)' /\ AnsweredByOwn(u)'
    BY <1>3, <1>k, <2>1 DEF CallInv, EndedByOwn, AnsweredByOwn, Answered
  <2>3. OwnBuffer(u)'
    BY <1>k, <2>1 DEF CallInv, OwnBuffer
  <2>4. OwnResponse(u)'
    BY <1>k, <2>1 DEF CallInv, OwnResponse, Reading, Answered
  <2> QED  BY <2>2, <2>3, <2>4 DEF CallInv
<1>9. CallInv(t)'
  BY <1>k DEF CallInv, EndedByOwn, OwnBuffer, OwnResponse, AnsweredByOwn, Answered, Reading
<1> QED  BY <1>4, <1>5, <1>6, <1>7, <1>8, <1>9 DEF LineInv

\* The lines of a parsed response are lines of the buffer.
LEMMA ParsedLines ==
    ASSUME NEW b \in Seq(Line)
    PROVE  \A k \in DOMAIN ParseResponse(b).lines :
              \E j \in DOMAIN b : ParseResponse(b).lines[k] = b[j]
<1> DEFINE body == IF b # <<>> /\ b[1].kind = "echo" THEN Tail(b) ELSE b
           finals == {i \in 1 .. Len(body) : body[i].kind \in FinalKinds}
           first == CHOOSE i \in finals : \A j \in finals : i <= j
<1>1. body \in Seq(Line) /\ \A k \in DOMAIN body : \E j \in DOMAIN b : body[k] = b[j]
  <2>1. CASE b # <<>> /\ b[1].kind = "echo"
    BY <2>1, QueueShrinks
  <2>2. CASE ~(b # <<>> /\ b[1].kind = "echo")
    BY <2>2
  <2> QED  BY <2>1, <2>2
<1>2. finals # {} => first \in finals
  <2>1. finals \in SUBSET Nat
    OBVIOUS
  <2> HIDE DEF finals
  <2> QED  BY <2>1, LeastIndex
<1>3. finals # {} => first \in 1 .. Len(body)
  BY <1>2
<1>4. ParseResponse(b).lines = IF finals = {} THEN body ELSE SubSeq(body, 1, first - 1)
  <2>1. CASE finals = {}
    <3>1. ParseResponse(b) = [status |-> NoLine, lines |-> body]
      BY <2>1 DEF ParseResponse
    <3> QED  BY <2>1, <3>1
  <2>2. CASE finals # {}
    <3> DEFINE front == SubSeq(body, 1, first - 1)
    <3>1. ParseResponse(b) = [status |-> body[first], lines |-> front]
      BY <2>2 DEF ParseResponse
    <3>2. ParseResponse(b).lines = front
      <4> HIDE DEF body, finals, first, front
      <4> QED  BY <3>1
    <3> QED  BY <2>2, <3>2, Zenon
  <2> QED  BY <2>1, <2>2
<1> HIDE DEF body, finals, first
<1>5. CASE finals = {}
  BY <1>1, <1>4, <1>5
<1>6. CASE finals # {}
  <2>1. first \in Nat /\ first - 1 \in Nat /\ first - 1 <= Len(body)
    BY <1>1, <1>3, <1>6
  <2>2. ParseResponse(b).lines = SubSeq(body, 1, first - 1)
    BY <1>4, <1>6
  <2>3. \A k \in DOMAIN SubSeq(body, 1, first - 1) :
           k \in DOMAIN body /\ SubSeq(body, 1, first - 1)[k] = body[k]
    BY <1>1, <2>1
  <2> QED  BY <1>1, <2>2, <2>3
<1> QED  BY <1>5, <1>6

\* A final line that is the last of the buffer and the only one is the status.
LEMMA ParsedStatus ==
    ASSUME NEW b \in Seq(Line), b # <<>>, b[Len(b)].kind \in FinalKinds,
           \A k \in DOMAIN b : b[k].kind \in FinalKinds => k = Len(b)
    PROVE  ParseResponse(b).status = b[Len(b)]
<1> DEFINE body == IF b # <<>> /\ b[1].kind = "echo" THEN Tail(b) ELSE b
           finals == {i \in 1 .. Len(body) : body[i].kind \in FinalKinds}
           first == CHOOSE i \in finals : \A j \in finals : i <= j
<1>1. /\ body \in Seq(Line) /\ Len(body) \in Nat /\ Len(body) > 0
      /\ body[Len(body)] = b[Len(b)]
      /\ \A k \in DOMAIN body : body[k].kind \in FinalKinds => k = Len(body)
  <2>1. CASE b[1].kind = "echo"
    <3>1. body = Tail(b)
      BY <2>1
    <3>2. Len(b) \in Nat /\ Len(b) # 1 /\ Len(b) > 0
      BY <2>1 DEF FinalKinds, StatusKinds
    <3> HIDE DEF body
    <3>3. /\ body \in Seq(Line) /\ Len(body) = Len(b) - 1
          /\ \A k \in DOMAIN body : k + 1 \in DOMAIN b /\ body[k] = b[k + 1] /\ k \in Nat
      BY <3>1, QueueShrinks
    <3>4. Len(body) \in DOMAIN body
      BY <3>2, <3>3
    <3> QED  BY <3>2, <3>3, <3>4
  <2>2. CASE b[1].kind # "echo"
    BY <2>2
  <2> QED  BY <2>1, <2>2
<1>2. finals # {} => ParseResponse(b).status = body[first]
  <2> SUFFICES ASSUME finals # {} PROVE ParseResponse(b).status = body[first]
    OBVIOUS
  <2>1. ParseResponse(b) = [status |-> body[first], lines |-> SubSeq(body, 1, first - 1)]
    BY DEF ParseResponse
  <2> HIDE DEF body, finals, first
  <2> QED  BY <2>1
<1> HIDE DEF body
<1>3. finals = {Len(body)}
  BY <1>1
<1>4. first = Len(body)
  <2> HIDE DEF finals
  <2>1. Len(body) <= Len(body)
    BY <1>1
  <2> QED  BY <1>3, <2>1
<1> HIDE DEF finals, first
<1> QED  BY <1>1, <1>2, <1>3, <1>4

\* A line in the receive task's hands that is no event is of the caller that waits,
\* and every call that still reads its response is that caller.
LEMMA ReceivedIsOwn ==
    ASSUME ChannelInv, LineInv, rxpc # "idle", rxline.kind \notin EventKinds,
           NEW t \in Callers, InCall(t) \/ (call[t].id = nextId - 1)
    PROVE  /\ Waiting(t) /\ call[t].id = rxline.cmd
           /\ rxline.kind \in PromptKinds => call[t].op # "SendCommand"
<1>1. rxline \in InFlight
  BY DEF InFlight
<1>2. PICK u \in Callers :
          /\ Waiting(u) /\ call[u].id = rxline.cmd
          /\ rxline.kind \in PromptKinds => call[u].op # "SendCommand"
  BY <1>1 DEF LineInv, LiveInv, Expected
<1>3. InCall(u)
  BY <1>2 DEF Waiting, InCall
<1>4. CASE InCall(t)
  BY <1>2, <1>3, <1>4, OneInside DEF ChannelInv
<1>5. CASE call[t].id = nextId - 1
  BY <1>2, <1>3, <1>5 DEF ChannelInv, PayloadInv, IdInv
<1> QED  BY <1>4, <1>5

\* A step of the receive task that neither parses nor signals a response.
LEMMA ReceivedCalls ==
    ASSUME UNCHANGED <<pc, call, nextId, parsed, collecting>>, bits'.done = bits.done,
           NEW t \in Callers, CallInv(t), OwnBuffer(t)'
    PROVE  CallInv(t)'
<1>1. \A i : Asking(i)' <=> Asking(i)
  BY DEF Asking
<1>2. EndedByOwn(t)'
  BY <1>1 DEF CallInv, EndedByOwn
<1>3. OwnResponse(t)'
  BY DEF CallInv, OwnResponse, Reading, Answered
<1>4. AnsweredByOwn(t)'
  BY DEF CallInv, AnsweredByOwn, Answered
<1> QED  BY <1>2, <1>3, <1>4 DEF CallInv

\* Taking a line off the wire.
LEMMA TakeInStep ==
    ASSUME ChannelInv, LineInv, \A u \in Callers : CallInv(u), RxTake
    PROVE  LineInv' /\ \A u \in Callers : CallInv(u)'
<1>k. /\ UNCHANGED <<pc, call, nextId, bits, buffer, parsed, uplink, collecting>>
      /\ rxpc = "idle" /\ wire # <<>> /\ rxline' = Head(wire) /\ wire' = Tail(wire)
      /\ rxpc' \in {"prompt", "check"} /\ wire \in Seq(Line)
  BY DEF RxTake, callVars, sharedVars, ChannelInv, TypeOK
<1>q. /\ 1 \in DOMAIN wire /\ rxline' = wire[1]
      /\ \A k \in DOMAIN wire' : /\ k \in Nat /\ k > 0 /\ k + 1 \in DOMAIN wire
                                 /\ wire'[k] = wire[k + 1]
  BY <1>k, QueueShrinks
<1>1. InFlight' \subseteq InFlight
  BY <1>k, <1>q DEF InFlight
<1>2. RestInv' /\ UplinkInv' /\ CollectInv' /\ LiveInv'
  BY <1>1, <1>k, LinesKept
<1>3. OrderInv'
  <2>1. ASSUME NEW j \in DOMAIN wire', NEW k \in DOMAIN wire', j < k, wire'[j].kind \in EndKinds
        PROVE  wire'[k].kind \in EventKinds
    <3>1. j + 1 < k + 1
      BY <1>q, <2>1
    <3> QED  BY <1>q, <2>1, <3>1 DEF LineInv, OrderInv
  <2>2. ASSUME rxline'.kind \in EndKinds, NEW k \in DOMAIN wire'
        PROVE  wire'[k].kind \in EventKinds
    <3>1. 1 < k + 1
      BY <1>q, <2>2
    <3> QED  BY <1>q, <2>2, <3>1 DEF LineInv, OrderInv
  <2>3. bits' # NoBits =>
          /\ \A k \in DOMAIN wire' : wire'[k].kind \in EventKinds
          /\ rxline'.kind \in EventKinds
          /\ bits'.done = NoLine \/ bits'.prompt = NoLine
    BY <1>k, <1>q DEF LineInv, OrderInv
  <2> QED  BY <2>1, <2>2, <2>3 DEF OrderInv
<1>4. ASSUME NEW t \in Callers PROVE CallInv(t)'
  <2>1. CallInv(t)
    BY <1>4
  <2>2. OwnBuffer(t)'
    BY <1>k, <2>1 DEF CallInv, OwnBuffer
  <2> QED  BY <1>k, <2>1, <2>2, ReceivedCalls
<1> QED  BY <1>2, <1>3, <1>4 DEF LineInv

\* Looking at the line without a change of the response or of the bits.
LEMMA LookInStep ==
    ASSUME ChannelInv, LineInv, \A u \in Callers : CallInv(u),
           RxHandlerReturns \/ RxCheck \/ RxPrompt
    PROVE  LineInv' /\ \A u \in Callers : CallInv(u)'
<1>k. /\ UNCHANGED <<pc, call, nextId, bits, buffer, parsed, uplink, collecting, wire, rxline>>
      /\ rxpc # "idle" /\ rxpc # "signal" /\ rxpc' # "signal"
  BY DEF RxHandlerReturns, RxCheck, RxPrompt, RxStep, callVars, sharedVars, moduleVars
<1>1. InFlight' \subseteq InFlight
  BY <1>k DEF InFlight
<1>2. RestInv' /\ UplinkInv' /\ CollectInv' /\ LiveInv'
  BY <1>1, <1>k, LinesKept
<1>3. OrderInv'
  BY <1>k DEF LineInv, OrderInv
<1>4. ASSUME NEW t \in Callers PROVE CallInv(t)'
  <2>1. CallInv(t)
    BY <1>4
  <2>2. OwnBuffer(t)'
    BY <1>k, <2>1 DEF CallInv, OwnBuffer
  <2> QED  BY <1>k, <2>1, <2>2, ReceivedCalls
<1> QED  BY <1>2, <1>3, <1>4 DEF LineInv

\* Appending the line to the response: it is of the call, and nothing follows a final.
LEMMA AppendInStep ==
    ASSUME ChannelInv, LineInv, \A u \in Callers : CallInv(u), RxAppend
    PROVE  LineInv' /\ \A u \in Callers : CallInv(u)'
<1>k. /\ UNCHANGED <<pc, call, nextId, bits, parsed, uplink, collecting, wire, rxline>>
      /\ rxpc = "append" /\ buffer' = Append(buffer, rxline)
      /\ rxpc' = AfterAppend(rxline) /\ buffer \in Seq(Line) /\ rxline \in Line
  BY DEF RxAppend, RxStep, callVars, moduleVars, ChannelInv, TypeOK
<1>q. /\ rxpc' = "signal" <=> rxline.kind \in StatusKinds
      /\ Len(buffer') = Len(buffer) + 1 /\ Len(buffer') \in DOMAIN buffer'
      /\ buffer'[Len(buffer')] = rxline
      /\ \A k \in DOMAIN buffer' :
            (k \in DOMAIN buffer /\ buffer'[k] = buffer[k]) \/ k = Len(buffer')
  <2>1. rxpc' = "signal" <=> rxline.kind \in StatusKinds
    BY <1>k DEF AfterAppend, StatusKinds
  <2> QED  BY <1>k, <2>1, QueueAppends
<1>1. InFlight' \subseteq InFlight
  BY <1>k DEF InFlight
<1>2. RestInv' /\ UplinkInv' /\ CollectInv' /\ LiveInv'
  BY <1>1, <1>k, LinesKept
<1>3. OrderInv'
  BY <1>k DEF LineInv, OrderInv
<1>4. ASSUME NEW t \in Callers PROVE CallInv(t)'
  <2>1. CallInv(t)
    BY <1>4
  <2>2. ASSUME call[t].op = "SendCommand", pc[t] \in {"clearbits", "write", "wait"}
        PROVE  Own(rxline, call[t].id) /\ rxline.kind # "gt"
    <3>1. CASE rxline.kind \in EventKinds
      BY <3>1 DEF Own, EventKinds
    <3>2. CASE rxline.kind \notin EventKinds
      <4>1. InCall(t)
        BY <2>2 DEF InCall
      <4> QED  BY <1>k, <2>2, <3>2, <4>1, ReceivedIsOwn DEF Own, PromptKinds
    <3> QED  BY <3>1, <3>2
  <2>3. OwnBuffer(t)'
    <3>1. ASSUME call[t].op = "SendCommand", pc[t] \in {"clearbits", "write", "wait"},
                 NEW k \in DOMAIN buffer'
          PROVE  /\ Own(buffer'[k], call[t].id)
                 /\ buffer'[k].kind \in FinalKinds /\ bits.done = NoLine =>
                       k = Len(buffer') /\ rxpc' = "signal"
      <4>1. CASE k = Len(buffer')
        BY <1>q, <2>2, <3>1, <4>1 DEF FinalKinds
      <4>2. CASE k # Len(buffer')
        BY <1>k, <1>q, <2>1, <3>1, <4>2 DEF CallInv, OwnBuffer
      <4> QED  BY <4>1, <4>2
    <3>2. buffer' # <<>>
      BY <1>q
    <3> QED  BY <1>k, <1>q, <3>1, <3>2 DEF OwnBuffer, Own
  <2> QED  BY <1>k, <2>1, <2>3, ReceivedCalls
<1> QED  BY <1>2, <1>3, <1>4 DEF LineInv

\* Signalling a response: what was parsed is the response of the caller that waits.
LEMMA SignalInStep ==
    ASSUME ChannelInv, LineInv, \A u \in Callers : CallInv(u), RxSignal
    PROVE  LineInv' /\ \A u \in Callers : CallInv(u)'
<1>k. /\ UNCHANGED <<pc, call, nextId, buffer, uplink, collecting, wire, rxline>>
      /\ rxpc = "signal" /\ parsed' = ParseResponse(buffer)
      /\ bits' = [bits EXCEPT !.done = rxline]
      /\ rxpc' = "idle" /\ buffer \in Seq(Line) /\ rxline \in Line
      /\ bits \in [done : MaybeLine, prompt : MaybeLine]
  BY DEF RxSignal, RxStep, callVars, moduleVars, ChannelInv, TypeOK
<1>q. /\ rxline.kind \in StatusKinds /\ rxline.kind \in EndKinds /\ rxline.kind \notin EventKinds
      /\ rxline # NoLine /\ rxline \in InFlight
  BY <1>k DEF ChannelInv, PayloadInv, KindInv, EndKinds, EventKinds, StatusKinds, NoLine, InFlight
<1>b. bits = NoBits /\ bits'.done = rxline /\ bits'.prompt = NoLine /\ bits.done = NoLine
  <2>1. bits = NoBits
    BY <1>k, <1>q DEF LineInv, OrderInv
  <2> QED  BY <1>k, <2>1 DEF NoBits
<1>1. InFlight' \subseteq InFlight
  BY <1>b, <1>k, <1>q DEF InFlight
<1>2. RestInv' /\ UplinkInv' /\ CollectInv' /\ LiveInv'
  BY <1>1, <1>k, LinesKept
<1>3. OrderInv'
  BY <1>b, <1>k, <1>q DEF LineInv, OrderInv
<1>4. ASSUME NEW t \in Callers PROVE CallInv(t)'
  <2>1. CallInv(t)
    BY <1>4
  <2>2. \A i : Asking(i)' <=> Asking(i)
    BY <1>k DEF Asking
  <2>3. InCall(t) \/ call[t].id = nextId - 1 => Waiting(t)
    BY <1>k, <1>q, <1>4, ReceivedIsOwn
  <2>4. EndedByOwn(t)'
    <3>1. pc[t] \notin {"endwindow", "result"}
      BY <2>3 DEF InCall, Waiting
    <3> QED  BY <1>k, <2>1, <2>2, <3>1 DEF CallInv, EndedByOwn
  <2>5. OwnBuffer(t)'
    BY <1>b, <1>k, <1>q, <2>1 DEF CallInv, OwnBuffer
  <2>6. ASSUME call[t].op = "SendCommand", pc[t] = "wait"
        PROVE  /\ parsed'.status = rxline
               /\ \A k \in DOMAIN parsed'.lines : Own(parsed'.lines[k], call[t].id)
    <3>1. /\ \A k \in DOMAIN buffer : Own(buffer[k], call[t].id)
          /\ \A k \in DOMAIN buffer : buffer[k].kind \in FinalKinds => k = Len(buffer)
          /\ buffer # <<>> /\ buffer[Len(buffer)] = rxline
      BY <1>b, <1>k, <2>1, <2>6 DEF CallInv, OwnBuffer
    <3>2. parsed'.status = rxline
      BY <1>k, <1>q, <3>1, ParsedStatus DEF FinalKinds
    <3>3. \A k \in DOMAIN parsed'.lines : \E j \in DOMAIN buffer : parsed'.lines[k] = buffer[j]
      BY <1>k, ParsedLines
    <3> QED  BY <3>1, <3>2, <3>3
  <2>7. OwnResponse(t)'
    <3>1. Reading(t)' => Waiting(t)
      <4>1. Reading(t)' => pc[t] \in {"clearbits", "write", "wait", "endwindow", "result"}
                           \/ call[t].id = nextId - 1
        BY <1>k DEF Reading
      <4> QED  BY <2>3, <4>1 DEF InCall
    <3>2. Reading(t)' => call[t].op = "SendCommand"
      BY <1>k DEF Reading
    <3>3. Reading(t)' => pc[t] = "wait"
      BY <2>1, <3>1, <3>2 DEF Waiting, CallInv, EndedByOwn
    <3> QED  BY <1>b, <1>k, <2>6, <3>2, <3>3 DEF OwnResponse, Own
  <2>8. AnsweredByOwn(t)'
    BY <1>k, <2>1 DEF CallInv, AnsweredByOwn, Answered
  <2> QED  BY <2>4, <2>5, <2>7, <2>8 DEF CallInv
<1> QED  BY <1>2, <1>3, <1>4 DEF LineInv

\* Signalling a prompt.
LEMMA SetPromptInStep ==
    ASSUME ChannelInv, LineInv, \A u \in Callers : CallInv(u), RxSetPrompt
    PROVE  LineInv' /\ \A u \in Callers : CallInv(u)'
<1>k. /\ UNCHANGED <<pc, call, nextId, buffer, parsed, uplink, collecting, wire, rxline>>
      /\ rxpc = "setprompt" /\ bits' = [bits EXCEPT !.prompt = rxline]
      /\ rxpc' = "idle" /\ rxline \in Line
      /\ bits \in [done : MaybeLine, prompt : MaybeLine]
  BY DEF RxSetPrompt, RxStep, callVars, moduleVars, ChannelInv, TypeOK
<1>q. /\ rxline.kind \in EndKinds /\ rxline.kind \notin EventKinds
      /\ rxline # NoLine /\ rxline \in InFlight
  BY <1>k DEF ChannelInv, PayloadInv, KindInv, EndKinds, EventKinds, PromptKinds, NoLine, InFlight
<1>b. bits'.prompt = rxline /\ bits'.done = NoLine /\ bits.done = NoLine
  <2>1. bits = NoBits
    BY <1>k, <1>q DEF LineInv, OrderInv
  <2> QED  BY <1>k, <2>1 DEF NoBits
<1>1. InFlight' \subseteq InFlight
  BY <1>b, <1>k, <1>q DEF InFlight
<1>2. RestInv' /\ UplinkInv' /\ CollectInv' /\ LiveInv'
  BY <1>1, <1>k, LinesKept
<1>3. OrderInv'
  BY <1>b, <1>k, <1>q DEF LineInv, OrderInv
<1>4. ASSUME NEW t \in Callers PROVE CallInv(t)'
  <2>1. CallInv(t)
    BY <1>4
  <2>2. OwnBuffer(t)'
    BY <1>b, <1>k, <2>1 DEF CallInv, OwnBuffer
  <2> QED  BY <1>b, <1>k, <2>1, <2>2, ReceivedCalls
<1> QED  BY <1>2, <1>3, <1>4 DEF LineInv

\* Every step of the receive task.
LEMMA ReceiveInStep ==
    ASSUME ChannelInv, ChannelInv', StepInv, ReceiveTask
    PROVE  StepInv'
<1>1. CASE RxHandlerSends
  <2>1. Rx \in Callers
    BY DEF Callers
  <2>2. /\ UNCHANGED rxline /\ rxpc = "check" /\ rxpc' = "handling"
        /\ Invoke(Rx, "SendCommand")
    BY <1>1 DEF RxHandlerSends, RxStep
  <2>3. ((rxpc = "idle") <=> (rxpc' = "idle")) /\ ((rxpc = "signal") <=> (rxpc' = "signal"))
    BY <2>2
  <2> QED  BY <2>1, <2>2, <2>3, InvokeInStep
<1>2. CASE ~RxHandlerSends
  <2>1. UNCHANGED late
    BY <1>2 DEF ReceiveTask, RxTake, RxHandlerReturns, RxCheck, RxAppend, RxSignal, RxPrompt,
       RxSetPrompt, historyVars
  <2> SUFFICES ASSUME ~late PROVE LineInv' /\ \A u \in Callers : CallInv(u)'
    BY <2>1 DEF StepInv
  <2>2. LineInv /\ \A u \in Callers : CallInv(u)
    BY DEF StepInv
  <2> QED
    BY <1>2, <2>2, TakeInStep, LookInStep, AppendInStep, SignalInStep, SetPromptInStep
       DEF ReceiveTask
<1> QED  BY <1>1, <1>2

\* What the module may answer a command with.
LEMMA RepliesOrder ==
    ASSUME NEW op, NEW id \in Nat, NEW reply \in Replies(op, id)
    PROVE  /\ \A k \in DOMAIN reply : reply[k].kind \in {"echo", "info"} => op = "SendCommand"
           /\ \A j, k \in DOMAIN reply : j < k => reply[j].kind \notin EndKinds
BY DEF Replies, Msg, EndKinds, StatusKinds, PromptKinds

\* The module writes lines that are in order, behind what is in order already.
LEMMA EmitOrder ==
    ASSUME ChannelInv, LineInv, NEW lines \in Seq(Line), wire' = wire \o lines,
           UNCHANGED <<bits, rxpc, rxline>>,
           Still \/ \A k \in DOMAIN lines : lines[k].kind \in EventKinds,
           \A j, k \in DOMAIN lines : j < k => lines[j].kind \notin EndKinds
    PROVE  /\ OrderInv'
           /\ \A l \in InFlight' : l \in InFlight \/ \E k \in DOMAIN lines : l = lines[k]
<1>0. wire \in Seq(Line) /\ Len(wire) \in Nat /\ DOMAIN wire = 1 .. Len(wire)
  BY DEF ChannelInv, TypeOK
<1>1. /\ \A k \in DOMAIN wire : k \in DOMAIN wire' /\ wire'[k] = wire[k]
      /\ \A k \in DOMAIN wire' :
            \/ k \in DOMAIN wire
            \/ k - Len(wire) \in DOMAIN lines /\ wire'[k] = lines[k - Len(wire)] /\ k > Len(wire)
      /\ \A k \in DOMAIN wire' : k \in Nat
  BY <1>0, QueueGrows
<1>2. \A l \in InFlight' : l \in InFlight \/ \E k \in DOMAIN lines : l = lines[k]
  BY <1>1 DEF InFlight
<1>3. \A x \in EventKinds : x \notin EndKinds
  BY DEF EventKinds, EndKinds, StatusKinds, PromptKinds
<1>4. CASE \A k \in DOMAIN lines : lines[k].kind \in EventKinds
  <2>1. \A k \in DOMAIN wire' : wire'[k].kind \in EventKinds \/ (k \in DOMAIN wire)
    BY <1>1, <1>4
  <2>2. ASSUME NEW j \in DOMAIN wire', NEW k \in DOMAIN wire', j < k, wire'[j].kind \in EndKinds
        PROVE  wire'[k].kind \in EventKinds
    <3>1. CASE k \in DOMAIN wire
      <4>1. j \in DOMAIN wire
        BY <1>0, <1>1, <2>2, <3>1
      <4> QED  BY <1>1, <2>2, <3>1, <4>1 DEF LineInv, OrderInv
    <3>2. CASE k \notin DOMAIN wire
      BY <2>1, <3>2
    <3> QED  BY <3>1, <3>2
  <2>3. (\A k \in DOMAIN wire : wire[k].kind \in EventKinds) =>
           \A k \in DOMAIN wire' : wire'[k].kind \in EventKinds
    BY <1>1, <2>1
  <2> QED  BY <1>2, <2>2, <2>3 DEF LineInv, OrderInv
<1>5. CASE Still
  <2>1. /\ bits = NoBits
        /\ \A k \in DOMAIN wire : wire[k].kind \in EventKinds
        /\ rxpc # "idle" => rxline.kind \in EventKinds
    BY <1>5, StillOrder DEF Still, InFlight
  <2>2. ASSUME NEW j \in DOMAIN wire', NEW k \in DOMAIN wire', j < k, wire'[j].kind \in EndKinds
        PROVE  wire'[k].kind \in EventKinds
    <3>1. j \notin DOMAIN wire
      BY <1>1, <1>3, <2>1, <2>2
    <3>2. k \notin DOMAIN wire
      BY <1>0, <1>1, <2>2, <3>1
    <3>3. /\ j - Len(wire) \in DOMAIN lines /\ k - Len(wire) \in DOMAIN lines
          /\ wire'[j] = lines[j - Len(wire)]
      BY <1>1, <3>1, <3>2
    <3>4. j - Len(wire) < k - Len(wire)
      BY <1>0, <1>1, <2>2
    <3> QED  BY <2>2, <3>3, <3>4
  <2> QED  BY <1>2, <1>3, <2>1, <2>2 DEF OrderInv
<1> QED  BY <1>4, <1>5

\* A step of the module leaves the calls what they have.
LEMMA EmitCalls ==
    ASSUME UNCHANGED <<pc, call, nextId, bits, buffer, parsed, rxpc, rxline>>,
           NEW t \in Callers, CallInv(t),
           pc[t] \in {"disarm", "payload"} /\ Asking(call[t].id) => Asking(call[t].id)'
    PROVE  CallInv(t)'
<1>1. EndedByOwn(t)'
  BY DEF CallInv, EndedByOwn
<1>2. OwnBuffer(t)'
  BY DEF CallInv, OwnBuffer
<1>3. OwnResponse(t)'
  BY DEF CallInv, OwnResponse, Reading, Answered
<1>4. AnsweredByOwn(t)'
  BY DEF CallInv, AnsweredByOwn, Answered
<1> QED  BY <1>1, <1>2, <1>3, <1>4 DEF CallInv

\* The command the module reads is the only thing under way.
LEMMA CommandAlone ==
    ASSUME ChannelInv, LineInv, uplink # <<>>, Head(uplink).op # "payload"
    PROVE  /\ Still /\ Tail(uplink) = <<>>
           /\ Head(uplink).id \in Nat
           /\ \E t \in Callers :
                 /\ call[t].id = Head(uplink).id /\ call[t].op = Head(uplink).op
                 /\ pc[t] = IF call[t].op = "SendCommand" THEN "wait" ELSE "waitprompt"
<1>0. uplink \in Seq(Request)
  BY DEF ChannelInv, TypeOK
<1>1. 1 \in DOMAIN uplink /\ Head(uplink) = uplink[1] /\ Head(uplink) \in Request
  BY <1>0, QueueShrinks
<1>2. /\ 1 = Len(uplink) /\ Still
      /\ \E t \in Callers :
            /\ call[t].id = uplink[1].id /\ call[t].op = uplink[1].op
            /\ pc[t] = IF call[t].op = "SendCommand" THEN "wait" ELSE "waitprompt"
  BY <1>1 DEF LineInv, UplinkInv
<1>3. Tail(uplink) = <<>>
  <2>1. PICK q \in Seq(Request) : q = Tail(uplink) /\ Len(q) = 0
    <3>1. Tail(uplink) \in Seq(Request) /\ Len(Tail(uplink)) = Len(uplink) - 1
      BY <1>0, QueueShrinks
    <3>2. Len(uplink) - 1 = 0
      BY <1>2
    <3> QED  BY <3>1, <3>2
  <2>2. q = <<>>
    BY <2>1
  <2> QED  BY <2>1, <2>2
<1> QED  BY <1>1, <1>2, <1>3 DEF Request

\* The module answers a command: the lines are for the call that waits.
LEMMA RepliesInStep ==
    ASSUME ChannelInv, LineInv, \A u \in Callers : CallInv(u), ModuleReplies
    PROVE  LineInv' /\ \A u \in Callers : CallInv(u)'
<1>k. /\ UNCHANGED <<pc, call, nextId, bits, buffer, parsed, rxpc, rxline, collecting>>
      /\ uplink # <<>> /\ collecting = NotCollecting /\ Head(uplink).op # "payload"
      /\ uplink' = Tail(uplink)
  BY DEF ModuleReplies, callVars, sharedVars, rxVars
<1>1. PICK reply \in Replies(Head(uplink).op, Head(uplink).id) : wire' = wire \o reply
  BY DEF ModuleReplies, Emit
<1>2. Still /\ uplink' = <<>> /\ Head(uplink).id \in Nat
  BY <1>k, CommandAlone
<1>3. PICK t \in Callers :
          /\ call[t].id = Head(uplink).id /\ call[t].op = Head(uplink).op
          /\ pc[t] = IF call[t].op = "SendCommand" THEN "wait" ELSE "waitprompt"
  BY <1>k, CommandAlone
<1>4. /\ reply \in Seq(Line)
      /\ \A k \in DOMAIN reply : /\ reply[k].kind \in {"ok", "error", "echo", "info", "event"}
                                 /\ reply[k].cmd = Head(uplink).id
                                 /\ reply[k].kind \in {"echo", "info"} =>
                                       Head(uplink).op = "SendCommand"
      /\ \A j, k \in DOMAIN reply : j < k => reply[j].kind \notin EndKinds
  BY <1>1, <1>2, RepliesType, RepliesPrompt, RepliesOrder
<1>5. /\ OrderInv'
      /\ \A l \in InFlight' : l \in InFlight \/ \E k \in DOMAIN reply : l = reply[k]
  BY <1>1, <1>2, <1>4, <1>k, EmitOrder
<1>6. Waiting(t)'
  BY <1>3, <1>k DEF Waiting
<1>7. RestInv' /\ UplinkInv' /\ CollectInv'
  BY <1>2, <1>6, <1>k DEF RestInv, UplinkInv, CollectInv
<1>8. LiveInv'
  <2>1. ASSUME NEW l \in InFlight'
        PROVE  (l.kind \in EventKinds \/ Expected(l)') /\ l.kind \notin PromptKinds
    <3>1. CASE l \in InFlight
      BY <1>2, <3>1 DEF Still, EventKinds, PromptKinds
    <3>2. CASE l \notin InFlight
      <4>1. /\ l.kind \in {"ok", "error", "echo", "info", "event"} /\ l.cmd = Head(uplink).id
            /\ l.kind \in {"echo", "info"} => Head(uplink).op = "SendCommand"
        BY <1>4, <1>5, <3>2
      <4>2. l.kind \notin PromptKinds
        BY <4>1 DEF PromptKinds
      <4>3. Expected(l)'
        BY <1>3, <1>6, <1>k, <4>1, <4>2 DEF Expected
      <4> QED  BY <4>2, <4>3
    <3> QED  BY <3>1, <3>2
  <2> QED  BY <2>1 DEF LiveInv
<1>9. ASSUME NEW u \in Callers PROVE CallInv(u)'
  <2>1. CallInv(u) /\ ~Asking(call[u].id)
    BY <1>9, <1>k DEF Asking
  <2> QED  BY <1>k, <2>1, EmitCalls
<1> QED  BY <1>5, <1>7, <1>8, <1>9 DEF LineInv

\* The module asks for a payload: the call that waits has it still to write.
LEMMA PromptsInStep ==
    ASSUME ChannelInv, LineInv, \A u \in Callers : CallInv(u), ModulePrompts
    PROVE  LineInv' /\ \A u \in Callers : CallInv(u)'
<1>p. PICK p : p = Msg(IF Head(uplink).op = "SendDataAfterPrompt" THEN "prompt" ELSE "gt",
                       Head(uplink).id)
  OBVIOUS
<1>k. /\ UNCHANGED <<pc, call, nextId, bits, buffer, parsed, rxpc, rxline>>
      /\ uplink # <<>> /\ collecting = NotCollecting
      /\ Head(uplink).op \in {"SendDataAfterPrompt", "SendCommandWithData"}
      /\ uplink' = Tail(uplink) /\ collecting' = Head(uplink) /\ wire' = wire \o <<p>>
  BY <1>p DEF ModulePrompts, Emit, callVars, sharedVars, rxVars
<1>2. Still /\ uplink' = <<>> /\ Head(uplink).id \in Nat
  BY <1>k, CommandAlone
<1>3. PICK t \in Callers :
          call[t].id = Head(uplink).id /\ call[t].op = Head(uplink).op /\ pc[t] = "waitprompt"
  BY <1>k, CommandAlone
<1>4. p \in Line /\ p.kind \in PromptKinds /\ p.cmd = Head(uplink).id
  BY <1>2, <1>p DEF Msg, Line, LineKinds, PromptKinds
<1>5. /\ <<p>> \in Seq(Line) /\ DOMAIN <<p>> = {1} /\ <<p>>[1] = p
  BY <1>4
<1>6. /\ OrderInv'
      /\ \A l \in InFlight' : l \in InFlight \/ l = p
  <2>1. \A j, k \in DOMAIN <<p>> : j < k => <<p>>[j].kind \notin EndKinds
    BY <1>5
  <2> QED  BY <1>2, <1>5, <1>k, <2>1, EmitOrder
<1>7. Waiting(t)' /\ collecting' # NotCollecting
  BY <1>3, <1>k DEF Waiting, NotCollecting
<1>8. RestInv' /\ UplinkInv'
  BY <1>2, <1>7, <1>k DEF RestInv, UplinkInv
<1>9. CollectInv'
  <2>1. \A l \in InFlight' : l.kind \notin StatusKinds
    BY <1>2, <1>4, <1>6 DEF Still, EventKinds, StatusKinds, PromptKinds
  <2>2. \A u \in Callers : Owing(u)' => u = t
    <3>1. InCall(t)
      BY <1>3 DEF InCall
    <3>2. \A u \in Callers : u # t => ~InCall(u)
      BY <3>1, OneInside DEF ChannelInv
    <3> QED  BY <1>k, <3>2 DEF Owing, InCall
  <2>3. Owing(t)'
    BY <1>3, <1>7, <1>k DEF Owing, Asking
  <2> QED  BY <1>2, <1>3, <1>k, <2>1, <2>2, <2>3 DEF CollectInv
<1>10. LiveInv'
  <2>1. Asking(p.cmd)'
    BY <1>4, <1>7, <1>k DEF Asking
  <2>2. Expected(p)'
    <3>1. call'[t].op # "SendCommand" /\ pc'[t] = "waitprompt" /\ call'[t].id = p.cmd
      BY <1>3, <1>4, <1>k
    <3>2. p.kind \notin {"echo", "info"}
      BY <1>4 DEF PromptKinds
    <3> QED  BY <1>7, <3>1, <3>2 DEF Expected
  <2>3. ASSUME NEW l \in InFlight'
        PROVE  (l.kind \in EventKinds \/ Expected(l)') /\ (l.kind \in PromptKinds => Asking(l.cmd)')
    <3>1. CASE l = p
      BY <2>1, <2>2, <3>1
    <3>2. CASE l # p
      BY <1>2, <1>6, <3>2 DEF Still, EventKinds, PromptKinds
    <3> QED  BY <3>1, <3>2
  <2> QED  BY <2>3 DEF LiveInv
<1>11. ASSUME NEW u \in Callers PROVE CallInv(u)'
  <2>1. CallInv(u) /\ ~Asking(call[u].id)
    BY <1>11, <1>k DEF Asking
  <2> QED  BY <1>k, <2>1, EmitCalls
<1> QED  BY <1>6, <1>8, <1>9, <1>10, <1>11 DEF LineInv

\* The module has its payload.
LEMMA CollectsInStep ==
    ASSUME ChannelInv, LineInv, \A u \in Callers : CallInv(u), ModuleCollects
    PROVE  LineInv' /\ \A u \in Callers : CallInv(u)'
<1>k. /\ UNCHANGED <<pc, call, nextId, bits, buffer, parsed, rxpc, rxline>>
      /\ uplink # <<>> /\ collecting # NotCollecting
      /\ uplink' = Tail(uplink) /\ collecting' = NotCollecting
      /\ uplink \in Seq(Request) /\ collecting.id \in Nat
  BY DEF ModuleCollects, callVars, sharedVars, rxVars, ChannelInv, TypeOK, Request
<1>1. PICK l \in Line :
          /\ wire' = wire \o <<l>> /\ l.cmd = collecting.id
          /\ l.kind \in IF collecting.op = "SendDataAfterPrompt" THEN {"event"} ELSE StatusKinds
  <2>1. PICK k \in (IF collecting.op = "SendDataAfterPrompt" THEN {"event"} ELSE StatusKinds) :
            wire' = wire \o <<Msg(k, collecting.id)>>
    BY DEF ModuleCollects, Emit
  <2>2. Msg(k, collecting.id) \in Line /\ Msg(k, collecting.id).kind = k
        /\ Msg(k, collecting.id).cmd = collecting.id
    BY <1>k, <2>1 DEF Msg, Line, LineKinds, StatusKinds
  <2> QED  BY <2>1, <2>2
<1>2. \A u \in Callers : ~Owing(u)
  BY <1>k DEF LineInv, CollectInv
<1>3. uplink[1].op = "payload" /\ collecting.op \in {"SendDataAfterPrompt", "SendCommandWithData"}
  BY <1>2, <1>k DEF LineInv, CollectInv
<1>4. <<l>> \in Seq(Line) /\ DOMAIN <<l>> = {1} /\ <<l>>[1] = l
  BY <1>1
<1>5. \A j, k \in DOMAIN <<l>> : j < k => <<l>>[j].kind \notin EndKinds
  BY <1>4
<1>6. ASSUME NEW u \in Callers PROVE CallInv(u)'
  <2>1. CallInv(u)
    BY <1>6
  <2>2. ~(pc[u] \in {"disarm", "payload"} /\ Asking(call[u].id))
    BY <1>2 DEF Owing
  <2> QED  BY <1>k, <2>1, <2>2, EmitCalls
<1>7. CollectInv'
  BY <1>k DEF CollectInv
<1>8. \A m \in InFlight : m.kind \notin PromptKinds
  <2> SUFFICES ASSUME NEW m \in InFlight, m.kind \in PromptKinds PROVE FALSE
    OBVIOUS
  <2>1. m.kind \notin EventKinds /\ Asking(m.cmd)
    BY DEF LineInv, LiveInv, EventKinds, PromptKinds
  <2>2. PICK u \in Callers : call[u].id = m.cmd /\ pc[u] = "waitprompt"
    BY <2>1 DEF LineInv, LiveInv, Expected
  <2> QED  BY <1>2, <2>1, <2>2 DEF Owing
<1>9. CASE collecting.op = "SendCommandWithData"
  <2>1. /\ Still /\ Len(uplink) = 1
        /\ \E t \in Callers : call[t].id = collecting.id /\ pc[t] = "wait"
    BY <1>2, <1>9, <1>k DEF LineInv, CollectInv
  <2>2. PICK t \in Callers : call[t].id = collecting.id /\ pc[t] = "wait"
    BY <2>1
  <2>3. uplink' = <<>>
    <3>1. PICK q \in Seq(Request) : q = Tail(uplink) /\ Len(q) = 0
      BY <1>k, <2>1, QueueShrinks
    <3>2. q = <<>>
      BY <3>1
    <3> QED  BY <1>k, <3>1, <3>2
  <2>4. l.kind \in StatusKinds
    BY <1>1, <1>9
  <2>5. OrderInv' /\ \A m \in InFlight' : m \in InFlight \/ m = l
    BY <1>1, <1>4, <1>5, <1>k, <2>1, EmitOrder
  <2>6. Waiting(t)'
    BY <1>k, <2>2 DEF Waiting
  <2>7. RestInv' /\ UplinkInv'
    BY <2>3, <2>6 DEF RestInv, UplinkInv
  <2>8. LiveInv'
    <3>1. Expected(l)' /\ l.kind \notin PromptKinds
      BY <1>1, <1>k, <2>2, <2>4, <2>6 DEF Expected, StatusKinds, PromptKinds
    <3>2. \A m \in InFlight : m.kind \in EventKinds
      BY <2>1 DEF Still
    <3> QED  BY <1>8, <2>5, <3>1, <3>2 DEF LiveInv
  <2> QED  BY <1>6, <1>7, <2>5, <2>7, <2>8 DEF LineInv
<1>10. CASE collecting.op = "SendDataAfterPrompt"
  <2>1. l.kind \in EventKinds
    BY <1>1, <1>10 DEF EventKinds
  <2>2. OrderInv' /\ \A m \in InFlight' : m \in InFlight \/ m = l
    BY <1>1, <1>4, <1>5, <1>k, <2>1, EmitOrder
  <2>3. \A m \in InFlight' : m \in InFlight \/ m.kind \in EventKinds
    BY <2>1, <2>2
  <2>4. Still => Still'
    BY <2>3, FlightShrinks
  <2>5. /\ \A k \in DOMAIN uplink' : /\ k \in Nat /\ k > 0 /\ k + 1 \in DOMAIN uplink
                                     /\ uplink'[k] = uplink[k + 1]
        /\ Len(uplink') = Len(uplink) - 1 /\ Len(uplink) \in Nat
    BY <1>k, QueueShrinks
  <2>6. \A u \in Callers : Waiting(u)' <=> Waiting(u)
    BY <1>k DEF Waiting
  <2>7. RestInv'
    <3> SUFFICES ASSUME \A u \in Callers : ~Waiting(u)
                 PROVE  Still' /\ \A k \in DOMAIN uplink' : uplink'[k].op = "payload"
      BY <2>6 DEF RestInv
    <3>1. Still /\ \A k \in DOMAIN uplink : uplink[k].op = "payload"
      BY DEF LineInv, RestInv
    <3> QED  BY <2>4, <2>5, <3>1
  <2>8. UplinkInv'
    <3>1. ASSUME NEW k \in DOMAIN uplink'
          PROVE  /\ uplink'[k].op # "payload" /\ k = Len(uplink') /\ Still'
                 /\ \E u \in Callers :
                      /\ call[u].id = uplink'[k].id /\ call[u].op = uplink'[k].op
                      /\ pc[u] = IF call[u].op = "SendCommand" THEN "wait" ELSE "waitprompt"
      <4>1. PICK j \in DOMAIN uplink : j = k + 1 /\ uplink'[k] = uplink[j] /\ j # 1
        BY <2>5, <3>1
      <4>2. uplink[j].op # "payload"
        BY <4>1 DEF LineInv, UplinkInv
      <4>3. /\ j = Len(uplink) /\ Still
            /\ \E u \in Callers :
                 /\ call[u].id = uplink[j].id /\ call[u].op = uplink[j].op
                 /\ pc[u] = IF call[u].op = "SendCommand" THEN "wait" ELSE "waitprompt"
        BY <4>2 DEF LineInv, UplinkInv
      <4>4. k = Len(uplink')
        BY <2>5, <3>1, <4>1, <4>3
      <4> QED  BY <2>4, <4>1, <4>2, <4>3, <4>4
    <3> QED  BY <1>k, <3>1 DEF UplinkInv
  <2>9. LiveInv'
    <3>1. \A m : Expected(m)' <=> Expected(m)
      BY <1>k, <2>6 DEF Expected
    <3>2. ASSUME NEW m \in InFlight'
          PROVE  (m.kind \in EventKinds \/ Expected(m)') /\ m.kind \notin PromptKinds
      <4>1. CASE m \in InFlight
        BY <1>8, <3>1, <4>1 DEF LineInv, LiveInv
      <4>2. CASE m \notin InFlight
        BY <2>3, <4>2 DEF EventKinds, PromptKinds
      <4> QED  BY <4>1, <4>2
    <3> QED  BY <3>2 DEF LiveInv
  <2> QED  BY <1>6, <1>7, <2>2, <2>7, <2>8, <2>9 DEF LineInv
<1> QED  BY <1>3, <1>9, <1>10

\* A line nothing provoked.
LEMMA UrcInStep ==
    ASSUME ChannelInv, LineInv, \A u \in Callers : CallInv(u), ModuleUrc
    PROVE  LineInv' /\ \A u \in Callers : CallInv(u)'
<1>k. UNCHANGED <<pc, call, nextId, bits, buffer, parsed, rxpc, rxline, uplink, collecting>>
  BY DEF ModuleUrc, callVars, sharedVars, rxVars
<1>1. PICK l \in Line : wire' = wire \o <<l>> /\ l.kind = "urc"
  <2>1. Msg("urc", 0) \in Line /\ Msg("urc", 0).kind = "urc"
    BY DEF Msg, Line, LineKinds
  <2> QED  BY <2>1 DEF ModuleUrc, Emit
<1>2. <<l>> \in Seq(Line) /\ DOMAIN <<l>> = {1} /\ <<l>>[1] = l /\ l.kind \in EventKinds
  BY <1>1 DEF EventKinds
<1>3. \A j, k \in DOMAIN <<l>> : j < k => <<l>>[j].kind \notin EndKinds
  BY <1>2
<1>4. OrderInv' /\ \A m \in InFlight' : m \in InFlight \/ m = l
  BY <1>1, <1>2, <1>3, <1>k, EmitOrder
<1>5. RestInv' /\ UplinkInv' /\ CollectInv' /\ LiveInv'
  BY <1>2, <1>4, <1>k, LinesKept
<1>6. ASSUME NEW u \in Callers PROVE CallInv(u)'
  <2>1. CallInv(u) /\ (Asking(call[u].id) => Asking(call[u].id)')
    BY <1>6, <1>k DEF Asking
  <2> QED  BY <1>k, <2>1, EmitCalls
<1> QED  BY <1>4, <1>5, <1>6 DEF LineInv

\* Every step of the module.
LEMMA ModuleInStep ==
    ASSUME ChannelInv, StepInv, Module
    PROVE  StepInv'
<1>1. UNCHANGED late
  BY DEF Module, ModuleReplies, ModulePrompts, ModuleCollects, ModuleRefusesStray, ModuleUrc,
     historyVars
<1> SUFFICES ASSUME ~late PROVE LineInv' /\ \A u \in Callers : CallInv(u)'
  BY <1>1 DEF StepInv
<1>2. LineInv /\ \A u \in Callers : CallInv(u)
  BY DEF StepInv
<1>3. ~ModuleRefusesStray
  <2> SUFFICES ASSUME ModuleRefusesStray PROVE FALSE
    OBVIOUS
  <2>1. uplink # <<>> /\ collecting = NotCollecting /\ Head(uplink).op = "payload"
    BY DEF ModuleRefusesStray
  <2>2. 1 \in DOMAIN uplink /\ Head(uplink) = uplink[1]
    BY <2>1, QueueShrinks DEF ChannelInv, TypeOK
  <2> QED  BY <1>2, <2>1, <2>2 DEF LineInv, UplinkInv
<1> QED
  BY <1>2, <1>3, RepliesInStep, PromptsInStep, CollectsInStep, UrcInStep DEF Module

\* What GetResponseLines returned, while the answers are in step.
LEMMA ReadbackStep ==
    ASSUME ChannelInv, StepInv, ReadbackIsOwn, [Next]_vars, late => late'
    PROVE  ReadbackIsOwn'
<1>1. CASE UNCHANGED readback
  BY <1>1 DEF ReadbackIsOwn
<1>2. ASSUME NEW t \in Threads, GetResponseLines(t) PROVE ReadbackIsOwn'
  <2> SUFFICES ASSUME ~late', readback'.fresh
               PROVE  \A i \in DOMAIN readback'.lines :
                         \/ readback'.lines[i].kind \in {"event", "urc"}
                         \/ readback'.lines[i].cmd = readback'.id
    BY DEF ReadbackIsOwn
  <2>1. /\ t \in Callers /\ pc[t] = "idle" /\ call[t].op = "SendCommand" /\ call[t].res = "ok"
        /\ call[t].id = nextId - 1
        /\ readback'.id = call[t].id /\ readback'.lines = parsed.lines
    BY <1>2 DEF GetResponseLines, Callers
  <2>2. Reading(t) /\ OwnResponse(t)
    BY <2>1 DEF Reading, Answered, StepInv, CallInv
  <2> QED  BY <2>1, <2>2 DEF OwnResponse, Own, EventKinds
<1>3. CASE \E t \in Callers : Sender(t)
  <2>1. UNCHANGED readback
    BY <1>3, SenderKeeps DEF ChannelInv
  <2> QED  BY <1>1, <2>1
<1>4. CASE \E t \in Threads : Calls(t)
  BY <1>1, <1>4 DEF Calls, Invoke, historyVars
<1>5. CASE ReceiveTask
  <2>1. UNCHANGED readback
    BY <1>5 DEF ReceiveTask, RxTake, RxHandlerSends, Invoke, RxHandlerReturns, RxCheck, RxAppend,
       RxSignal, RxPrompt, RxSetPrompt, historyVars
  <2> QED  BY <1>1, <2>1
<1>6. CASE Module
  <2>1. UNCHANGED readback
    BY <1>6 DEF Module, ModuleReplies, ModulePrompts, ModuleCollects, ModuleRefusesStray,
       ModuleUrc, historyVars
  <2> QED  BY <1>1, <2>1
<1>7. CASE Quiet \/ UNCHANGED vars
  BY <1>1, <1>7 DEF Quiet, vars, historyVars
<1> QED  BY <1>2, <1>3, <1>4, <1>5, <1>6, <1>7 DEF Next

\* Every step keeps the answers in step, unless it makes an answer late.
LEMMA NextInStep ==
    ASSUME ChannelInv, ChannelInv', StepInv, [Next]_vars
    PROVE  StepInv' /\ (late => late')
<1> USE DEF callVars, sharedVars, rxVars, moduleVars, historyVars
<1>1. ASSUME UNCHANGED <<pc, call, nextId, bits, buffer, parsed, rxpc, rxline, uplink, wire,
                         collecting, late>>
      PROVE  StepInv'
  <2> SUFFICES ASSUME ~late PROVE LineInv' /\ \A u \in Callers : CallInv(u)'
    BY <1>1 DEF StepInv
  <2>1. LineInv /\ \A u \in Callers : CallInv(u)
    BY DEF StepInv
  <2>2. InFlight' = InFlight
    BY <1>1 DEF InFlight
  <2>3. RestInv' /\ UplinkInv' /\ CollectInv' /\ LiveInv'
    BY <1>1, <2>1, <2>2, LinesKept
  <2>4. OrderInv'
    BY <1>1, <2>1 DEF LineInv, OrderInv
  <2>5. ASSUME NEW u \in Callers PROVE CallInv(u)'
    <3>1. CallInv(u) /\ (Asking(call[u].id) => Asking(call[u].id)')
      BY <1>1, <2>1, <2>5 DEF Asking
    <3> QED  BY <1>1, <3>1, EmitCalls
  <2> QED  BY <2>3, <2>4, <2>5 DEF LineInv
<1>2. ASSUME NEW t \in Threads, Calls(t) PROVE StepInv' /\ UNCHANGED late
  <2>1. PICK op \in Ops : Invoke(t, op)
    BY <1>2 DEF Calls
  <2>2. t \in Callers /\ UNCHANGED <<rxpc, rxline, late>>
    BY <1>2, <2>1 DEF Calls, Callers, Invoke
  <2>3. ((rxpc = "idle") <=> (rxpc' = "idle")) /\ ((rxpc = "signal") <=> (rxpc' = "signal"))
    BY <2>2
  <2> QED  BY <2>1, <2>2, <2>3, InvokeInStep
<1>3. ASSUME NEW t \in Threads, GetResponseLines(t) PROVE StepInv' /\ UNCHANGED late
  BY <1>1, <1>3 DEF GetResponseLines
<1>4. ASSUME NEW t \in Callers, Sender(t) PROVE StepInv' /\ (late => late')
  <2>1. late' = late \/ late' = TRUE
    <3>1. CASE WriteCommand(t)
      BY <3>1 DEF WriteCommand
    <3>2. CASE ~WriteCommand(t)
      BY <1>4, <3>2 DEF Sender, Acquire, ClearResponse, ClearBits, WriteCommandFails, WaitDone,
         WaitTimeout, WaitPrompt, WaitRefused, WaitPromptTimeout, Disarm, WritePayload,
         WritePayloadFails, EndWindow, Result
    <3> QED  BY <3>1, <3>2
  <2> QED  BY <1>4, <2>1, SenderInStep
<1>5. CASE ReceiveTask
  <2>1. UNCHANGED late
    BY <1>5 DEF ReceiveTask, RxTake, RxHandlerSends, Invoke, RxHandlerReturns, RxCheck, RxAppend,
       RxSignal, RxPrompt, RxSetPrompt
  <2> QED  BY <1>5, <2>1, ReceiveInStep
<1>6. CASE Module
  <2>1. UNCHANGED late
    BY <1>6 DEF Module, ModuleReplies, ModulePrompts, ModuleCollects, ModuleRefusesStray,
       ModuleUrc
  <2> QED  BY <1>6, <2>1, ModuleInStep
<1>7. CASE Quiet \/ UNCHANGED vars
  BY <1>1, <1>7 DEF Quiet, vars
<1> QED  BY <1>2, <1>3, <1>4, <1>5, <1>6, <1>7 DEF Next

\* The channel starts with nothing under way and nothing answered.
LEMMA InitInStep == Init => StepInv /\ ReadbackIsOwn
<1> SUFFICES ASSUME Init PROVE LineInv /\ (\A t \in Callers : CallInv(t)) /\ ReadbackIsOwn
  BY DEF StepInv
<1>1. InFlight = {}
  BY DEF Init, InFlight, NoBits
<1>2. LineInv
  BY <1>1 DEF Init, LineInv, RestInv, UplinkInv, CollectInv, OrderInv, LiveInv, Still
<1>3. \A t \in Callers : CallInv(t)
  BY DEF Init, CallInv, EndedByOwn, OwnBuffer, OwnResponse, AnsweredByOwn, Reading, Answered, NoCall
<1>4. ReadbackIsOwn
  BY DEF Init, ReadbackIsOwn, NoReadback
<1> QED  BY <1>2, <1>3, <1>4

LEMMA StepInvariant == Spec => [](ChannelInv /\ StepInv /\ ReadbackIsOwn)
<1>1. ChannelInv /\ ChannelInv' /\ StepInv /\ ReadbackIsOwn /\ [Next]_vars
         => StepInv' /\ ReadbackIsOwn'
  BY NextInStep, ReadbackStep
<1> QED  BY <1>1, InitInStep, ChannelInvariant, PTL DEF Spec

\* SendCommand and the two sends with data return the module's answer to their own
\* command, and SendCommand returns what that answer said, for any number of threads,
\* calls and unsolicited lines and any interleaving of them with ReceiveTask: as long
\* as no call gave up on an answer and no SendLine left one to come.
THEOREM AnswersStayInStep == Spec => []AnswersInStep
<1>1. StepInv => AnswersInStep
  BY DEF StepInv, CallInv, AnsweredByOwn, AnswersInStep
<1> QED  BY <1>1, StepInvariant, PTL

\* Under the same condition GetResponseLines, which does not take command_mutex_,
\* returns after the last SendCommand no response line of another command.
THEOREM ReadbackStaysOwn == Spec => []ReadbackIsOwn
BY StepInvariant, PTL
=============================================================================
