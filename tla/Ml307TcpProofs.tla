--------------------------- MODULE Ml307TcpProofs ---------------------------
(***************************************************************************)
(* Proofs about Ml307Tcp, for any set of clients, any number of cids and   *)
(* any bounds.                                                             *)
(*                                                                         *)
(* 1. What a step does to a call stack.                                    *)
(* 2. The types, with the shape of the call stacks: TypeCorrect.           *)
(* 3. The serial of a connect is in one call until its route exists        *)
(*    (Serials, Unique), and what a client says of itself (Own).           *)
(* 4. Whose a cid in use is (Ownership): Ml307UsedCidHasOwner.             *)
(***************************************************************************)
EXTENDS Ml307Tcp, StackTheorems, SequenceTheorems, WellFoundedInduction, TLAPS

-----------------------------------------------------------------------------
(***************************************************************************)
(* Call stacks.                                                            *)
(***************************************************************************)
\* The calls on a stack, and those that wait for the innermost one.
Frames(s) == {s[i] : i \in 1 .. Len(s)}

Under(s) == {s[i] : i \in 2 .. Len(s)}

LEMMA Tops ==
    ASSUME NEW F, NEW s \in Seq(F), s # <<>>
    PROVE  /\ Head(s) \in F /\ Frames(s) = {Head(s)} \cup Under(s)
           /\ Head(s) \in Frames(s) /\ Under(s) \subseteq Frames(s)
<1>1. Len(s) \in Nat /\ Len(s) > 0 /\ Head(s) = s[1] /\ Head(s) \in F
  OBVIOUS
<1> QED  BY <1>1 DEF Frames, Under

LEMMA NoFrames ==
    /\ Frames(<<>>) = {} /\ Under(<<>>) = {}
    /\ \A F, s : s \in Seq(F) /\ Frames(s) = {} => s = <<>>
<1>1. Frames(<<>>) = {} /\ Under(<<>>) = {}
  BY DEF Frames, Under
<1>2. ASSUME NEW F, NEW s \in Seq(F), Frames(s) = {}
      PROVE  s = <<>>
  BY <1>2, Tops
<1> QED  BY <1>1, <1>2

LEMMA Begins ==
    ASSUME NEW F, NEW g \in F
    PROVE  /\ <<g>> \in Seq(F) /\ <<g>> # <<>> /\ Head(<<g>>) = g
           /\ Frames(<<g>>) = {g} /\ Under(<<g>>) = {}
<1>1. <<g>> \in Seq(F) /\ <<g>> # <<>> /\ Head(<<g>>) = g /\ Len(<<g>>) = 1 /\ <<g>>[1] = g
  OBVIOUS
<1> QED  BY <1>1 DEF Frames, Under

LEMMA Goes ==
    ASSUME NEW F, NEW s \in Seq(F), s # <<>>, NEW g \in F
    PROVE  LET t == <<g>> \o Tail(s)
           IN /\ t \in Seq(F) /\ t # <<>> /\ Head(t) = g
              /\ Frames(t) = {g} \cup Under(s) /\ Under(t) = Under(s)
<1> DEFINE r == Tail(s)
           t == <<g>> \o r
<1>1. /\ r \in Seq(F) /\ Len(r) = Len(s) - 1 /\ Len(s) \in Nat /\ Len(s) > 0
      /\ \A i \in 1 .. Len(r) : r[i] = s[i + 1]
  BY Popped
<1>2. /\ t \in Seq(F) /\ t # <<>> /\ Head(t) = g /\ Len(t) = Len(r) + 1
      /\ t[1] = g /\ \A i \in 1 .. Len(r) : t[i + 1] = r[i]
  BY <1>1, Pushed
<1> HIDE DEF r, t
<1>3. ASSUME NEW i \in 2 .. Len(s)
      PROVE  t[i] = s[i]
  <2>1. i - 1 \in 1 .. Len(r) /\ (i - 1) + 1 = i
    BY <1>1
  <2> QED  BY <1>1, <1>2, <2>1
<1>4. Under(t) = Under(s)
  BY <1>1, <1>2, <1>3 DEF Under
<1>5. Frames(t) = {g} \cup Under(s)
  BY <1>2, <1>4, Tops
<1> QED  BY <1>2, <1>4, <1>5 DEF r, t

LEMMA Returns ==
    ASSUME NEW F, NEW s \in Seq(F), s # <<>>
    PROVE  /\ Tail(s) \in Seq(F) /\ Frames(Tail(s)) = Under(s)
           /\ Under(Tail(s)) \subseteq Under(s)
           /\ Tail(s) # <<>> => Head(Tail(s)) \in Under(s)
<1> DEFINE r == Tail(s)
<1>1. /\ r \in Seq(F) /\ Len(r) = Len(s) - 1 /\ Len(s) \in Nat /\ Len(s) > 0
      /\ \A i \in 1 .. Len(r) : r[i] = s[i + 1]
  BY Popped
<1> HIDE DEF r
<1>2. ASSUME NEW i \in 2 .. Len(s)
      PROVE  s[i] = r[i - 1] /\ i - 1 \in 1 .. Len(r)
  <2>1. i - 1 \in 1 .. Len(r) /\ (i - 1) + 1 = i
    BY <1>1
  <2> QED  BY <1>1, <2>1
<1>3. Frames(r) \subseteq Under(s)
  <2>1. ASSUME NEW i \in 1 .. Len(r)
        PROVE  r[i] \in Under(s)
    <3>1. r[i] = s[i + 1] /\ i + 1 \in 2 .. Len(s)
      BY <1>1
    <3> QED  BY <3>1 DEF Under
  <2> QED  BY <2>1 DEF Frames
<1>4. Under(s) \subseteq Frames(r)
  BY <1>2 DEF Frames, Under
<1>5. Under(r) \subseteq Frames(r) /\ (r # <<>> => Head(r) \in Frames(r))
  <2>1. CASE r = <<>>
    BY <2>1, NoFrames
  <2>2. CASE r # <<>>
    BY <1>1, <2>2, Tops
  <2> QED  BY <2>1, <2>2
<1> QED  BY <1>1, <1>3, <1>4, <1>5 DEF r

LEMMA Makes ==
    ASSUME NEW F, NEW s \in Seq(F), NEW g \in F
    PROVE  LET t == <<g>> \o s
           IN /\ t \in Seq(F) /\ t # <<>> /\ Head(t) = g
              /\ Frames(t) = {g} \cup Frames(s) /\ Under(t) = Frames(s)
<1> DEFINE t == <<g>> \o s
<1>1. /\ t \in Seq(F) /\ t # <<>> /\ Head(t) = g /\ Len(t) = Len(s) + 1 /\ Len(s) \in Nat
      /\ t[1] = g /\ \A i \in 1 .. Len(s) : t[i + 1] = s[i]
  BY Pushed
<1> HIDE DEF t
<1>2. Under(t) \subseteq Frames(s)
  <2>1. ASSUME NEW i \in 2 .. Len(t)
        PROVE  t[i] \in Frames(s)
    <3>1. i - 1 \in 1 .. Len(s) /\ (i - 1) + 1 = i
      BY <1>1
    <3> QED  BY <1>1, <3>1 DEF Frames
  <2> QED  BY <2>1 DEF Under
<1>3. Frames(s) \subseteq Under(t)
  <2>1. ASSUME NEW i \in 1 .. Len(s)
        PROVE  s[i] \in Under(t)
    <3>1. i + 1 \in 2 .. Len(t) /\ t[i + 1] = s[i]
      BY <1>1
    <3> QED  BY <3>1 DEF Under
  <2> QED  BY <2>1 DEF Frames
<1>4. Frames(t) = {g} \cup Under(t)
  BY <1>1, Tops
<1> QED  BY <1>1, <1>2, <1>3, <1>4 DEF t

LEMMA CallIsTwo ==
    ASSUME NEW F, NEW r \in Seq(F), NEW f \in F, NEW g \in F
    PROVE  <<g, f>> \o r = <<g>> \o (<<f>> \o r)
  OBVIOUS

\* The innermost call of s goes on as f after g.
CallOn(s, f, g) == <<g, f>> \o Tail(s)

LEMMA Calls ==
    ASSUME NEW F, NEW s \in Seq(F), s # <<>>, NEW f \in F, NEW g \in F
    PROVE  /\ CallOn(s, f, g) \in Seq(F) /\ CallOn(s, f, g) # <<>> /\ Head(CallOn(s, f, g)) = g
           /\ Frames(CallOn(s, f, g)) = {g} \cup Under(CallOn(s, f, g))
           /\ Under(CallOn(s, f, g)) = {f} \cup Under(s)
<1>1. Tail(s) \in Seq(F)
  OBVIOUS
<1>2. PICK r \in Seq(F) : r = Tail(s)
  BY <1>1
<1>3. <<g, f>> \o r = <<g>> \o (<<f>> \o r)
  BY CallIsTwo, Zenon
<1>4. PICK u \in Seq(F) : u = <<f>> \o r /\ Frames(u) = {f} \cup Under(s)
  BY <1>2, Goes
<1>5. PICK t \in Seq(F) : /\ t = <<g>> \o u /\ t # <<>> /\ Head(t) = g
                          /\ Frames(t) = {g} \cup Frames(u) /\ Under(t) = Frames(u)
  BY Makes
<1>6. CallOn(s, f, g) = t
  BY <1>2, <1>3, <1>4, <1>5, Zenon DEF CallOn
<1> QED  BY <1>4, <1>5, <1>6

-----------------------------------------------------------------------------
(***************************************************************************)
(* Types, and the shape of the call stacks.                                *)
(***************************************************************************)
Pcs == {"alloc", "taken", "ensure", "open", "wait", "opened", "subscribe", "helddata",
        "heldend", "finish", "calldata", "callclose", "dispatchclose", "unsubscribe",
        "tcpclose", "release", "discard"}

Thens == {"none", "return", "retry", "report", "heldend", "finish"}

\* A Connect whose route does not exist yet.
Routeless(f) ==
    \/ f.pc \in {"alloc", "taken", "ensure", "open", "wait", "opened", "subscribe"}
    \/ f.pc \in {"release", "discard"} /\ f.then = "retry"

\* The calls of a client's thread, those of them that others are made from, and those
\* of the receive task.
ThreadFrame ==
    {f \in Frame :
        /\ f.pc # "alloc" => f.cid \in Cids
        /\ Routeless(f) => f.to = {}
        /\ f.pc \in {"helddata", "calldata"} => f.then = "heldend"
        /\ f.pc \in {"dispatchclose", "callclose"} => f.then = "finish"
        /\ f.pc \in {"unsubscribe", "tcpclose"} => f.then = "return"
        /\ f.pc \in {"release", "discard"} => f.then \in {"return", "retry"}}

CallerFrame ==
    {f \in ThreadFrame : f.pc \in {"heldend", "dispatchclose", "callclose", "finish"}}

TaskFrame ==
    {f \in Frame :
        /\ f.pc \in {"calldata", "release", "discard", "dispatchclose", "callclose"}
        /\ f.cid \in Cids
        /\ f.pc \in {"calldata", "dispatchclose", "callclose"} => f.then = "none"
        /\ f.pc \in {"release", "discard"} => f.then = "report"}

StackTyped ==
    /\ stack \in [Actors -> Seq(Frame)]
    /\ \A k \in Clients : /\ Frames(stack[k]) \subseteq ThreadFrame
                          /\ Under(stack[k]) \subseteq CallerFrame
    /\ Frames(stack[Task]) \subseteq TaskFrame
    /\ Under(stack[Task]) = {}

PoolTyped ==
    /\ nextSerial \in Nat \ {0}
    /\ slots \in [Cids -> [used : BOOLEAN, serial : Nat]]
    /\ quarantine \in Seq(Cids)
    /\ openWait \in [id : 0 .. NumCids, ok : BOOLEAN, done : BOOLEAN]

RouteTyped ==
    /\ routes \subseteq Route
    /\ nextSubscription \in Nat \ {0}
    /\ undelivered \in [Cids -> Undelivered]

ClientTyped ==
    /\ client \in [Clients -> [connected : BOOLEAN, cid : 0 .. NumCids, sub : Nat, gen : Nat,
                               serial : Nat]]
    /\ \A k \in Clients : client[k].connected => client[k].cid \in Cids
    /\ got \in [Clients -> Seq(Chunk)]

Written == [kind : {"opened", "refused", "data", "disconn"}, cid : Cids, serial : Nat,
            n : Nat, own : BOOLEAN]

ModuleTyped ==
    /\ wire \in Seq(Written)
    /\ sock \in [Cids -> [st : {"none", "connecting", "open"}, serial : Nat]]
    /\ owed \subseteq [cid : Cids, serial : Nat]
    /\ sent \in Seq(Nat)

TypeInv ==
    /\ StackTyped /\ PoolTyped /\ RouteTyped /\ ClientTyped /\ ModuleTyped
    /\ lapses \subseteq {"settling", "foreign", "stale"}

LEMMA FrameFields ==
    ASSUME NEW f \in Frame, NEW p \in Pcs
    PROVE  /\ f.pc \in Pcs /\ f.then \in Thens /\ f.cid \in 0 .. NumCids /\ f.serial \in Nat
           /\ f.gen \in Nat /\ f.handle \in Nat /\ f.held \in Undelivered /\ f.to \subseteq Route
           /\ f.own \in BOOLEAN
           /\ LET g == [f EXCEPT !.pc = p]
              IN /\ g \in Frame /\ g.pc = p /\ g.then = f.then /\ g.cid = f.cid
                 /\ g.serial = f.serial /\ g.held = f.held /\ g.to = f.to
  BY DEF Frame, Pcs, Thens

LEMMA ReleaseFields ==
    ASSUME NEW f \in Frame, NEW t \in Thens
    PROVE  LET g == [f EXCEPT !.pc = "release", !.then = t]
           IN /\ g \in Frame /\ g.pc = "release" /\ g.then = t /\ g.cid = f.cid
              /\ g.serial = f.serial /\ g.held = f.held /\ g.to = f.to
  BY DEF Frame, Pcs, Thens

LEMMA NothingTyped ==
    Nothing \in Undelivered /\ Nothing.closed = FALSE
<1>1. <<>> \in Seq(Chunk)
  OBVIOUS
<1> QED  BY <1>1 DEF Nothing, Undelivered

\* Frame0 is of no call: its pc is none.
BlankFrame ==
    [pc : Pcs \cup {"none"}, then : Thens, cid : 0 .. NumCids, serial : Nat, gen : Nat,
     handle : Nat, held : Undelivered, to : SUBSET Route, own : BOOLEAN]

LEMMA FrameZero ==
    Frame0 \in BlankFrame /\ Frame0.then = "none" /\ Frame0.to = {}
<1>1. {} \in SUBSET Route /\ 0 \in 0 .. NumCids
  BY BoundsAssumption
<1> QED  BY <1>1, NothingTyped DEF Frame0, BlankFrame, Pcs, Thens

LEMMA ConnectFrameTyped ==
    ASSUME nextSerial \in Nat
    PROVE  /\ ConnectFrame \in ThreadFrame /\ ConnectFrame.pc = "alloc"
           /\ ConnectFrame.serial = nextSerial /\ ConnectFrame.to = {}
<1>1. ASSUME NEW f \in BlankFrame
      PROVE  LET g == [f EXCEPT !.pc = "alloc", !.serial = nextSerial]
             IN g \in Frame /\ g.pc = "alloc" /\ g.serial = nextSerial /\ g.to = f.to
  BY DEF Frame, BlankFrame, Pcs, Thens
<1>2. /\ ConnectFrame \in Frame /\ ConnectFrame.pc = "alloc" /\ ConnectFrame.serial = nextSerial
      /\ ConnectFrame.to = {}
  BY <1>1, FrameZero, Zenon DEF ConnectFrame
<1> QED  BY <1>2 DEF ThreadFrame

LEMMA CloseFrameTyped ==
    ASSUME NEW c \in Cids, NEW s \in Nat
    PROVE  /\ CloseFrame(c, s) \in ThreadFrame /\ CloseFrame(c, s).pc = "unsubscribe"
           /\ CloseFrame(c, s).then = "return" /\ CloseFrame(c, s).cid = c
           /\ CloseFrame(c, s).serial = s /\ CloseFrame(c, s).to = {}
<1>1. c \in 0 .. NumCids
  BY BoundsAssumption DEF Cids
<1>2. ASSUME NEW f \in BlankFrame
      PROVE  LET g == [f EXCEPT !.pc = "unsubscribe", !.then = "return", !.cid = c, !.serial = s]
             IN /\ g \in Frame /\ g.pc = "unsubscribe" /\ g.then = "return" /\ g.cid = c
                /\ g.serial = s /\ g.to = f.to
  BY <1>1 DEF Frame, BlankFrame, Pcs, Thens
<1> DEFINE g == CloseFrame(c, s)
<1>3. /\ g \in Frame /\ g.pc = "unsubscribe" /\ g.then = "return" /\ g.cid = c
      /\ g.serial = s /\ g.to = {}
  BY <1>2, FrameZero, Zenon DEF CloseFrame
<1> HIDE DEF g
<1>4. g \in ThreadFrame
  BY <1>3 DEF ThreadFrame, Routeless
<1> QED  BY <1>3, <1>4 DEF g

LEMMA HoldTyped ==
    ASSUME NEW u \in Undelivered, NEW data \in Seq(Chunk)
    PROVE  HoldLocked(u, data) \in Undelivered /\ HoldLocked(u, data).closed = u.closed
<1> DEFINE room == IF Len(u.data) < MaxHeld THEN MaxHeld - Len(u.data) ELSE 0
           take == IF room < Len(data) THEN room ELSE Len(data)
           all == u.data \o SubSeq(data, 1, take)
<1>1. u.data \in Seq(Chunk) /\ u.truncated \in BOOLEAN /\ u.closed \in BOOLEAN
  BY DEF Undelivered
<1>2. take \in 0 .. Len(data)
  BY <1>1, BoundsAssumption
<1>3. SubSeq(data, 1, take) \in Seq(Chunk)
  BY <1>2
<1>4. all \in Seq(Chunk)
  BY <1>1, <1>3
<1>5. HoldLocked(u, data) = [data |-> all, truncated |-> u.truncated \/ take < Len(data),
                             closed |-> u.closed]
  BY DEF HoldLocked
<1> HIDE DEF all, take
<1> QED  BY <1>1, <1>4, <1>5 DEF Undelivered

\* What the innermost call of an actor is.
LEMMA TopTyped ==
    ASSUME StackTyped
    PROVE  /\ Clients \subseteq Actors /\ Task \in Actors /\ Task \notin Clients
           /\ \A x \in Actors : /\ stack[x] \in Seq(Frame)
                                /\ stack[x] # <<>> =>
                                      /\ Top(x) \in Frame /\ Top(x) \in Frames(stack[x])
                                      /\ Frames(stack[x]) = {Top(x)} \cup Under(stack[x])
           /\ \A k \in Clients : stack[k] # <<>> => Top(k) \in ThreadFrame
           /\ stack[Task] # <<>> => Top(Task) \in TaskFrame
<1>1. Clients \subseteq Actors /\ Task \in Actors /\ Task \notin Clients
  BY ActorsAssumption DEF Actors
<1>2. ASSUME NEW x \in Actors
      PROVE  /\ stack[x] \in Seq(Frame)
             /\ stack[x] # <<>> => /\ Top(x) \in Frame /\ Top(x) \in Frames(stack[x])
                                   /\ Frames(stack[x]) = {Top(x)} \cup Under(stack[x])
  <2>1. stack[x] \in Seq(Frame)
    BY DEF StackTyped
  <2> QED  BY <2>1, Tops DEF Top
<1> QED  BY <1>1, <1>2 DEF StackTyped

LEMMA ThreadGoes ==
    ASSUME StackTyped, NEW k \in Clients, stack[k] # <<>>, NEW g \in ThreadFrame, Continue(k, g)
    PROVE  /\ StackTyped'
           /\ \A x \in Actors \ {k} : stack'[x] = stack[x]
           /\ stack'[k] # <<>> /\ Top(k)' = g
           /\ Frames(stack'[k]) = {g} \cup Under(stack[k]) /\ Under(stack'[k]) = Under(stack[k])
<1>1. k \in Actors /\ Task \in Actors /\ k # Task /\ stack[k] \in Seq(Frame) /\ g \in Frame
  BY TopTyped DEF ThreadFrame
<1>2. stack' = [stack EXCEPT ![k] = <<g>> \o Tail(stack[k])]
  BY DEF Continue
<1>3. LET t == <<g>> \o Tail(stack[k])
      IN /\ t \in Seq(Frame) /\ t # <<>> /\ Head(t) = g
         /\ Frames(t) = {g} \cup Under(stack[k]) /\ Under(t) = Under(stack[k])
  BY <1>1, Goes, Zenon
<1> HIDE DEF Continue
<1>4. PICK t \in Seq(Frame) : /\ stack' = [stack EXCEPT ![k] = t] /\ t # <<>> /\ Head(t) = g
                              /\ Frames(t) = {g} \cup Under(stack[k]) /\ Under(t) = Under(stack[k])
  BY <1>2, <1>3
<1>5. stack'[k] = t /\ stack' \in [Actors -> Seq(Frame)] /\ stack'[Task] = stack[Task]
      /\ \A x \in Actors \ {k} : stack'[x] = stack[x]
  BY <1>1, <1>4 DEF StackTyped
<1>6. Top(k)' = g
  BY <1>4, <1>5 DEF Top
<1>7. StackTyped'
  <2>1. ASSUME NEW j \in Clients
        PROVE  Frames(stack'[j]) \subseteq ThreadFrame /\ Under(stack'[j]) \subseteq CallerFrame
    <3>1. CASE j = k
      BY <1>4, <1>5, <3>1, TopTyped DEF StackTyped, CallerFrame
    <3>2. CASE j # k
      BY <1>5, <3>2, TopTyped DEF StackTyped
    <3> QED  BY <3>1, <3>2
  <2>2. Frames(stack'[Task]) \subseteq TaskFrame /\ Under(stack'[Task]) = {}
    BY <1>5 DEF StackTyped
  <2> QED  BY <1>5, <2>1, <2>2 DEF StackTyped
<1> QED  BY <1>4, <1>5, <1>6, <1>7

LEMMA ThreadCalls ==
    ASSUME StackTyped, NEW k \in Clients, stack[k] # <<>>, NEW f \in CallerFrame,
           NEW g \in ThreadFrame, Call(k, f, g)
    PROVE  /\ StackTyped'
           /\ \A x \in Actors \ {k} : stack'[x] = stack[x]
           /\ stack'[k] # <<>> /\ Top(k)' = g
           /\ Frames(stack'[k]) = {g} \cup ({f} \cup Under(stack[k]))
           /\ Under(stack'[k]) = {f} \cup Under(stack[k])
<1>1. /\ k \in Actors /\ Task \in Actors /\ k # Task /\ stack[k] \in Seq(Frame) /\ g \in Frame
      /\ f \in Frame /\ f \in ThreadFrame
  BY TopTyped DEF ThreadFrame, CallerFrame
<1>2. stack' = [stack EXCEPT ![k] = CallOn(stack[k], f, g)]
  BY DEF Call, CallOn
<1>4. PICK t \in Seq(Frame) : /\ stack' = [stack EXCEPT ![k] = t] /\ t # <<>> /\ Head(t) = g
                              /\ Frames(t) = {g} \cup Under(t) /\ Under(t) = {f} \cup Under(stack[k])
  <2> DEFINE t == CallOn(stack[k], f, g)
  <2>1. t \in Seq(Frame)
    BY <1>1, Calls
  <2>2. t # <<>>
    BY <1>1, Calls
  <2>3. Head(t) = g
    BY <1>1, Calls
  <2>4. Frames(t) = {g} \cup Under(t)
    BY <1>1, Calls
  <2>5. Under(t) = {f} \cup Under(stack[k])
    BY <1>1, Calls
  <2>6. stack' = [stack EXCEPT ![k] = t]
    BY <1>2
  <2> HIDE DEF t
  <2> QED  BY <2>1, <2>2, <2>3, <2>4, <2>5, <2>6
<1>5. stack'[k] = t /\ stack' \in [Actors -> Seq(Frame)] /\ stack'[Task] = stack[Task]
      /\ \A x \in Actors \ {k} : stack'[x] = stack[x]
  BY <1>1, <1>4 DEF StackTyped
<1>6. Top(k)' = g
  BY <1>4, <1>5 DEF Top
<1>7. StackTyped'
  <2>1. ASSUME NEW j \in Clients
        PROVE  Frames(stack'[j]) \subseteq ThreadFrame /\ Under(stack'[j]) \subseteq CallerFrame
    <3>1. CASE j = k
      BY <1>1, <1>4, <1>5, <3>1, TopTyped DEF StackTyped, CallerFrame
    <3>2. CASE j # k
      BY <1>5, <3>2, TopTyped DEF StackTyped
    <3> QED  BY <3>1, <3>2
  <2>2. Frames(stack'[Task]) \subseteq TaskFrame /\ Under(stack'[Task]) = {}
    BY <1>5 DEF StackTyped
  <2> QED  BY <1>5, <2>1, <2>2 DEF StackTyped
<1> QED  BY <1>4, <1>5, <1>6, <1>7

LEMMA ActorReturns ==
    ASSUME StackTyped, NEW x \in Actors, stack[x] # <<>>, Return(x)
    PROVE  /\ StackTyped'
           /\ \A y \in Actors \ {x} : stack'[y] = stack[y]
           /\ Frames(stack'[x]) = Under(stack[x]) /\ Under(stack'[x]) \subseteq Under(stack[x])
           /\ stack'[x] # <<>> => Top(x)' \in Under(stack[x])
<1>1. Clients \subseteq Actors /\ Task \in Actors /\ Task \notin Clients
      /\ stack[x] \in Seq(Frame)
  BY TopTyped
<1>2. stack' = [stack EXCEPT ![x] = Tail(stack[x])]
  BY DEF Return
<1>3. PICK t \in Seq(Frame) : /\ stack' = [stack EXCEPT ![x] = t]
                              /\ Frames(t) = Under(stack[x]) /\ Under(t) \subseteq Under(stack[x])
                              /\ t # <<>> => Head(t) \in Under(stack[x])
  BY <1>1, <1>2, Returns
<1>4. stack'[x] = t /\ stack' \in [Actors -> Seq(Frame)]
      /\ \A y \in Actors \ {x} : stack'[y] = stack[y]
  BY <1>1, <1>3 DEF StackTyped
<1>5. StackTyped'
  <2>1. ASSUME NEW j \in Clients
        PROVE  Frames(stack'[j]) \subseteq ThreadFrame /\ Under(stack'[j]) \subseteq CallerFrame
    <3>1. CASE j = x
      BY <1>3, <1>4, <3>1 DEF StackTyped, CallerFrame
    <3>2. CASE j # x
      BY <1>1, <1>4, <3>2 DEF StackTyped
    <3> QED  BY <3>1, <3>2
  <2>2. Frames(stack'[Task]) \subseteq TaskFrame /\ Under(stack'[Task]) = {}
    <3>1. CASE x = Task
      BY <1>3, <1>4, <3>1 DEF StackTyped
    <3>2. CASE x # Task
      BY <1>1, <1>4, <3>2 DEF StackTyped
    <3> QED  BY <3>1, <3>2
  <2> QED  BY <1>4, <2>1, <2>2 DEF StackTyped
<1> QED  BY <1>3, <1>4, <1>5 DEF Top

LEMMA ThreadBegins ==
    ASSUME StackTyped, NEW k \in Clients, NEW g \in ThreadFrame,
           stack' = [stack EXCEPT ![k] = <<g>>]
    PROVE  /\ StackTyped'
           /\ \A x \in Actors \ {k} : stack'[x] = stack[x]
           /\ stack'[k] # <<>> /\ Top(k)' = g
           /\ Frames(stack'[k]) = {g} /\ Under(stack'[k]) = {}
<1>1. Clients \subseteq Actors /\ Task \in Actors /\ Task \notin Clients /\ g \in Frame
  BY TopTyped DEF ThreadFrame
<1>2. PICK t \in Seq(Frame) : /\ stack' = [stack EXCEPT ![k] = t] /\ t # <<>> /\ Head(t) = g
                              /\ Frames(t) = {g} /\ Under(t) = {}
  BY <1>1, Begins
<1>3. stack'[k] = t /\ stack' \in [Actors -> Seq(Frame)] /\ stack'[Task] = stack[Task]
      /\ \A y \in Actors \ {k} : stack'[y] = stack[y]
  BY <1>1, <1>2 DEF StackTyped
<1>4. StackTyped'
  <2>1. ASSUME NEW j \in Clients
        PROVE  Frames(stack'[j]) \subseteq ThreadFrame /\ Under(stack'[j]) \subseteq CallerFrame
    BY <1>1, <1>2, <1>3 DEF StackTyped
  <2>2. Frames(stack'[Task]) \subseteq TaskFrame /\ Under(stack'[Task]) = {}
    BY <1>3 DEF StackTyped
  <2> QED  BY <1>3, <2>1, <2>2 DEF StackTyped
<1> QED  BY <1>2, <1>3, <1>4 DEF Top

\* The receive task is in one call at a time.
LEMMA TaskBegins ==
    ASSUME StackTyped, NEW g \in TaskFrame, stack' = [stack EXCEPT ![Task] = <<g>>]
    PROVE  /\ StackTyped'
           /\ \A k \in Clients : stack'[k] = stack[k]
           /\ stack'[Task] # <<>> /\ Top(Task)' = g
           /\ Frames(stack'[Task]) = {g} /\ Under(stack'[Task]) = {}
<1>1. Clients \subseteq Actors /\ Task \in Actors /\ Task \notin Clients /\ g \in Frame
  BY TopTyped DEF TaskFrame
<1>2. PICK t \in Seq(Frame) : /\ stack' = [stack EXCEPT ![Task] = t] /\ t # <<>> /\ Head(t) = g
                              /\ Frames(t) = {g} /\ Under(t) = {}
  BY <1>1, Begins
<1>3. stack'[Task] = t /\ stack' \in [Actors -> Seq(Frame)]
      /\ \A k \in Clients : stack'[k] = stack[k]
  BY <1>1, <1>2 DEF StackTyped
<1>4. StackTyped'
  BY <1>2, <1>3 DEF StackTyped
<1> QED  BY <1>2, <1>3, <1>4 DEF Top

LEMMA TaskGoes ==
    ASSUME StackTyped, stack[Task] # <<>>, NEW g \in TaskFrame, Continue(Task, g)
    PROVE  /\ StackTyped'
           /\ \A k \in Clients : stack'[k] = stack[k]
           /\ stack'[Task] # <<>> /\ Top(Task)' = g
           /\ Frames(stack'[Task]) = {g} /\ Under(stack'[Task]) = {}
<1>1. Clients \subseteq Actors /\ Task \in Actors /\ Task \notin Clients
      /\ stack[Task] \in Seq(Frame) /\ g \in Frame /\ Under(stack[Task]) = {}
  BY TopTyped DEF StackTyped, TaskFrame
<1>2. PICK t \in Seq(Frame) : /\ stack' = [stack EXCEPT ![Task] = t] /\ t # <<>> /\ Head(t) = g
                              /\ Frames(t) = {g} /\ Under(t) = {}
  BY <1>1, Goes DEF Continue
<1>3. stack'[Task] = t /\ stack' \in [Actors -> Seq(Frame)]
      /\ \A k \in Clients : stack'[k] = stack[k]
  BY <1>1, <1>2 DEF StackTyped
<1>4. StackTyped'
  BY <1>2, <1>3 DEF StackTyped
<1> QED  BY <1>2, <1>3, <1>4 DEF Top

-----------------------------------------------------------------------------
(***************************************************************************)
(* The steps of a thread, by what they do to its calls.                    *)
(***************************************************************************)
\* The calls that have a cid in the pool.
Holding == {"taken", "ensure", "open", "wait", "opened", "unsubscribe", "tcpclose", "release"}

\* The innermost call of k goes on as g, and still has its cid.
Advance(k, g) ==
    /\ stack[k] # <<>> /\ Continue(k, g)
    /\ Top(k).pc \in Holding \ {"opened", "release"}
    /\ g.pc \in Holding \ {"taken", "unsubscribe"}
    /\ g.cid = Top(k).cid /\ g.serial = Top(k).serial /\ g.to = Top(k).to
    /\ Routeless(g) => Routeless(Top(k))
    /\ Top(k).pc = "tcpclose" => g.pc = "release"

Advances(k) ==
    \/ Taken(k) \/ EnsureSocketFree(k) \/ CidWasHeld(k) \/ OpenFails(k) \/ OpenOnId(k)
    \/ OpenBusy(k) \/ WaitForOpenResult(k) \/ Unsubscribe(k) \/ CloseConnection(k)

SameClients ==
    \A j \in Clients : /\ client'[j].connected <=> client[j].connected
                       /\ client'[j].cid = client[j].cid
                       /\ client'[j].serial = client[j].serial

LEMMA GoesOn ==
    ASSUME StackTyped, NEW k \in Clients, stack[k] # <<>>,
           Top(k).pc \in Holding \ {"opened", "release"},
           NEW p \in Holding \ {"taken", "unsubscribe", "release"},
           p = "tcpclose" => Top(k).pc = "unsubscribe",
           Top(k).pc \in {"unsubscribe"} => p = "tcpclose",
           Top(k).pc # "tcpclose", GoTo(k, p)
    PROVE  \E g \in ThreadFrame : Advance(k, g)
<1> DEFINE f == Top(k)
           g == [f EXCEPT !.pc = p]
<1>1. f \in ThreadFrame /\ f \in Frame
  BY TopTyped DEF ThreadFrame
<1>2. p \in Pcs 
  BY DEF Holding, Pcs
<1>3. /\ g \in Frame /\ g.pc = p /\ g.then = f.then /\ g.cid = f.cid /\ g.serial = f.serial
      /\ g.to = f.to
  BY <1>1, <1>2, FrameFields
<1>4. Continue(k, g)
  BY DEF GoTo
<1> HIDE DEF g
<1>5. f.cid \in Cids /\ (Routeless(f) => f.to = {}) /\ (f.pc = "unsubscribe" => f.then = "return")
  BY <1>1 DEF ThreadFrame, Holding
<1>6. Routeless(g) => Routeless(f)
  BY <1>3 DEF Routeless, Holding
<1>7. g \in ThreadFrame
  BY <1>3, <1>5, <1>6 DEF ThreadFrame, Holding
<1> QED  BY <1>3, <1>4, <1>6, <1>7 DEF Advance, Holding

LEMMA GoesToRelease ==
    ASSUME StackTyped, NEW k \in Clients, stack[k] # <<>>,
           Top(k).pc \in Holding \ {"opened", "release", "unsubscribe"},
           NEW l \in {"return", "retry"}, l = "retry" => Routeless(Top(k)), ReleaseThen(k, l)
    PROVE  \E g \in ThreadFrame : Advance(k, g)
<1> DEFINE f == Top(k)
           g == [f EXCEPT !.pc = "release", !.then = l]
<1>1. f \in ThreadFrame /\ f \in Frame
  BY TopTyped DEF ThreadFrame
<1>2. l \in Thens
  BY DEF Thens
<1>3. /\ g \in Frame /\ g.pc = "release" /\ g.then = l /\ g.cid = f.cid /\ g.serial = f.serial
      /\ g.to = f.to
  BY <1>1, <1>2, ReleaseFields
<1>4. Continue(k, g)
  BY DEF ReleaseThen
<1> HIDE DEF g
<1>5. f.cid \in Cids /\ (Routeless(f) => f.to = {})
  BY <1>1 DEF ThreadFrame, Holding
<1>6. Routeless(g) => Routeless(f)
  BY <1>3 DEF Routeless
<1>7. g \in ThreadFrame
  BY <1>3, <1>5, <1>6 DEF ThreadFrame
<1> QED  BY <1>3, <1>4, <1>6, <1>7 DEF Advance, Holding

LEMMA CloseReleases ==
    ASSUME StackTyped, NEW k \in Clients, At(k, "tcpclose"), GoTo(k, "release")
    PROVE  \E g \in ThreadFrame : Advance(k, g)
<1> DEFINE f == Top(k)
           g == [f EXCEPT !.pc = "release"]
<1>1. f \in ThreadFrame /\ f \in Frame /\ f.pc = "tcpclose" /\ stack[k] # <<>>
  BY TopTyped DEF ThreadFrame, At
<1>2. "release" \in Pcs
  BY DEF Pcs
<1>3. /\ g \in Frame /\ g.pc = "release" /\ g.then = f.then /\ g.cid = f.cid
      /\ g.serial = f.serial /\ g.to = f.to
  BY <1>1, <1>2, FrameFields
<1>4. Continue(k, g)
  BY DEF GoTo
<1> HIDE DEF g
<1>5. f.cid \in Cids /\ f.then = "return"
  BY <1>1 DEF ThreadFrame
<1>6. ~Routeless(g)
  BY <1>3, <1>5 DEF Routeless
<1>7. g \in ThreadFrame
  BY <1>3, <1>5, <1>6 DEF ThreadFrame
<1> QED  BY <1>1, <1>3, <1>4, <1>6, <1>7 DEF Advance, Holding

LEMMA AdvanceStep ==
    ASSUME TypeInv, NEW k \in Clients, Advances(k)
    PROVE  /\ \E g \in ThreadFrame : Advance(k, g)
           /\ UNCHANGED <<nextSerial, slots, quarantine, nextSubscription, got, lapses, sent, wire>>
           /\ routes' \subseteq routes
           /\ undelivered' = undelivered \/ undelivered' = [undelivered EXCEPT ![Top(k).cid] = Nothing]
           /\ Top(k).pc = "taken" =>
                 undelivered' = [undelivered EXCEPT ![Top(k).cid] = Nothing]
<1> USE DEF At
<1>0. StackTyped
  BY DEF TypeInv
<1>1. CASE Taken(k)
  BY <1>0, <1>1, GoesOn DEF Taken, Holding, poolVars, moduleVars
<1>2. CASE EnsureSocketFree(k)
  BY <1>0, <1>2, GoesOn DEF EnsureSocketFree, Holding, poolVars, moduleVars, routeVars
<1>3. CASE CidWasHeld(k)
  BY <1>0, <1>3, GoesToRelease DEF CidWasHeld, Holding, poolVars, routeVars, Routeless
<1>4. CASE OpenFails(k)
  BY <1>0, <1>4, GoesToRelease DEF OpenFails, Holding, poolVars, routeVars
<1>5. CASE OpenOnId(k)
  BY <1>0, <1>5, GoesOn DEF OpenOnId, Holding, poolVars, routeVars
<1>6. CASE OpenBusy(k)
  BY <1>0, <1>6, GoesToRelease DEF OpenBusy, Holding, poolVars, routeVars, moduleVars, Routeless
<1>7. CASE WaitForOpenResult(k)
  <2>1. \E g \in ThreadFrame : Advance(k, g)
    BY <1>0, <1>7, GoesToRelease, GoesOn DEF WaitForOpenResult, Holding
  <2> QED  BY <1>7, <2>1 DEF WaitForOpenResult, poolVars, routeVars, moduleVars
<1>8. CASE Unsubscribe(k)
  BY <1>0, <1>8, GoesOn DEF Unsubscribe, Holding, poolVars, moduleVars
<1>9. CASE CloseConnection(k)
  BY <1>0, <1>9, CloseReleases DEF CloseConnection, poolVars, routeVars
<1> QED  BY <1>1, <1>2, <1>3, <1>4, <1>5, <1>6, <1>7, <1>8, <1>9 DEF Advances

LEMMA SameClientsTyped ==
    ASSUME ClientTyped, NEW k \in Clients, NEW n \in Nat,
           client' = [client EXCEPT ![k] = [@ EXCEPT !.sub = n]], UNCHANGED got
    PROVE  ClientTyped' /\ SameClients
<1>1. ASSUME NEW r \in [connected : BOOLEAN, cid : 0 .. NumCids, sub : Nat, gen : Nat,
                        serial : Nat]
      PROVE  /\ [r EXCEPT !.sub = n] \in [connected : BOOLEAN, cid : 0 .. NumCids, sub : Nat,
                                          gen : Nat, serial : Nat]
             /\ [r EXCEPT !.sub = n].cid = r.cid /\ [r EXCEPT !.sub = n].serial = r.serial
             /\ [r EXCEPT !.sub = n].connected <=> r.connected
  OBVIOUS
<1>2. client'[k] = [client[k] EXCEPT !.sub = n] /\ \A j \in Clients \ {k} : client'[j] = client[j]
  BY DEF ClientTyped
<1>3. ASSUME NEW j \in Clients
      PROVE  /\ client'[j] \in [connected : BOOLEAN, cid : 0 .. NumCids, sub : Nat, gen : Nat,
                                serial : Nat]
             /\ client'[j].cid = client[j].cid /\ client'[j].serial = client[j].serial
             /\ client'[j].connected <=> client[j].connected
  BY <1>1, <1>2 DEF ClientTyped
<1>4. client' \in [Clients -> [connected : BOOLEAN, cid : 0 .. NumCids, sub : Nat, gen : Nat,
                               serial : Nat]]
  <2>1. client' = [j \in Clients |-> client'[j]]
    BY DEF ClientTyped
  <2> QED  BY <1>3, <2>1
<1> QED  BY <1>3, <1>4 DEF ClientTyped, SameClients

LEMMA NoClientChanges ==
    ASSUME ClientTyped, UNCHANGED <<client, got>>
    PROVE  ClientTyped' /\ SameClients
  BY DEF ClientTyped, SameClients

LEMMA UndeliveredTyped ==
    ASSUME RouteTyped, NEW c \in Cids, NEW u \in Undelivered
    PROVE  [undelivered EXCEPT ![c] = u] \in [Cids -> Undelivered]
  BY DEF RouteTyped

LEMMA CidOfTop ==
    ASSUME StackTyped
    PROVE  /\ \A k \in Clients : stack[k] # <<>> /\ Top(k).pc # "alloc" => Top(k).cid \in Cids
           /\ \A x \in Actors : stack[x] # <<>> =>
                 /\ Top(x).cid \in 0 .. NumCids /\ Top(x).serial \in Nat /\ Top(x).gen \in Nat
                 /\ Top(x).handle \in Nat /\ Top(x).to \subseteq Route /\ Top(x).held \in Undelivered
           /\ stack[Task] # <<>> => Top(Task).cid \in Cids
<1>1. \A k \in Clients : stack[k] # <<>> /\ Top(k).pc # "alloc" => Top(k).cid \in Cids
  BY TopTyped DEF ThreadFrame
<1>2. stack[Task] # <<>> => Top(Task).cid \in Cids
  BY TopTyped DEF TaskFrame
<1>3. ASSUME NEW x \in Actors, stack[x] # <<>>
      PROVE  /\ Top(x).cid \in 0 .. NumCids /\ Top(x).serial \in Nat /\ Top(x).gen \in Nat
             /\ Top(x).handle \in Nat /\ Top(x).to \subseteq Route /\ Top(x).held \in Undelivered
  <2>1. Top(x) \in Frame
    BY <1>3, TopTyped
  <2> QED  BY <2>1, FrameFields DEF Pcs
<1> QED  BY <1>1, <1>2, <1>3

Sock == [st : {"none", "connecting", "open"}, serial : Nat]

LEMMA EndSocketTyped ==
    ASSUME ModuleTyped, NEW c \in Cids, EndSocket(c)
    PROVE  sock' \in [Cids -> Sock] /\ owed' \subseteq [cid : Cids, serial : Nat]
  BY DEF ModuleTyped, EndSocket, Sock

LEMMA ArmedTyped ==
    ASSUME NEW c \in Cids
    PROVE  /\ [NoWait EXCEPT !.id = c] \in [id : 0 .. NumCids, ok : BOOLEAN, done : BOOLEAN]
           /\ NoWait \in [id : 0 .. NumCids, ok : BOOLEAN, done : BOOLEAN]
<1>1. NoWait \in [id : 0 .. NumCids, ok : BOOLEAN, done : BOOLEAN] /\ c \in 0 .. NumCids
  BY BoundsAssumption DEF NoWait, Cids
<1>2. ASSUME NEW w \in [id : 0 .. NumCids, ok : BOOLEAN, done : BOOLEAN]
      PROVE  [w EXCEPT !.id = c] \in [id : 0 .. NumCids, ok : BOOLEAN, done : BOOLEAN]
  BY <1>1
<1> QED  BY <1>1, <1>2

LEMMA AdvanceTyped ==
    ASSUME TypeInv, NEW k \in Clients, Advances(k)
    PROVE  TypeInv' /\ SameClients
<1>0. /\ StackTyped /\ PoolTyped /\ RouteTyped /\ ClientTyped /\ ModuleTyped
      /\ lapses \subseteq {"settling", "foreign", "stale"}
  BY DEF TypeInv
<1>1. PICK g \in ThreadFrame : Advance(k, g)
  BY AdvanceStep
<1>2. stack[k] # <<>> /\ Continue(k, g) /\ Top(k).pc # "alloc"
  BY <1>1 DEF Advance, Holding
<1>3. StackTyped'
  BY <1>0, <1>2, ThreadGoes
<1> DEFINE c == Top(k).cid
<1>4. c \in Cids /\ Top(k).serial \in Nat /\ k \in Actors
  BY <1>0, <1>2, CidOfTop, TopTyped
<1> HIDE DEF c
<1>5. RouteTyped'
  <2>1. /\ routes' \subseteq routes /\ nextSubscription' = nextSubscription
        /\ undelivered' = undelivered \/ undelivered' = [undelivered EXCEPT ![c] = Nothing]
    BY AdvanceStep DEF c
  <2>2. undelivered' \in [Cids -> Undelivered]
    BY <1>0, <1>4, <2>1, UndeliveredTyped, NothingTyped DEF RouteTyped
  <2> QED  BY <1>0, <2>1, <2>2 DEF RouteTyped
<1>6. openWait' \in [id : 0 .. NumCids, ok : BOOLEAN, done : BOOLEAN]
  <2>1. \/ openWait' = openWait \/ openWait' = NoWait \/ openWait' = [NoWait EXCEPT !.id = c]
    BY DEF Advances, Taken, EnsureSocketFree, CidWasHeld, OpenFails, OpenOnId, OpenBusy,
           WaitForOpenResult, Unsubscribe, CloseConnection, c
  <2> QED  BY <1>0, <1>4, <2>1, ArmedTyped DEF PoolTyped
<1>7. PoolTyped'
  BY <1>0, <1>6, AdvanceStep DEF PoolTyped
<1>8. ClientTyped' /\ SameClients
  <2>1. \/ client' = client
        \/ client' = [client EXCEPT ![k] = [@ EXCEPT !.sub = 0]]
    BY DEF Advances, Taken, EnsureSocketFree, CidWasHeld, OpenFails, OpenOnId, OpenBusy,
           WaitForOpenResult, Unsubscribe, CloseConnection
  <2>2. got' = got
    BY AdvanceStep
  <2> QED  BY <1>0, <2>1, <2>2, SameClientsTyped, NoClientChanges
<1>9. sock' \in [Cids -> Sock] /\ owed' \subseteq [cid : Cids, serial : Nat]
  <2>1. \/ sock' = sock /\ owed' = owed
        \/ EndSocket(c)
        \/ owed' = owed /\ sock' = [sock EXCEPT ![c] = [st |-> "connecting", serial |-> Top(k).serial]]
    BY DEF Advances, Taken, EnsureSocketFree, CidWasHeld, OpenFails, OpenOnId, OpenBusy,
           WaitForOpenResult, Unsubscribe, CloseConnection, moduleVars, c
  <2>2. [st |-> "connecting", serial |-> Top(k).serial] \in Sock
    BY <1>4 DEF Sock
  <2> QED  BY <1>0, <1>4, <2>1, <2>2, EndSocketTyped DEF ModuleTyped, Sock
<1>10. ModuleTyped'
  BY <1>0, <1>9, AdvanceStep DEF ModuleTyped, Sock
<1> QED  BY <1>0, <1>3, <1>5, <1>7, <1>8, <1>10, AdvanceStep DEF TypeInv

-----------------------------------------------------------------------------
(***************************************************************************)
(* The pool.                                                               *)
(***************************************************************************)
LEMMA LeastNatural ==
    ASSUME NEW S, S \subseteq Nat, S # {}
    PROVE  \E n \in S : \A m \in S : n <= m
<1>1. PICK n \in S : \A m \in S : ~(<<m, n>> \in OpToRel(<, Nat))
  BY NatLessThanWellFounded, WFMin, Zenon
<1>2. ASSUME NEW m \in S
      PROVE  n <= m
  <2>1. m \in Nat /\ n \in Nat
    OBVIOUS
  <2>2. ~(m < n)
    BY <1>1, <2>1 DEF OpToRel
  <2> QED  BY <2>1, <2>2
<1> QED  BY <1>2

LEMMA ChosenIsCid ==
    ASSUME PoolTyped, NEW S, S \subseteq Cids, S # {}
    PROVE  Chosen(S) \in Cids
<1> DEFINE settled == S \ Settling
<1>1. CASE settled # {}
  <2>1. \E c \in settled : \A d \in settled : c <= d
    <3>1. settled \subseteq Nat
      <4>1. Cids \subseteq Nat
        BY BoundsAssumption DEF Cids
      <4> QED  BY <4>1
    <3> HIDE DEF settled
    <3> QED  BY <1>1, <3>1, LeastNatural
  <2> QED  BY <1>1, <2>1 DEF Chosen
<1>2. CASE settled = {}
  <2> DEFINE D == {i \in DOMAIN quarantine : quarantine[i] \in S}
  <2>1. quarantine \in Seq(Cids) /\ DOMAIN quarantine = 1 .. Len(quarantine)
        /\ Len(quarantine) \in Nat
    BY DEF PoolTyped
  <2>2. D # {} /\ D \subseteq Nat
    BY <1>2, <2>1 DEF Settling
  <2>3. PICK i \in D : \A j \in D : i <= j
    BY <2>2, LeastNatural
  <2>4. \A j \in 1 .. i - 1 : quarantine[j] \notin S
    BY <2>1, <2>3
  <2>5. \E h \in DOMAIN quarantine : /\ quarantine[h] \in S
                                     /\ \A j \in 1 .. h - 1 : quarantine[j] \notin S
    BY <2>3, <2>4
  <2> HIDE DEF D
  <2>6. Oldest(S) \in Cids
    BY <2>1, <2>5 DEF Oldest
  <2> QED  BY <1>2, <2>6 DEF Chosen
<1> QED  BY <1>1, <1>2

\* The quarantine of one cid ends, and that of no other.
LEMMA UnsettledFacts ==
    ASSUME quarantine \in Seq(Cids), NEW c \in Cids
    PROVE  /\ Unsettled(c) \in Seq(Cids)
           /\ \A d \in Settling \ {c} : \E i \in DOMAIN Unsettled(c) : Unsettled(c)[i] = d
<1>1. CASE c \notin Settling
  BY <1>1 DEF Unsettled, Settling
<1>2. CASE c \in Settling
  <2> DEFINE q == quarantine
             i == CHOOSE i \in DOMAIN quarantine : quarantine[i] = c
             a == SubSeq(q, 1, i - 1)
             b == SubSeq(q, i + 1, Len(q))
             u == a \o b
  <2>1. i \in 1 .. Len(q) /\ q[i] = c /\ Len(q) \in Nat /\ DOMAIN q = 1 .. Len(q)
    BY <1>2 DEF Settling
  <2>2. Unsettled(c) = u
    BY <1>2 DEF Unsettled
  <2> HIDE DEF i
  <2>3. a \in Seq(Cids) /\ Len(a) = i - 1 /\ \A j \in 1 .. (i - 1) : a[j] = q[j]
    BY <2>1
  <2>4. b \in Seq(Cids) /\ Len(b) = Len(q) - i /\ \A j \in 1 .. (Len(q) - i) : b[j] = q[i + j]
    <3>1. /\ i + 1 \in Int /\ Len(q) \in Int /\ \A j \in (i + 1) .. Len(q) : q[j] \in Cids
          /\ Len(q) - (i + 1) + 1 = Len(q) - i
      BY <2>1
    <3>2. /\ b \in Seq(Cids) /\ Len(b) = IF i + 1 <= Len(q) THEN Len(q) - (i + 1) + 1 ELSE 0
          /\ \A j \in 1 .. Len(q) - (i + 1) + 1 : b[j] = q[(i + 1) + j - 1]
      BY <3>1, SubSeqProperties
    <3> HIDE DEF b
    <3>3. ASSUME NEW j \in 1 .. (Len(q) - i)
          PROVE  b[j] = q[i + j]
      <4>1. (i + 1) + j - 1 = i + j
        BY <2>1
      <4> QED  BY <3>1, <3>2, <4>1
    <3>4. Len(b) = Len(q) - i
      <4>1. Len(b) = IF i + 1 <= Len(q) THEN Len(q) - (i + 1) + 1 ELSE 0
        BY <3>2
      <4>2. PICK n \in Nat : n = Len(q)
        BY <2>1
      <4>3. i \in 1 .. n /\ Len(b) = IF i + 1 <= n THEN n - (i + 1) + 1 ELSE 0
        BY <2>1, <4>1, <4>2
      <4>4. Len(b) = n - i
        BY <4>3
      <4> QED  BY <4>2, <4>4
    <3> QED  BY <3>2, <3>3, <3>4
  <2> HIDE DEF a, b
  <2>5. /\ u \in Seq(Cids) /\ Len(u) = Len(q) - 1 /\ DOMAIN u = 1 .. Len(u)
        /\ \A j \in 1 .. Len(u) : u[j] = IF j <= i - 1 THEN a[j] ELSE b[j - (i - 1)]
    <3>1. /\ u \in Seq(Cids) /\ Len(u) = Len(a) + Len(b)
          /\ \A j \in 1 .. Len(a) + Len(b) : u[j] = IF j <= Len(a) THEN a[j] ELSE b[j - Len(a)]
      BY <2>3, <2>4, ConcatProperties
    <3> HIDE DEF u
    <3>2. Len(a) + Len(b) = Len(q) - 1 /\ DOMAIN u = 1 .. Len(u)
      BY <2>1, <2>3, <2>4, <3>1
    <3> QED  BY <2>3, <3>1, <3>2
  <2> HIDE DEF u
  <2>6. ASSUME NEW d \in Settling \ {c}
        PROVE  \E j \in DOMAIN u : u[j] = d
    <3>1. PICK h \in 1 .. Len(q) : q[h] = d
      BY <2>1 DEF Settling
    <3>2. h # i
      BY <2>1, <3>1
    <3>3. CASE h < i
      <4>1. h \in 1 .. Len(u) /\ h <= i - 1 /\ a[h] = q[h]
        BY <2>1, <2>3, <2>5, <3>3
      <4> QED  BY <2>5, <3>1, <4>1
    <3>4. CASE h > i
      <4>1. /\ h - 1 \in 1 .. Len(u) /\ ~(h - 1 <= i - 1) /\ (h - 1) - (i - 1) = h - i
            /\ h - i \in 1 .. (Len(q) - i) /\ i + (h - i) = h
        BY <2>1, <2>5, <3>4
      <4>2. b[h - i] = q[h]
        BY <2>4, <4>1
      <4> QED  BY <2>5, <3>1, <4>1, <4>2
    <3> QED  BY <2>1, <3>2, <3>3, <3>4
  <2> QED  BY <2>2, <2>5, <2>6
<1> QED  BY <1>1, <1>2

LEMMA AllocateTyped ==
    ASSUME TypeInv, NEW k \in Clients, AllocateConnectionId(k)
    PROVE  /\ TypeInv'
           /\ \E g \in ThreadFrame, c \in Cids :
                 /\ stack[k] # <<>> /\ Top(k).pc = "alloc" /\ Continue(k, g)
                 /\ g.pc = "taken" /\ g.cid = c /\ g.serial = Top(k).serial /\ g.to = Top(k).to
                 /\ slots' = [slots EXCEPT ![c] = [used |-> TRUE, serial |-> Top(k).serial]]
                 /\ quarantine' = Unsettled(c)
                 /\ c \in Settling => "settling" \in lapses'
                 /\ lapses \subseteq lapses'
           /\ UNCHANGED <<nextSerial, routes, undelivered, client>>
<1>0. /\ StackTyped /\ PoolTyped /\ RouteTyped /\ ClientTyped /\ ModuleTyped
      /\ lapses \subseteq {"settling", "foreign", "stale"}
  BY DEF TypeInv
<1> DEFINE f == Top(k)
           c == Chosen(FreeFrom(f.cid))
           g == [f EXCEPT !.pc = "taken", !.cid = c]
<1>1. stack[k] # <<>> /\ f.pc = "alloc" /\ f \in ThreadFrame /\ f \in Frame
  BY <1>0, TopTyped DEF AllocateConnectionId, At, ThreadFrame
<1>2. /\ FreeFrom(f.cid) # {} /\ Continue(k, g)
      /\ slots' = [slots EXCEPT ![c] = [used |-> TRUE, serial |-> f.serial]]
      /\ quarantine' = Unsettled(c)
      /\ lapses' = IF c \in Settling THEN lapses \cup {"settling"} ELSE lapses
      /\ UNCHANGED <<nextSerial, openWait, routeVars, client, moduleVars, got>>
  BY DEF AllocateConnectionId
<1>3. c \in Cids
  BY <1>0, <1>2, ChosenIsCid DEF FreeFrom
<1> HIDE DEF c
<1>4. /\ g \in Frame /\ g.pc = "taken" /\ g.cid = c /\ g.serial = f.serial /\ g.to = f.to
      /\ f.serial \in Nat
  <2>1. c \in 0 .. NumCids
    BY <1>3, BoundsAssumption DEF Cids
  <2> QED  BY <1>1, <2>1 DEF Frame
<1> HIDE DEF g
<1>5. g \in ThreadFrame
  <2>1. f.to = {}
    BY <1>1 DEF ThreadFrame, Routeless
  <2> QED  BY <1>3, <1>4, <2>1 DEF ThreadFrame
<1>6. StackTyped'
  BY <1>0, <1>1, <1>2, <1>5, ThreadGoes
<1>7. PoolTyped'
  <2>1. Unsettled(c) \in Seq(Cids)
    BY <1>0, <1>3, UnsettledFacts DEF PoolTyped
  <2>2. [used |-> TRUE, serial |-> f.serial] \in [used : BOOLEAN, serial : Nat]
    BY <1>4
  <2> QED  BY <1>0, <1>2, <1>3, <2>1, <2>2 DEF PoolTyped
<1>8. RouteTyped' /\ ClientTyped' /\ ModuleTyped'
  BY <1>0, <1>2 DEF RouteTyped, ClientTyped, ModuleTyped, routeVars, moduleVars
<1>9. lapses' \subseteq {"settling", "foreign", "stale"} /\ lapses \subseteq lapses'
      /\ (c \in Settling => "settling" \in lapses')
  BY <1>0, <1>2
<1> HIDE DEF f
<1>10. TypeInv'
  BY <1>6, <1>7, <1>8, <1>9 DEF TypeInv
<1>11. UNCHANGED <<nextSerial, routes, undelivered, client>>
  BY <1>2 DEF routeVars
<1> QED  BY <1>1, <1>2, <1>3, <1>4, <1>5, <1>9, <1>10, <1>11 DEF f

LEMMA ConnectTyped ==
    ASSUME TypeInv, NEW k \in Clients, Connect(k)
    PROVE  TypeInv'
<1>0. /\ StackTyped /\ PoolTyped /\ RouteTyped /\ ClientTyped /\ ModuleTyped
      /\ lapses \subseteq {"settling", "foreign", "stale"}
  BY DEF TypeInv
<1>1. StackTyped'
  BY <1>0, ConnectFrameTyped, ThreadBegins DEF Connect, PoolTyped
<1>2. PoolTyped' /\ RouteTyped' /\ ClientTyped' /\ ModuleTyped' /\ lapses' = lapses
  BY <1>0 DEF Connect, PoolTyped, RouteTyped, ClientTyped, ModuleTyped, poolVars, routeVars,
              moduleVars
<1> QED  BY <1>0, <1>1, <1>2 DEF TypeInv

\* The innermost call of k returns, and had no cid in the pool.
Leaves(k) == NoConnectionId(k) \/ CloseUnused(k) \/ Finish(k)

LEMMA LeaveTyped ==
    ASSUME TypeInv, NEW k \in Clients, Leaves(k)
    PROVE  /\ TypeInv' /\ SameClients
           /\ stack[k] # <<>> /\ Return(k)
           /\ Top(k).pc \in {"alloc", "finish"} \/ (Top(k).pc = "tcpclose" /\ ~slots[Top(k).cid].used)
           /\ UNCHANGED <<nextSerial, slots, quarantine, routes, undelivered, lapses>>
<1>0. /\ StackTyped /\ PoolTyped /\ RouteTyped /\ ClientTyped /\ ModuleTyped
      /\ lapses \subseteq {"settling", "foreign", "stale"}
  BY DEF TypeInv
<1>1. /\ stack[k] # <<>> /\ Return(k) /\ k \in Actors
      /\ Top(k).pc \in {"alloc", "finish"} \/ (Top(k).pc = "tcpclose" /\ ~slots[Top(k).cid].used)
  BY <1>0, TopTyped DEF Leaves, NoConnectionId, CloseUnused, Finish, At
<1>2. UNCHANGED <<nextSerial, poolVars, openWait, routeVars, moduleVars, got, lapses>>
  BY DEF Leaves, NoConnectionId, CloseUnused, Finish
<1>3. StackTyped'
  BY <1>0, <1>1, ActorReturns
<1>4. PoolTyped' /\ RouteTyped' /\ ModuleTyped'
  BY <1>0, <1>2 DEF PoolTyped, RouteTyped, ModuleTyped, poolVars, routeVars, moduleVars
<1>5. ClientTyped' /\ SameClients
  <2>1. CASE client' = client
    BY <1>0, <1>2, <2>1, NoClientChanges
  <2>2. CASE Finish(k)
    <3>1. Top(k).handle \in Nat
      BY <1>0, <1>1, CidOfTop
    <3>2. \/ client' = client
          \/ client' = [client EXCEPT ![k] = [@ EXCEPT !.sub = Top(k).handle]]
      BY <2>2 DEF Finish
    <3> QED  BY <1>0, <1>2, <3>1, <3>2, SameClientsTyped, NoClientChanges
  <2> QED  BY <2>1, <2>2 DEF Leaves, NoConnectionId, CloseUnused
<1>6. TypeInv'
  BY <1>0, <1>2, <1>3, <1>4, <1>5 DEF TypeInv
<1> QED  BY <1>1, <1>2, <1>5, <1>6 DEF poolVars, routeVars

LEMMA OpenedTyped ==
    ASSUME TypeInv, NEW k \in Clients, Opened(k)
    PROVE  /\ TypeInv'
           /\ \E g \in ThreadFrame :
                 /\ stack[k] # <<>> /\ Top(k).pc = "opened" /\ Continue(k, g)
                 /\ g.pc = "subscribe" /\ g.cid = Top(k).cid /\ g.serial = Top(k).serial
                 /\ g.to = Top(k).to
           /\ client'[k].connected /\ client'[k].cid = Top(k).cid /\ client'[k].serial = Top(k).serial
           /\ \A j \in Clients \ {k} : client'[j] = client[j]
           /\ UNCHANGED <<nextSerial, slots, quarantine, routes, undelivered, lapses>>
<1>0. /\ StackTyped /\ PoolTyped /\ RouteTyped /\ ClientTyped /\ ModuleTyped
      /\ lapses \subseteq {"settling", "foreign", "stale"}
  BY DEF TypeInv
<1> DEFINE f == Top(k)
           n == client[k].gen + 1
           g == [f EXCEPT !.pc = "subscribe", !.gen = n]
           d == [connected |-> TRUE, cid |-> f.cid, sub |-> client[k].sub, gen |-> n,
                 serial |-> f.serial]
<1>1. stack[k] # <<>> /\ f.pc = "opened" /\ f \in ThreadFrame /\ f \in Frame
  BY <1>0, TopTyped DEF Opened, At, ThreadFrame
<1>2. f.cid \in Cids /\ f.cid \in 0 .. NumCids /\ f.serial \in Nat /\ f.to = {}
  BY <1>1, FrameFields DEF ThreadFrame, Pcs, Routeless
<1>3. n \in Nat /\ client[k].sub \in Nat
  BY <1>0 DEF ClientTyped
<1>4. /\ Continue(k, g) /\ client' = [client EXCEPT ![k] = d]
      /\ got' = [got EXCEPT ![k] = <<>>]
      /\ UNCHANGED <<nextSerial, poolVars, openWait, routeVars, moduleVars, lapses>>
  BY DEF Opened
<1> HIDE DEF n
<1>5. /\ g \in Frame /\ g.pc = "subscribe" /\ g.cid = f.cid /\ g.serial = f.serial /\ g.to = f.to
  BY <1>1, <1>3 DEF Frame
<1>6. g \in ThreadFrame
  <2> HIDE DEF g
  <2> QED  BY <1>2, <1>5 DEF ThreadFrame
<1>7. StackTyped'
  <2> HIDE DEF g
  <2> QED  BY <1>0, <1>1, <1>4, <1>6, ThreadGoes
<1>8. d.connected /\ d.cid = f.cid /\ d.serial = f.serial
      /\ d \in [connected : BOOLEAN, cid : 0 .. NumCids, sub : Nat, gen : Nat, serial : Nat]
  BY <1>2, <1>3
<1> HIDE DEF d, g
<1>9. client'[k] = d /\ \A j \in Clients \ {k} : client'[j] = client[j]
  BY <1>0, <1>4 DEF ClientTyped
<1>10. ClientTyped'
  <2>1. <<>> \in Seq(Chunk)
    OBVIOUS
  <2>2. got' \in [Clients -> Seq(Chunk)]
    BY <1>0, <1>4, <2>1 DEF ClientTyped
  <2>3. client' \in [Clients -> [connected : BOOLEAN, cid : 0 .. NumCids, sub : Nat, gen : Nat,
                                 serial : Nat]]
    BY <1>0, <1>4, <1>8 DEF ClientTyped
  <2>4. \A j \in Clients : client'[j].connected => client'[j].cid \in Cids
    BY <1>0, <1>2, <1>8, <1>9 DEF ClientTyped
  <2> QED  BY <2>2, <2>3, <2>4 DEF ClientTyped
<1>11. PoolTyped' /\ RouteTyped' /\ ModuleTyped' /\ lapses' = lapses
  BY <1>0, <1>4 DEF PoolTyped, RouteTyped, ModuleTyped, poolVars, routeVars, moduleVars
<1>12. TypeInv'
  BY <1>0, <1>7, <1>10, <1>11 DEF TypeInv
<1>13. UNCHANGED <<nextSerial, slots, quarantine, routes, undelivered, lapses>>
  BY <1>4 DEF poolVars, routeVars
<1> HIDE DEF f
<1> QED  BY <1>1, <1>4, <1>5, <1>6, <1>8, <1>9, <1>12, <1>13 DEF f

LEMMA SubscribeTyped ==
    ASSUME TypeInv, NEW k \in Clients, SubscribeTcp(k)
    PROVE  /\ TypeInv'
           /\ \E g \in ThreadFrame, r \in Route :
                 /\ stack[k] # <<>> /\ Top(k).pc = "subscribe" /\ Continue(k, g)
                 /\ g.pc = "helddata" /\ g.cid = Top(k).cid /\ g.serial = Top(k).serial
                 /\ g.to = Top(k).to /\ g.held = undelivered[Top(k).cid]
                 /\ routes' = routes \cup {r}
                 /\ r.cid = Top(k).cid /\ r.client = k /\ r.serial = Top(k).serial
           /\ undelivered' = [undelivered EXCEPT ![Top(k).cid] = Nothing]
           /\ UNCHANGED <<nextSerial, slots, quarantine, client, lapses>>
<1>0. /\ StackTyped /\ PoolTyped /\ RouteTyped /\ ClientTyped /\ ModuleTyped
      /\ lapses \subseteq {"settling", "foreign", "stale"}
  BY DEF TypeInv
<1> DEFINE f == Top(k)
           u == undelivered[f.cid]
           h == nextSubscription
           g == [f EXCEPT !.pc = "helddata", !.then = "heldend", !.handle = h, !.held = u]
           r == [handle |-> h, cid |-> f.cid, client |-> k, serial |-> f.serial]
<1>1. stack[k] # <<>> /\ f.pc = "subscribe" /\ f \in ThreadFrame /\ f \in Frame
  BY <1>0, TopTyped DEF SubscribeTcp, At, ThreadFrame
<1>2. f.cid \in Cids /\ f.serial \in Nat
  BY <1>1, FrameFields DEF ThreadFrame, Pcs
<1>3. u \in Undelivered /\ h \in Nat \ {0} /\ h \in Nat
  BY <1>0, <1>2 DEF RouteTyped
<1>4. /\ Continue(k, g) /\ routes' = routes \cup {r}
      /\ undelivered' = [undelivered EXCEPT ![f.cid] = Nothing]
      /\ nextSubscription' = h + 1
      /\ UNCHANGED <<nextSerial, poolVars, openWait, client, moduleVars, got, lapses>>
  BY DEF SubscribeTcp
<1> HIDE DEF u, h
<1>5. /\ g \in Frame /\ g.pc = "helddata" /\ g.then = "heldend" /\ g.cid = f.cid
      /\ g.serial = f.serial /\ g.to = f.to /\ g.held = u
  BY <1>1, <1>3 DEF Frame
<1>6. r \in Route /\ r.cid = f.cid /\ r.client = k /\ r.serial = f.serial
  BY <1>2, <1>3 DEF Route
<1> HIDE DEF g, r
<1>7. g \in ThreadFrame
  BY <1>2, <1>5 DEF ThreadFrame, Routeless
<1>8. StackTyped'
  BY <1>0, <1>1, <1>4, <1>7, ThreadGoes
<1>9. RouteTyped'
  <2>1. undelivered' \in [Cids -> Undelivered]
    BY <1>0, <1>2, <1>4, UndeliveredTyped, NothingTyped
  <2>2. nextSubscription' \in Nat \ {0}
    BY <1>3, <1>4
  <2> QED  BY <1>0, <1>4, <1>6, <2>1, <2>2 DEF RouteTyped
<1>10. PoolTyped' /\ ClientTyped' /\ ModuleTyped' /\ lapses' = lapses
  BY <1>0, <1>4 DEF PoolTyped, ClientTyped, ModuleTyped, poolVars, moduleVars
<1>11. TypeInv'
  BY <1>0, <1>8, <1>9, <1>10 DEF TypeInv
<1>12. UNCHANGED <<nextSerial, slots, quarantine, client, lapses>>
  BY <1>4 DEF poolVars
<1> HIDE DEF f
<1> QED  BY <1>1, <1>4, <1>5, <1>6, <1>7, <1>11, <1>12 DEF f, u

LEMMA DispatchHeldTyped ==
    ASSUME TypeInv, NEW k \in Clients, DispatchHeld(k)
    PROVE  /\ TypeInv'
           /\ \E g \in ThreadFrame :
                 /\ stack[k] # <<>> /\ Top(k).pc = "helddata" /\ Continue(k, g)
                 /\ g.pc \in {"heldend", "calldata"} /\ g.cid = Top(k).cid
                 /\ g.serial = Top(k).serial /\ g.held = Top(k).held
                 /\ g.to \subseteq Top(k).to \cup routes
           /\ \A c \in Cids : undelivered'[c].closed => undelivered[c].closed
           /\ UNCHANGED <<nextSerial, slots, quarantine, routes, client, lapses>>
<1>0. /\ StackTyped /\ PoolTyped /\ RouteTyped /\ ClientTyped /\ ModuleTyped
      /\ lapses \subseteq {"settling", "foreign", "stale"}
  BY DEF TypeInv
<1> DEFINE f == Top(k)
<1>1. stack[k] # <<>> /\ f.pc = "helddata" /\ f \in ThreadFrame /\ f \in Frame
  BY <1>0, TopTyped DEF DispatchHeld, At, ThreadFrame
<1>2. f.cid \in Cids /\ f.then = "heldend" /\ f.held.data \in Seq(Chunk)
  BY <1>1, FrameFields DEF ThreadFrame, Pcs, Undelivered
<1>3. UNCHANGED <<nextSerial, poolVars, openWait, routes, nextSubscription, client, moduleVars,
                  got, lapses>>
  BY DEF DispatchHeld
<1>4. \E g \in ThreadFrame :
          /\ Continue(k, g) /\ g.pc \in {"heldend", "calldata"} /\ g.cid = f.cid
          /\ g.serial = f.serial /\ g.held = f.held /\ g.to \subseteq f.to \cup routes
  <2>1. CASE GoTo(k, "heldend")
    <3> DEFINE g == [f EXCEPT !.pc = "heldend"]
    <3>1. /\ g \in Frame /\ g.pc = "heldend" /\ g.cid = f.cid /\ g.serial = f.serial
          /\ g.held = f.held /\ g.to = f.to
      BY <1>1 DEF Frame
    <3>2. Continue(k, g)
      BY <2>1 DEF GoTo
    <3> HIDE DEF g
    <3>3. g \in ThreadFrame
      BY <1>2, <3>1 DEF ThreadFrame, Routeless
    <3> QED  BY <3>1, <3>2, <3>3
  <2>2. ASSUME NEW r \in RoutesOf(f.cid), Continue(k, [f EXCEPT !.pc = "calldata", !.to = {r}])
        PROVE  \E g \in ThreadFrame :
                  /\ Continue(k, g) /\ g.pc \in {"heldend", "calldata"} /\ g.cid = f.cid
                  /\ g.serial = f.serial /\ g.held = f.held /\ g.to \subseteq f.to \cup routes
    <3> DEFINE g == [f EXCEPT !.pc = "calldata", !.to = {r}]
    <3>0. r \in routes /\ r \in Route
      BY <1>0 DEF RouteTyped, RoutesOf
    <3>1. /\ g \in Frame /\ g.pc = "calldata" /\ g.then = f.then /\ g.cid = f.cid
          /\ g.serial = f.serial /\ g.held = f.held /\ g.to = {r}
      BY <1>1, <3>0 DEF Frame
    <3>2. Continue(k, g)
      BY <2>2
    <3> HIDE DEF g
    <3>3. g \in ThreadFrame
      BY <1>2, <3>1 DEF ThreadFrame, Routeless
    <3> QED  BY <3>0, <3>1, <3>2, <3>3
  <2> QED  BY <2>1, <2>2 DEF DispatchHeld
<1>5. /\ undelivered' \in [Cids -> Undelivered]
      /\ \A c \in Cids : undelivered'[c].closed => undelivered[c].closed
  <2>1. CASE undelivered' = undelivered
    BY <1>0, <2>1 DEF RouteTyped
  <2>2. CASE undelivered' = [undelivered EXCEPT ![f.cid] = HoldLocked(@, f.held.data)]
    <3> DEFINE u == HoldLocked(undelivered[f.cid], f.held.data)
    <3>1. u \in Undelivered /\ u.closed = undelivered[f.cid].closed
      BY <1>0, <1>2, HoldTyped DEF RouteTyped
    <3>2. undelivered' = [undelivered EXCEPT ![f.cid] = u]
      BY <2>2
    <3> HIDE DEF u
    <3> QED  BY <1>0, <1>2, <3>1, <3>2 DEF RouteTyped
  <2> QED  BY <2>1, <2>2 DEF DispatchHeld
<1>6. StackTyped'
  BY <1>0, <1>1, <1>4, ThreadGoes
<1>7. PoolTyped' /\ RouteTyped' /\ ClientTyped' /\ ModuleTyped' /\ lapses' = lapses
  BY <1>0, <1>3, <1>5 DEF PoolTyped, RouteTyped, ClientTyped, ModuleTyped, poolVars, moduleVars
<1>8. TypeInv'
  BY <1>0, <1>6, <1>7 DEF TypeInv
<1> HIDE DEF f
<1> QED  BY <1>1, <1>3, <1>4, <1>5, <1>8 DEF f, poolVars

LEMMA HeldEndTyped ==
    ASSUME TypeInv, NEW k \in Clients, HeldEnd(k)
    PROVE  /\ TypeInv'
           /\ stack[k] # <<>> /\ Top(k).pc = "heldend"
           /\ \E f \in CallerFrame :
                 /\ f.cid = Top(k).cid /\ f.serial = Top(k).serial /\ f.to = Top(k).to
                 /\ \/ Continue(k, f) /\ f.pc = "dispatchclose" /\ Top(k).held.closed
                    \/ Continue(k, f) /\ f.pc = "finish"
                    \/ /\ f.pc = "dispatchclose"
                       /\ \E g \in ThreadFrame :
                             /\ Call(k, f, g) /\ g.pc = "tcpclose" /\ g.cid = f.cid
                             /\ g.serial = f.serial /\ g.to = {}
           /\ UNCHANGED <<nextSerial, slots, quarantine, routes, undelivered, client, lapses>>
<1>0. /\ StackTyped /\ PoolTyped /\ RouteTyped /\ ClientTyped /\ ModuleTyped
      /\ lapses \subseteq {"settling", "foreign", "stale"}
  BY DEF TypeInv
<1> DEFINE t == Top(k)
           d == [t EXCEPT !.pc = "dispatchclose", !.then = "finish"]
           e == [t EXCEPT !.pc = "finish"]
           c == CloseFrame(t.cid, t.serial)
           g == [c EXCEPT !.pc = "tcpclose"]
<1>1. stack[k] # <<>> /\ t.pc = "heldend" /\ t \in ThreadFrame /\ t \in Frame
  BY <1>0, TopTyped DEF HeldEnd, At, ThreadFrame
<1>2. t.cid \in Cids /\ t.serial \in Nat
  BY <1>1, FrameFields DEF ThreadFrame, Pcs
<1>3. /\ \/ Continue(k, d) /\ t.held.closed
         \/ Call(k, d, g)
         \/ Continue(k, e)
      /\ UNCHANGED <<nextSerial, poolVars, openWait, routeVars, client, moduleVars, got, lapses>>
  BY DEF HeldEnd, GoTo
<1>4. /\ d \in CallerFrame /\ d.pc = "dispatchclose" /\ d.cid = t.cid /\ d.serial = t.serial
      /\ d.to = t.to
  <2>1. /\ d \in Frame /\ d.pc = "dispatchclose" /\ d.then = "finish" /\ d.cid = t.cid
        /\ d.serial = t.serial /\ d.to = t.to
    BY <1>1 DEF Frame
  <2> HIDE DEF d
  <2> QED  BY <1>2, <2>1 DEF CallerFrame, ThreadFrame, Routeless
<1>5. e \in CallerFrame /\ e.pc = "finish" /\ e.cid = t.cid /\ e.serial = t.serial /\ e.to = t.to
  <2>1. e \in Frame /\ e.pc = "finish" /\ e.cid = t.cid /\ e.serial = t.serial /\ e.to = t.to
    BY <1>1 DEF Frame
  <2> HIDE DEF e
  <2> QED  BY <1>2, <2>1 DEF CallerFrame, ThreadFrame, Routeless
<1>6. g \in ThreadFrame /\ g.pc = "tcpclose" /\ g.cid = t.cid /\ g.serial = t.serial /\ g.to = {}
  <2>1. /\ c \in Frame /\ c.then = "return" /\ c.cid = t.cid /\ c.serial = t.serial /\ c.to = {}
    BY <1>2, CloseFrameTyped DEF ThreadFrame
  <2> HIDE DEF c
  <2>2. /\ g \in Frame /\ g.pc = "tcpclose" /\ g.then = c.then /\ g.cid = c.cid
        /\ g.serial = c.serial /\ g.to = c.to
    BY <2>1 DEF Frame
  <2> HIDE DEF g
  <2> QED  BY <1>2, <2>1, <2>2 DEF ThreadFrame, Routeless
<1> HIDE DEF t, d, e, g
<1>7. StackTyped'
  <2>1. d \in ThreadFrame /\ e \in ThreadFrame
    BY <1>4, <1>5 DEF CallerFrame
  <2> QED  BY <1>0, <1>1, <1>3, <1>4, <1>6, <2>1, ThreadGoes, ThreadCalls
<1>8. PoolTyped' /\ RouteTyped' /\ ClientTyped' /\ ModuleTyped' /\ lapses' = lapses
  BY <1>0, <1>3 DEF PoolTyped, RouteTyped, ClientTyped, ModuleTyped, poolVars, moduleVars,
                    routeVars
<1>9. TypeInv'
  BY <1>0, <1>7, <1>8 DEF TypeInv
<1>10. UNCHANGED <<nextSerial, slots, quarantine, routes, undelivered, client, lapses>>
  BY <1>3 DEF poolVars, routeVars
<1>11. \E f \in CallerFrame :
          /\ f.cid = t.cid /\ f.serial = t.serial /\ f.to = t.to
          /\ \/ Continue(k, f) /\ f.pc = "dispatchclose" /\ t.held.closed
             \/ Continue(k, f) /\ f.pc = "finish"
             \/ /\ f.pc = "dispatchclose"
                /\ \E h \in ThreadFrame : /\ Call(k, f, h) /\ h.pc = "tcpclose" /\ h.cid = f.cid
                                          /\ h.serial = f.serial /\ h.to = {}
  BY <1>3, <1>4, <1>5, <1>6
<1> QED  BY <1>1, <1>9, <1>10, <1>11 DEF t

-----------------------------------------------------------------------------
(***************************************************************************)
(* The steps that the threads and the receive task share.                  *)
(***************************************************************************)
FrameOf(x) == IF x = Task THEN TaskFrame ELSE ThreadFrame

LEMMA ActorGoes ==
    ASSUME StackTyped, NEW x \in Actors, stack[x] # <<>>, NEW g \in FrameOf(x), Continue(x, g)
    PROVE  /\ StackTyped'
           /\ \A y \in Actors \ {x} : stack'[y] = stack[y]
           /\ stack'[x] # <<>> /\ Top(x)' = g
           /\ Frames(stack'[x]) = {g} \cup Under(stack[x]) /\ Under(stack'[x]) = Under(stack[x])
<1>1. CASE x = Task
  <2>1. g \in TaskFrame /\ Continue(Task, g) /\ stack[Task] # <<>> /\ Under(stack[Task]) = {}
    BY <1>1 DEF FrameOf, StackTyped
  <2>2. /\ StackTyped' /\ \A k \in Clients : stack'[k] = stack[k]
        /\ stack'[Task] # <<>> /\ Top(Task)' = g
        /\ Frames(stack'[Task]) = {g} /\ Under(stack'[Task]) = {}
    BY <2>1, TaskGoes
  <2>3. \A y \in Actors \ {x} : stack'[y] = stack[y]
    BY <1>1, <2>2 DEF Actors
  <2> QED  BY <1>1, <2>1, <2>2, <2>3
<1>2. CASE x # Task
  <2>1. x \in Clients /\ g \in ThreadFrame
    BY <1>2 DEF FrameOf, Actors
  <2> QED  BY <2>1, ThreadGoes
<1> QED  BY <1>1, <1>2

LEMMA TopOf ==
    ASSUME StackTyped, NEW x \in Actors, stack[x] # <<>>
    PROVE  /\ Top(x) \in FrameOf(x) /\ Top(x) \in Frame /\ Top(x).serial \in Nat
           /\ Top(x).pc # "alloc" => Top(x).cid \in Cids
           /\ Top(x).to \subseteq Route /\ Top(x).held \in Undelivered
           /\ Top(x).held.data \in Seq(Chunk)
<1>1. Top(x) \in FrameOf(x) /\ Top(x) \in Frame
  BY TopTyped DEF FrameOf, Actors
<1>2. Top(x).pc # "alloc" => Top(x).cid \in Cids
  BY <1>1 DEF FrameOf, TaskFrame, ThreadFrame
<1>3. Top(x).serial \in Nat /\ Top(x).to \subseteq Route /\ Top(x).held \in Undelivered
  BY CidOfTop
<1> QED  BY <1>1, <1>2, <1>3 DEF Undelivered

LEMMA ReleaseTyped ==
    ASSUME TypeInv, NEW x \in Actors, Release(x)
    PROVE  /\ TypeInv'
           /\ stack[x] # <<>> /\ Top(x).pc = "release" /\ Top(x).cid \in Cids
           /\ \E g \in FrameOf(x) :
                 /\ Continue(x, g) /\ g.pc = "discard" /\ g.then = Top(x).then
                 /\ g.cid = Top(x).cid /\ g.serial = Top(x).serial /\ g.to = Top(x).to
           /\ slots' = [slots EXCEPT ![Top(x).cid] = [used |-> FALSE, serial |-> 0]]
           /\ quarantine' = Append(Unsettled(Top(x).cid), Top(x).cid)
           /\ lapses \subseteq lapses' /\ (TakenByAnother(x) => lapses' # {})
           /\ UNCHANGED <<nextSerial, routes, undelivered, client>>
<1>0. /\ StackTyped /\ PoolTyped /\ RouteTyped /\ ClientTyped /\ ModuleTyped
      /\ lapses \subseteq {"settling", "foreign", "stale"}
  BY DEF TypeInv
<1> DEFINE f == Top(x)
           g == [f EXCEPT !.pc = "discard"]
<1>1. stack[x] # <<>> /\ f.pc = "release" /\ f \in FrameOf(x) /\ f \in Frame /\ f.cid \in Cids
  BY <1>0, TopOf DEF Release, At
<1>2. /\ Continue(x, g)
      /\ slots' = [slots EXCEPT ![f.cid] = [used |-> FALSE, serial |-> 0]]
      /\ quarantine' = Append(Unsettled(f.cid), f.cid)
      /\ lapses' = IF TakenByAnother(x) THEN lapses \cup {"foreign"} ELSE lapses
      /\ UNCHANGED <<nextSerial, openWait, routeVars, client, moduleVars, got>>
  BY DEF Release, GoTo
<1>3. /\ g \in Frame /\ g.pc = "discard" /\ g.then = f.then /\ g.cid = f.cid
      /\ g.serial = f.serial /\ g.to = f.to
  BY <1>1 DEF Frame
<1> HIDE DEF f, g
<1>4. g \in FrameOf(x)
  <2>1. CASE x = Task
    BY <1>1, <1>3, <2>1 DEF FrameOf, TaskFrame
  <2>2. CASE x # Task
    BY <1>1, <1>3, <2>2 DEF FrameOf, ThreadFrame, Routeless
  <2> QED  BY <2>1, <2>2
<1>5. StackTyped'
  BY <1>0, <1>1, <1>2, <1>4, ActorGoes
<1>6. PoolTyped'
  <2>1. Unsettled(f.cid) \in Seq(Cids)
    BY <1>0, <1>1, UnsettledFacts DEF PoolTyped
  <2>2. quarantine' \in Seq(Cids)
    BY <1>1, <1>2, <2>1
  <2>3. [used |-> FALSE, serial |-> 0] \in [used : BOOLEAN, serial : Nat]
    OBVIOUS
  <2> QED  BY <1>0, <1>1, <1>2, <2>2, <2>3 DEF PoolTyped
<1>7. RouteTyped' /\ ClientTyped' /\ ModuleTyped'
  BY <1>0, <1>2 DEF RouteTyped, ClientTyped, ModuleTyped, routeVars, moduleVars
<1>8. /\ lapses' \subseteq {"settling", "foreign", "stale"} /\ lapses \subseteq lapses'
      /\ TakenByAnother(x) => lapses' # {}
  BY <1>0, <1>2
<1>9. TypeInv'
  BY <1>5, <1>6, <1>7, <1>8 DEF TypeInv
<1>10. UNCHANGED <<nextSerial, routes, undelivered, client>>
  BY <1>2 DEF routeVars
<1> QED  BY <1>1, <1>2, <1>3, <1>4, <1>8, <1>9, <1>10 DEF f

LEMMA DiscardTyped ==
    ASSUME TypeInv, NEW x \in Actors, Discard(x)
    PROVE  /\ TypeInv'
           /\ stack[x] # <<>> /\ Top(x).pc = "discard" /\ Top(x).cid \in Cids
           /\ \/ x \in Clients /\ Return(x)
              \/ \E g \in FrameOf(x) :
                    /\ Continue(x, g) /\ g.serial = Top(x).serial /\ g.to = Top(x).to
                    /\ \/ x \in Clients /\ g.pc = "alloc" /\ Routeless(Top(x))
                       \/ x = Task /\ g.pc = "dispatchclose" /\ g.cid = Top(x).cid
           /\ undelivered' = [undelivered EXCEPT ![Top(x).cid] = Nothing]
           /\ UNCHANGED <<nextSerial, slots, quarantine, routes, client, lapses>>
<1>0. /\ StackTyped /\ PoolTyped /\ RouteTyped /\ ClientTyped /\ ModuleTyped
      /\ lapses \subseteq {"settling", "foreign", "stale"}
  BY DEF TypeInv
<1> DEFINE f == Top(x)
<1>1. stack[x] # <<>> /\ f.pc = "discard" /\ f \in FrameOf(x) /\ f \in Frame /\ f.cid \in Cids
  BY <1>0, TopOf DEF Discard, At
<1>2. /\ undelivered' = [undelivered EXCEPT ![f.cid] = Nothing] /\ AfterRelease(x)
      /\ UNCHANGED <<nextSerial, poolVars, openWait, routes, nextSubscription, client,
                     moduleVars, got, lapses>>
  BY DEF Discard
<1>3. \/ x \in Clients /\ Return(x)
      \/ \E g \in FrameOf(x) :
            /\ Continue(x, g) /\ g.serial = f.serial /\ g.to = f.to
            /\ \/ x \in Clients /\ g.pc = "alloc" /\ Routeless(f)
               \/ x = Task /\ g.pc = "dispatchclose" /\ g.cid = f.cid
  <2>1. CASE x = Task
    <3> DEFINE g == [f EXCEPT !.pc = "dispatchclose", !.then = "none"]
    <3>1. f \in TaskFrame /\ f.then = "report"
      BY <1>1, <2>1 DEF FrameOf, TaskFrame
    <3>2. Continue(x, g)
      BY <1>2, <3>1 DEF AfterRelease
    <3>3. /\ g \in Frame /\ g.pc = "dispatchclose" /\ g.then = "none" /\ g.cid = f.cid
          /\ g.serial = f.serial /\ g.to = f.to
      BY <1>1 DEF Frame
    <3> HIDE DEF g
    <3>4. g \in FrameOf(x)
      BY <1>1, <2>1, <3>3 DEF FrameOf, TaskFrame
    <3> QED  BY <2>1, <3>2, <3>3, <3>4
  <2>2. CASE x # Task
    <3>1. x \in Clients /\ f \in ThreadFrame /\ f.then \in {"return", "retry"}
      BY <1>1, <2>2 DEF FrameOf, ThreadFrame, Actors
    <3>2. CASE f.then = "return"
      BY <1>2, <3>1, <3>2 DEF AfterRelease
    <3>3. CASE f.then = "retry"
      <4> DEFINE n == f.cid + 1
                 g == [f EXCEPT !.pc = "alloc", !.cid = n]
      <4>1. Continue(x, g)
        BY <1>2, <3>3 DEF AfterRelease
      <4>2. n \in 0 .. NumCids
        BY <1>1, BoundsAssumption DEF Cids
      <4> HIDE DEF n
      <4>3. g \in Frame /\ g.pc = "alloc" /\ g.serial = f.serial /\ g.to = f.to
        BY <1>1, <4>2 DEF Frame
      <4> HIDE DEF g
      <4>4. Routeless(f) /\ f.to = {}
        BY <1>1, <3>1, <3>3 DEF ThreadFrame, Routeless
      <4>5. g \in FrameOf(x)
        BY <2>2, <4>3, <4>4 DEF FrameOf, ThreadFrame
      <4> QED  BY <3>1, <4>1, <4>3, <4>4, <4>5
    <3> QED  BY <3>1, <3>2, <3>3
  <2> QED  BY <2>1, <2>2
<1> HIDE DEF f
<1>4. StackTyped'
  BY <1>0, <1>1, <1>3, ActorGoes, ActorReturns
<1>5. RouteTyped'
  BY <1>0, <1>1, <1>2, UndeliveredTyped, NothingTyped DEF RouteTyped
<1>6. PoolTyped' /\ ClientTyped' /\ ModuleTyped' /\ lapses' = lapses
  BY <1>0, <1>2 DEF PoolTyped, ClientTyped, ModuleTyped, poolVars, moduleVars
<1>7. TypeInv'
  BY <1>0, <1>4, <1>5, <1>6 DEF TypeInv
<1>8. UNCHANGED <<nextSerial, slots, quarantine, routes, client, lapses>>
  BY <1>2 DEF poolVars
<1> QED  BY <1>1, <1>2, <1>3, <1>7, <1>8 DEF f

LEMMA ResumeSteps ==
    ASSUME StackTyped, NEW x \in Actors, stack[x] # <<>>, Resume(x),
           Top(x).pc \in {"calldata", "dispatchclose"}
    PROVE  \/ x = Task /\ Return(x)
           \/ /\ x \in Clients
              /\ \E g \in ThreadFrame :
                    /\ Continue(x, g) /\ g.serial = Top(x).serial /\ g.to = Top(x).to
                    /\ g.cid = Top(x).cid /\ g.held = Top(x).held
                    /\ \/ Top(x).pc = "calldata" /\ g.pc = "heldend"
                       \/ Top(x).pc = "dispatchclose" /\ g.pc = "finish"
<1> DEFINE f == Top(x)
<1>1. f \in FrameOf(x) /\ f \in Frame /\ f.cid \in Cids
  BY TopOf
<1>2. CASE x = Task
  BY <1>1, <1>2 DEF FrameOf, TaskFrame, Resume
<1>3. CASE x # Task
  <2> DEFINE p == f.then
             g == [f EXCEPT !.pc = p]
  <2>1. /\ x \in Clients /\ f \in ThreadFrame
        /\ (f.pc = "calldata" => p = "heldend") /\ (f.pc = "dispatchclose" => p = "finish")
    BY <1>1, <1>3 DEF FrameOf, ThreadFrame, Actors
  <2>2. p \in {"heldend", "finish"} /\ p # "none"
    BY <2>1
  <2>3. Continue(x, g)
    BY <2>2 DEF Resume, GoTo
  <2> HIDE DEF p
  <2>4. /\ g \in Frame /\ g.pc = p /\ g.serial = f.serial /\ g.to = f.to /\ g.cid = f.cid
        /\ g.held = f.held
    BY <1>1, <2>2 DEF Frame
  <2> HIDE DEF g
  <2>5. g \in ThreadFrame
    BY <1>1, <2>2, <2>4 DEF ThreadFrame, Routeless
  <2> QED  BY <2>1, <2>3, <2>4, <2>5
<1> QED  BY <1>2, <1>3

LEMMA ClearedTyped ==
    ASSUME ClientTyped, NEW k \in Clients, client' = Cleared(k)
    PROVE  /\ client' \in [Clients -> [connected : BOOLEAN, cid : 0 .. NumCids, sub : Nat,
                                       gen : Nat, serial : Nat]]
           /\ \A j \in Clients : /\ client'[j].connected => client'[j].cid \in Cids
                                 /\ client'[j].connected => client[j].connected
                                 /\ client'[j].connected => client'[j] = client[j]
                                 /\ client'[j].serial = client[j].serial
           /\ ~client'[k].connected
           /\ \A j \in Clients \ {k} : client'[j] = client[j]
<1> DEFINE C == [connected : BOOLEAN, cid : 0 .. NumCids, sub : Nat, gen : Nat, serial : Nat]
<1>1. ASSUME NEW r \in C
      PROVE  LET d == [r EXCEPT !.connected = FALSE, !.cid = NumCids]
             IN d \in C /\ ~d.connected /\ d.serial = r.serial
  <2>1. NumCids \in 0 .. NumCids
    BY BoundsAssumption
  <2>2. [r EXCEPT !.connected = FALSE, !.cid = NumCids] \in C
    BY <2>1
  <2>3. [r EXCEPT !.connected = FALSE, !.cid = NumCids].serial = r.serial
    BY <2>1
  <2>4. ~[r EXCEPT !.connected = FALSE, !.cid = NumCids].connected
    BY <2>1
  <2> QED  BY <2>2, <2>3, <2>4
<1>2. PICK d \in C : client' = [client EXCEPT ![k] = d] /\ ~d.connected /\ d.serial = client[k].serial
  BY <1>1 DEF ClientTyped, Cleared
<1>3. client'[k] = d /\ (\A j \in Clients \ {k} : client'[j] = client[j]) /\ client' \in [Clients -> C]
  BY <1>2 DEF ClientTyped
<1> HIDE DEF C
<1>4. \A j \in Clients : /\ client'[j].connected => client'[j].cid \in Cids
                         /\ client'[j].connected => client[j].connected
                         /\ client'[j].connected => client'[j] = client[j]
                         /\ client'[j].serial = client[j].serial
  BY <1>2, <1>3 DEF ClientTyped
<1> QED  BY <1>2, <1>3, <1>4 DEF C

LEMMA OnTcpDataTyped ==
    ASSUME TypeInv, NEW x \in Actors, OnTcpData(x)
    PROVE  /\ TypeInv'
           /\ stack[x] # <<>> /\ Top(x).pc = "calldata"
           /\ \/ x = Task /\ Return(x) /\ client' = client
              \/ /\ x \in Clients /\ client' = client
                 /\ \E g \in ThreadFrame :
                       /\ Continue(x, g) /\ g.pc = "heldend" /\ g.serial = Top(x).serial
                       /\ g.to = Top(x).to /\ g.cid = Top(x).cid /\ g.held = Top(x).held
              \/ /\ x \in Clients /\ client[x].connected /\ client' = Cleared(x)
                 /\ \E f \in CallerFrame, g \in ThreadFrame :
                       /\ Call(x, f, g) /\ f.pc = "heldend" /\ f.serial = Top(x).serial
                       /\ f.to = Top(x).to /\ f.cid = Top(x).cid /\ f.held = Top(x).held
                       /\ g.pc = "unsubscribe" /\ g.cid = client[x].cid
                       /\ g.serial = client[x].serial /\ g.to = {}
           /\ lapses \subseteq lapses'
           /\ UNCHANGED <<nextSerial, slots, quarantine, routes, undelivered>>
<1>0. /\ StackTyped /\ PoolTyped /\ RouteTyped /\ ClientTyped /\ ModuleTyped
      /\ lapses \subseteq {"settling", "foreign", "stale"}
  BY DEF TypeInv
<1> DEFINE t == Top(x)
<1>1. /\ stack[x] # <<>> /\ t.pc = "calldata" /\ t \in FrameOf(x) /\ t \in Frame /\ t.cid \in Cids
      /\ t.to \subseteq Route /\ t.held.data \in Seq(Chunk)
  BY <1>0, TopOf DEF OnTcpData, At
<1>2. PICK r \in t.to :
          /\ got' = [got EXCEPT ![r.client] = @ \o t.held.data]
          /\ lapses' = IF Stale(r) THEN lapses \cup {"stale"} ELSE lapses
          /\ \/ Resume(x) /\ client' = client
             \/ /\ x = r.client /\ client[x].connected /\ client' = Cleared(x)
                /\ Call(x, [t EXCEPT !.pc = t.then], CloseFrame(client[x].cid, client[x].serial))
  BY DEF OnTcpData
<1>3. r \in Route /\ r.client \in Clients
  BY <1>1 DEF Route
<1>4. UNCHANGED <<nextSerial, poolVars, openWait, routeVars, moduleVars>>
  BY DEF OnTcpData
<1>5. got' \in [Clients -> Seq(Chunk)]
  <2>1. got[r.client] \o t.held.data \in Seq(Chunk)
    BY <1>0, <1>1, <1>3 DEF ClientTyped
  <2> QED  BY <1>0, <1>2, <1>3, <2>1 DEF ClientTyped
<1>6. lapses' \subseteq {"settling", "foreign", "stale"} /\ lapses \subseteq lapses'
  BY <1>0, <1>2
<1>7. PoolTyped' /\ RouteTyped' /\ ModuleTyped'
  BY <1>0, <1>4 DEF PoolTyped, RouteTyped, ModuleTyped, poolVars, routeVars, moduleVars
<1>8. UNCHANGED <<nextSerial, slots, quarantine, routes, undelivered>>
  BY <1>4 DEF poolVars, routeVars
<1>9. CASE Resume(x) /\ client' = client
  <2>1. \/ x = Task /\ Return(x)
        \/ /\ x \in Clients
           /\ \E g \in ThreadFrame :
                 /\ Continue(x, g) /\ g.serial = t.serial /\ g.to = t.to
                 /\ g.cid = t.cid /\ g.held = t.held /\ g.pc = "heldend"
    BY <1>0, <1>1, <1>9, ResumeSteps
  <2>2. StackTyped'
    BY <1>0, <1>1, <2>1, ActorReturns, ThreadGoes
  <2>3. ClientTyped'
    BY <1>0, <1>5, <1>9 DEF ClientTyped
  <2>4. TypeInv'
    BY <1>6, <1>7, <2>2, <2>3 DEF TypeInv
  <2> QED  BY <1>1, <1>6, <1>8, <1>9, <2>1, <2>4
<1>10. CASE /\ x = r.client /\ client[x].connected /\ client' = Cleared(x)
            /\ Call(x, [t EXCEPT !.pc = t.then], CloseFrame(client[x].cid, client[x].serial))
  <2> DEFINE f == [t EXCEPT !.pc = "heldend"]
             g == CloseFrame(client[x].cid, client[x].serial)
  <2>1. x \in Clients /\ x # Task /\ t \in ThreadFrame /\ t.then = "heldend"
    BY <1>0, <1>1, <1>3, <1>10, TopTyped DEF FrameOf, ThreadFrame
  <2>2. Call(x, f, g)
    BY <1>10, <2>1
  <2>3. /\ f \in Frame /\ f.pc = "heldend" /\ f.serial = t.serial /\ f.to = t.to /\ f.cid = t.cid
        /\ f.held = t.held
    BY <1>1 DEF Frame
  <2> HIDE DEF f
  <2>4. f \in CallerFrame
    BY <1>1, <2>3 DEF CallerFrame, ThreadFrame, Routeless
  <2>5. client[x].cid \in Cids /\ client[x].serial \in Nat
    BY <1>0, <1>10, <2>1 DEF ClientTyped
  <2>6. /\ g \in ThreadFrame /\ g.pc = "unsubscribe" /\ g.cid = client[x].cid
        /\ g.serial = client[x].serial /\ g.to = {}
    BY <2>5, CloseFrameTyped
  <2> HIDE DEF g
  <2>7. StackTyped'
    BY <1>0, <1>1, <2>1, <2>2, <2>4, <2>6, ThreadCalls
  <2>8. ClientTyped'
    BY <1>0, <1>5, <1>10, <2>1, ClearedTyped DEF ClientTyped
  <2>9. TypeInv'
    BY <1>6, <1>7, <2>7, <2>8 DEF TypeInv
  <2> HIDE DEF t
  <2> QED  BY <1>1, <1>6, <1>8, <1>10, <2>1, <2>2, <2>3, <2>4, <2>6, <2>9 DEF t
<1> QED  BY <1>2, <1>9, <1>10

LEMMA DispatchTcpCloseTyped ==
    ASSUME TypeInv, NEW x \in Actors, DispatchTcpClose(x)
    PROVE  /\ TypeInv'
           /\ stack[x] # <<>> /\ Top(x).pc = "dispatchclose" /\ Top(x).cid \in Cids
           /\ \/ x = Task /\ Return(x)
              \/ \E g \in FrameOf(x) :
                    /\ Continue(x, g) /\ g.serial = Top(x).serial /\ g.cid = Top(x).cid
                    /\ \/ g.pc = "callclose" /\ g.to = RoutesOf(Top(x).cid)
                       \/ x \in Clients /\ g.pc = "finish" /\ g.to = Top(x).to
           /\ routes' \subseteq routes
           /\ lapses \subseteq lapses' /\ (TakenByAnother(x) => lapses' # {})
           /\ \A c \in Cids \ {Top(x).cid} : undelivered'[c] = undelivered[c]
           /\ UNCHANGED <<nextSerial, slots, quarantine, client>>
<1>0. /\ StackTyped /\ PoolTyped /\ RouteTyped /\ ClientTyped /\ ModuleTyped
      /\ lapses \subseteq {"settling", "foreign", "stale"}
  BY DEF TypeInv
<1> DEFINE t == Top(x)
           to == RoutesOf(t.cid)
           u == IF to # {} THEN Nothing ELSE [undelivered[t.cid] EXCEPT !.closed = TRUE]
<1>1. /\ stack[x] # <<>> /\ t.pc = "dispatchclose" /\ t \in FrameOf(x) /\ t \in Frame
      /\ t.cid \in Cids
  BY <1>0, TopOf DEF DispatchTcpClose, At
<1>2. /\ routes' = routes \ to /\ undelivered' = [undelivered EXCEPT ![t.cid] = u]
      /\ lapses' = IF TakenByAnother(x) THEN lapses \cup {"foreign"} ELSE lapses
      /\ IF to # {} THEN Continue(x, [t EXCEPT !.pc = "callclose", !.to = to]) ELSE Resume(x)
      /\ UNCHANGED <<nextSerial, poolVars, openWait, nextSubscription, client, moduleVars, got>>
  BY DEF DispatchTcpClose
<1>3. u \in Undelivered
  <2>1. ASSUME NEW v \in Undelivered
        PROVE  [v EXCEPT !.closed = TRUE] \in Undelivered
    BY DEF Undelivered
  <2>2. undelivered[t.cid] \in Undelivered
    BY <1>0, <1>1 DEF RouteTyped
  <2> QED  BY <2>1, <2>2, NothingTyped
<1> HIDE DEF u
<1>4. to \subseteq Route
  BY <1>0 DEF RouteTyped, RoutesOf
<1>5. \/ x = Task /\ Return(x)
      \/ \E g \in FrameOf(x) :
            /\ Continue(x, g) /\ g.serial = t.serial /\ g.cid = t.cid
            /\ \/ g.pc = "callclose" /\ g.to = to
               \/ x \in Clients /\ g.pc = "finish" /\ g.to = t.to
  <2>1. CASE to # {}
    <3> DEFINE g == [t EXCEPT !.pc = "callclose", !.to = to]
    <3> HIDE DEF to
    <3>1. Continue(x, g)
      BY <1>2, <2>1
    <3>2. /\ g \in Frame /\ g.pc = "callclose" /\ g.to = to /\ g.serial = t.serial
          /\ g.cid = t.cid /\ g.then = t.then
      BY <1>1, <1>4 DEF Frame
    <3> HIDE DEF g
    <3>3. g \in FrameOf(x)
      <4>1. CASE x = Task
        BY <1>1, <3>2, <4>1 DEF FrameOf, TaskFrame
      <4>2. CASE x # Task
        BY <1>1, <3>2, <4>2 DEF FrameOf, ThreadFrame, Routeless
      <4> QED  BY <4>1, <4>2
    <3> QED  BY <3>1, <3>2, <3>3
  <2>2. CASE to = {}
    <3>1. \/ x = Task /\ Return(x)
          \/ /\ x \in Clients
             /\ \E g \in ThreadFrame :
                   /\ Continue(x, g) /\ g.serial = t.serial /\ g.to = t.to
                   /\ g.cid = t.cid /\ g.pc = "finish"
      BY <1>0, <1>1, <1>2, <2>2, ResumeSteps
    <3>2. x \in Clients => FrameOf(x) = ThreadFrame
      BY <1>0, TopTyped DEF FrameOf
    <3> QED  BY <3>1, <3>2
  <2> QED  BY <2>1, <2>2
<1>6. StackTyped'
  BY <1>0, <1>1, <1>5, ActorGoes, ActorReturns
<1>7. RouteTyped' /\ \A c \in Cids \ {t.cid} : undelivered'[c] = undelivered[c]
  BY <1>0, <1>1, <1>2, <1>3 DEF RouteTyped
<1>8. PoolTyped' /\ ClientTyped' /\ ModuleTyped'
  BY <1>0, <1>2 DEF PoolTyped, ClientTyped, ModuleTyped, poolVars, moduleVars
<1>9. /\ lapses' \subseteq {"settling", "foreign", "stale"} /\ lapses \subseteq lapses'
      /\ TakenByAnother(x) => lapses' # {}
  BY <1>0, <1>2
<1>10. TypeInv'
  BY <1>6, <1>7, <1>8, <1>9 DEF TypeInv
<1>11. UNCHANGED <<nextSerial, slots, quarantine, client>> /\ routes' \subseteq routes
  BY <1>2 DEF poolVars
<1> HIDE DEF t
<1> QED  BY <1>1, <1>5, <1>7, <1>9, <1>10, <1>11 DEF t

LEMMA OnTcpCloseTyped ==
    ASSUME TypeInv, NEW x \in Actors, OnTcpClose(x)
    PROVE  /\ TypeInv'
           /\ stack[x] # <<>> /\ Top(x).pc = "callclose"
           /\ \E r \in Top(x).to :
                 /\ r \in Route /\ client' = Cleared(r.client)
                 /\ Stale(r) => lapses' # {}
                 /\ \/ x = Task /\ Return(x) /\ nextSerial' = nextSerial
                    \/ /\ nextSerial' = nextSerial
                       /\ \E g \in FrameOf(x) :
                             /\ Continue(x, g) /\ g.pc \in {"callclose", "finish"}
                             /\ g.serial = Top(x).serial /\ g.to \subseteq Top(x).to
                    \/ /\ x = r.client /\ nextSerial' = nextSerial + 1
                       /\ \E f \in CallerFrame :
                             /\ Call(x, f, ConnectFrame) /\ f.pc \in {"callclose", "finish"}
                             /\ f.serial = Top(x).serial /\ f.to \subseteq Top(x).to
           /\ lapses \subseteq lapses'
           /\ UNCHANGED <<slots, quarantine, routes, undelivered>>
<1>0. /\ StackTyped /\ PoolTyped /\ RouteTyped /\ ClientTyped /\ ModuleTyped
      /\ lapses \subseteq {"settling", "foreign", "stale"}
  BY DEF TypeInv
<1> DEFINE t == Top(x)
<1>1. /\ stack[x] # <<>> /\ t.pc = "callclose" /\ t \in FrameOf(x) /\ t \in Frame /\ t.cid \in Cids
      /\ t.to \subseteq Route
  BY <1>0, TopOf DEF OnTcpClose, At
<1>2. PICK r \in t.to :
         LET rest == t.to \ {r}
             f == [t EXCEPT !.to = rest, !.pc = IF rest = {} THEN t.then ELSE @]
         IN /\ client' = Cleared(r.client)
            /\ lapses' = IF Stale(r) THEN lapses \cup {"stale"} ELSE lapses
            /\ \/ (IF f.pc = "none" THEN Return(x) ELSE Continue(x, f)) /\ nextSerial' = nextSerial
               \/ /\ x = r.client /\ nextSerial' = nextSerial + 1
                  /\ Call(x, f, ConnectFrame)
  BY DEF OnTcpClose
<1>3. UNCHANGED <<poolVars, openWait, routeVars, moduleVars, got>>
  BY DEF OnTcpClose
<1>4. r \in Route /\ r.client \in Clients
  BY <1>1 DEF Route
<1> DEFINE rest == t.to \ {r}
           p == IF rest = {} THEN t.then ELSE "callclose"
           f == [t EXCEPT !.to = rest, !.pc = p]
<1>5. /\ \/ (IF f.pc = "none" THEN Return(x) ELSE Continue(x, f)) /\ nextSerial' = nextSerial
         \/ x = r.client /\ nextSerial' = nextSerial + 1 /\ Call(x, f, ConnectFrame)
      /\ client' = Cleared(r.client)
      /\ lapses' = IF Stale(r) THEN lapses \cup {"stale"} ELSE lapses
  <2>1. [t EXCEPT !.to = rest, !.pc = IF rest = {} THEN t.then ELSE @] = f
    <3>1. t.pc = "callclose"
      BY <1>1
    <3> HIDE DEF rest
    <3> QED  BY <1>1, <3>1 DEF Frame
  <2> QED  BY <1>2, <2>1
<1>6. /\ p \in {"callclose", "finish", "none"} /\ (x # Task => p # "none")
      /\ (x = Task => p # "finish")
  <2>1. CASE x = Task
    BY <1>1, <2>1 DEF FrameOf, TaskFrame
  <2>2. CASE x # Task
    BY <1>1, <2>2 DEF FrameOf, ThreadFrame
  <2> QED  BY <2>1, <2>2
<1>7. rest \subseteq Route /\ rest \subseteq t.to
  BY <1>1
<1> HIDE DEF rest, p
<1>8. f.pc = p /\ f.to = rest /\ f.serial = t.serial /\ f.cid = t.cid /\ f.then = t.then
      /\ (p # "none" => f \in Frame)
  BY <1>1, <1>6, <1>7 DEF Frame
<1> HIDE DEF f
<1>9. p # "none" => f \in FrameOf(x)
  <2>1. CASE x = Task
    BY <1>1, <1>6, <1>8, <2>1 DEF FrameOf, TaskFrame
  <2>2. CASE x # Task
    BY <1>1, <1>6, <1>8, <2>2 DEF FrameOf, ThreadFrame, Routeless
  <2> QED  BY <2>1, <2>2
<1>10. \/ x = Task /\ Return(x) /\ nextSerial' = nextSerial
       \/ /\ nextSerial' = nextSerial /\ f \in FrameOf(x) /\ Continue(x, f)
          /\ f.pc \in {"callclose", "finish"}
       \/ /\ x = r.client /\ nextSerial' = nextSerial + 1 /\ f \in CallerFrame
          /\ Call(x, f, ConnectFrame) /\ f.pc \in {"callclose", "finish"}
  <2>1. CASE p = "none"
    <3>1. x # r.client
      BY <1>0, <1>4, <1>6, <2>1, TopTyped
    <3> QED  BY <1>5, <1>6, <1>8, <2>1, <3>1
  <2>2. CASE p # "none"
    <3>1. p \in {"callclose", "finish"} /\ f \in FrameOf(x)
      BY <1>6, <1>9, <2>2
    <3>2. x = r.client => f \in CallerFrame
      BY <1>0, <1>4, <1>8, <3>1, TopTyped DEF FrameOf, CallerFrame
    <3> QED  BY <1>5, <1>8, <3>1, <3>2
  <2> QED  BY <2>1, <2>2
<1>11. StackTyped'
  <2>1. CASE x = Task /\ Return(x)
    BY <1>0, <1>1, <2>1, ActorReturns
  <2>2. CASE f \in FrameOf(x) /\ Continue(x, f)
    BY <1>0, <1>1, <2>2, ActorGoes
  <2>3. CASE x = r.client /\ f \in CallerFrame /\ Call(x, f, ConnectFrame)
    BY <1>0, <1>1, <1>4, <2>3, ThreadCalls, ConnectFrameTyped DEF PoolTyped
  <2> QED  BY <1>10, <2>1, <2>2, <2>3
<1>12. PoolTyped' /\ RouteTyped' /\ ModuleTyped'
  <2>1. nextSerial' \in Nat \ {0}
    BY <1>0, <1>10 DEF PoolTyped
  <2> QED  BY <1>0, <1>3, <2>1 DEF PoolTyped, RouteTyped, ModuleTyped, poolVars, routeVars,
                                   moduleVars
<1>13. ClientTyped'
  BY <1>0, <1>3, <1>4, <1>5, ClearedTyped DEF ClientTyped
<1>14. /\ lapses' \subseteq {"settling", "foreign", "stale"} /\ lapses \subseteq lapses'
       /\ Stale(r) => lapses' # {}
  BY <1>0, <1>5
<1>15. TypeInv'
  BY <1>11, <1>12, <1>13, <1>14 DEF TypeInv
<1>16. UNCHANGED <<slots, quarantine, routes, undelivered>>
  BY <1>3 DEF poolVars, routeVars
<1> HIDE DEF t
<1>17. /\ r \in Route /\ client' = Cleared(r.client) /\ (Stale(r) => lapses' # {})
       /\ \/ x = Task /\ Return(x) /\ nextSerial' = nextSerial
          \/ /\ nextSerial' = nextSerial
             /\ \E g \in FrameOf(x) : /\ Continue(x, g) /\ g.pc \in {"callclose", "finish"}
                                      /\ g.serial = t.serial /\ g.to \subseteq t.to
          \/ /\ x = r.client /\ nextSerial' = nextSerial + 1
             /\ \E g \in CallerFrame :
                   /\ Call(x, g, ConnectFrame) /\ g.pc \in {"callclose", "finish"}
                   /\ g.serial = t.serial /\ g.to \subseteq t.to
  BY <1>4, <1>5, <1>7, <1>8, <1>10, <1>14
<1> QED  BY <1>1, <1>2, <1>14, <1>15, <1>16, <1>17 DEF t

LEMMA DisconnectTyped ==
    ASSUME TypeInv, NEW k \in Clients, Disconnect(k)
    PROVE  /\ TypeInv'
           /\ client[k].connected /\ client' = Cleared(k)
           /\ \E g \in ThreadFrame :
                 /\ stack[k] = <<>> /\ stack' = [stack EXCEPT ![k] = <<g>>]
                 /\ g.pc = "unsubscribe" /\ g.cid = client[k].cid
                 /\ g.serial = client[k].serial /\ g.to = {}
           /\ UNCHANGED <<nextSerial, slots, quarantine, routes, undelivered, lapses>>
<1>0. /\ StackTyped /\ PoolTyped /\ RouteTyped /\ ClientTyped /\ ModuleTyped
      /\ lapses \subseteq {"settling", "foreign", "stale"}
  BY DEF TypeInv
<1> DEFINE g == CloseFrame(client[k].cid, client[k].serial)
<1>1. /\ stack[k] = <<>> /\ client[k].connected /\ client' = Cleared(k)
      /\ stack' = [stack EXCEPT ![k] = <<g>>]
      /\ UNCHANGED <<nextSerial, poolVars, openWait, routeVars, moduleVars, got, lapses>>
  BY DEF Disconnect
<1>2. client[k].cid \in Cids /\ client[k].serial \in Nat
  BY <1>0, <1>1 DEF ClientTyped
<1>3. /\ g \in ThreadFrame /\ g.pc = "unsubscribe" /\ g.cid = client[k].cid
      /\ g.serial = client[k].serial /\ g.to = {}
  BY <1>2, CloseFrameTyped
<1> HIDE DEF g
<1>4. StackTyped'
  BY <1>0, <1>1, <1>3, ThreadBegins
<1>5. ClientTyped'
  BY <1>0, <1>1, ClearedTyped DEF ClientTyped
<1>6. PoolTyped' /\ RouteTyped' /\ ModuleTyped'
  BY <1>0, <1>1 DEF PoolTyped, RouteTyped, ModuleTyped, poolVars, routeVars, moduleVars
<1>7. TypeInv'
  BY <1>0, <1>1, <1>4, <1>5, <1>6 DEF TypeInv
<1>8. UNCHANGED <<nextSerial, slots, quarantine, routes, undelivered, lapses>>
  BY <1>1 DEF poolVars, routeVars
<1> QED  BY <1>1, <1>3, <1>7, <1>8

LEMMA LineTaken ==
    ASSUME ModuleTyped, NEW kinds, OnLine(kinds)
    PROVE  /\ wire' \in Seq(Written) /\ Head(wire) \in Written
           /\ Head(wire).cid \in Cids /\ Head(wire).serial \in Nat /\ Head(wire).n \in Nat
           /\ Head(wire).own \in BOOLEAN /\ stack[Task] = <<>>
<1>1. wire \in Seq(Written) /\ wire # <<>> /\ wire' = Tail(wire) /\ stack[Task] = <<>>
  BY DEF ModuleTyped, OnLine
<1>2. wire' \in Seq(Written) /\ Head(wire) \in Written
  BY <1>1
<1> QED  BY <1>1, <1>2 DEF Written

LEMMA RecordTyped ==
    ASSUME TypeInv, RecordOpenResult
    PROVE  /\ TypeInv'
           /\ UNCHANGED <<stack, nextSerial, slots, quarantine, routes, undelivered, client, lapses>>
<1>0. /\ StackTyped /\ PoolTyped /\ RouteTyped /\ ClientTyped /\ ModuleTyped
      /\ lapses \subseteq {"settling", "foreign", "stale"}
  BY DEF TypeInv
<1>1. wire' \in Seq(Written)
  BY <1>0, LineTaken DEF RecordOpenResult
<1>2. openWait' \in [id : 0 .. NumCids, ok : BOOLEAN, done : BOOLEAN]
  <2>1. ASSUME NEW w \in [id : 0 .. NumCids, ok : BOOLEAN, done : BOOLEAN], NEW b \in BOOLEAN
        PROVE  [w EXCEPT !.ok = b, !.done = TRUE]
                   \in [id : 0 .. NumCids, ok : BOOLEAN, done : BOOLEAN]
    OBVIOUS
  <2>2. openWait \in [id : 0 .. NumCids, ok : BOOLEAN, done : BOOLEAN]
    BY <1>0 DEF PoolTyped
  <2>3. (Head(wire).kind = "opened") \in BOOLEAN
    OBVIOUS
  <2>4. openWait' = openWait
        \/ \E b \in BOOLEAN : openWait' = [openWait EXCEPT !.ok = b, !.done = TRUE]
    BY <2>3 DEF RecordOpenResult
  <2> QED  BY <2>1, <2>2, <2>4
<1>3. UNCHANGED <<stack, nextSerial, poolVars, routeVars, client, sock, owed, sent, got, lapses>>
  BY DEF RecordOpenResult
<1>4. StackTyped'
  BY <1>0, <1>3 DEF StackTyped
<1>5. PoolTyped' /\ RouteTyped' /\ ClientTyped' /\ ModuleTyped'
  BY <1>0, <1>1, <1>2, <1>3 DEF PoolTyped, RouteTyped, ClientTyped, ModuleTyped, poolVars,
                                routeVars
<1> QED  BY <1>0, <1>3, <1>4, <1>5 DEF TypeInv, poolVars, routeVars

LEMMA DataTyped ==
    ASSUME TypeInv, DispatchTcpData
    PROVE  /\ TypeInv'
           /\ stack[Task] = <<>>
           /\ \/ stack' = stack
              \/ \E g \in TaskFrame : /\ stack' = [stack EXCEPT ![Task] = <<g>>]
                                      /\ g.pc = "calldata" /\ g.to \subseteq routes
           /\ \A c \in Cids : undelivered'[c].closed => undelivered[c].closed
           /\ UNCHANGED <<nextSerial, slots, quarantine, routes, client, lapses>>
<1>0. /\ StackTyped /\ PoolTyped /\ RouteTyped /\ ClientTyped /\ ModuleTyped
      /\ lapses \subseteq {"settling", "foreign", "stale"}
  BY DEF TypeInv
<1> DEFINE c == Head(wire).cid
           chunk == [serial |-> Head(wire).serial, n |-> Head(wire).n]
           data == <<chunk>>
<1>1. /\ wire' \in Seq(Written) /\ c \in Cids /\ stack[Task] = <<>>
      /\ Head(wire).serial \in Nat /\ Head(wire).n \in Nat
  BY <1>0, LineTaken DEF DispatchTcpData
<1>2. data \in Seq(Chunk)
  <2>1. chunk \in Chunk
    BY <1>1 DEF Chunk
  <2> HIDE DEF chunk
  <2> QED  BY <2>1
<1>3. /\ \/ /\ \E r \in RoutesOf(c) :
                   stack' = [stack EXCEPT ![Task] = <<[Frame0 EXCEPT !.pc = "calldata",
                                !.cid = c, !.to = {r}, !.held = [Nothing EXCEPT !.data = data]]>>]
            /\ undelivered' = undelivered
         \/ /\ undelivered' = [undelivered EXCEPT ![c] = HoldLocked(@, data)]
            /\ stack' = stack
      /\ UNCHANGED <<nextSerial, poolVars, openWait, routes, nextSubscription, client, sock, owed,
                     sent, got, lapses>>
  BY DEF DispatchTcpData
<1> HIDE DEF c, data
<1>4. \/ stack' = stack
      \/ \E g \in TaskFrame : /\ stack' = [stack EXCEPT ![Task] = <<g>>]
                              /\ g.pc = "calldata" /\ g.to \subseteq routes
  <2>1. ASSUME NEW r \in RoutesOf(c),
               stack' = [stack EXCEPT ![Task] = <<[Frame0 EXCEPT !.pc = "calldata",
                                !.cid = c, !.to = {r}, !.held = [Nothing EXCEPT !.data = data]]>>]
        PROVE  \E g \in TaskFrame : /\ stack' = [stack EXCEPT ![Task] = <<g>>]
                                    /\ g.pc = "calldata" /\ g.to \subseteq routes
    <3> DEFINE h == [Nothing EXCEPT !.data = data]
               g == [Frame0 EXCEPT !.pc = "calldata", !.cid = c, !.to = {r}, !.held = h]
    <3>1. r \in routes /\ r \in Route
      BY <1>0 DEF RoutesOf, RouteTyped
    <3>2. h \in Undelivered
      <4>1. ASSUME NEW u \in Undelivered
            PROVE  [u EXCEPT !.data = data] \in Undelivered
        BY <1>2 DEF Undelivered
      <4> QED  BY <4>1, NothingTyped
    <3> HIDE DEF h
    <3>3. ASSUME NEW f \in BlankFrame
          PROVE  LET e == [f EXCEPT !.pc = "calldata", !.cid = c, !.to = {r}, !.held = h]
                 IN e \in Frame /\ e.pc = "calldata" /\ e.cid = c /\ e.to = {r} /\ e.then = f.then
      <4>1. c \in 0 .. NumCids
        BY <1>1, BoundsAssumption DEF Cids
      <4> QED  BY <3>1, <3>2, <4>1 DEF Frame, BlankFrame, Pcs, Thens
    <3>4. g \in Frame /\ g.pc = "calldata" /\ g.cid = c /\ g.to = {r} /\ g.then = "none"
      BY <3>3, FrameZero
    <3>5. stack' = [stack EXCEPT ![Task] = <<g>>]
      BY <2>1 DEF h
    <3> HIDE DEF g
    <3>6. g \in TaskFrame
      BY <1>1, <3>4 DEF TaskFrame
    <3> QED  BY <3>1, <3>4, <3>5, <3>6
  <2> QED  BY <1>3, <2>1
<1>5. /\ undelivered' \in [Cids -> Undelivered]
      /\ \A d \in Cids : undelivered'[d].closed => undelivered[d].closed
  <2>1. CASE undelivered' = undelivered
    BY <1>0, <2>1 DEF RouteTyped
  <2>2. CASE undelivered' = [undelivered EXCEPT ![c] = HoldLocked(@, data)]
    <3> DEFINE u == HoldLocked(undelivered[c], data)
    <3>1. u \in Undelivered /\ u.closed = undelivered[c].closed
      BY <1>0, <1>1, <1>2, HoldTyped DEF RouteTyped
    <3>2. undelivered' = [undelivered EXCEPT ![c] = u]
      BY <2>2
    <3> HIDE DEF u
    <3> QED  BY <1>0, <1>1, <3>1, <3>2 DEF RouteTyped
  <2> QED  BY <1>3, <2>1, <2>2
<1>6. StackTyped'
  <2>1. CASE stack' = stack
    BY <1>0, <2>1 DEF StackTyped
  <2>2. CASE \E g \in TaskFrame : stack' = [stack EXCEPT ![Task] = <<g>>]
    BY <1>0, <2>2, TaskBegins
  <2> QED  BY <1>4, <2>1, <2>2
<1>7. PoolTyped' /\ RouteTyped' /\ ClientTyped' /\ ModuleTyped' /\ lapses' = lapses
  BY <1>0, <1>1, <1>3, <1>5 DEF PoolTyped, RouteTyped, ClientTyped, ModuleTyped, poolVars
<1>8. TypeInv'
  BY <1>0, <1>6, <1>7 DEF TypeInv
<1> QED  BY <1>1, <1>3, <1>4, <1>5, <1>8 DEF poolVars

LEMMA OnDisconnTyped ==
    ASSUME TypeInv, OnDisconn
    PROVE  /\ TypeInv'
           /\ stack[Task] = <<>>
           /\ \E g \in TaskFrame : /\ stack' = [stack EXCEPT ![Task] = <<g>>]
                                   /\ g.pc = "release" /\ g.to = {}
           /\ UNCHANGED <<nextSerial, slots, quarantine, routes, undelivered, client, lapses>>
<1>0. /\ StackTyped /\ PoolTyped /\ RouteTyped /\ ClientTyped /\ ModuleTyped
      /\ lapses \subseteq {"settling", "foreign", "stale"}
  BY DEF TypeInv
<1> DEFINE c == Head(wire).cid
           s == Head(wire).serial
           o == Head(wire).own
           g == [Frame0 EXCEPT !.pc = "release", !.then = "report", !.cid = c, !.serial = s,
                               !.own = o]
<1>1. /\ wire' \in Seq(Written) /\ c \in Cids /\ s \in Nat /\ o \in BOOLEAN /\ stack[Task] = <<>>
  BY <1>0, LineTaken DEF OnDisconn
<1>2. /\ stack' = [stack EXCEPT ![Task] = <<g>>]
      /\ UNCHANGED <<nextSerial, poolVars, openWait, routeVars, client, sock, owed, sent, got,
                     lapses>>
  BY DEF OnDisconn
<1> HIDE DEF c, s, o
<1>3. ASSUME NEW f \in BlankFrame
      PROVE  LET e == [f EXCEPT !.pc = "release", !.then = "report", !.cid = c, !.serial = s,
                                !.own = o]
             IN e \in Frame /\ e.pc = "release" /\ e.then = "report" /\ e.cid = c /\ e.to = f.to
  <2>1. c \in 0 .. NumCids
    BY <1>1, BoundsAssumption DEF Cids
  <2> QED  BY <1>1, <2>1 DEF Frame, BlankFrame, Pcs, Thens
<1>4. g \in Frame /\ g.pc = "release" /\ g.then = "report" /\ g.cid = c /\ g.to = {}
  BY <1>3, FrameZero
<1> HIDE DEF g
<1>5. g \in TaskFrame
  BY <1>1, <1>4 DEF TaskFrame
<1>6. StackTyped'
  BY <1>0, <1>2, <1>5, TaskBegins
<1>7. PoolTyped' /\ RouteTyped' /\ ClientTyped' /\ ModuleTyped'
  BY <1>0, <1>1, <1>2 DEF PoolTyped, RouteTyped, ClientTyped, ModuleTyped, poolVars, routeVars
<1>8. TypeInv'
  BY <1>0, <1>2, <1>6, <1>7 DEF TypeInv
<1> QED  BY <1>1, <1>2, <1>4, <1>5, <1>8 DEF poolVars, routeVars

LEMMA ModuleStepTyped ==
    ASSUME TypeInv, Module
    PROVE  /\ TypeInv'
           /\ UNCHANGED <<stack, nextSerial, slots, quarantine, routes, undelivered, client, lapses>>
<1>0. /\ StackTyped /\ PoolTyped /\ RouteTyped /\ ClientTyped /\ ModuleTyped
      /\ lapses \subseteq {"settling", "foreign", "stale"}
  BY DEF TypeInv
<1>1. UNCHANGED moduleOnly
  BY DEF Module, ModuleConnects, ModuleReceives, ModulePeerCloses, ModuleAnnounces
<1>2. ASSUME NEW l, ModuleWrites(l), l \in Written
      PROVE  wire' \in Seq(Written)
  BY <1>0, <1>2 DEF ModuleWrites, ModuleTyped
<1>3. ASSUME NEW k \in {"opened", "refused", "data", "disconn"}, NEW c \in Cids, NEW s \in Nat,
             NEW n \in Nat, NEW o \in BOOLEAN
      PROVE  Line(k, c, s, n, o) \in Written
  BY DEF Line, Written
<1>4. ModuleTyped'
  <2>0. [st |-> "none", serial |-> 0] \in Sock
    BY DEF Sock
  <2>1. ASSUME NEW c \in Cids, NEW ok \in BOOLEAN, ModuleConnects(c, ok)
        PROVE  ModuleTyped'
    <3>1. sock[c] \in Sock /\ sock[c].serial \in Nat
      BY <1>0 DEF ModuleTyped, Sock
    <3>2. [sock[c] EXCEPT !.st = "open"] \in Sock
      BY <3>1 DEF Sock
    <3>3. sock' \in [Cids -> Sock]
      BY <1>0, <2>0, <2>1, <3>2 DEF ModuleConnects, ModuleTyped, Sock
    <3>4. wire' \in Seq(Written)
      BY <1>2, <1>3, <2>1, <3>1 DEF ModuleConnects
    <3> QED  BY <1>0, <2>1, <3>3, <3>4 DEF ModuleConnects, ModuleTyped, Sock
  <2>2. ASSUME NEW c \in Cids, ModuleReceives(c)
        PROVE  ModuleTyped'
    <3>1. sock[c].serial \in Nat /\ sent \in Seq(Nat) /\ Len(sent) + 1 \in Nat
      BY <1>0 DEF ModuleTyped
    <3>2. Line("data", c, sock[c].serial, Len(sent) + 1, FALSE) \in Written
      BY <1>3, <3>1
    <3>3. ModuleWrites(Line("data", c, sock[c].serial, Len(sent) + 1, FALSE))
      BY <2>2 DEF ModuleReceives
    <3>4. wire' \in Seq(Written)
      BY <1>2, <3>2, <3>3
    <3>5. sent' = Append(sent, sock[c].serial) /\ UNCHANGED <<sock, owed>>
      BY <2>2 DEF ModuleReceives
    <3>6. sent' \in Seq(Nat)
      BY <3>1, <3>5
    <3> QED  BY <1>0, <3>4, <3>5, <3>6 DEF ModuleTyped
  <2>3. ASSUME NEW c \in Cids, ModulePeerCloses(c)
        PROVE  ModuleTyped'
    <3>1. sock[c].serial \in Nat
      BY <1>0 DEF ModuleTyped
    <3>2. sock' \in [Cids -> Sock]
      BY <1>0, <2>0, <2>3 DEF ModulePeerCloses, ModuleTyped, Sock
    <3>3. wire' \in Seq(Written)
      BY <1>2, <1>3, <2>3, <3>1 DEF ModulePeerCloses
    <3> QED  BY <1>0, <2>3, <3>2, <3>3 DEF ModulePeerCloses, ModuleTyped, Sock
  <2>4. CASE ModuleAnnounces
    <3>1. PICK o \in owed : owed' = owed \ {o} /\ ModuleWrites(Line("disconn", o.cid, o.serial, 0, TRUE))
      BY <2>4 DEF ModuleAnnounces
    <3>2. o.cid \in Cids /\ o.serial \in Nat
      BY <1>0 DEF ModuleTyped
    <3>3. wire' \in Seq(Written)
      BY <1>2, <1>3, <3>1, <3>2
    <3> QED  BY <1>0, <2>4, <3>1, <3>3 DEF ModuleAnnounces, ModuleTyped
  <2> QED  BY <2>1, <2>2, <2>3, <2>4 DEF Module
<1>5. StackTyped'
  BY <1>0, <1>1 DEF StackTyped, moduleOnly
<1>6. PoolTyped' /\ RouteTyped' /\ ClientTyped'
  BY <1>0, <1>1 DEF PoolTyped, RouteTyped, ClientTyped, moduleOnly, poolVars, routeVars
<1> QED  BY <1>0, <1>1, <1>4, <1>5, <1>6 DEF TypeInv, moduleOnly, poolVars, routeVars

LEMMA SettleTyped ==
    ASSUME TypeInv, Settle
    PROVE  /\ TypeInv'
           /\ quarantine # <<>> /\ quarantine' = Tail(quarantine) /\ ~TaskAt(Head(quarantine))
           /\ UNCHANGED <<stack, nextSerial, slots, routes, undelivered, client, lapses>>
<1>0. /\ StackTyped /\ PoolTyped /\ RouteTyped /\ ClientTyped /\ ModuleTyped
      /\ lapses \subseteq {"settling", "foreign", "stale"}
  BY DEF TypeInv
<1>1. /\ quarantine # <<>> /\ quarantine' = Tail(quarantine) /\ ~TaskAt(Head(quarantine))
      /\ UNCHANGED <<stack, nextSerial, slots, openWait, routeVars, client, moduleVars, got, lapses>>
  BY DEF Settle
<1>2. quarantine' \in Seq(Cids)
  BY <1>0, <1>1 DEF PoolTyped
<1>3. StackTyped'
  BY <1>0, <1>1 DEF StackTyped
<1>4. PoolTyped' /\ RouteTyped' /\ ClientTyped' /\ ModuleTyped'
  BY <1>0, <1>1, <1>2 DEF PoolTyped, RouteTyped, ClientTyped, ModuleTyped, routeVars, moduleVars
<1> QED  BY <1>0, <1>1, <1>3, <1>4 DEF TypeInv, routeVars

LEMMA StackOfFrames ==
    ASSUME NEW F, NEW s \in Seq(F), NEW i \in DOMAIN s
    PROVE  s[i] \in Frames(s)
  BY DEF Frames

LEMMA InitTyped ==
    ASSUME Init
    PROVE  TypeInv
<1>1. StackTyped
  <2>1. <<>> \in Seq(Frame)
    OBVIOUS
  <2>2. Clients \subseteq Actors /\ Task \in Actors
    BY DEF Actors
  <2>3. stack = [x \in Actors |-> <<>>]
    BY DEF Init
  <2>4. stack \in [Actors -> Seq(Frame)] /\ \A x \in Actors : stack[x] = <<>>
    BY <2>1, <2>3
  <2> QED  BY <2>2, <2>4, NoFrames DEF StackTyped
<1>2. PoolTyped
  <2>1. quarantine \in Seq(Cids) /\ nextSerial \in Nat \ {0}
    BY DEF Init
  <2>2. slots \in [Cids -> [used : BOOLEAN, serial : Nat]]
    BY DEF Init
  <2>3. openWait \in [id : 0 .. NumCids, ok : BOOLEAN, done : BOOLEAN]
    BY BoundsAssumption DEF Init, NoWait
  <2> QED  BY <2>1, <2>2, <2>3 DEF PoolTyped
<1>3. RouteTyped
  BY NothingTyped DEF Init, RouteTyped
<1>4. ClientTyped
  <2> DEFINE z == [connected |-> FALSE, cid |-> NumCids, sub |-> 0, gen |-> 0, serial |-> 0]
  <2>1. /\ z \in [connected : BOOLEAN, cid : 0 .. NumCids, sub : Nat, gen : Nat, serial : Nat]
        /\ ~z.connected
    BY BoundsAssumption
  <2>2. client = [k \in Clients |-> z] /\ got = [k \in Clients |-> <<>>]
    BY DEF Init
  <2>3. <<>> \in Seq(Chunk)
    OBVIOUS
  <2> HIDE DEF z
  <2> QED  BY <2>1, <2>2, <2>3 DEF ClientTyped
<1>5. ModuleTyped
  <2>1. wire \in Seq(Written) /\ sent \in Seq(Nat) /\ owed = {}
    BY DEF Init
  <2>2. sock \in [Cids -> [st : {"none", "connecting", "open"}, serial : Nat]]
    BY DEF Init
  <2> QED  BY <2>1, <2>2 DEF ModuleTyped
<1> QED  BY <1>1, <1>2, <1>3, <1>4, <1>5 DEF TypeInv, Init

LEMMA UnchangedTyped ==
    ASSUME TypeInv, UNCHANGED vars
    PROVE  TypeInv'
<1>1. StackTyped'
  BY DEF TypeInv, StackTyped, vars
<1>2. PoolTyped' /\ RouteTyped' /\ ClientTyped' /\ ModuleTyped'
  BY DEF TypeInv, PoolTyped, RouteTyped, ClientTyped, ModuleTyped, vars, poolVars, routeVars,
         moduleVars
<1> QED  BY <1>1, <1>2 DEF TypeInv, vars

\* The steps, by what they do to the calls and to the clients.
LEMMA StepCases ==
    ASSUME [Next]_vars
    PROVE  \/ \E k \in Clients :
                 \/ Connect(k) \/ Disconnect(k) \/ AllocateConnectionId(k) \/ Advances(k)
                 \/ Leaves(k) \/ Opened(k) \/ SubscribeTcp(k) \/ DispatchHeld(k) \/ HeldEnd(k)
           \/ \E x \in Actors : \/ Release(x) \/ Discard(x) \/ OnTcpData(x) \/ DispatchTcpClose(x)
                                \/ OnTcpClose(x)
           \/ RecordOpenResult \/ DispatchTcpData \/ OnDisconn
           \/ Module \/ Settle \/ UNCHANGED vars
<1>1. ASSUME NEW k \in Clients, ThreadStep(k)
      PROVE  \/ AllocateConnectionId(k) \/ Advances(k) \/ Leaves(k) \/ Opened(k)
             \/ SubscribeTcp(k) \/ DispatchHeld(k) \/ HeldEnd(k)
  BY <1>1 DEF ThreadStep, Advances, Leaves
<1> QED  BY <1>1 DEF Next, CommonStep, Handlers, Quiet

LEMMA TypeStep ==
    ASSUME TypeInv, [Next]_vars
    PROVE  TypeInv'
<1>1. ASSUME NEW k \in Clients,
             \/ Connect(k) \/ Disconnect(k) \/ AllocateConnectionId(k) \/ Advances(k)
             \/ Leaves(k) \/ Opened(k) \/ SubscribeTcp(k) \/ DispatchHeld(k) \/ HeldEnd(k)
      PROVE  TypeInv'
  BY <1>1, ConnectTyped, DisconnectTyped, AllocateTyped, AdvanceTyped, LeaveTyped, OpenedTyped,
     SubscribeTyped, DispatchHeldTyped, HeldEndTyped
<1>2. ASSUME NEW x \in Actors,
             \/ Release(x) \/ Discard(x) \/ OnTcpData(x) \/ DispatchTcpClose(x) \/ OnTcpClose(x)
      PROVE  TypeInv'
  BY <1>2, ReleaseTyped, DiscardTyped, OnTcpDataTyped, DispatchTcpCloseTyped, OnTcpCloseTyped
<1>3. CASE RecordOpenResult \/ DispatchTcpData \/ OnDisconn \/ Module \/ Settle \/ UNCHANGED vars
  BY <1>3, RecordTyped, DataTyped, OnDisconnTyped, ModuleStepTyped, SettleTyped, UnchangedTyped
<1> QED  BY <1>1, <1>2, <1>3, StepCases

LEMMA TypeInvIsTypeOK ==
    ASSUME TypeInv
    PROVE  TypeOK
<1>1. ASSUME NEW x \in Actors, NEW i \in DOMAIN stack[x], stack[x][i].pc # "alloc"
      PROVE  stack[x][i].cid \in Cids
  <2>1. stack[x][i] \in Frames(stack[x])
    BY StackOfFrames DEF TypeInv, StackTyped
  <2>2. CASE x = Task
    BY <2>1, <2>2 DEF TypeInv, StackTyped, TaskFrame
  <2>3. CASE x \in Clients
    BY <1>1, <2>1, <2>3 DEF TypeInv, StackTyped, ThreadFrame
  <2> QED  BY <2>2, <2>3 DEF Actors
<1>2. PoolTyped /\ RouteTyped /\ ClientTyped /\ ModuleTyped /\ stack \in [Actors -> Seq(Frame)]
  BY DEF TypeInv, StackTyped
<1> QED  BY <1>1, <1>2 DEF TypeOK, TypeInv, PoolTyped, RouteTyped, ClientTyped, ModuleTyped, Written

\* The HAL, its clients and the module keep to their types in every behaviour, the calls
\* that callbacks nest in SubscribeTcp and DispatchTcpClose included.
THEOREM TypeCorrect == Spec => []TypeOK
<1>1. Init => TypeInv
  BY InitTyped
<1>2. TypeInv /\ [Next]_vars => TypeInv'
  BY TypeStep
<1>3. TypeInv => TypeOK
  BY TypeInvIsTypeOK
<1> QED  BY <1>1, <1>2, <1>3, PTL DEF Spec

-----------------------------------------------------------------------------
(***************************************************************************)
(* The serial of a connect is in one call only until the route exists.     *)
(***************************************************************************)
\* The routes there are, and those that a call has taken out and still reports to.
Known == routes \cup UNION {f.to : f \in UNION {Frames(stack[x]) : x \in Actors}}

\* The serials that client k and its calls know.
Ours(k) == {f.serial : f \in Frames(stack[k])} \cup {client[k].serial}

Connecting(k) == stack[k] # <<>> /\ Routeless(Top(k))

Serials ==
    /\ \A r \in Known : r.serial < nextSerial
    /\ \A k \in Clients : \A s \in Ours(k) : s < nextSerial

\* Nothing but the innermost call of k knows serial s.
Only(k, s) ==
    /\ \A r \in Known : r.serial # s
    /\ \A f \in Under(stack[k]) : f.serial # s
    /\ \A j \in Clients \ {k} : s \notin Ours(j)

Unique == \A k \in Clients : Connecting(k) => Only(k, Top(k).serial)

LEMMA CallerIsNotConnecting ==
    ASSUME NEW f \in CallerFrame
    PROVE  ~Routeless(f) /\ f.pc # "subscribe"
  BY DEF CallerFrame, Routeless

LEMMA KnownTyped ==
    ASSUME TypeInv
    PROVE  /\ Known \subseteq Route /\ routes \subseteq Known
           /\ \A x \in Actors : \A f \in Frames(stack[x]) : f.to \subseteq Known
           /\ \A x \in Actors : \A f \in Frames(stack[x]) : f \in Frame /\ f.serial \in Nat
           /\ \A k \in Clients : Ours(k) \subseteq Nat
<1>1. /\ StackTyped /\ routes \subseteq Route /\ Clients \subseteq Actors
      /\ \A k \in Clients : client[k].serial \in Nat
  BY DEF TypeInv, RouteTyped, ClientTyped, Actors
<1>2. ASSUME NEW x \in Actors, NEW f \in Frames(stack[x])
      PROVE  f \in Frame /\ f.serial \in Nat /\ f.to \subseteq Route
  <2>1. f \in Frame
    BY <1>1 DEF StackTyped, Actors, ThreadFrame, TaskFrame
  <2> QED  BY <2>1, FrameFields DEF Frame
<1>3. \A x \in Actors : \A f \in Frames(stack[x]) : f.to \subseteq Known
  BY DEF Known
<1>4. Known \subseteq Route /\ routes \subseteq Known
  BY <1>1, <1>2 DEF Known
<1> QED  BY <1>1, <1>2, <1>3, <1>4 DEF Ours

LEMMA SerialsKeep ==
    ASSUME Serials, Unique, nextSerial' = nextSerial, NEW x \in Actors,
           \A y \in Actors \ {x} : stack'[y] = stack[y],
           \A f \in Frames(stack'[x]) : f.to \subseteq Known,
           x \in Clients => \A f \in Frames(stack'[x]) : f.serial \in Ours(x),
           routes' \subseteq Known,
           \A j \in Clients : client'[j].serial \in Ours(j),
           x \in Clients /\ Connecting(x)' =>
               /\ Connecting(x) /\ Top(x)'.serial = Top(x).serial
               /\ Under(stack'[x]) \subseteq Under(stack[x])
    PROVE  Known' \subseteq Known /\ Serials' /\ Unique'
<1>0. Clients \subseteq Actors
  BY DEF Actors
<1>1. Known' \subseteq Known
  <2>1. ASSUME NEW y \in Actors, NEW f \in Frames(stack'[y])
        PROVE  f.to \subseteq Known
    <3>1. CASE y = x
      BY <3>1
    <3>2. CASE y # x
      BY <3>2 DEF Known
    <3> QED  BY <3>1, <3>2
  <2> QED  BY <2>1 DEF Known
<1>2. ASSUME NEW k \in Clients
      PROVE  Ours(k)' \subseteq Ours(k)
  <2>1. CASE k = x
    BY <2>1 DEF Ours
  <2>2. CASE k # x
    BY <1>0, <2>2 DEF Ours
  <2> QED  BY <2>1, <2>2
<1>3. Serials'
  BY <1>1, <1>2 DEF Serials
<1>4. ASSUME NEW k \in Clients, Connecting(k)'
      PROVE  Only(k, Top(k).serial)'
  <2>1. /\ Connecting(k) /\ Top(k)'.serial = Top(k).serial
        /\ Under(stack'[k]) \subseteq Under(stack[k])
    <3>1. CASE k = x
      BY <1>4, <3>1
    <3>2. CASE k # x
      BY <1>0, <1>4, <3>2 DEF Connecting, Top
    <3> QED  BY <3>1, <3>2
  <2>2. Only(k, Top(k).serial)
    BY <2>1 DEF Unique
  <2> QED  BY <1>1, <1>2, <2>1, <2>2 DEF Only
<1> QED  BY <1>1, <1>3, <1>4 DEF Unique

\* The innermost call of x goes on.
LEMMA SerialsGo ==
    ASSUME TypeInv, Serials, Unique, nextSerial' = nextSerial, NEW x \in Actors, stack[x] # <<>>,
           NEW g \in FrameOf(x), Continue(x, g), g.to \subseteq Known, g.serial = Top(x).serial,
           x \in Clients /\ Routeless(g) => Routeless(Top(x)),
           routes' \subseteq Known, \A j \in Clients : client'[j].serial \in Ours(j)
    PROVE  Known' \subseteq Known /\ Serials' /\ Unique'
<1>1. StackTyped
  BY DEF TypeInv
<1>2. /\ \A y \in Actors \ {x} : stack'[y] = stack[y]
      /\ stack'[x] # <<>> /\ Top(x)' = g
      /\ Frames(stack'[x]) = {g} \cup Under(stack[x]) /\ Under(stack'[x]) = Under(stack[x])
  BY <1>1, ActorGoes
<1>3. Frames(stack[x]) = {Top(x)} \cup Under(stack[x])
  BY <1>1, TopTyped
<1>4. \A f \in Frames(stack'[x]) : f.to \subseteq Known
  BY <1>2, <1>3, KnownTyped
<1>5. \A f \in Frames(stack'[x]) : f.serial \in Ours(x)
  BY <1>2, <1>3 DEF Ours
<1>6. x \in Clients /\ Connecting(x)' =>
               /\ Connecting(x) /\ Top(x)'.serial = Top(x).serial
               /\ Under(stack'[x]) \subseteq Under(stack[x])
  BY <1>2 DEF Connecting
<1> QED  BY <1>2, <1>4, <1>5, <1>6, SerialsKeep

\* The innermost call of x returns.
LEMMA SerialsReturn ==
    ASSUME TypeInv, Serials, Unique, nextSerial' = nextSerial, NEW x \in Actors, stack[x] # <<>>,
           Return(x), routes' \subseteq Known, \A j \in Clients : client'[j].serial \in Ours(j)
    PROVE  Known' \subseteq Known /\ Serials' /\ Unique'
<1>1. StackTyped
  BY DEF TypeInv
<1>2. /\ \A y \in Actors \ {x} : stack'[y] = stack[y]
      /\ Frames(stack'[x]) = Under(stack[x])
      /\ stack'[x] # <<>> => Top(x)' \in Under(stack[x])
  BY <1>1, ActorReturns
<1>3. Frames(stack[x]) = {Top(x)} \cup Under(stack[x])
  BY <1>1, TopTyped
<1>4. \A f \in Frames(stack'[x]) : f.to \subseteq Known
  BY <1>2, <1>3, KnownTyped
<1>5. \A f \in Frames(stack'[x]) : f.serial \in Ours(x)
  BY <1>2, <1>3 DEF Ours
<1>6. x \in Clients => ~Connecting(x)'
  BY <1>1, <1>2, CallerIsNotConnecting DEF Connecting, StackTyped
<1> QED  BY <1>2, <1>4, <1>5, <1>6, SerialsKeep

\* The innermost call of k makes a call that is not a Connect.
LEMMA SerialsCall ==
    ASSUME TypeInv, Serials, Unique, nextSerial' = nextSerial, NEW k \in Clients, stack[k] # <<>>,
           NEW f \in CallerFrame, NEW g \in ThreadFrame, Call(k, f, g),
           f.to \subseteq Known, f.serial = Top(k).serial,
           g.to \subseteq Known, g.serial \in Ours(k), ~Routeless(g),
           routes' \subseteq Known, \A j \in Clients : client'[j].serial \in Ours(j)
    PROVE  Known' \subseteq Known /\ Serials' /\ Unique'
<1>1. StackTyped /\ k \in Actors
  BY DEF TypeInv, Actors
<1>2. /\ \A y \in Actors \ {k} : stack'[y] = stack[y]
      /\ stack'[k] # <<>> /\ Top(k)' = g
      /\ Frames(stack'[k]) = {g} \cup ({f} \cup Under(stack[k]))
  BY <1>1, ThreadCalls
<1>3. Frames(stack[k]) = {Top(k)} \cup Under(stack[k])
  BY <1>1, TopTyped
<1>4. \A h \in Frames(stack'[k]) : h.to \subseteq Known
  BY <1>1, <1>2, <1>3, KnownTyped
<1>5. \A h \in Frames(stack'[k]) : h.serial \in Ours(k)
  BY <1>2, <1>3 DEF Ours
<1>6. ~Connecting(k)'
  BY <1>2 DEF Connecting
<1> QED  BY <1>1, <1>2, <1>4, <1>5, <1>6, SerialsKeep

\* Only the fields of the clients and the routes change.
LEMMA SerialsStay ==
    ASSUME TypeInv, Serials, Unique, nextSerial' = nextSerial, stack' = stack,
           routes' \subseteq Known, \A j \in Clients : client'[j].serial \in Ours(j)
    PROVE  Known' \subseteq Known /\ Serials' /\ Unique'
<1>1. Task \in Actors /\ Task \notin Clients
  BY ActorsAssumption DEF Actors
<1> QED  BY <1>1, KnownTyped, SerialsKeep

LEMMA OwnSerial ==
    \A k \in Clients : /\ client[k].serial \in Ours(k)
                       /\ \A f \in Frames(stack[k]) : f.serial \in Ours(k)
  BY DEF Ours

\* A Connect begins, and takes the next serial.
LEMMA SerialsConnect ==
    ASSUME TypeInv, Serials, Unique, nextSerial' = nextSerial + 1, NEW k \in Clients,
           \A y \in Actors \ {k} : stack'[y] = stack[y],
           stack'[k] # <<>>, Top(k)'.serial = nextSerial, Top(k)'.to = {},
           Frames(stack'[k]) = {Top(k)'} \cup Under(stack'[k]),
           \A f \in Under(stack'[k]) : f.to \subseteq Known /\ f.serial \in Ours(k),
           routes' \subseteq Known, \A j \in Clients : client'[j].serial \in Ours(j)
    PROVE  Known' \subseteq Known /\ Serials' /\ Unique'
<1>0. Clients \subseteq Actors /\ nextSerial \in Nat
  BY DEF Actors, TypeInv, PoolTyped
<1>1. Known' \subseteq Known
  <2>1. ASSUME NEW y \in Actors, NEW f \in Frames(stack'[y])
        PROVE  f.to \subseteq Known
    <3>1. CASE y = k
      BY <3>1
    <3>2. CASE y # k
      BY <3>2 DEF Known
    <3> QED  BY <3>1, <3>2
  <2> QED  BY <2>1 DEF Known
<1>2. ASSUME NEW j \in Clients \ {k}
      PROVE  Ours(j)' \subseteq Ours(j)
  BY <1>0, <1>2 DEF Ours
<1>3. Ours(k)' \subseteq Ours(k) \cup {nextSerial}
  BY DEF Ours
<1>4. /\ \A r \in Known : r.serial < nextSerial /\ r.serial \in Nat
      /\ \A j \in Clients : \A s \in Ours(j) : s < nextSerial /\ s \in Nat
  BY KnownTyped DEF Serials, Route
<1>5. Serials'
  <2>1. ASSUME NEW r \in Known'
        PROVE  r.serial < nextSerial'
    BY <1>0, <1>1, <1>4
  <2>2. ASSUME NEW j \in Clients, NEW s \in Ours(j)'
        PROVE  s < nextSerial'
    BY <1>0, <1>2, <1>3, <1>4
  <2> QED  BY <2>1, <2>2 DEF Serials
<1>6. Only(k, Top(k).serial)'
  <2>1. \A r \in Known' : r.serial # nextSerial
    BY <1>0, <1>1, <1>4
  <2>2. \A f \in Under(stack'[k]) : f.serial # nextSerial
    BY <1>0, <1>4
  <2>3. \A j \in Clients \ {k} : nextSerial \notin Ours(j)'
    BY <1>0, <1>2, <1>4
  <2> QED  BY <2>1, <2>2, <2>3 DEF Only
<1>7. ASSUME NEW j \in Clients \ {k}, Connecting(j)'
      PROVE  Only(j, Top(j).serial)'
  <2>1. stack'[j] = stack[j] /\ Top(j)' = Top(j) /\ Connecting(j)
    BY <1>0, <1>7 DEF Connecting, Top
  <2>2. Only(j, Top(j).serial)
    BY <2>1 DEF Unique
  <2>3. Top(j).serial \in Ours(j)
    BY <1>0, <2>1, TopTyped, OwnSerial DEF TypeInv, Connecting
  <2>4. Top(j).serial # nextSerial
    BY <1>0, <1>4, <2>3
  <2>5. \A i \in Clients \ {j} : Top(j).serial \notin Ours(i)'
    BY <1>2, <1>3, <2>2, <2>4 DEF Only
  <2> QED  BY <1>1, <2>1, <2>2, <2>5 DEF Only
<1> QED  BY <1>1, <1>5, <1>6, <1>7 DEF Unique

LEMMA SerialsSubscribe ==
    ASSUME TypeInv, Serials, Unique, NEW k \in Clients, SubscribeTcp(k)
    PROVE  /\ Serials' /\ Unique'
           /\ \E r \in Route : /\ Known' \subseteq Known \cup {r}
                               /\ r.cid = Top(k).cid /\ r.client = k /\ r.serial = Top(k).serial
<1>1. PICK g \in ThreadFrame, r \in Route :
                 /\ stack[k] # <<>> /\ Top(k).pc = "subscribe" /\ Continue(k, g)
                 /\ g.pc = "helddata" /\ g.serial = Top(k).serial
                 /\ g.to = Top(k).to
                 /\ routes' = routes \cup {r}
                 /\ r.cid = Top(k).cid /\ r.client = k /\ r.serial = Top(k).serial
  BY SubscribeTyped
<1>2. nextSerial' = nextSerial /\ client' = client
  BY SubscribeTyped
<1>3. StackTyped /\ Clients \subseteq Actors
  BY DEF TypeInv, Actors
<1>4. /\ \A y \in Actors \ {k} : stack'[y] = stack[y]
      /\ stack'[k] # <<>> /\ Top(k)' = g
      /\ Frames(stack'[k]) = {g} \cup Under(stack[k]) /\ Under(stack'[k]) = Under(stack[k])
  BY <1>1, <1>3, ThreadGoes
<1>5. Frames(stack[k]) = {Top(k)} \cup Under(stack[k])
  BY <1>1, <1>3, TopTyped
<1>6. Known' \subseteq Known \cup {r}
  <2>1. ASSUME NEW y \in Actors, NEW f \in Frames(stack'[y])
        PROVE  f.to \subseteq Known
    <3>1. CASE y = k
      BY <1>1, <1>3, <1>4, <1>5, <3>1, KnownTyped
    <3>2. CASE y # k
      BY <1>4, <3>2 DEF Known
    <3> QED  BY <3>1, <3>2
  <2> QED  BY <1>1, <2>1 DEF Known
<1>7. ASSUME NEW j \in Clients
      PROVE  Ours(j)' \subseteq Ours(j)
  <2>1. CASE j = k
    BY <1>1, <1>2, <1>4, <1>5, <2>1 DEF Ours
  <2>2. CASE j # k
    BY <1>2, <1>3, <1>4, <2>2 DEF Ours
  <2> QED  BY <2>1, <2>2
<1>8. r.serial \in Ours(k)
  BY <1>1, <1>5, OwnSerial
<1>9. Serials'
  BY <1>2, <1>6, <1>7, <1>8 DEF Serials
<1>10. ASSUME NEW j \in Clients, Connecting(j)'
       PROVE  Only(j, Top(j).serial)'
  <2>1. j # k
    BY <1>1, <1>4, <1>10 DEF Connecting, Routeless
  <2>2. stack'[j] = stack[j] /\ Top(j)' = Top(j) /\ Connecting(j)
    BY <1>3, <1>4, <1>10, <2>1 DEF Connecting, Top
  <2>3. Only(j, Top(j).serial)
    BY <2>2 DEF Unique
  <2>4. r.serial # Top(j).serial
    BY <1>8, <2>1, <2>3 DEF Only
  <2> QED  BY <1>6, <1>7, <2>2, <2>3, <2>4 DEF Only
<1> QED  BY <1>1, <1>6, <1>9, <1>10 DEF Unique

LEMMA SerialsThread ==
    ASSUME TypeInv, Serials, Unique, NEW k \in Clients,
           \/ Connect(k) \/ Disconnect(k) \/ AllocateConnectionId(k) \/ Advances(k)
           \/ Leaves(k) \/ Opened(k) \/ DispatchHeld(k) \/ HeldEnd(k)
    PROVE  Known' \subseteq Known /\ Serials' /\ Unique'
<1>0. StackTyped /\ Clients \subseteq Actors /\ nextSerial \in Nat /\ FrameOf(k) = ThreadFrame
  BY ActorsAssumption DEF TypeInv, Actors, PoolTyped, FrameOf
<1>1. routes \subseteq Known /\ (stack[k] # <<>> => Top(k).to \subseteq Known)
  BY <1>0, TopTyped, KnownTyped
<1>2. \A j \in Clients : client[j].serial \in Ours(j)
  BY OwnSerial
<1>3. stack[k] # <<>> => Top(k).serial \in Ours(k)
  BY <1>0, TopTyped, OwnSerial
<1>4. CASE Connect(k)
  <2>1. /\ nextSerial' = nextSerial + 1 /\ stack' = [stack EXCEPT ![k] = <<ConnectFrame>>]
        /\ UNCHANGED <<routes, client>>
    BY <1>4 DEF Connect, routeVars
  <2>2. /\ ConnectFrame \in ThreadFrame /\ ConnectFrame.serial = nextSerial
        /\ ConnectFrame.to = {}
    BY <1>0, ConnectFrameTyped
  <2>3. /\ \A y \in Actors \ {k} : stack'[y] = stack[y]
        /\ stack'[k] # <<>> /\ Top(k)' = ConnectFrame
        /\ Frames(stack'[k]) = {ConnectFrame} /\ Under(stack'[k]) = {}
    BY <1>0, <2>1, <2>2, ThreadBegins
  <2> QED  BY <1>1, <1>2, <2>1, <2>2, <2>3, SerialsConnect
<1>5. CASE Disconnect(k)
  <2>1. PICK g \in ThreadFrame :
                 /\ stack[k] = <<>> /\ stack' = [stack EXCEPT ![k] = <<g>>]
                 /\ g.pc = "unsubscribe" /\ g.serial = client[k].serial /\ g.to = {}
    BY <1>5, DisconnectTyped
  <2>2. client' = Cleared(k) /\ UNCHANGED <<nextSerial, routes>>
    BY <1>5, DisconnectTyped
  <2>3. /\ \A y \in Actors \ {k} : stack'[y] = stack[y]
        /\ stack'[k] # <<>> /\ Top(k)' = g /\ Frames(stack'[k]) = {g}
    BY <1>0, <2>1, ThreadBegins
  <2>4. \A j \in Clients : client'[j].serial \in Ours(j)
    BY <1>2, <2>2, ClearedTyped DEF TypeInv
  <2>5. ~Connecting(k)'
    BY <2>1, <2>3 DEF Connecting, Routeless
  <2>6. \A f \in Frames(stack'[k]) : f.to \subseteq Known /\ f.serial \in Ours(k)
    BY <1>2, <2>1, <2>3
  <2> QED  BY <1>0, <1>1, <2>2, <2>3, <2>4, <2>5, <2>6, SerialsKeep
<1>6. CASE AllocateConnectionId(k)
  <2>1. PICK g \in ThreadFrame :
                 /\ stack[k] # <<>> /\ Top(k).pc = "alloc" /\ Continue(k, g)
                 /\ g.pc = "taken" /\ g.serial = Top(k).serial /\ g.to = Top(k).to
    BY <1>6, AllocateTyped
  <2>2. UNCHANGED <<nextSerial, routes, client>>
    BY <1>6, AllocateTyped
  <2>3. Routeless(Top(k))
    BY <2>1 DEF Routeless
  <2> QED  BY <1>0, <1>1, <1>2, <2>1, <2>2, <2>3, SerialsGo
<1>7. CASE Advances(k)
  <2>1. PICK g \in ThreadFrame : Advance(k, g)
    BY <1>7, AdvanceStep
  <2>2. nextSerial' = nextSerial /\ routes' \subseteq routes /\ SameClients
    BY <1>7, AdvanceStep, AdvanceTyped
  <2>3. /\ stack[k] # <<>> /\ Continue(k, g) /\ g.serial = Top(k).serial /\ g.to = Top(k).to
        /\ Routeless(g) => Routeless(Top(k))
    BY <2>1 DEF Advance
  <2>4. \A j \in Clients : client'[j].serial \in Ours(j)
    BY <1>2, <2>2 DEF SameClients
  <2> QED  BY <1>0, <1>1, <2>2, <2>3, <2>4, SerialsGo
<1>8. CASE Leaves(k)
  <2>1. /\ stack[k] # <<>> /\ Return(k) /\ UNCHANGED <<nextSerial, routes>> /\ SameClients
    BY <1>8, LeaveTyped
  <2>2. \A j \in Clients : client'[j].serial \in Ours(j)
    BY <1>2, <2>1 DEF SameClients
  <2> QED  BY <1>0, <1>1, <2>1, <2>2, SerialsReturn
<1>9. CASE Opened(k)
  <2>1. PICK g \in ThreadFrame :
                 /\ stack[k] # <<>> /\ Top(k).pc = "opened" /\ Continue(k, g)
                 /\ g.pc = "subscribe" /\ g.serial = Top(k).serial
                 /\ g.to = Top(k).to
    BY <1>9, OpenedTyped
  <2>2. /\ UNCHANGED <<nextSerial, routes>> /\ client'[k].serial = Top(k).serial
        /\ \A j \in Clients \ {k} : client'[j] = client[j]
    BY <1>9, OpenedTyped
  <2>3. Routeless(Top(k))
    BY <2>1 DEF Routeless
  <2>4. \A j \in Clients : client'[j].serial \in Ours(j)
    BY <1>2, <1>3, <2>1, <2>2
  <2> QED  BY <1>0, <1>1, <2>1, <2>2, <2>3, <2>4, SerialsGo
<1>10. CASE DispatchHeld(k)
  <2>1. PICK g \in ThreadFrame :
                 /\ stack[k] # <<>> /\ Continue(k, g)
                 /\ g.pc \in {"heldend", "calldata"} /\ g.serial = Top(k).serial
                 /\ g.to \subseteq Top(k).to \cup routes
    BY <1>10, DispatchHeldTyped
  <2>2. UNCHANGED <<nextSerial, routes, client>>
    BY <1>10, DispatchHeldTyped
  <2>3. ~Routeless(g)
    BY <2>1 DEF Routeless
  <2> QED  BY <1>0, <1>1, <1>2, <2>1, <2>2, <2>3, SerialsGo
<1>11. CASE HeldEnd(k)
  <2>1. PICK f \in CallerFrame :
                 /\ f.cid = Top(k).cid /\ f.serial = Top(k).serial /\ f.to = Top(k).to
                 /\ \/ Continue(k, f)
                    \/ \E g \in ThreadFrame :
                             /\ Call(k, f, g) /\ g.pc = "tcpclose" /\ g.cid = f.cid
                             /\ g.serial = f.serial /\ g.to = {}
    BY <1>11, HeldEndTyped
  <2>2. UNCHANGED <<nextSerial, routes, client>> /\ stack[k] # <<>>
    BY <1>11, HeldEndTyped
  <2>3. ~Routeless(f) /\ f \in ThreadFrame
    BY CallerIsNotConnecting DEF CallerFrame
  <2>4. CASE Continue(k, f)
    BY <1>0, <1>1, <1>2, <2>1, <2>2, <2>3, <2>4, SerialsGo
  <2>5. CASE \E g \in ThreadFrame : /\ Call(k, f, g) /\ g.pc = "tcpclose" /\ g.cid = f.cid
                                    /\ g.serial = f.serial /\ g.to = {}
    <3>1. PICK g \in ThreadFrame : /\ Call(k, f, g) /\ g.pc = "tcpclose"
                                   /\ g.serial = f.serial /\ g.to = {}
      BY <2>5
    <3>2. ~Routeless(g)
      BY <3>1 DEF Routeless
    <3> QED  BY <1>0, <1>1, <1>2, <1>3, <2>1, <2>2, <3>1, <3>2, SerialsCall
  <2> QED  BY <2>1, <2>4, <2>5
<1> QED  BY <1>4, <1>5, <1>6, <1>7, <1>8, <1>9, <1>10, <1>11

LEMMA SerialsCommon ==
    ASSUME TypeInv, Serials, Unique, NEW x \in Actors,
           \/ Release(x) \/ Discard(x) \/ OnTcpData(x) \/ DispatchTcpClose(x) \/ OnTcpClose(x)
    PROVE  Known' \subseteq Known /\ Serials' /\ Unique'
<1>0. /\ StackTyped /\ ClientTyped /\ Clients \subseteq Actors /\ nextSerial \in Nat
      /\ x \in Clients => FrameOf(x) = ThreadFrame
      /\ CallerFrame \subseteq ThreadFrame
  BY ActorsAssumption DEF TypeInv, Actors, PoolTyped, FrameOf, CallerFrame
<1>1. routes \subseteq Known /\ (stack[x] # <<>> => Top(x).to \subseteq Known)
  BY <1>0, TopTyped, KnownTyped
<1>2. \A j \in Clients : client[j].serial \in Ours(j)
  BY OwnSerial
<1>3. stack[x] # <<>> /\ x \in Clients => Top(x).serial \in Ours(x)
  BY <1>0, TopTyped, OwnSerial
<1>4. CASE Release(x)
  <2>1. PICK g \in FrameOf(x) :
                 /\ Continue(x, g) /\ g.pc = "discard" /\ g.then = Top(x).then
                 /\ g.serial = Top(x).serial /\ g.to = Top(x).to
    BY <1>4, ReleaseTyped
  <2>2. UNCHANGED <<nextSerial, routes, client>> /\ stack[x] # <<>> /\ Top(x).pc = "release"
    BY <1>4, ReleaseTyped
  <2>3. Routeless(g) => Routeless(Top(x))
    BY <2>1, <2>2 DEF Routeless
  <2> QED  BY <1>0, <1>1, <1>2, <2>1, <2>2, <2>3, SerialsGo
<1>5. CASE Discard(x)
  <2>1. UNCHANGED <<nextSerial, routes, client>> /\ stack[x] # <<>>
    BY <1>5, DiscardTyped
  <2>2. CASE Return(x)
    BY <1>0, <1>1, <1>2, <2>1, <2>2, SerialsReturn
  <2>3. CASE \E g \in FrameOf(x) :
                    /\ Continue(x, g) /\ g.serial = Top(x).serial /\ g.to = Top(x).to
                    /\ \/ x \in Clients /\ g.pc = "alloc" /\ Routeless(Top(x))
                       \/ x = Task /\ g.pc = "dispatchclose" /\ g.cid = Top(x).cid
    <3>1. PICK g \in FrameOf(x) :
                    /\ Continue(x, g) /\ g.serial = Top(x).serial /\ g.to = Top(x).to
                    /\ (x \in Clients /\ Routeless(Top(x))) \/ x = Task
      BY <2>3
    <3>2. x \in Clients /\ Routeless(g) => Routeless(Top(x))
      BY <3>1, ActorsAssumption
    <3> QED  BY <1>0, <1>1, <1>2, <2>1, <3>1, <3>2, SerialsGo
  <2> QED  BY <1>5, <2>2, <2>3, DiscardTyped
<1>6. CASE OnTcpData(x)
  <2>1. UNCHANGED <<nextSerial, routes>> /\ stack[x] # <<>>
    BY <1>6, OnTcpDataTyped
  <2>2. CASE x = Task /\ Return(x) /\ client' = client
    BY <1>0, <1>1, <1>2, <2>1, <2>2, SerialsReturn
  <2>3. CASE /\ x \in Clients /\ client' = client
             /\ \E g \in ThreadFrame :
                       /\ Continue(x, g) /\ g.pc = "heldend" /\ g.serial = Top(x).serial
                       /\ g.to = Top(x).to
    <3>1. PICK g \in ThreadFrame :
                       /\ Continue(x, g) /\ g.pc = "heldend" /\ g.serial = Top(x).serial
                       /\ g.to = Top(x).to
      BY <2>3
    <3>2. ~Routeless(g)
      BY <3>1 DEF Routeless
    <3> QED  BY <1>0, <1>1, <1>2, <2>1, <2>3, <3>1, <3>2, SerialsGo
  <2>4. CASE /\ x \in Clients /\ client' = Cleared(x)
             /\ \E f \in CallerFrame, g \in ThreadFrame :
                       /\ Call(x, f, g) /\ f.serial = Top(x).serial /\ f.to = Top(x).to
                       /\ g.pc = "unsubscribe" /\ g.serial = client[x].serial /\ g.to = {}
    <3>1. PICK f \in CallerFrame, g \in ThreadFrame :
                       /\ Call(x, f, g) /\ f.serial = Top(x).serial /\ f.to = Top(x).to
                       /\ g.pc = "unsubscribe" /\ g.serial = client[x].serial /\ g.to = {}
      BY <2>4
    <3>2. ~Routeless(g)
      BY <3>1 DEF Routeless
    <3>3. \A j \in Clients : client'[j].serial \in Ours(j)
      BY <1>0, <1>2, <2>4, ClearedTyped
    <3> QED  BY <1>0, <1>1, <1>2, <2>1, <2>4, <3>1, <3>2, <3>3, SerialsCall
  <2> QED  BY <1>6, <2>2, <2>3, <2>4, OnTcpDataTyped
<1>7. CASE DispatchTcpClose(x)
  <2>1. nextSerial' = nextSerial /\ client' = client /\ routes' \subseteq routes /\ stack[x] # <<>>
    BY <1>7, DispatchTcpCloseTyped
  <2>2. CASE Return(x)
    BY <1>0, <1>1, <1>2, <2>1, <2>2, SerialsReturn
  <2>3. CASE \E g \in FrameOf(x) :
                    /\ Continue(x, g) /\ g.serial = Top(x).serial
                    /\ \/ g.pc = "callclose" /\ g.to = RoutesOf(Top(x).cid)
                       \/ x \in Clients /\ g.pc = "finish" /\ g.to = Top(x).to
    <3>1. PICK g \in FrameOf(x) :
                    /\ Continue(x, g) /\ g.serial = Top(x).serial
                    /\ g.pc \in {"callclose", "finish"}
                    /\ g.to = RoutesOf(Top(x).cid) \/ g.to = Top(x).to
      BY <2>3
    <3>2. ~Routeless(g) /\ g.to \subseteq Known
      BY <1>1, <2>1, <3>1 DEF Routeless, RoutesOf
    <3> QED  BY <1>0, <1>1, <1>2, <2>1, <3>1, <3>2, SerialsGo
  <2> QED  BY <1>7, <2>2, <2>3, DispatchTcpCloseTyped
<1>8. CASE OnTcpClose(x)
  <2>1. PICK r \in Top(x).to :
                 /\ r \in Route /\ client' = Cleared(r.client)
                 /\ \/ x = Task /\ Return(x) /\ nextSerial' = nextSerial
                    \/ /\ nextSerial' = nextSerial
                       /\ \E g \in FrameOf(x) :
                             /\ Continue(x, g) /\ g.pc \in {"callclose", "finish"}
                             /\ g.serial = Top(x).serial /\ g.to \subseteq Top(x).to
                    \/ /\ x = r.client /\ nextSerial' = nextSerial + 1
                       /\ \E f \in CallerFrame :
                             /\ Call(x, f, ConnectFrame) /\ f.pc \in {"callclose", "finish"}
                             /\ f.serial = Top(x).serial /\ f.to \subseteq Top(x).to
    BY <1>8, OnTcpCloseTyped
  <2>2. routes' = routes /\ stack[x] # <<>> /\ r.client \in Clients
    BY <1>8, <2>1, OnTcpCloseTyped DEF Route
  <2>3. \A j \in Clients : client'[j].serial \in Ours(j)
    BY <1>0, <1>2, <2>1, <2>2, ClearedTyped
  <2>4. CASE Return(x) /\ nextSerial' = nextSerial
    BY <1>0, <1>1, <2>2, <2>3, <2>4, SerialsReturn
  <2>5. CASE /\ nextSerial' = nextSerial
             /\ \E g \in FrameOf(x) :
                             /\ Continue(x, g) /\ g.pc \in {"callclose", "finish"}
                             /\ g.serial = Top(x).serial /\ g.to \subseteq Top(x).to
    <3>1. PICK g \in FrameOf(x) :
                             /\ Continue(x, g) /\ g.pc \in {"callclose", "finish"}
                             /\ g.serial = Top(x).serial /\ g.to \subseteq Top(x).to
      BY <2>5
    <3>2. ~Routeless(g) /\ g.to \subseteq Known
      BY <1>1, <2>2, <3>1 DEF Routeless
    <3> QED  BY <1>0, <1>1, <2>2, <2>3, <2>5, <3>1, <3>2, SerialsGo
  <2>6. CASE /\ x = r.client /\ nextSerial' = nextSerial + 1
             /\ \E f \in CallerFrame :
                             /\ Call(x, f, ConnectFrame) /\ f.pc \in {"callclose", "finish"}
                             /\ f.serial = Top(x).serial /\ f.to \subseteq Top(x).to
    <3>1. PICK f \in CallerFrame :
                             /\ Call(x, f, ConnectFrame)
                             /\ f.serial = Top(x).serial /\ f.to \subseteq Top(x).to
      BY <2>6
    <3>2. /\ ConnectFrame \in ThreadFrame /\ ConnectFrame.serial = nextSerial
          /\ ConnectFrame.to = {} /\ x \in Clients
      BY <1>0, <2>2, <2>6, ConnectFrameTyped
    <3>3. /\ \A y \in Actors \ {x} : stack'[y] = stack[y]
          /\ stack'[x] # <<>> /\ Top(x)' = ConnectFrame
          /\ Frames(stack'[x]) = {ConnectFrame} \cup ({f} \cup Under(stack[x]))
          /\ Under(stack'[x]) = {f} \cup Under(stack[x])
      BY <1>0, <2>2, <3>1, <3>2, ThreadCalls
    <3>4. \A h \in Under(stack[x]) : h.to \subseteq Known /\ h.serial \in Ours(x)
      BY <1>0, <2>2, <3>2, TopTyped, KnownTyped, OwnSerial
    <3>5. \A h \in Under(stack'[x]) : h.to \subseteq Known /\ h.serial \in Ours(x)
      BY <1>1, <1>3, <2>2, <3>1, <3>2, <3>3, <3>4
    <3> QED  BY <1>1, <2>2, <2>3, <2>6, <3>2, <3>3, <3>5, SerialsConnect
  <2> QED  BY <2>1, <2>4, <2>5, <2>6
<1> QED  BY <1>4, <1>5, <1>6, <1>7, <1>8

LEMMA SerialsTask ==
    ASSUME TypeInv, Serials, Unique,
           \/ RecordOpenResult \/ DispatchTcpData \/ OnDisconn \/ Module \/ Settle \/ UNCHANGED vars
    PROVE  Known' \subseteq Known /\ Serials' /\ Unique'
<1>0. StackTyped /\ Clients \subseteq Actors /\ Task \in Actors /\ Task \notin Clients
  BY ActorsAssumption DEF TypeInv, Actors
<1>1. routes \subseteq Known /\ \A j \in Clients : client[j].serial \in Ours(j)
  BY KnownTyped, OwnSerial
<1>2. UNCHANGED <<nextSerial, routes, client>>
  BY RecordTyped, DataTyped, OnDisconnTyped, ModuleStepTyped, SettleTyped DEF vars, routeVars
<1>3. \/ stack' = stack
      \/ \E g \in TaskFrame : stack' = [stack EXCEPT ![Task] = <<g>>] /\ g.to \subseteq routes
  BY RecordTyped, DataTyped, OnDisconnTyped, ModuleStepTyped, SettleTyped DEF vars
<1>4. CASE stack' = stack
  BY <1>1, <1>2, <1>4, SerialsStay
<1>5. CASE \E g \in TaskFrame : stack' = [stack EXCEPT ![Task] = <<g>>] /\ g.to \subseteq routes
  <2>1. PICK g \in TaskFrame : stack' = [stack EXCEPT ![Task] = <<g>>] /\ g.to \subseteq routes
    BY <1>5
  <2>2. Frames(stack'[Task]) = {g} /\ \A y \in Actors \ {Task} : stack'[y] = stack[y]
    BY <1>0, <2>1, TaskBegins DEF Actors
  <2> QED  BY <1>0, <1>1, <1>2, <2>1, <2>2, SerialsKeep
<1> QED  BY <1>3, <1>4, <1>5

LEMMA SerialsStep ==
    ASSUME TypeInv, Serials, Unique, [Next]_vars
    PROVE  Serials' /\ Unique'
<1>1. ASSUME NEW k \in Clients,
             \/ Connect(k) \/ Disconnect(k) \/ AllocateConnectionId(k) \/ Advances(k)
             \/ Leaves(k) \/ Opened(k) \/ SubscribeTcp(k) \/ DispatchHeld(k) \/ HeldEnd(k)
      PROVE  Serials' /\ Unique'
  BY <1>1, SerialsThread, SerialsSubscribe
<1> QED  BY <1>1, SerialsCommon, SerialsTask, StepCases

\* The client of a route that is still on the connection of that route has its cid.
RouteOwn(r) ==
    client[r.client].connected /\ client[r.client].serial = r.serial =>
        client[r.client].cid = r.cid

\* What a client says of itself while it connects, and after.
Own ==
    /\ \A r \in Known : RouteOwn(r)
    /\ \A k \in Clients : At(k, "subscribe") =>
           /\ client[k].serial = Top(k).serial
           /\ client[k].connected => client[k].cid = Top(k).cid
    /\ \A k \in Clients : Connecting(k) /\ Top(k).pc # "subscribe" => ~client[k].connected

\* No client has a connection that it did not have before.
Fewer ==
    \A j \in Clients : /\ client'[j].serial = client[j].serial
                       /\ client'[j].connected => client[j].connected /\ client'[j].cid = client[j].cid

LEMMA FewerClients ==
    /\ SameClients => Fewer
    /\ client' = client => Fewer
    /\ \A k \in Clients : ClientTyped /\ client' = Cleared(k) => Fewer /\ ~client'[k].connected
<1>1. ASSUME ClientTyped, NEW k \in Clients, client' = Cleared(k)
      PROVE  Fewer /\ ~client'[k].connected
  BY <1>1, ClearedTyped DEF Fewer
<1> QED  BY <1>1 DEF SameClients, Fewer

LEMMA OwnKeep ==
    ASSUME TypeInv, Own, Known' \subseteq Known, Fewer, NEW x \in Actors,
           \A y \in Actors \ {x} : stack'[y] = stack[y],
           x \in Clients => ~At(x, "subscribe")' /\ (Connecting(x)' => ~client'[x].connected)
    PROVE  Own'
<1>0. Clients \subseteq Actors
  BY DEF Actors
<1>1. ASSUME NEW r \in Known'
      PROVE  RouteOwn(r)'
  <2>1. RouteOwn(r) /\ r.client \in Clients
    BY KnownTyped DEF Own, Route
  <2> QED  BY <2>1 DEF RouteOwn, Fewer
<1>2. ASSUME NEW k \in Clients, k # x
      PROVE  /\ At(k, "subscribe")' =>
                    /\ client'[k].serial = Top(k)'.serial
                    /\ client'[k].connected => client'[k].cid = Top(k)'.cid
             /\ Connecting(k)' /\ Top(k)'.pc # "subscribe" => ~client'[k].connected
  <2>1. stack'[k] = stack[k] /\ Top(k)' = Top(k)
    BY <1>0, <1>2 DEF Top
  <2> QED  BY <2>1 DEF Own, Fewer, At, Connecting
<1> QED  BY <1>1, <1>2 DEF Own

LEMMA OwnSubscribe ==
    ASSUME TypeInv, Serials, Unique, Own, NEW k \in Clients, SubscribeTcp(k)
    PROVE  Own'
<1>0. StackTyped /\ Clients \subseteq Actors
  BY DEF TypeInv, Actors
<1>1. PICK r \in Route : /\ Known' \subseteq Known \cup {r}
                         /\ r.cid = Top(k).cid /\ r.client = k /\ r.serial = Top(k).serial
  BY SerialsSubscribe
<1>2. PICK g \in ThreadFrame : /\ stack[k] # <<>> /\ Top(k).pc = "subscribe" /\ Continue(k, g)
                               /\ g.pc = "helddata"
  BY SubscribeTyped
<1>3. client' = client
  BY SubscribeTyped
<1>4. (\A y \in Actors \ {k} : stack'[y] = stack[y]) /\ stack'[k] # <<>> /\ Top(k)' = g
  BY <1>0, <1>2, ThreadGoes
<1>5. RouteOwn(r)
  BY <1>1, <1>2 DEF Own, At, RouteOwn
<1>6. \A q \in Known' : RouteOwn(q)'
  BY <1>1, <1>3, <1>5 DEF Own, RouteOwn
<1>7. ~At(k, "subscribe")' /\ ~Connecting(k)'
  BY <1>2, <1>4 DEF At, Connecting, Routeless
<1>8. ASSUME NEW j \in Clients, j # k
      PROVE  stack'[j] = stack[j] /\ Top(j)' = Top(j)
  BY <1>0, <1>4, <1>8 DEF Top
<1> QED  BY <1>3, <1>6, <1>7, <1>8 DEF Own, At, Connecting

LEMMA OwnOpened ==
    ASSUME TypeInv, Serials, Unique, Own, NEW k \in Clients, Opened(k)
    PROVE  Own'
<1>0. StackTyped /\ Clients \subseteq Actors
  BY DEF TypeInv, Actors
<1>1. Known' \subseteq Known
  BY SerialsThread
<1>2. PICK g \in ThreadFrame :
                 /\ stack[k] # <<>> /\ Top(k).pc = "opened" /\ Continue(k, g)
                 /\ g.pc = "subscribe" /\ g.cid = Top(k).cid /\ g.serial = Top(k).serial
  BY OpenedTyped
<1>3. /\ client'[k].connected /\ client'[k].cid = Top(k).cid /\ client'[k].serial = Top(k).serial
      /\ \A j \in Clients \ {k} : client'[j] = client[j]
  BY OpenedTyped
<1>4. (\A y \in Actors \ {k} : stack'[y] = stack[y]) /\ stack'[k] # <<>> /\ Top(k)' = g
  BY <1>0, <1>2, ThreadGoes
<1>5. \A r \in Known : r.serial # Top(k).serial /\ r.client \in Clients
  BY <1>2, KnownTyped DEF Unique, Connecting, Routeless, Only, Route
<1>6. ASSUME NEW r \in Known'
      PROVE  RouteOwn(r)'
  <2>1. RouteOwn(r) /\ r.client \in Clients /\ r.serial # Top(k).serial
    BY <1>1, <1>5 DEF Own
  <2>2. CASE r.client = k
    BY <1>3, <2>1, <2>2 DEF RouteOwn
  <2>3. CASE r.client # k
    BY <1>3, <2>1, <2>3 DEF RouteOwn
  <2> QED  BY <2>2, <2>3
<1>7. ASSUME NEW j \in Clients, j # k
      PROVE  stack'[j] = stack[j] /\ Top(j)' = Top(j) /\ client'[j] = client[j]
  BY <1>0, <1>3, <1>4, <1>7 DEF Top
<1>8. ASSUME NEW j \in Clients
      PROVE  /\ At(j, "subscribe")' =>
                    /\ client'[j].serial = Top(j)'.serial
                    /\ client'[j].connected => client'[j].cid = Top(j)'.cid
             /\ Connecting(j)' /\ Top(j)'.pc # "subscribe" => ~client'[j].connected
  <2>1. CASE j = k
    BY <1>2, <1>3, <1>4, <2>1
  <2>2. CASE j # k
    BY <1>7, <2>2 DEF Own, At, Connecting
  <2> QED  BY <2>1, <2>2
<1> QED  BY <1>6, <1>8 DEF Own

LEMMA OwnThread ==
    ASSUME TypeInv, Serials, Unique, Own, NEW k \in Clients,
           \/ Connect(k) \/ Disconnect(k) \/ AllocateConnectionId(k) \/ Advances(k)
           \/ Leaves(k) \/ DispatchHeld(k) \/ HeldEnd(k)
    PROVE  Own'
<1>0. StackTyped /\ Clients \subseteq Actors /\ nextSerial \in Nat /\ ClientTyped
  BY DEF TypeInv, Actors, PoolTyped
<1>1. Known' \subseteq Known
  BY SerialsThread
<1> DEFINE Rest == \A y \in Actors \ {k} : stack'[y] = stack[y]
           Kept == ~At(k, "subscribe")' /\ (Connecting(k)' => ~client'[k].connected)
<1>2. SUFFICES Fewer /\ Rest /\ Kept
  BY <1>0, <1>1, OwnKeep
<1>4. CASE Connect(k)
  <2>1. /\ stack' = [stack EXCEPT ![k] = <<ConnectFrame>>] /\ ~client[k].connected
        /\ client' = client
    BY <1>4 DEF Connect
  <2>2. ConnectFrame \in ThreadFrame /\ ConnectFrame.pc = "alloc"
    BY <1>0, ConnectFrameTyped
  <2>3. Rest /\ Top(k)' = ConnectFrame
    BY <1>0, <2>1, <2>2, ThreadBegins
  <2> QED  BY <2>1, <2>2, <2>3, FewerClients DEF At
<1>5. CASE Disconnect(k)
  <2>1. PICK g \in ThreadFrame : stack' = [stack EXCEPT ![k] = <<g>>] /\ g.pc = "unsubscribe"
    BY <1>5, DisconnectTyped
  <2>2. client' = Cleared(k)
    BY <1>5, DisconnectTyped
  <2>3. Rest /\ Top(k)' = g
    BY <1>0, <2>1, ThreadBegins
  <2> QED  BY <1>0, <2>1, <2>2, <2>3, FewerClients DEF At
<1>6. CASE AllocateConnectionId(k)
  <2>1. PICK g \in ThreadFrame :
                 /\ stack[k] # <<>> /\ Top(k).pc = "alloc" /\ Continue(k, g) /\ g.pc = "taken"
    BY <1>6, AllocateTyped
  <2>2. client' = client
    BY <1>6, AllocateTyped
  <2>3. ~client[k].connected
    BY <2>1 DEF Own, Connecting, Routeless
  <2>4. Rest /\ Top(k)' = g
    BY <1>0, <2>1, ThreadGoes
  <2> QED  BY <2>1, <2>2, <2>3, <2>4, FewerClients DEF At
<1>7. CASE Advances(k)
  <2>1. PICK g \in ThreadFrame : Advance(k, g)
    BY <1>7, AdvanceStep
  <2>2. Fewer
    BY <1>7, AdvanceTyped, FewerClients
  <2>3. /\ stack[k] # <<>> /\ Continue(k, g) /\ (Routeless(g) => Routeless(Top(k)))
        /\ g.pc # "subscribe" /\ Top(k).pc # "subscribe"
    BY <2>1 DEF Advance, Holding
  <2>4. Rest /\ Top(k)' = g
    BY <1>0, <2>3, ThreadGoes
  <2>5. Routeless(g) => ~client[k].connected
    BY <2>3 DEF Own, Connecting
  <2>6. Connecting(k)' => Routeless(g)
    BY <2>4 DEF Connecting
  <2>7. client'[k].connected => client[k].connected
    BY <2>2 DEF Fewer
  <2> QED  BY <2>2, <2>3, <2>4, <2>5, <2>6, <2>7 DEF At
<1>8. CASE Leaves(k)
  <2>1. stack[k] # <<>> /\ Return(k) /\ Fewer
    BY <1>8, LeaveTyped, FewerClients
  <2>2. Rest /\ (stack'[k] # <<>> => Top(k)' \in Under(stack[k]))
    BY <1>0, <2>1, ActorReturns
  <2>3. stack'[k] # <<>> => Top(k)' \in CallerFrame
    BY <1>0, <2>2 DEF StackTyped
  <2> QED  BY <2>1, <2>2, <2>3, CallerIsNotConnecting DEF At, Connecting
<1>10. CASE DispatchHeld(k)
  <2>1. PICK g \in ThreadFrame :
                 stack[k] # <<>> /\ Continue(k, g) /\ g.pc \in {"heldend", "calldata"}
    BY <1>10, DispatchHeldTyped
  <2>2. Fewer
    BY <1>10, DispatchHeldTyped, FewerClients
  <2>3. Rest /\ Top(k)' = g
    BY <1>0, <2>1, ThreadGoes
  <2> QED  BY <2>1, <2>2, <2>3 DEF At, Connecting, Routeless
<1>11. CASE HeldEnd(k)
  <2>1. PICK f \in CallerFrame :
                 \/ Continue(k, f)
                 \/ \E g \in ThreadFrame : Call(k, f, g) /\ g.pc = "tcpclose"
    BY <1>11, HeldEndTyped
  <2>2. Fewer /\ stack[k] # <<>>
    BY <1>11, HeldEndTyped, FewerClients
  <2>3. CASE Continue(k, f)
    <3>1. f \in ThreadFrame
      BY DEF CallerFrame
    <3>2. Rest /\ Top(k)' = f
      BY <1>0, <2>2, <2>3, <3>1, ThreadGoes
    <3> QED  BY <2>2, <3>2, CallerIsNotConnecting DEF At, Connecting
  <2>4. ASSUME NEW g \in ThreadFrame, Call(k, f, g), g.pc = "tcpclose"
        PROVE  Rest /\ Kept
    <3>1. Rest /\ Top(k)' = g
      BY <1>0, <2>2, <2>4, ThreadCalls
    <3> QED  BY <2>4, <3>1 DEF At, Connecting, Routeless
  <2> QED  BY <2>1, <2>2, <2>3, <2>4
<1> QED  BY <1>4, <1>5, <1>6, <1>7, <1>8, <1>10, <1>11

LEMMA OwnCommon ==
    ASSUME TypeInv, Serials, Unique, Own, NEW x \in Actors,
           \/ Release(x) \/ Discard(x) \/ OnTcpData(x) \/ DispatchTcpClose(x) \/ OnTcpClose(x)
    PROVE  Own'
<1>0. /\ StackTyped /\ Clients \subseteq Actors /\ nextSerial \in Nat /\ ClientTyped
      /\ CallerFrame \subseteq ThreadFrame
      /\ x \in Clients => FrameOf(x) = ThreadFrame
  BY ActorsAssumption DEF TypeInv, Actors, PoolTyped, FrameOf, CallerFrame
<1>1. Known' \subseteq Known
  BY SerialsCommon
<1> DEFINE Rest == \A y \in Actors \ {x} : stack'[y] = stack[y]
           Kept == x \in Clients => ~At(x, "subscribe")' /\ (Connecting(x)' => ~client'[x].connected)
<1>2. SUFFICES Fewer /\ Rest /\ Kept
  BY <1>1, OwnKeep
<1>3. ASSUME stack[x] # <<>>, Return(x)
      PROVE  Rest /\ Kept
  <2>1. Rest /\ (stack'[x] # <<>> => Top(x)' \in Under(stack[x]))
    BY <1>0, <1>3, ActorReturns
  <2>2. x \in Clients /\ stack'[x] # <<>> => Top(x)' \in CallerFrame
    BY <1>0, <2>1 DEF StackTyped
  <2> QED  BY <2>1, <2>2, CallerIsNotConnecting DEF At, Connecting
<1>4. ASSUME stack[x] # <<>>, NEW g \in FrameOf(x), Continue(x, g), g.pc # "subscribe",
             x \in Clients /\ Routeless(g) => ~client'[x].connected
      PROVE  Rest /\ Kept
  <2>1. Rest /\ Top(x)' = g
    BY <1>0, <1>4, ActorGoes
  <2> QED  BY <1>4, <2>1 DEF At, Connecting
<1>5. ASSUME x \in Clients, stack[x] # <<>>, NEW f \in CallerFrame, NEW g \in ThreadFrame,
             Call(x, f, g), g.pc # "subscribe", Routeless(g) => ~client'[x].connected
      PROVE  Rest /\ Kept
  <2>1. Rest /\ Top(x)' = g
    BY <1>0, <1>5, ThreadCalls
  <2> QED  BY <1>5, <2>1 DEF At, Connecting
<1>6. CASE Release(x)
  <2>1. PICK g \in FrameOf(x) : Continue(x, g) /\ g.pc = "discard" /\ g.then = Top(x).then
    BY <1>6, ReleaseTyped
  <2>2. client' = client /\ stack[x] # <<>> /\ Top(x).pc = "release"
    BY <1>6, ReleaseTyped
  <2>3. x \in Clients /\ Routeless(g) => ~client[x].connected
    BY <2>1, <2>2 DEF Own, Connecting, Routeless
  <2> QED  BY <1>4, <2>1, <2>2, <2>3, FewerClients
<1>7. CASE Discard(x)
  <2>1. client' = client /\ stack[x] # <<>> /\ Top(x).pc = "discard"
    BY <1>7, DiscardTyped
  <2>2. CASE Return(x)
    BY <1>3, <2>1, <2>2, FewerClients
  <2>3. ASSUME NEW g \in FrameOf(x), Continue(x, g),
               \/ x \in Clients /\ g.pc = "alloc" /\ Routeless(Top(x))
               \/ x = Task /\ g.pc = "dispatchclose"
        PROVE  Rest /\ Kept
    <3>1. x \in Clients => ~client'[x].connected
      BY <2>1, <2>3, ActorsAssumption DEF Own, Connecting
    <3> QED  BY <1>4, <2>1, <2>3, <3>1
  <2> QED  BY <1>7, <2>1, <2>2, <2>3, DiscardTyped, FewerClients
<1>8. CASE OnTcpData(x)
  <2>1. stack[x] # <<>>
    BY <1>8, OnTcpDataTyped
  <2>2. CASE x = Task /\ Return(x) /\ client' = client
    BY <1>3, <2>1, <2>2, FewerClients
  <2>3. ASSUME x \in Clients, client' = client, NEW g \in ThreadFrame, Continue(x, g),
               g.pc = "heldend"
        PROVE  Fewer /\ Rest /\ Kept
    BY <1>0, <1>4, <2>1, <2>3, FewerClients DEF Routeless
  <2>4. ASSUME x \in Clients, client' = Cleared(x), NEW f \in CallerFrame, NEW g \in ThreadFrame,
               Call(x, f, g), g.pc = "unsubscribe"
        PROVE  Fewer /\ Rest /\ Kept
    BY <1>0, <1>5, <2>1, <2>4, FewerClients DEF Routeless
  <2> QED  BY <1>8, <2>2, <2>3, <2>4, OnTcpDataTyped
<1>9. CASE DispatchTcpClose(x)
  <2>1. stack[x] # <<>> /\ Fewer
    BY <1>9, DispatchTcpCloseTyped, FewerClients
  <2>2. CASE Return(x)
    BY <1>3, <2>1, <2>2
  <2>3. ASSUME NEW g \in FrameOf(x), Continue(x, g), g.pc \in {"callclose", "finish"}
        PROVE  Rest /\ Kept
    BY <1>4, <2>1, <2>3 DEF Routeless
  <2> QED  BY <1>9, <2>1, <2>2, <2>3, DispatchTcpCloseTyped
<1>10. CASE OnTcpClose(x)
  <2>1. PICK r \in Top(x).to :
                 /\ r \in Route /\ client' = Cleared(r.client)
                 /\ \/ Return(x)
                    \/ \E g \in FrameOf(x) : Continue(x, g) /\ g.pc \in {"callclose", "finish"}
                    \/ /\ x = r.client
                       /\ \E f \in CallerFrame : Call(x, f, ConnectFrame)
    BY <1>10, OnTcpCloseTyped
  <2>2. stack[x] # <<>> /\ r.client \in Clients
    BY <1>10, <2>1, OnTcpCloseTyped DEF Route
  <2>3. Fewer /\ ~client'[r.client].connected
    BY <1>0, <2>1, <2>2, FewerClients
  <2>4. CASE Return(x)
    BY <1>3, <2>2, <2>3, <2>4
  <2>5. ASSUME NEW g \in FrameOf(x), Continue(x, g), g.pc \in {"callclose", "finish"}
        PROVE  Rest /\ Kept
    BY <1>4, <2>2, <2>5 DEF Routeless
  <2>6. ASSUME x = r.client, NEW f \in CallerFrame, Call(x, f, ConnectFrame)
        PROVE  Rest /\ Kept
    <3>1. ConnectFrame \in ThreadFrame /\ ConnectFrame.pc = "alloc"
      BY <1>0, ConnectFrameTyped
    <3> QED  BY <1>5, <2>2, <2>3, <2>6, <3>1
  <2> QED  BY <2>1, <2>3, <2>4, <2>5, <2>6
<1> QED  BY <1>6, <1>7, <1>8, <1>9, <1>10

LEMMA OwnTask ==
    ASSUME TypeInv, Serials, Unique, Own,
           \/ RecordOpenResult \/ DispatchTcpData \/ OnDisconn \/ Module \/ Settle \/ UNCHANGED vars
    PROVE  Own'
<1>0. StackTyped /\ Clients \subseteq Actors /\ Task \in Actors /\ Task \notin Clients
  BY ActorsAssumption DEF TypeInv, Actors
<1>1. Known' \subseteq Known
  BY SerialsTask
<1>2. client' = client
  BY RecordTyped, DataTyped, OnDisconnTyped, ModuleStepTyped, SettleTyped DEF vars
<1>3. \/ stack' = stack
      \/ \E g \in TaskFrame : stack' = [stack EXCEPT ![Task] = <<g>>]
  BY RecordTyped, DataTyped, OnDisconnTyped, ModuleStepTyped, SettleTyped DEF vars
<1>4. \A y \in Actors \ {Task} : stack'[y] = stack[y]
  BY <1>0, <1>3, TaskBegins DEF Actors
<1> QED  BY <1>0, <1>1, <1>2, <1>4, OwnKeep, FewerClients

-----------------------------------------------------------------------------
(***************************************************************************)
(* Whose a cid in use is, as long as no cid was mistaken.                  *)
(***************************************************************************)
\* The connect with serial s does not have cid c.
Released(c, s) == ~(slots[c].used /\ slots[c].serial = s)

\* A close is held only for a cid that is free, or whose Connect is about to void it.
ClosedHeld ==
    \A c \in Cids : undelivered[c].closed =>
        \/ ~slots[c].used
        \/ \E k \in Clients : At(k, "taken") /\ Top(k).cid = c /\ Top(k).serial = slots[c].serial

\* The innermost call of k closes the connection of call f.
Closing(k, f) ==
    /\ stack[k] # <<>> /\ Top(k).pc \in {"tcpclose", "release"}
    /\ Top(k).cid = f.cid /\ Top(k).serial = f.serial

\* A call that will report a close, or reports it, does not have its cid any more.
CallSafe(k, f) ==
    /\ f.pc \in {"helddata", "calldata", "heldend"} /\ f.held.closed => Released(f.cid, f.serial)
    /\ f.pc = "dispatchclose" => Released(f.cid, f.serial) \/ Closing(k, f)

CallsSafe == \A k \in Clients : \A f \in Frames(stack[k]) : CallSafe(k, f)

\* A close is reported to routes whose connections do not have their cids any more.
ReportSafe(f) == f.pc = "callclose" => \A r \in f.to : Released(r.cid, r.serial)

ReportsSafe == \A x \in Actors : \A f \in Frames(stack[x]) : ReportSafe(f)

\* The receive task reports a close while the cid it released is in quarantine.
TaskSafe ==
    stack[Task] # <<>> /\ Top(Task).pc \in {"discard", "dispatchclose"} =>
        Top(Task).cid \in Settling /\ ~slots[Top(Task).cid].used

HasConnection(k, c) ==
    client[k].connected /\ client[k].cid = c /\ client[k].serial = slots[c].serial

Owned == \A c \in Cids : slots[c].used => \E k \in Clients : Holds(k, c) \/ HasConnection(k, c)

Ownership == ClosedHeld /\ CallsSafe /\ ReportsSafe /\ TaskSafe /\ Owned

CidInv == TypeInv /\ Serials /\ Unique /\ Own /\ (lapses = {} => Ownership)

\* A step of x that changes no slot.
LEMMA OwnershipKeep ==
    ASSUME TypeInv, Ownership, slots' = slots, NEW x \in Actors,
           \A y \in Actors \ {x} : stack'[y] = stack[y],
           \A c \in Cids : undelivered'[c].closed => undelivered[c].closed \/ ~slots[c].used,
           At(x, "taken") => ~undelivered'[Top(x).cid].closed,
           x \in Clients => quarantine' = quarantine,
           x \in Clients => \A f \in Frames(stack'[x]) : CallSafe(x, f)',
           \A f \in Frames(stack'[x]) : ReportSafe(f)',
           x = Task => TaskSafe',
           \A c \in Cids : slots[c].used =>
               /\ x \in Clients /\ Holds(x, c) =>
                      \E k \in Clients : Holds(k, c)' \/ HasConnection(k, c)'
               /\ \A j \in Clients : HasConnection(j, c) =>
                      \E k \in Clients : Holds(k, c)' \/ HasConnection(k, c)'
    PROVE  Ownership'
<1>0. Clients \subseteq Actors /\ Task \in Actors /\ (x # Task => x \in Clients)
  BY DEF Actors
<1>1. ASSUME NEW k \in Clients, k # x
      PROVE  stack'[k] = stack[k] /\ Top(k)' = Top(k)
  BY <1>0, <1>1 DEF Top
<1>2. ClosedHeld'
  <2>1. ASSUME NEW c \in Cids, undelivered'[c].closed, slots'[c].used
        PROVE  \E k \in Clients :
                  At(k, "taken")' /\ Top(k)'.cid = c /\ Top(k)'.serial = slots'[c].serial
    <3>1. PICK k \in Clients : At(k, "taken") /\ Top(k).cid = c /\ Top(k).serial = slots[c].serial
      BY <2>1 DEF Ownership, ClosedHeld
    <3>2. k # x
      BY <2>1, <3>1
    <3> QED  BY <1>1, <3>1, <3>2 DEF At
  <2> QED  BY <2>1 DEF ClosedHeld
<1>3. CallsSafe'
  <2>1. ASSUME NEW k \in Clients, NEW f \in Frames(stack'[k]), k # x
        PROVE  CallSafe(k, f)'
    <3>1. CallSafe(k, f)
      BY <1>1, <2>1 DEF Ownership, CallsSafe
    <3> QED  BY <1>1, <2>1, <3>1 DEF CallSafe, Closing, Released
  <2> QED  BY <2>1 DEF CallsSafe
<1>4. ReportsSafe'
  <2>1. ASSUME NEW y \in Actors, NEW f \in Frames(stack'[y]), y # x
        PROVE  ReportSafe(f)'
    BY <2>1 DEF Ownership, ReportsSafe, ReportSafe, Released
  <2> QED  BY <2>1 DEF ReportsSafe
<1>5. TaskSafe'
  <2>1. CASE x # Task
    <3>1. stack'[Task] = stack[Task] /\ Top(Task)' = Top(Task) /\ quarantine' = quarantine
      BY <1>0, <2>1 DEF Top
    <3> QED  BY <3>1 DEF Ownership, TaskSafe, Settling
  <2> QED  BY <2>1
<1>6. Owned'
  <2>1. ASSUME NEW c \in Cids, slots'[c].used
        PROVE  \E k \in Clients : Holds(k, c)' \/ HasConnection(k, c)'
    <3>1. PICK k \in Clients : Holds(k, c) \/ HasConnection(k, c)
      BY <2>1 DEF Ownership, Owned
    <3>2. CASE k # x /\ Holds(k, c)
      BY <1>1, <3>2 DEF Holds
    <3>3. CASE k = x \/ HasConnection(k, c)
      BY <2>1, <3>1, <3>3
    <3> QED  BY <3>1, <3>2, <3>3
  <2> QED  BY <2>1 DEF Owned
<1> QED  BY <1>2, <1>3, <1>4, <1>5, <1>6 DEF Ownership

\* A call whose thread is not about to release anything has released what it reports.
LEMMA UnderSafe ==
    ASSUME CallsSafe, NEW k \in Clients, stack[k] # <<>>,
           Top(k).pc \notin {"tcpclose", "release"}, slots' = slots
    PROVE  \A f \in Frames(stack[k]) : CallSafe(k, f)'
<1>1. ASSUME NEW f \in Frames(stack[k])
      PROVE  CallSafe(k, f)'
  <2>1. CallSafe(k, f) /\ ~Closing(k, f)
    BY DEF CallsSafe, Closing
  <2> QED  BY <2>1 DEF CallSafe, Released
<1> QED  BY <1>1

LEMMA ReportsKeep ==
    ASSUME ReportsSafe, slots' = slots, NEW x \in Actors
    PROVE  \A f \in Frames(stack[x]) : ReportSafe(f)'
  BY DEF ReportsSafe, ReportSafe, Released

\* A client keeps its connection.
LEMMA OwnersStay ==
    ASSUME SameClients \/ client' = client, slots' = slots, NEW c \in Cids, NEW j \in Clients,
           HasConnection(j, c)
    PROVE  HasConnection(j, c)'
  BY DEF HasConnection, SameClients

LEMMA OwnershipThread ==
    ASSUME CidInv, Ownership, NEW k \in Clients,
           \/ Connect(k) \/ Disconnect(k) \/ Advances(k) \/ Leaves(k) \/ Opened(k)
           \/ SubscribeTcp(k) \/ DispatchHeld(k) \/ HeldEnd(k)
    PROVE  Ownership'
<1>0. /\ TypeInv /\ StackTyped /\ k \in Actors /\ k # Task /\ ClientTyped /\ nextSerial \in Nat
      /\ CallsSafe /\ ReportsSafe /\ CallerFrame \subseteq ThreadFrame
      /\ undelivered \in [Cids -> Undelivered]
  BY ActorsAssumption DEF CidInv, TypeInv, Actors, PoolTyped, RouteTyped, Ownership, CallerFrame
<1>1. stack[k] # <<>> =>
        /\ Top(k) \in Frames(stack[k]) /\ Frames(stack[k]) = {Top(k)} \cup Under(stack[k])
        /\ Top(k).pc # "alloc" => Top(k).cid \in Cids
  BY <1>0, TopTyped, CidOfTop
<1>2. ~Nothing.closed
  BY NothingTyped
<1> DEFINE Rest == \A y \in Actors \ {k} : stack'[y] = stack[y]
           Kept(c) == \E j \in Clients : Holds(j, c)' \/ HasConnection(j, c)'
<1>3. CASE Connect(k)
  <2>1. /\ stack[k] = <<>> /\ stack' = [stack EXCEPT ![k] = <<ConnectFrame>>]
        /\ UNCHANGED <<slots, quarantine, undelivered, client>>
    BY <1>3 DEF Connect, poolVars, routeVars
  <2>2. ConnectFrame \in ThreadFrame /\ ConnectFrame.pc = "alloc"
    BY <1>0, ConnectFrameTyped
  <2>3. Rest /\ Frames(stack'[k]) = {ConnectFrame}
    BY <1>0, <2>1, <2>2, ThreadBegins
  <2>4. \A f \in Frames(stack'[k]) : CallSafe(k, f)' /\ ReportSafe(f)'
    BY <2>2, <2>3 DEF CallSafe, ReportSafe
  <2>5. ~At(k, "taken") /\ \A c \in Cids : ~Holds(k, c)
    BY <2>1 DEF At, Holds
  <2> QED  BY <1>0, <2>1, <2>3, <2>4, <2>5, OwnershipKeep, OwnersStay
<1>4. CASE Disconnect(k)
  <2>1. PICK g \in ThreadFrame :
                 /\ stack[k] = <<>> /\ stack' = [stack EXCEPT ![k] = <<g>>]
                 /\ g.pc = "unsubscribe" /\ g.cid = client[k].cid
                 /\ g.serial = client[k].serial
    BY <1>4, <1>0, DisconnectTyped
  <2>2. client' = Cleared(k) /\ UNCHANGED <<slots, quarantine, undelivered>>
    BY <1>4, <1>0, DisconnectTyped
  <2>3. Rest /\ Frames(stack'[k]) = {g} /\ stack'[k] # <<>> /\ Top(k)' = g
    BY <1>0, <2>1, ThreadBegins
  <2>4. \A f \in Frames(stack'[k]) : CallSafe(k, f)' /\ ReportSafe(f)'
    BY <2>1, <2>3 DEF CallSafe, ReportSafe
  <2>5. ~At(k, "taken") /\ \A c \in Cids : ~Holds(k, c)
    BY <2>1 DEF At, Holds
  <2>6. ASSUME NEW c \in Cids, NEW j \in Clients, HasConnection(j, c)
        PROVE  Kept(c)
    <3>1. CASE j = k
      BY <2>1, <2>2, <2>3, <2>6, <3>1 DEF HasConnection, Holds
    <3>2. CASE j # k
      BY <1>0, <2>2, <2>6, <3>2, ClearedTyped DEF HasConnection
    <3> QED  BY <3>1, <3>2
  <2> QED  BY <1>0, <2>2, <2>3, <2>4, <2>5, <2>6, OwnershipKeep
<1>5. CASE Advances(k)
  <2>1. PICK g \in ThreadFrame : Advance(k, g)
    BY <1>0, <1>5, AdvanceStep
  <2>2. UNCHANGED <<slots, quarantine>> /\ SameClients
    BY <1>0, <1>5, AdvanceStep, AdvanceTyped
  <2>3. /\ stack[k] # <<>> /\ Continue(k, g) /\ g.cid = Top(k).cid /\ g.serial = Top(k).serial
        /\ g.pc \in Holding /\ Top(k).pc \in Holding \ {"release"}
        /\ Top(k).pc = "tcpclose" => g.pc = "release"
    BY <2>1 DEF Advance, Holding
  <2>4. /\ Rest /\ stack'[k] # <<>> /\ Top(k)' = g
        /\ Frames(stack'[k]) = {g} \cup Under(stack[k])
    BY <1>0, <2>3, ThreadGoes
  <2>5. CallSafe(k, g)' /\ ReportSafe(g)'
    BY <2>3 DEF CallSafe, ReportSafe, Holding
  <2>6. ASSUME NEW f \in Under(stack[k])
        PROVE  CallSafe(k, f)'
    <3>1. CallSafe(k, f)
      BY <1>0, <1>1, <2>3 DEF CallsSafe
    <3>2. Closing(k, f) => Closing(k, f)'
      BY <2>3, <2>4 DEF Closing
    <3>3. Released(f.cid, f.serial) => Released(f.cid, f.serial)'
      BY <2>2 DEF Released
    <3> QED  BY <3>1, <3>2, <3>3 DEF CallSafe
  <2>7. \A f \in Frames(stack'[k]) : CallSafe(k, f)' /\ ReportSafe(f)'
    BY <1>0, <1>1, <2>2, <2>3, <2>4, <2>5, <2>6, ReportsKeep
  <2>8. \A c \in Cids : Holds(k, c) => Holds(k, c)'
    BY <2>2, <2>3, <2>4 DEF Holds, Holding
  <2>9. Top(k).cid \in Cids
    BY <1>1, <2>3 DEF Holding
  <2>10. /\ undelivered' = undelivered \/ undelivered' = [undelivered EXCEPT ![Top(k).cid] = Nothing]
         /\ At(k, "taken") => undelivered' = [undelivered EXCEPT ![Top(k).cid] = Nothing]
    BY <1>0, <1>5, AdvanceStep DEF At
  <2>11. /\ \A c \in Cids : undelivered'[c].closed => undelivered[c].closed \/ ~slots[c].used
         /\ At(k, "taken") => ~undelivered'[Top(k).cid].closed
    BY <1>0, <1>2, <2>9, <2>10
  <2> QED  BY <1>0, <2>2, <2>4, <2>7, <2>8, <2>11, OwnershipKeep, OwnersStay
<1>6. CASE Leaves(k)
  <2>1. /\ stack[k] # <<>> /\ Return(k) /\ SameClients
        /\ Top(k).pc \in {"alloc", "finish"} \/ (Top(k).pc = "tcpclose" /\ ~slots[Top(k).cid].used)
        /\ UNCHANGED <<slots, quarantine, undelivered>>
    BY <1>0, <1>6, LeaveTyped
  <2>2. Rest /\ Frames(stack'[k]) = Under(stack[k])
    BY <1>0, <2>1, ActorReturns
  <2>3. ASSUME NEW f \in Under(stack[k])
        PROVE  CallSafe(k, f)'
    <3>1. CallSafe(k, f)
      BY <1>0, <1>1, <2>1 DEF CallsSafe
    <3>2. Closing(k, f) => Released(f.cid, f.serial)
      BY <2>1 DEF Closing, Released
    <3> QED  BY <2>1, <3>1, <3>2 DEF CallSafe, Released
  <2>4. \A f \in Frames(stack'[k]) : CallSafe(k, f)' /\ ReportSafe(f)'
    BY <1>0, <1>1, <2>1, <2>2, <2>3, ReportsKeep
  <2>5. ~At(k, "taken") /\ \A c \in Cids : slots[c].used => ~Holds(k, c)
    BY <2>1 DEF At, Holds
  <2> QED  BY <1>0, <2>1, <2>2, <2>4, <2>5, OwnershipKeep, OwnersStay
<1>7. CASE Opened(k)
  <2>1. PICK g \in ThreadFrame :
                 /\ stack[k] # <<>> /\ Top(k).pc = "opened" /\ Continue(k, g)
                 /\ g.pc = "subscribe" /\ g.cid = Top(k).cid /\ g.serial = Top(k).serial
    BY <1>0, <1>7, OpenedTyped
  <2>2. /\ client'[k].connected /\ client'[k].cid = Top(k).cid /\ client'[k].serial = Top(k).serial
        /\ \A j \in Clients \ {k} : client'[j] = client[j]
        /\ UNCHANGED <<slots, quarantine, undelivered>>
    BY <1>0, <1>7, OpenedTyped
  <2>3. Rest /\ Frames(stack'[k]) = {g} \cup Under(stack[k])
    BY <1>0, <2>1, ThreadGoes
  <2>4. CallSafe(k, g)' /\ ReportSafe(g)'
    BY <2>1 DEF CallSafe, ReportSafe
  <2>5. \A f \in Frames(stack'[k]) : CallSafe(k, f)' /\ ReportSafe(f)'
    BY <1>0, <1>1, <2>1, <2>2, <2>3, <2>4, UnderSafe, ReportsKeep
  <2>6. ~client[k].connected
    BY <2>1 DEF CidInv, Own, Connecting, Routeless
  <2>7. ASSUME NEW c \in Cids, Holds(k, c)
        PROVE  Kept(c)
    BY <2>2, <2>7 DEF Holds, HasConnection
  <2>8. ASSUME NEW c \in Cids, NEW j \in Clients, HasConnection(j, c)
        PROVE  Kept(c)
    BY <2>2, <2>6, <2>8 DEF HasConnection
  <2>9. ~At(k, "taken")
    BY <2>1 DEF At
  <2> QED  BY <1>0, <2>2, <2>3, <2>5, <2>7, <2>8, <2>9, OwnershipKeep
<1>8. CASE SubscribeTcp(k)
  <2>1. PICK g \in ThreadFrame :
                 /\ stack[k] # <<>> /\ Top(k).pc = "subscribe" /\ Continue(k, g)
                 /\ g.pc = "helddata" /\ g.cid = Top(k).cid /\ g.serial = Top(k).serial
                 /\ g.held = undelivered[Top(k).cid]
    BY <1>0, <1>8, SubscribeTyped
  <2>2. /\ undelivered' = [undelivered EXCEPT ![Top(k).cid] = Nothing]
        /\ UNCHANGED <<slots, quarantine, client>>
    BY <1>0, <1>8, SubscribeTyped
  <2>3. Rest /\ Frames(stack'[k]) = {g} \cup Under(stack[k])
    BY <1>0, <2>1, ThreadGoes
  <2>4. g.held.closed => Released(g.cid, g.serial)
    <3>1. SUFFICES ASSUME undelivered[Top(k).cid].closed, slots[Top(k).cid].used
                   PROVE  slots[Top(k).cid].serial # Top(k).serial
      BY <2>1 DEF Released
    <3>2. PICK j \in Clients : At(j, "taken") /\ Top(j).serial = slots[Top(k).cid].serial
      BY <1>1, <2>1, <3>1 DEF Ownership, ClosedHeld
    <3>3. j # k /\ Top(j).serial \in Ours(j)
      BY <1>0, <2>1, <3>2, TopTyped, OwnSerial DEF At, Actors
    <3>4. Only(k, Top(k).serial)
      BY <2>1 DEF CidInv, Unique, Connecting, Routeless
    <3> QED  BY <3>2, <3>3, <3>4 DEF Only
  <2>5. CallSafe(k, g)' /\ ReportSafe(g)'
    BY <2>1, <2>2, <2>4 DEF CallSafe, ReportSafe, Released
  <2>6. \A f \in Frames(stack'[k]) : CallSafe(k, f)' /\ ReportSafe(f)'
    BY <1>0, <1>1, <2>1, <2>2, <2>3, <2>5, UnderSafe, ReportsKeep
  <2>7. ~At(k, "taken") /\ \A c \in Cids : ~Holds(k, c)
    BY <2>1 DEF At, Holds
  <2>8. \A c \in Cids : undelivered'[c].closed => undelivered[c].closed
    BY <1>0, <1>1, <1>2, <2>1, <2>2
  <2> QED  BY <1>0, <2>2, <2>3, <2>6, <2>7, <2>8, OwnershipKeep, OwnersStay
<1>9. CASE DispatchHeld(k)
  <2>1. PICK g \in ThreadFrame :
                 /\ stack[k] # <<>> /\ Top(k).pc = "helddata" /\ Continue(k, g)
                 /\ g.pc \in {"heldend", "calldata"} /\ g.cid = Top(k).cid
                 /\ g.serial = Top(k).serial /\ g.held = Top(k).held
    BY <1>0, <1>9, DispatchHeldTyped
  <2>2. /\ \A c \in Cids : undelivered'[c].closed => undelivered[c].closed
        /\ UNCHANGED <<slots, quarantine, client>>
    BY <1>0, <1>9, DispatchHeldTyped
  <2>3. Rest /\ Frames(stack'[k]) = {g} \cup Under(stack[k])
    BY <1>0, <2>1, ThreadGoes
  <2>4. CallSafe(k, Top(k))
    BY <1>0, <1>1, <2>1 DEF CallsSafe
  <2>5. CallSafe(k, g)' /\ ReportSafe(g)'
    BY <2>1, <2>2, <2>4 DEF CallSafe, ReportSafe, Released
  <2>6. \A f \in Frames(stack'[k]) : CallSafe(k, f)' /\ ReportSafe(f)'
    BY <1>0, <1>1, <2>1, <2>2, <2>3, <2>5, UnderSafe, ReportsKeep
  <2>7. ~At(k, "taken") /\ \A c \in Cids : ~Holds(k, c)
    BY <2>1 DEF At, Holds
  <2> QED  BY <1>0, <2>2, <2>3, <2>6, <2>7, OwnershipKeep, OwnersStay
<1>10. CASE HeldEnd(k)
  <2>1. PICK f \in CallerFrame :
                 /\ f.cid = Top(k).cid /\ f.serial = Top(k).serial
                 /\ \/ Continue(k, f) /\ f.pc = "dispatchclose" /\ Top(k).held.closed
                    \/ Continue(k, f) /\ f.pc = "finish"
                    \/ /\ f.pc = "dispatchclose"
                       /\ \E g \in ThreadFrame :
                             /\ Call(k, f, g) /\ g.pc = "tcpclose" /\ g.cid = f.cid
                             /\ g.serial = f.serial
    BY <1>0, <1>10, HeldEndTyped
  <2>2. /\ stack[k] # <<>> /\ Top(k).pc = "heldend"
        /\ UNCHANGED <<slots, quarantine, undelivered, client>>
    BY <1>0, <1>10, HeldEndTyped
  <2>3. ~At(k, "taken") /\ \A c \in Cids : ~Holds(k, c)
    BY <2>2 DEF At, Holds
  <2>4. CallSafe(k, Top(k)) /\ f \in ThreadFrame
    BY <1>0, <1>1, <2>2 DEF CallsSafe
  <2>5. ReportSafe(f)'
    BY <2>1 DEF ReportSafe
  <2>6. \A h \in Under(stack[k]) : CallSafe(k, h)' /\ ReportSafe(h)'
    BY <1>0, <1>1, <2>2, UnderSafe, ReportsKeep
  <2>7. CASE Continue(k, f) /\ (f.pc = "finish" \/ Top(k).held.closed)
    <3>1. Rest /\ Frames(stack'[k]) = {f} \cup Under(stack[k])
      BY <1>0, <2>2, <2>4, <2>7, ThreadGoes
    <3>2. CallSafe(k, f)'
      BY <2>1, <2>2, <2>4, <2>7 DEF CallSafe, Released
    <3>3. \A h \in Frames(stack'[k]) : CallSafe(k, h)' /\ ReportSafe(h)'
      BY <2>5, <2>6, <3>1, <3>2
    <3> QED  BY <1>0, <2>2, <2>3, <3>1, <3>3, OwnershipKeep, OwnersStay
  <2>8. ASSUME f.pc = "dispatchclose", NEW g \in ThreadFrame, Call(k, f, g), g.pc = "tcpclose",
               g.cid = f.cid, g.serial = f.serial
        PROVE  Ownership'
    <3>1. /\ Rest /\ Frames(stack'[k]) = {g} \cup ({f} \cup Under(stack[k]))
          /\ stack'[k] # <<>> /\ Top(k)' = g
      BY <1>0, <2>2, <2>8, ThreadCalls
    <3>2. CallSafe(k, f)' /\ CallSafe(k, g)' /\ ReportSafe(g)'
      BY <2>8, <3>1 DEF CallSafe, Closing, ReportSafe
    <3>3. \A h \in Frames(stack'[k]) : CallSafe(k, h)' /\ ReportSafe(h)'
      BY <2>5, <2>6, <3>1, <3>2
    <3> QED  BY <1>0, <2>2, <2>3, <3>1, <3>3, OwnershipKeep, OwnersStay
  <2> QED  BY <2>1, <2>7, <2>8
<1> QED  BY <1>3, <1>4, <1>5, <1>6, <1>7, <1>8, <1>9, <1>10

LEMMA TaskReturns ==
    ASSUME StackTyped, stack[Task] # <<>>, Return(Task)
    PROVE  stack'[Task] = <<>>
<1>1. Task \in Actors
  BY DEF Actors
<1>2. stack'[Task] # <<>> => Top(Task)' \in Under(stack[Task])
  BY <1>1, ActorReturns
<1> QED  BY <1>2 DEF StackTyped

\* A step that ends a call or goes on from one which has no cid of its own.
LEMMA OwnershipCommon ==
    ASSUME CidInv, Ownership, NEW x \in Actors,
           Discard(x) \/ OnTcpData(x) \/ DispatchTcpClose(x) \/ OnTcpClose(x), lapses' = {}
    PROVE  Ownership'
<1>0. /\ TypeInv /\ StackTyped /\ ClientTyped /\ nextSerial \in Nat
      /\ CallsSafe /\ ReportsSafe /\ TaskSafe /\ CallerFrame \subseteq ThreadFrame
      /\ undelivered \in [Cids -> Undelivered] /\ Task \in Actors /\ Task \notin Clients
      /\ (x # Task <=> x \in Clients) /\ (x \in Clients => FrameOf(x) = ThreadFrame)
      /\ Clients \subseteq Actors
  BY ActorsAssumption DEF CidInv, TypeInv, Actors, PoolTyped, RouteTyped, Ownership, CallerFrame,
                          FrameOf
<1>1. /\ stack[x] # <<>> /\ Top(x).pc \in {"discard", "calldata", "dispatchclose", "callclose"}
      /\ UNCHANGED <<slots, quarantine>>
  BY <1>0, DiscardTyped, OnTcpDataTyped, DispatchTcpCloseTyped, OnTcpCloseTyped
<1>2. /\ Top(x) \in Frames(stack[x]) /\ Frames(stack[x]) = {Top(x)} \cup Under(stack[x])
      /\ Top(x).cid \in Cids
  BY <1>0, <1>1, TopTyped, CidOfTop
<1>3. ~At(x, "taken") /\ \A c \in Cids : ~Holds(x, c)
  BY <1>1 DEF At, Holds
<1>4. \A f \in Under(stack[x]) : (x \in Clients => CallSafe(x, f)') /\ ReportSafe(f)'
  BY <1>0, <1>1, <1>2, UnderSafe, ReportsKeep
<1>5. x \in Clients => CallSafe(x, Top(x)) /\ ~Closing(x, Top(x))
  BY <1>0, <1>1, <1>2 DEF CallsSafe, Closing
<1> DEFINE Rest == \A y \in Actors \ {x} : stack'[y] = stack[y]
           Kept(c) == \E j \in Clients : Holds(j, c)' \/ HasConnection(j, c)'
           HeldKept == \A c \in Cids : undelivered'[c].closed => undelivered[c].closed \/ ~slots[c].used
           OwnersKept == \A c \in Cids : slots[c].used =>
                             \A j \in Clients : HasConnection(j, c) => Kept(c)
\* The three ways in which the stack changes.
<1>6. ASSUME Return(x), HeldKept, OwnersKept
      PROVE  Ownership'
  <2>1. Rest /\ Frames(stack'[x]) = Under(stack[x])
    BY <1>0, <1>1, <1>6, ActorReturns
  <2>2. x = Task => TaskSafe'
    BY <1>0, <1>1, <1>6, TaskReturns DEF TaskSafe
  <2> QED  BY <1>0, <1>1, <1>3, <1>4, <1>6, <2>1, <2>2, OwnershipKeep
<1>7. ASSUME NEW g \in FrameOf(x), Continue(x, g), HeldKept, OwnersKept,
             x \in Clients => CallSafe(x, g)', ReportSafe(g)',
             x = Task /\ g.pc = "dispatchclose" => Top(x).pc = "discard" /\ g.cid = Top(x).cid,
             g.pc # "discard"
      PROVE  Ownership'
  <2>1. /\ Rest /\ Frames(stack'[x]) = {g} \cup Under(stack[x])
        /\ stack'[x] # <<>> /\ Top(x)' = g
    BY <1>0, <1>1, <1>7, ActorGoes
  <2>2. x = Task => TaskSafe'
    BY <1>0, <1>1, <1>7, <2>1 DEF TaskSafe, Settling
  <2>3. \A f \in Frames(stack'[x]) : (x \in Clients => CallSafe(x, f)') /\ ReportSafe(f)'
    BY <1>4, <1>7, <2>1
  <2> QED  BY <1>0, <1>1, <1>3, <1>7, <2>1, <2>2, <2>3, OwnershipKeep
<1>8. ASSUME x \in Clients, NEW f \in CallerFrame, NEW g \in ThreadFrame, Call(x, f, g),
             HeldKept, OwnersKept, CallSafe(x, f)', CallSafe(x, g)', ReportSafe(f)', ReportSafe(g)'
      PROVE  Ownership'
  <2>1. Rest /\ Frames(stack'[x]) = {g} \cup ({f} \cup Under(stack[x]))
    BY <1>0, <1>1, <1>8, ThreadCalls
  <2>2. \A h \in Frames(stack'[x]) : CallSafe(x, h)' /\ ReportSafe(h)'
    BY <1>4, <1>8, <2>1
  <2> QED  BY <1>0, <1>1, <1>3, <1>8, <2>1, <2>2, OwnershipKeep
<1>9. client' = client => OwnersKept
  BY <1>1, OwnersStay
<1>10. CASE Discard(x)
  <2>1. /\ undelivered' = [undelivered EXCEPT ![Top(x).cid] = Nothing]
        /\ client' = client /\ Top(x).pc = "discard"
    BY <1>0, <1>10, DiscardTyped
  <2>2. HeldKept /\ OwnersKept
    BY <1>0, <1>2, <1>9, <2>1, NothingTyped
  <2>3. ASSUME NEW g \in FrameOf(x), Continue(x, g),
               \/ x \in Clients /\ g.pc = "alloc"
               \/ x = Task /\ g.pc = "dispatchclose" /\ g.cid = Top(x).cid
        PROVE  Ownership'
    <3>1. (x \in Clients => CallSafe(x, g)') /\ ReportSafe(g)'
      BY <1>0, <2>3 DEF CallSafe, ReportSafe
    <3> QED  BY <1>7, <2>1, <2>2, <2>3, <3>1
  <2> QED  BY <1>0, <1>6, <1>10, <2>2, <2>3, DiscardTyped
<1>11. CASE OnTcpData(x)
  <2>1. Top(x).pc = "calldata" /\ undelivered' = undelivered
    BY <1>0, <1>11, OnTcpDataTyped
  <2>2. HeldKept
    BY <2>1
  <2>3. CASE x = Task /\ Return(x) /\ client' = client
    BY <1>6, <1>9, <2>2, <2>3
  <2>4. ASSUME x \in Clients, client' = client, NEW g \in ThreadFrame, Continue(x, g),
               g.pc = "heldend", g.serial = Top(x).serial, g.cid = Top(x).cid,
               g.held = Top(x).held
        PROVE  Ownership'
    <3>1. CallSafe(x, g)' /\ ReportSafe(g)'
      BY <1>1, <1>5, <2>1, <2>4 DEF CallSafe, ReportSafe, Released
    <3> QED  BY <1>0, <1>7, <1>9, <2>2, <2>4, <3>1
  <2>5. ASSUME x \in Clients, client[x].connected, client' = Cleared(x), NEW f \in CallerFrame,
               NEW g \in ThreadFrame, Call(x, f, g), f.pc = "heldend", f.serial = Top(x).serial,
               f.cid = Top(x).cid, f.held = Top(x).held,
               g.pc = "unsubscribe", g.cid = client[x].cid, g.serial = client[x].serial
        PROVE  Ownership'
    <3>1. CallSafe(x, f)' /\ ReportSafe(f)'
      BY <1>1, <1>5, <2>1, <2>5 DEF CallSafe, ReportSafe, Released
    <3>2. CallSafe(x, g)' /\ ReportSafe(g)'
      BY <2>5 DEF CallSafe, ReportSafe
    <3>3. stack'[x] # <<>> /\ Top(x)' = g
      BY <1>0, <1>1, <2>5, ThreadCalls
    <3>4. ASSUME NEW c \in Cids, NEW j \in Clients, HasConnection(j, c)
          PROVE  Kept(c)
      <4>1. CASE j = x
        BY <1>1, <2>5, <3>3, <3>4, <4>1 DEF HasConnection, Holds
      <4>2. CASE j # x
        BY <1>0, <1>1, <2>5, <3>4, <4>2, ClearedTyped DEF HasConnection
      <4> QED  BY <4>1, <4>2
    <3> QED  BY <1>8, <2>2, <2>5, <3>1, <3>2, <3>4
  <2> QED  BY <1>0, <1>11, <2>3, <2>4, <2>5, OnTcpDataTyped
<1>12. CASE DispatchTcpClose(x)
  <2>1. /\ Top(x).pc = "dispatchclose" /\ client' = client /\ ~TakenByAnother(x)
        /\ \A c \in Cids \ {Top(x).cid} : undelivered'[c] = undelivered[c]
    BY <1>0, <1>12, DispatchTcpCloseTyped
  <2>2. ~slots[Top(x).cid].used
    <3>1. CASE x = Task
      BY <1>0, <1>1, <2>1, <3>1 DEF TaskSafe
    <3>2. CASE x \in Clients
      BY <1>5, <2>1, <3>2 DEF CallSafe, Released, TakenByAnother
    <3> QED  BY <1>0, <3>1, <3>2
  <2>3. HeldKept /\ OwnersKept
    BY <1>9, <2>1, <2>2
  <2>4. ASSUME NEW g \in FrameOf(x), Continue(x, g), g.serial = Top(x).serial, g.cid = Top(x).cid,
               \/ g.pc = "callclose" /\ g.to = RoutesOf(Top(x).cid)
               \/ x \in Clients /\ g.pc = "finish"
        PROVE  Ownership'
    <3>1. (x \in Clients => CallSafe(x, g)') /\ ReportSafe(g)'
      BY <1>1, <2>2, <2>4 DEF CallSafe, ReportSafe, RoutesOf, Released
    <3> QED  BY <1>7, <2>3, <2>4, <3>1
  <2> QED  BY <1>0, <1>6, <1>12, <2>3, <2>4, DispatchTcpCloseTyped
<1>13. CASE OnTcpClose(x)
  <2>1. PICK r \in Top(x).to :
                 /\ r \in Route /\ client' = Cleared(r.client)
                 /\ Stale(r) => lapses' # {}
                 /\ \/ Return(x)
                    \/ \E g \in FrameOf(x) :
                             /\ Continue(x, g) /\ g.pc \in {"callclose", "finish"}
                             /\ g.to \subseteq Top(x).to
                    \/ /\ x = r.client
                       /\ \E f \in CallerFrame :
                             /\ Call(x, f, ConnectFrame) /\ f.pc \in {"callclose", "finish"}
                             /\ f.to \subseteq Top(x).to
    BY <1>0, <1>13, OnTcpCloseTyped
  <2>2. Top(x).pc = "callclose" /\ undelivered' = undelivered
    BY <1>0, <1>13, OnTcpCloseTyped
  <2>3. \A q \in Top(x).to : Released(q.cid, q.serial)
    BY <1>0, <1>2, <2>2 DEF ReportsSafe, ReportSafe
  <2>4. RouteOwn(r) /\ r.client \in Clients /\ ~Stale(r)
    BY <1>0, <1>2, <2>1, KnownTyped DEF CidInv, Own, Route
  <2>5. ASSUME NEW c \in Cids, slots[c].used, NEW j \in Clients, HasConnection(j, c)
        PROVE  Kept(c)
    <3>1. CASE j = r.client
      <4>1. client[j].serial = r.serial /\ c = r.cid
        BY <2>4, <2>5, <3>1 DEF HasConnection, Stale, RouteOwn
      <4>2. Released(c, r.serial)
        BY <2>3, <4>1
      <4> QED  BY <2>5, <4>1, <4>2 DEF HasConnection, Released
    <3>2. CASE j # r.client
      BY <1>0, <1>1, <2>1, <2>4, <2>5, <3>2, ClearedTyped DEF HasConnection
    <3> QED  BY <3>1, <3>2
  <2>6. HeldKept /\ OwnersKept
    BY <2>2, <2>5
  <2>7. ASSUME NEW g \in Frame, g.pc \in {"callclose", "finish"}, g.to \subseteq Top(x).to
        PROVE  CallSafe(x, g)' /\ ReportSafe(g)'
    BY <1>1, <2>3, <2>7 DEF CallSafe, ReportSafe, Released
  <2>8. ASSUME NEW g \in FrameOf(x), Continue(x, g), g.pc \in {"callclose", "finish"},
               g.to \subseteq Top(x).to
        PROVE  Ownership'
    <3>1. g \in Frame
      BY DEF FrameOf, TaskFrame, ThreadFrame
    <3> QED  BY <1>7, <2>6, <2>7, <2>8, <3>1
  <2>9. ASSUME x = r.client, NEW f \in CallerFrame, Call(x, f, ConnectFrame),
               f.pc \in {"callclose", "finish"}, f.to \subseteq Top(x).to
        PROVE  Ownership'
    <3>1. PICK g \in ThreadFrame : g = ConnectFrame /\ g.pc = "alloc"
      BY <1>0, ConnectFrameTyped
    <3>2. CallSafe(x, g)' /\ ReportSafe(g)'
      BY <3>1 DEF CallSafe, ReportSafe
    <3>3. f \in Frame
      BY DEF CallerFrame, ThreadFrame
    <3>4. CallSafe(x, f)' /\ ReportSafe(f)'
      BY <2>7, <2>9, <3>3
    <3>5. Call(x, f, g) /\ x \in Clients
      BY <2>4, <2>9, <3>1
    <3> QED  BY <1>8, <2>6, <3>2, <3>4, <3>5
  <2> QED  BY <1>6, <2>1, <2>6, <2>8, <2>9
<1> QED  BY <1>10, <1>11, <1>12, <1>13

LEMMA TailKeeps ==
    ASSUME quarantine \in Seq(Cids), quarantine # <<>>, quarantine' = Tail(quarantine),
           NEW d \in Settling, d # Head(quarantine)
    PROVE  d \in Settling'
<1>1. PICK i \in 1 .. Len(quarantine) : quarantine[i] = d
  BY DEF Settling
<1>2. Len(quarantine) \in Nat /\ Head(quarantine) = quarantine[1]
  OBVIOUS
<1>3. i - 1 \in 1 .. Len(quarantine) - 1
  BY <1>1, <1>2
<1>4. Len(Tail(quarantine)) = Len(quarantine) - 1 /\ Tail(quarantine) \in Seq(Cids)
  BY <1>2
<1>5. Tail(quarantine)[i - 1] = d
  BY <1>1, <1>2, <1>3
<1>6. i - 1 \in DOMAIN Tail(quarantine)
  BY <1>3, <1>4
<1> QED  BY <1>5, <1>6 DEF Settling

LEMMA OwnershipTask ==
    ASSUME CidInv, Ownership,
           \/ RecordOpenResult \/ DispatchTcpData \/ OnDisconn \/ Module \/ Settle \/ UNCHANGED vars
    PROVE  Ownership'
<1>0. /\ TypeInv /\ StackTyped /\ ReportsSafe /\ TaskSafe /\ quarantine \in Seq(Cids)
      /\ Task \in Actors /\ Task \notin Clients
  BY ActorsAssumption DEF CidInv, TypeInv, Actors, PoolTyped, Ownership
<1>1. UNCHANGED <<slots, client>>
  BY <1>0, RecordTyped, DataTyped, OnDisconnTyped, ModuleStepTyped, SettleTyped DEF vars, poolVars
<1>2. \A c \in Cids : undelivered'[c].closed => undelivered[c].closed
  BY <1>0, RecordTyped, DataTyped, OnDisconnTyped, ModuleStepTyped, SettleTyped DEF vars, routeVars
<1>3. ~At(Task, "taken")
  BY <1>0, TopTyped DEF At, TaskFrame
<1>4. \/ stack' = stack
      \/ \E g \in TaskFrame : /\ stack' = [stack EXCEPT ![Task] = <<g>>]
                              /\ g.pc \in {"calldata", "release"}
  BY <1>0, RecordTyped, DataTyped, OnDisconnTyped, ModuleStepTyped, SettleTyped DEF vars
<1>5. CASE stack' = stack
  <2>1. \A f \in Frames(stack'[Task]) : ReportSafe(f)'
    BY <1>0, <1>1, <1>5, ReportsKeep
  <2>2. Top(Task)' = Top(Task)
    BY <1>5 DEF Top
  <2>3. TaskSafe'
    <3>1. CASE quarantine' = quarantine
      BY <1>0, <1>1, <1>5, <2>2, <3>1 DEF TaskSafe, Settling
    <3>2. CASE Settle
      <4>1. /\ quarantine # <<>> /\ quarantine' = Tail(quarantine)
            /\ stack[Task] # <<>> => Top(Task).cid # Head(quarantine)
        BY <1>0, <3>2, SettleTyped DEF TaskAt
      <4> QED  BY <1>0, <1>1, <1>5, <2>2, <4>1, TailKeeps DEF TaskSafe
    <3>3. quarantine' = quarantine \/ Settle
      BY <1>0, RecordTyped, DataTyped, OnDisconnTyped, ModuleStepTyped DEF vars, poolVars
    <3> QED  BY <3>1, <3>2, <3>3
  <2> QED  BY <1>0, <1>1, <1>2, <1>3, <1>5, <2>1, <2>3, OwnershipKeep, OwnersStay
<1>6. ASSUME NEW g \in TaskFrame, stack' = [stack EXCEPT ![Task] = <<g>>],
             g.pc \in {"calldata", "release"}
      PROVE  Ownership'
  <2>1. /\ \A y \in Actors \ {Task} : stack'[y] = stack[y]
        /\ stack'[Task] # <<>> /\ Top(Task)' = g /\ Frames(stack'[Task]) = {g}
    BY <1>0, <1>6, TaskBegins DEF Actors
  <2>2. TaskSafe' /\ \A f \in Frames(stack'[Task]) : ReportSafe(f)'
    BY <1>6, <2>1 DEF TaskSafe, ReportSafe
  <2> QED  BY <1>0, <1>1, <1>2, <1>3, <2>1, <2>2, OwnershipKeep, OwnersStay
<1> QED  BY <1>4, <1>5, <1>6

\* A Connect takes a cid, with a serial that only its innermost call knows.
LEMMA OwnershipAllocate ==
    ASSUME CidInv, Ownership, NEW k \in Clients, AllocateConnectionId(k), lapses' = {}
    PROVE  Ownership'
<1>0. /\ TypeInv /\ StackTyped /\ CallsSafe /\ ReportsSafe /\ TaskSafe /\ ClosedHeld /\ Owned
      /\ quarantine \in Seq(Cids) /\ slots \in [Cids -> [used : BOOLEAN, serial : Nat]]
      /\ Task \in Actors /\ k # Task /\ Clients \subseteq Actors
  BY ActorsAssumption DEF CidInv, TypeInv, Actors, PoolTyped, Ownership
<1>1. PICK g \in ThreadFrame, c \in Cids :
                 /\ stack[k] # <<>> /\ Top(k).pc = "alloc" /\ Continue(k, g)
                 /\ g.pc = "taken" /\ g.cid = c /\ g.serial = Top(k).serial
                 /\ slots' = [slots EXCEPT ![c] = [used |-> TRUE, serial |-> Top(k).serial]]
                 /\ quarantine' = Unsettled(c)
                 /\ c \in Settling => "settling" \in lapses'
  BY <1>0, AllocateTyped
<1>2. UNCHANGED <<undelivered, client>>
  BY <1>0, AllocateTyped
<1>3. /\ \A y \in Actors \ {k} : stack'[y] = stack[y]
      /\ stack'[k] # <<>> /\ Top(k)' = g
      /\ Frames(stack'[k]) = {g} \cup Under(stack[k])
  BY <1>0, <1>1, ThreadGoes
<1>4. Frames(stack[k]) = {Top(k)} \cup Under(stack[k])
  BY <1>0, <1>1, TopTyped
<1>5. Only(k, Top(k).serial)
  BY <1>1 DEF CidInv, Unique, Connecting, Routeless
<1>6. \A d \in Cids \ {c} : slots'[d] = slots[d]
  BY <1>0, <1>1
<1>7. ASSUME NEW d \in Cids, NEW t, Released(d, t), t # Top(k).serial
      PROVE  Released(d, t)'
  <2>1. slots'[c].serial = Top(k).serial
    BY <1>0, <1>1
  <2> QED  BY <1>6, <1>7, <2>1 DEF Released
<1>8. ASSUME NEW j \in Clients, j # k
      PROVE  stack'[j] = stack[j] /\ Top(j)' = Top(j)
  BY <1>0, <1>3, <1>8 DEF Top
<1>9. ClosedHeld'
  <2>1. ASSUME NEW d \in Cids, undelivered'[d].closed, slots'[d].used
        PROVE  \E j \in Clients :
                  At(j, "taken")' /\ Top(j)'.cid = d /\ Top(j)'.serial = slots'[d].serial
    <3>1. CASE d = c
      <4>1. slots'[c].serial = Top(k).serial
        BY <1>0, <1>1
      <4> QED  BY <1>1, <1>3, <3>1, <4>1 DEF At
    <3>2. CASE d # c
      <4>1. PICK j \in Clients : At(j, "taken") /\ Top(j).cid = d /\ Top(j).serial = slots[d].serial
        BY <1>0, <1>2, <1>6, <2>1, <3>2 DEF ClosedHeld
      <4>2. j # k
        BY <1>1, <4>1 DEF At
      <4> QED  BY <1>6, <1>8, <3>2, <4>1, <4>2 DEF At
    <3> QED  BY <3>1, <3>2
  <2> QED  BY <2>1 DEF ClosedHeld
<1>10. CallsSafe'
  <2>1. CallSafe(k, g)'
    BY <1>1 DEF CallSafe
  <2>2. ASSUME NEW j \in Clients, NEW f \in Frames(stack[j]), f.serial # Top(k).serial,
               Closing(j, f) => Closing(j, f)'
        PROVE  CallSafe(j, f)'
    <3>1. CallSafe(j, f)
      BY <1>0 DEF CallsSafe
    <3>2. f.pc # "alloc" => f.cid \in Cids
      BY <1>0 DEF StackTyped, ThreadFrame
    <3>3. f.pc # "alloc" /\ Released(f.cid, f.serial) => Released(f.cid, f.serial)'
      BY <1>7, <2>2, <3>2
    <3> QED  BY <2>2, <3>1, <3>3 DEF CallSafe
  <2>3. ASSUME NEW f \in Under(stack[k])
        PROVE  CallSafe(k, f)'
    <3>1. f \in Frames(stack[k]) /\ f.serial # Top(k).serial /\ ~Closing(k, f)
      BY <1>1, <1>4, <1>5 DEF Only, Closing
    <3> QED  BY <2>2, <3>1
  <2>4. ASSUME NEW j \in Clients, j # k, NEW f \in Frames(stack[j])
        PROVE  CallSafe(j, f)'
    <3>1. f.serial \in Ours(j)
      BY OwnSerial
    <3>2. f.serial # Top(k).serial
      BY <1>5, <2>4, <3>1 DEF Only
    <3>3. Closing(j, f) => Closing(j, f)'
      BY <1>8, <2>4 DEF Closing
    <3> QED  BY <2>2, <3>2, <3>3
  <2>5. ASSUME NEW j \in Clients, NEW f \in Frames(stack'[j])
        PROVE  CallSafe(j, f)'
    BY <1>3, <1>8, <2>1, <2>3, <2>4
  <2> QED  BY <2>5 DEF CallsSafe
<1>11. ReportsSafe'
  <2>1. ReportSafe(g)'
    BY <1>1 DEF ReportSafe
  <2>2. ASSUME NEW y \in Actors, NEW f \in Frames(stack[y]), f.pc = "callclose", NEW r \in f.to
        PROVE  Released(r.cid, r.serial)'
    <3>1. Released(r.cid, r.serial)
      BY <1>0, <2>2 DEF ReportsSafe, ReportSafe
    <3>2. r \in Known /\ r \in Route
      BY <1>0, KnownTyped
    <3>3. r.serial # Top(k).serial /\ r.cid \in Cids
      BY <1>5, <3>2 DEF Only, Route
    <3> QED  BY <1>7, <3>1, <3>3
  <2>3. \A y \in Actors : \A f \in Frames(stack[y]) : ReportSafe(f)'
    BY <2>2 DEF ReportSafe
  <2>4. ASSUME NEW y \in Actors, NEW f \in Frames(stack'[y])
        PROVE  ReportSafe(f)'
    BY <1>0, <1>3, <1>4, <2>1, <2>3
  <2> QED  BY <2>4 DEF ReportsSafe
<1>12. TaskSafe'
  <2>1. stack'[Task] = stack[Task] /\ Top(Task)' = Top(Task)
    BY <1>0, <1>3 DEF Top
  <2>2. c \notin Settling
    BY <1>1
  <2>3. ASSUME NEW d \in Settling
        PROVE  d \in Settling'
    <3>1. \E i \in DOMAIN Unsettled(c) : Unsettled(c)[i] = d
      BY <1>0, <2>2, UnsettledFacts
    <3>2. PICK i \in DOMAIN quarantine' : quarantine'[i] = d
      BY <1>1, <3>1
    <3> QED  BY <3>2 DEF Settling
  <2>4. stack[Task] # <<>> => Top(Task).cid \in Cids
    BY <1>0, CidOfTop
  <2> QED  BY <1>0, <1>6, <2>1, <2>2, <2>3, <2>4 DEF TaskSafe
<1>13. Owned'
  <2>1. ASSUME NEW d \in Cids, slots'[d].used
        PROVE  \E j \in Clients : Holds(j, d)' \/ HasConnection(j, d)'
    <3>1. CASE d = c
      <4>1. slots'[c].serial = Top(k).serial
        BY <1>0, <1>1
      <4>2. Holds(k, d)'
        BY <1>1, <1>3, <3>1, <4>1 DEF Holds
      <4> QED  BY <4>2
    <3>2. CASE d # c
      <4>1. PICK j \in Clients : Holds(j, d) \/ HasConnection(j, d)
        BY <1>0, <1>6, <2>1, <3>2 DEF Owned
      <4>2. Holds(j, d) => j # k
        BY <1>1 DEF Holds
      <4>3. Holds(j, d) => Holds(j, d)'
        BY <1>6, <1>8, <3>2, <4>2 DEF Holds
      <4>4. HasConnection(j, d) => HasConnection(j, d)'
        BY <1>2, <1>6, <3>2 DEF HasConnection
      <4> QED  BY <4>1, <4>3, <4>4
    <3> QED  BY <3>1, <3>2
  <2> QED  BY <2>1 DEF Owned
<1> QED  BY <1>9, <1>10, <1>11, <1>12, <1>13 DEF Ownership

\* ReleaseConnectionId frees a cid that no other connect has.
LEMMA OwnershipRelease ==
    ASSUME CidInv, Ownership, NEW x \in Actors, Release(x), lapses' = {}
    PROVE  Ownership'
<1>0. /\ TypeInv /\ StackTyped /\ CallsSafe /\ ReportsSafe /\ TaskSafe /\ ClosedHeld /\ Owned
      /\ quarantine \in Seq(Cids) /\ slots \in [Cids -> [used : BOOLEAN, serial : Nat]]
      /\ Task \in Actors /\ Clients \subseteq Actors
  BY DEF CidInv, TypeInv, Actors, PoolTyped, Ownership
<1>1. PICK g \in FrameOf(x) :
                 /\ Continue(x, g) /\ g.pc = "discard"
                 /\ g.cid = Top(x).cid /\ g.serial = Top(x).serial
  BY <1>0, ReleaseTyped
<1> DEFINE c == Top(x).cid
<1>2. /\ stack[x] # <<>> /\ Top(x).pc = "release" /\ c \in Cids
      /\ slots' = [slots EXCEPT ![c] = [used |-> FALSE, serial |-> 0]]
      /\ quarantine' = Append(Unsettled(c), c)
      /\ UNCHANGED <<undelivered, client>>
  BY <1>0, ReleaseTyped
<1>3. /\ \A y \in Actors \ {x} : stack'[y] = stack[y]
      /\ stack'[x] # <<>> /\ Top(x)' = g
      /\ Frames(stack'[x]) = {g} \cup Under(stack[x])
  BY <1>0, <1>1, <1>2, ActorGoes
<1>4. Frames(stack[x]) = {Top(x)} \cup Under(stack[x])
  BY <1>0, <1>2, TopTyped
<1>5. (\A d \in Cids \ {c} : slots'[d] = slots[d]) /\ ~slots'[c].used
  BY <1>0, <1>2
<1>6. ASSUME NEW d \in Cids, NEW t, Released(d, t) \/ d = c
      PROVE  Released(d, t)'
  BY <1>5, <1>6 DEF Released
<1>7. ASSUME NEW j \in Clients, j # x
      PROVE  stack'[j] = stack[j] /\ Top(j)' = Top(j)
  BY <1>0, <1>3, <1>7 DEF Top
<1>8. ClosedHeld'
  <2>1. ASSUME NEW d \in Cids, undelivered'[d].closed, slots'[d].used
        PROVE  \E j \in Clients :
                  At(j, "taken")' /\ Top(j)'.cid = d /\ Top(j)'.serial = slots'[d].serial
    <3>1. d # c /\ slots'[d] = slots[d]
      BY <1>5, <2>1
    <3>2. PICK j \in Clients : At(j, "taken") /\ Top(j).cid = d /\ Top(j).serial = slots[d].serial
      BY <1>0, <1>2, <2>1, <3>1 DEF ClosedHeld
    <3>3. j # x
      BY <1>2, <3>2 DEF At
    <3> QED  BY <1>7, <3>1, <3>2, <3>3 DEF At
  <2> QED  BY <2>1 DEF ClosedHeld
<1>9. CallsSafe'
  <2>1. ASSUME NEW j \in Clients, NEW f \in Frames(stack[j])
        PROVE  CallSafe(j, f)'
    <3>1. CallSafe(j, f)
      BY <1>0 DEF CallsSafe
    <3>2. f.pc # "alloc" => f.cid \in Cids
      BY <1>0 DEF StackTyped, ThreadFrame
    <3>3. f.pc # "alloc" /\ Released(f.cid, f.serial) => Released(f.cid, f.serial)'
      BY <1>6, <3>2
    <3>4. f.pc # "alloc" /\ Closing(j, f) => Closing(j, f)' \/ Released(f.cid, f.serial)'
      <4>1. CASE j = x
        BY <1>6, <3>2, <4>1 DEF Closing
      <4>2. CASE j # x
        BY <1>7, <4>2 DEF Closing
      <4> QED  BY <4>1, <4>2
    <3> QED  BY <3>1, <3>3, <3>4 DEF CallSafe
  <2>2. \A j \in Clients : CallSafe(j, g)'
    BY <1>1 DEF CallSafe
  <2>3. ASSUME NEW j \in Clients, NEW f \in Frames(stack'[j])
        PROVE  CallSafe(j, f)'
    BY <1>3, <1>4, <1>7, <2>1, <2>2
  <2> QED  BY <2>3 DEF CallsSafe
<1>10. ReportsSafe'
  <2>1. ReportSafe(g)'
    BY <1>1 DEF ReportSafe
  <2>2. ASSUME NEW y \in Actors, NEW f \in Frames(stack[y]), f.pc = "callclose", NEW r \in f.to
        PROVE  Released(r.cid, r.serial)'
    <3>1. Released(r.cid, r.serial)
      BY <1>0, <2>2 DEF ReportsSafe, ReportSafe
    <3>2. r.cid \in Cids
      BY <1>0, KnownTyped DEF Route
    <3> QED  BY <1>6, <3>1, <3>2
  <2>3. \A y \in Actors : \A f \in Frames(stack[y]) : ReportSafe(f)'
    BY <2>2 DEF ReportSafe
  <2>4. ASSUME NEW y \in Actors, NEW f \in Frames(stack'[y])
        PROVE  ReportSafe(f)'
    BY <1>3, <1>4, <2>1, <2>3
  <2> QED  BY <2>4 DEF ReportsSafe
<1>11. TaskSafe'
  <2>1. PICK u \in Seq(Cids) : u = Unsettled(c) /\ \A d \in Settling \ {c} :
                                                      \E i \in DOMAIN u : u[i] = d
    BY <1>0, <1>2, UnsettledFacts
  <2>2. quarantine' = Append(u, c)
    BY <1>2, <2>1
  <2>3. c \in Settling'
    <3>1. Len(u) + 1 \in DOMAIN Append(u, c) /\ Append(u, c)[Len(u) + 1] = c
      BY <1>2
    <3> QED  BY <2>2, <3>1 DEF Settling
  <2>4. ASSUME NEW d \in Settling
        PROVE  d \in Settling'
    <3>1. CASE d = c
      BY <2>3, <3>1
    <3>2. CASE d # c
      <4>1. PICK i \in DOMAIN u : u[i] = d
        BY <2>1, <3>2
      <4>2. i \in DOMAIN Append(u, c) /\ Append(u, c)[i] = d
        BY <1>2, <4>1
      <4> QED  BY <2>2, <4>2 DEF Settling
    <3> QED  BY <3>1, <3>2
  <2>5. CASE x = Task
    BY <1>1, <1>3, <1>5, <2>3, <2>5 DEF TaskSafe
  <2>6. CASE x # Task
    <3>1. stack'[Task] = stack[Task] /\ Top(Task)' = Top(Task)
      BY <1>0, <1>3, <2>6 DEF Top
    <3>2. stack[Task] # <<>> => Top(Task).cid \in Cids
      BY <1>0, CidOfTop
    <3> QED  BY <1>0, <1>5, <2>4, <3>1, <3>2 DEF TaskSafe
  <2> QED  BY <2>5, <2>6
<1>12. Owned'
  <2>1. ASSUME NEW d \in Cids, slots'[d].used
        PROVE  \E j \in Clients : Holds(j, d)' \/ HasConnection(j, d)'
    <3>1. d # c /\ slots'[d] = slots[d]
      BY <1>5, <2>1
    <3>2. PICK j \in Clients : Holds(j, d) \/ HasConnection(j, d)
      BY <1>0, <2>1, <3>1 DEF Owned
    <3>3. Holds(j, d) => Holds(j, d)'
      BY <1>7, <3>1 DEF Holds
    <3>4. HasConnection(j, d) => HasConnection(j, d)'
      BY <1>2, <3>1 DEF HasConnection
    <3> QED  BY <3>2, <3>3, <3>4
  <2> QED  BY <2>1 DEF Owned
<1> QED  BY <1>8, <1>9, <1>10, <1>11, <1>12 DEF Ownership

LEMMA LapsesStay ==
    ASSUME TypeInv, [Next]_vars
    PROVE  lapses \subseteq lapses'
<1>1. ASSUME NEW k \in Clients,
             \/ Connect(k) \/ Disconnect(k) \/ AllocateConnectionId(k) \/ Advances(k)
             \/ Leaves(k) \/ Opened(k) \/ SubscribeTcp(k) \/ DispatchHeld(k) \/ HeldEnd(k)
      PROVE  lapses \subseteq lapses'
  BY <1>1, DisconnectTyped, AllocateTyped, AdvanceStep, LeaveTyped, OpenedTyped,
     SubscribeTyped, DispatchHeldTyped, HeldEndTyped DEF Connect
<1>2. ASSUME NEW x \in Actors,
             \/ Release(x) \/ Discard(x) \/ OnTcpData(x) \/ DispatchTcpClose(x) \/ OnTcpClose(x)
      PROVE  lapses \subseteq lapses'
  BY <1>2, ReleaseTyped, DiscardTyped, OnTcpDataTyped, DispatchTcpCloseTyped, OnTcpCloseTyped
<1>3. CASE RecordOpenResult \/ DispatchTcpData \/ OnDisconn \/ Module \/ Settle \/ UNCHANGED vars
  BY <1>3, RecordTyped, DataTyped, OnDisconnTyped, ModuleStepTyped, SettleTyped DEF vars
<1> QED  BY <1>1, <1>2, <1>3, StepCases

LEMMA InitCidInv ==
    ASSUME Init
    PROVE  CidInv
<1>1. TypeInv
  BY InitTyped
<1>2. /\ \A x \in Actors : stack[x] = <<>>
      /\ routes = {} /\ nextSerial = 1
      /\ \A k \in Clients : client[k].serial = 0 /\ ~client[k].connected
      /\ \A c \in Cids : ~undelivered[c].closed /\ ~slots[c].used
  BY NothingTyped DEF Init
<1>3. /\ \A x \in Actors : Frames(stack[x]) = {} /\ Under(stack[x]) = {}
      /\ Clients \subseteq Actors /\ Task \in Actors
  BY <1>2, NoFrames DEF Actors
<1>4. Known = {} /\ \A k \in Clients : Ours(k) = {0}
  BY <1>2, <1>3 DEF Known, Ours
<1>5. Serials
  BY <1>2, <1>4 DEF Serials
<1>6. Unique /\ Own
  BY <1>2, <1>3, <1>4 DEF Unique, Own, Connecting, At
<1>7. Ownership
  BY <1>2, <1>3 DEF Ownership, ClosedHeld, CallsSafe, ReportsSafe, TaskSafe, Owned
<1> QED  BY <1>1, <1>5, <1>6, <1>7 DEF CidInv

LEMMA CidInvStep ==
    ASSUME CidInv, [Next]_vars
    PROVE  CidInv'
<1>1. TypeInv /\ Serials /\ Unique /\ Own
  BY DEF CidInv
<1>2. TypeInv' /\ Serials' /\ Unique'
  BY <1>1, TypeStep, SerialsStep
<1>3. Own'
  <2>1. ASSUME NEW k \in Clients,
               \/ Connect(k) \/ Disconnect(k) \/ AllocateConnectionId(k) \/ Advances(k)
               \/ Leaves(k) \/ Opened(k) \/ SubscribeTcp(k) \/ DispatchHeld(k) \/ HeldEnd(k)
        PROVE  Own'
    BY <1>1, <2>1, OwnThread, OwnOpened, OwnSubscribe
  <2> QED  BY <1>1, <2>1, OwnCommon, OwnTask, StepCases
<1>4. ASSUME lapses' = {}
      PROVE  Ownership'
  <2>1. Ownership
    BY <1>1, <1>4, LapsesStay DEF CidInv
  <2>2. ASSUME NEW k \in Clients,
               \/ Connect(k) \/ Disconnect(k) \/ AllocateConnectionId(k) \/ Advances(k)
               \/ Leaves(k) \/ Opened(k) \/ SubscribeTcp(k) \/ DispatchHeld(k) \/ HeldEnd(k)
        PROVE  Ownership'
    BY <1>4, <2>1, <2>2, OwnershipThread, OwnershipAllocate
  <2>3. ASSUME NEW x \in Actors,
               \/ Release(x) \/ Discard(x) \/ OnTcpData(x) \/ DispatchTcpClose(x) \/ OnTcpClose(x)
        PROVE  Ownership'
    BY <1>4, <2>1, <2>3, OwnershipRelease, OwnershipCommon
  <2> QED  BY <2>1, <2>2, <2>3, OwnershipTask, StepCases
<1> QED  BY <1>2, <1>3, <1>4 DEF CidInv

\* The invariant of the cids is inductive: what a close that is held, or under way, says
\* of the cid, and that the serial of a connect is in one call until its route exists.
THEOREM Ml307Invariant == Spec => []CidInv
<1>1. Init => CidInv
  BY InitCidInv
<1>2. CidInv /\ [Next]_vars => CidInv'
  BY CidInvStep
<1> QED  BY <1>1, <1>2, PTL DEF Spec

\* A cid in use belongs to a client that is connected on it or to a call that opens or
\* closes it, whatever the callbacks nested in SubscribeTcp and DispatchTcpClose do and
\* whatever Connect meets on its way, for any number of clients and of cids: no path of
\* HalTcpClient and Ml307Hal leaks one, unless a cid was mistaken for another's.
THEOREM Ml307UsedCidHasOwner == Spec => []UsedCidHasOwner
<1>1. CidInv => UsedCidHasOwner
  BY DEF CidInv, Ownership, Owned, HasConnection, UsedCidHasOwner
<1> QED  BY <1>1, Ml307Invariant, PTL
=============================================================================
