--------------------------- MODULE WsClientProofs ---------------------------
(***************************************************************************)
(* Proofs about the WebSocket client of WsClient: its types, that a        *)
(* connection has one owner at every moment, which makes the report of its *)
(* end come once, what an open client has, and that the frames it sends    *)
(* are whole messages.                                                     *)
(***************************************************************************)
EXTENDS WsClient, StackTheorems

-----------------------------------------------------------------------------
(* The inductive invariant: types. *)

MaybeTransport == {0} \cup Transports

ItemTypes == {"none", "accept", "refuse", "upgrade", "data", "ping", "pong", "close", "closed",
              "badclose", "invalid"}

Items == [type : ItemTypes, start : BOOLEAN, fin : BOOLEAN, m : MaybeTransport]

\* The calls that any thread can be in, and those that only some are in.
SharedPcs == {"give_up", "drop", "tell", "fail", "fail_close", "close", "close_frame", "refuse", "stop",
              "join"}
SetupPcs == {"establish", "create", "assign", "upgrade", "wait"}
AppPcs == SetupPcs \cup {"start", "up", "send_data", "store_ping"}
RxPcs == {"drain", "handle", "deliver", "answer"}
MtPcs == SetupPcs \cup {"loop", "store", "tick", "backoff", "failed", "reconnected"}

OwnPcs(x) == IF x = App THEN AppPcs ELSE IF x = Rx THEN RxPcs ELSE MtPcs

Frame ==
    [pc : SharedPcs \cup AppPcs \cup RxPcs \cup MtPcs, p : Items, parts : Seq(Items),
     own : MaybeTransport, t : MaybeTransport, open : BOOLEAN, n : 0 .. MaxRetries,
     then : {"none", "start", "close_frame", "refuse"}]

\* The frames on the stack of x when the links are l.  What is told of was open and
\* has been closed.
FramesOf(x, l) ==
    {f \in Frame :
        /\ f.pc \in SharedPcs \cup OwnPcs(x)
        /\ f.pc \in {"stop", "join"} =>
               f.then \in {"close_frame", "refuse"} \/ (x = App /\ f.then = "start")
        /\ f.pc \in {"drop", "tell"} => f.t \in Transports
        /\ f.pc = "tell" => f.open /\ l[f.t] = "closed"
        /\ f.pc \in {"assign", "upgrade", "wait"} => f.own \in Transports
        /\ f.pc = "send_data" => f.p.type = "data"}

\* The frames that are called by nobody.
Bottom ==
    {f \in Frame : f.pc \in AppPcs \cup RxPcs \cup MtPcs
                   \/ (f.pc \in {"stop", "join"} /\ f.then = "start")}

\* Establish, which makes no call that comes back.
SetupFrames == {f \in Frame : f.pc \in SetupPcs}

GoodStack(x, s, l) ==
    /\ s \in Seq(FramesOf(x, l)) /\ Depths(s, Bottom) \subseteq {0}
    /\ Depths(s, SetupFrames) # {} => Len(s) = 1

StackInv == DOMAIN stack = Actors /\ \A x \in Actors : GoodStack(x, stack[x], link)

\* Stack s has a frame in H.
Has(s, H) == Depths(s, H) # {}

Failing == {f \in Frame : f.pc \in {"fail", "fail_close", "give_up"}}

\* The message under way is longer than kMaxMessageBytes only while it is being failed.
ClientType ==
    /\ state \in {"down", "handshaking", "open"}
    /\ transport \in MaybeTransport
    /\ connected \in BOOLEAN /\ userClosed \in BOOLEAN
    /\ attempt \in 0 .. MaxRetries
    /\ exhausted \in BOOLEAN
    /\ hs \in {"none", "ok", "bad"}
    /\ rxBuf \in Seq(Items) /\ Len(rxBuf) <= MaxParts
    /\ frag \in [open : BOOLEAN, parts : Seq(Items)]
    /\ sendFrag \in BOOLEAN /\ closeSent \in BOOLEAN

FragInv ==
    /\ Len(frag.parts) <= MaxParts + 1
    /\ Len(frag.parts) = MaxParts + 1 => Has(stack[Rx], Failing)

MtType ==
    /\ config \in BOOLEAN \X Schedules
    /\ mtTask \in BOOLEAN /\ mtRunning \in BOOLEAN
    /\ ping \in {"none", "sent", "overdue"}

LinkType ==
    /\ link \in [Transports -> {"none", "open", "silent", "closed"}]
    /\ wire \in [Transports -> Seq(Items)]
    /\ server \in [on : MaybeTransport, sending : BOOLEAN, receiving : BOOLEAN, malformed : BOOLEAN]
    /\ recent \in BOOLEAN

Lapses == {"strayed", "raced", "zombie", "late", "fragment", "unsent", "stale"}

HistoryType ==
    /\ budget \in 0 .. MaxEvents
    /\ opened \subseteq Transports
    /\ told \in [Transports -> {0, 1}]
    /\ lapses \subseteq Lapses

TypeInv == StackInv /\ ClientType /\ FragInv /\ MtType /\ LinkType /\ HistoryType

-----------------------------------------------------------------------------
(* The inductive invariant: the owner of a connection. *)

\* The frames that own transport t: Establish until it is transport_, and the Teardown
\* that took it until it has been reported.
Holding(t) ==
    {f \in Frame : (f.pc = "assign" /\ f.own = t) \/ (f.pc \in {"drop", "tell"} /\ f.t = t)}

\* A transport is owned by one frame, by transport_ or by nobody.
OneOwner(t) ==
    /\ \A x, y \in Actors : \A d \in Depths(stack[x], Holding(t)), e \in Depths(stack[y], Holding(t)) :
           x = y /\ d = e
    /\ \A x \in Actors : Has(stack[x], Holding(t)) => transport # t /\ told[t] = 0 /\ link[t] # "none"
    /\ transport = t => told[t] = 0 /\ link[t] # "none"
    /\ told[t] = 1 => link[t] = "closed"

OwnerInv == \A t \in Transports : OneOwner(t)

Starting == {f \in Frame : f.pc = "start"}

\* The task that Connect is about to start is not there, nor has it a stack without
\* being there.
TaskInv ==
    /\ Has(stack[App], Starting) => ~mtTask
    /\ stack[Mt] # <<>> => mtTask

BaseInv == TypeInv /\ OwnerInv /\ TaskInv

-----------------------------------------------------------------------------
(* What a step does to the calls of a thread. *)

\* The frames that own no transport; the frames that are not a callback's close.
Quiet == {f \in Frame : f.pc \notin {"assign", "drop", "tell"}}
Noted == {f \in Frame : f.pc # "close"}

\* A connection that is closed stays closed, and one that has been made has been made.
ClosedStays == \A t \in Transports : link[t] = "closed" => link'[t] = "closed"
NoneStays == \A t \in Transports : link'[t] = "none" => link[t] = "none"

\* The calls r become the calls s: the frames N have come, and only the innermost of r
\* can have gone.  A call that nobody called was the only one.
Became(r, s, N) ==
    \A H : H \subseteq Noted =>
        /\ Has(s, H) => Has(r, H) \/ N \cap H # {}
        /\ N \cap H # {} => Has(s, H)
        /\ Has(r, H) => Has(s, H) \/ (r # <<>> /\ Head(r) \in H)
        /\ (r = <<>> \/ Head(r) \in Bottom) /\ Has(s, H) => N \cap H # {}

\* s and r have the frames that own a transport at the same depths.
SameOwners(s, r) == \A H : H \cap Quiet = {} => Depths(s, H) = Depths(r, H)

\* x is to go on with the calls s, of which N are new.
Turns(x, s, N) == GoodStack(x, s, link') /\ Became(stack[x], s, N)

Moved(x, N) ==
    /\ \A y \in Actors \ {x} : stack'[y] = stack[y]
    /\ Became(stack[x], stack'[x], N)

LEMMA ActorFacts ==
    /\ App \in Actors /\ Rx \in Actors /\ Mt \in Actors
    /\ App # Rx /\ App # Mt /\ Rx # Mt
    /\ \A x \in Actors : x = App \/ x = Rx \/ x = Mt
  BY ActorsAssumption DEF Actors

LEMMA FramesGrow ==
    ASSUME ClosedStays, NEW x
    PROVE  FramesOf(x, link) \subseteq FramesOf(x, link')
  BY DEF ClosedStays, FramesOf

LEMMA GoodGrows ==
    ASSUME ClosedStays, NEW x, NEW s, GoodStack(x, s, link)
    PROVE  GoodStack(x, s, link')
  BY FramesGrow, StackGrows DEF GoodStack

LEMMA StackSet ==
    ASSUME StackInv, ClosedStays, NEW x \in Actors, NEW s, SetStack(x, s),
           GoodStack(x, s, link')
    PROVE  /\ StackInv'
           /\ stack'[x] = s
           /\ \A y \in Actors \ {x} : stack'[y] = stack[y]
<1>1. /\ DOMAIN stack' = Actors /\ stack'[x] = s
      /\ \A y \in Actors \ {x} : stack'[y] = stack[y]
  BY DEF StackInv, SetStack
<1>2. ASSUME NEW y \in Actors
      PROVE  GoodStack(y, stack'[y], link')
  <2>1. CASE y = x
    BY <1>1, <2>1
  <2>2. CASE y # x
    <3>1. GoodStack(y, stack[y], link)
      BY DEF StackInv
    <3> QED  BY <1>1, <2>2, <3>1, GoodGrows
  <2> QED  BY <2>1, <2>2
<1> QED  BY <1>1, <1>2 DEF StackInv

LEMMA StacksStay ==
    ASSUME StackInv, ClosedStays, UNCHANGED stack
    PROVE  StackInv'
<1>1. ASSUME NEW y \in Actors
      PROVE  GoodStack(y, stack'[y], link')
  <2>1. GoodStack(y, stack[y], link)
    BY DEF StackInv
  <2> QED  BY <2>1, GoodGrows
<1> QED  BY <1>1 DEF StackInv

\* The innermost call of a thread that is in one.
LEMMA OnTop ==
    ASSUME StackInv, NEW x \in Actors, stack[x] # <<>>
    PROVE  /\ Top(x) \in FramesOf(x, link) /\ Top(x) \in Frame
           /\ stack[x] \in Seq(FramesOf(x, link))
           /\ Len(stack[x]) \in Nat /\ Len(stack[x]) > 0
           /\ \A H : Len(stack[x]) - 1 \in Depths(stack[x], H) <=> Top(x) \in H
           /\ Depths(stack[x], Bottom) \subseteq {0}
<1>1. stack[x] \in Seq(FramesOf(x, link)) /\ Depths(stack[x], Bottom) \subseteq {0}
  BY DEF StackInv, GoodStack
<1>2. /\ Head(stack[x]) \in FramesOf(x, link)
      /\ Len(stack[x]) \in Nat /\ Len(stack[x]) > 0
      /\ \A H : Len(stack[x]) - 1 \in Depths(stack[x], H) <=> Head(stack[x]) \in H
  BY <1>1, StackType
<1> QED  BY <1>1, <1>2 DEF Top, FramesOf

\* The innermost call is one of the thread's.
LEMMA TopHas ==
    ASSUME StackInv, NEW x \in Actors, stack[x] # <<>>, NEW H, Top(x) \in H
    PROVE  Has(stack[x], H)
  BY OnTop DEF Has

\* A call that nobody called is the only one of its thread.
LEMMA AloneOnTop ==
    ASSUME StackInv, NEW x \in Actors, stack[x] # <<>>, Top(x) \in Bottom
    PROVE  /\ Tail(stack[x]) = <<>> /\ stack[x] = <<Top(x)>>
           /\ \A H : Depths(stack[x], H) = IF Top(x) \in H THEN {0} ELSE {}
<1>1. Tail(stack[x]) = <<>> /\ stack[x] = <<Top(x)>>
  BY OnTop, BottomOnTop DEF Top
<1> QED  BY <1>1, OnTop, Single

\* A thread that is in Establish is in nothing else.
LEMMA SetupOnTop ==
    ASSUME StackInv, NEW x \in Actors, stack[x] # <<>>
    PROVE  Has(stack[x], SetupFrames) => Top(x) \in SetupFrames /\ Top(x) \in Bottom
<1> SUFFICES ASSUME Depths(stack[x], SetupFrames) # {}
             PROVE  Top(x) \in SetupFrames
  BY DEF Has, SetupFrames, Bottom, AppPcs
<1>1. Len(stack[x]) = 1
  BY DEF StackInv, GoodStack
<1>2. Depths(stack[x], SetupFrames) \subseteq Depths(stack[x], Bottom)
  BY DEF Depths, SetupFrames, Bottom, AppPcs
<1>3. Depths(stack[x], Bottom) \subseteq {0}
  BY OnTop
<1>4. Len(stack[x]) - 1 = 0
  BY <1>1
<1>5. 0 \in Depths(stack[x], SetupFrames)
  BY <1>2, <1>3
<1>6. Len(stack[x]) - 1 \in Depths(stack[x], SetupFrames)
  BY <1>4, <1>5
<1> QED  BY <1>6, OnTop

-----------------------------------------------------------------------------
(* The ways in which the calls of a thread go on. *)

LEMMA GoesOn ==
    ASSUME StackInv, ClosedStays, NEW x \in Actors, stack[x] # <<>>, NEW g,
           g \in FramesOf(x, link'), g \in Bottom => Top(x) \in Bottom
    PROVE  /\ Turns(x, <<g>> \o Tail(stack[x]), {g})
           /\ Top(x) \in Quiet /\ g \in Quiet => SameOwners(<<g>> \o Tail(stack[x]), stack[x])
           /\ \A H : Depths(<<g>> \o Tail(stack[x]), H) =
                         (Depths(stack[x], H) \ {Len(stack[x]) - 1})
                             \cup (IF g \in H THEN {Len(stack[x]) - 1} ELSE {})
<1> DEFINE s == <<g>> \o Tail(stack[x])
           r == stack[x]
           k == Len(stack[x]) - 1
<1>1. stack[x] \in Seq(FramesOf(x, link')) /\ Len(stack[x]) \in Nat /\ Len(stack[x]) > 0
  BY OnTop, FramesGrow, StackGrows
<1>2. /\ s \in Seq(FramesOf(x, link'))
      /\ \A H : Depths(s, H) = (Depths(r, H) \ {k}) \cup (IF g \in H THEN {k} ELSE {})
      /\ Len(s) = Len(r)
  BY <1>1, Replaced
<1>3. \A H : k \in Depths(r, H) <=> Top(x) \in H
  BY OnTop
<1>4. Depths(r, Bottom) \subseteq {0}
  BY OnTop
<1>5. Top(x) \in Bottom => \A H : Depths(r, H) \subseteq {k}
  <2> SUFFICES ASSUME Top(x) \in Bottom, NEW H PROVE Depths(r, H) \subseteq {k}
    OBVIOUS
  <2>1. Depths(r, H) = IF Top(x) \in H THEN {0} ELSE {}
    BY AloneOnTop
  <2> QED  BY <1>3, <2>1
<1>6. r # <<>> /\ Head(r) = Top(x)
  BY DEF Top
<1>a. Depths(s, SetupFrames) # {} => Len(r) = 1
  <2>1. Top(x) \in Bottom => Len(r) = 1
    <3>1. Top(x) \in Bottom => r = <<Top(x)>>
      BY AloneOnTop
    <3>2. Len(<<Top(x)>>) = 1
      OBVIOUS
    <3> QED  BY <3>1, <3>2
  <2>2. g \in SetupFrames => Top(x) \in Bottom
    BY DEF SetupFrames, Bottom, AppPcs
  <2>3. Depths(r, SetupFrames) # {} => Top(x) \in Bottom
    BY SetupOnTop DEF Has
  <2> HIDE DEF s, r, k
  <2> QED  BY <1>2, <2>1, <2>2, <2>3
<1> HIDE DEF s, r, k
<1>7. GoodStack(x, s, link')
  BY <1>2, <1>3, <1>4, <1>a DEF GoodStack
<1>8. Became(r, s, {g})
  <2> SUFFICES ASSUME NEW H
               PROVE  /\ Has(s, H) => Has(r, H) \/ {g} \cap H # {}
                      /\ {g} \cap H # {} => Has(s, H)
                      /\ Has(r, H) => Has(s, H) \/ Top(x) \in H
                      /\ Top(x) \in Bottom /\ Has(s, H) => {g} \cap H # {}
    BY <1>6 DEF Became
  <2>1. Depths(s, H) = (Depths(r, H) \ {k}) \cup (IF g \in H THEN {k} ELSE {})
    BY <1>2
  <2>2. k \in Depths(r, H) <=> Top(x) \in H
    BY <1>3
  <2>3. Top(x) \in Bottom => Depths(r, H) \subseteq {k}
    BY <1>5
  <2> QED  BY <2>1, <2>2, <2>3 DEF Has
<1>9. Top(x) \in Quiet /\ g \in Quiet => SameOwners(s, r)
  <2> SUFFICES ASSUME Top(x) \in Quiet, g \in Quiet, NEW H, H \cap Quiet = {}
               PROVE  Depths(s, H) = Depths(r, H)
    BY DEF SameOwners
  <2>1. g \notin H /\ Top(x) \notin H
    OBVIOUS
  <2>2. k \notin Depths(r, H) /\ Depths(s, H) = Depths(r, H) \ {k}
    BY <1>2, <1>3, <2>1
  <2> QED  BY <2>2
<1> QED  BY <1>2, <1>7, <1>8, <1>9 DEF s, r, k, Turns

LEMMA Returns ==
    ASSUME StackInv, ClosedStays, NEW x \in Actors, stack[x] # <<>>
    PROVE  /\ Turns(x, Tail(stack[x]), {})
           /\ Top(x) \in Quiet => SameOwners(Tail(stack[x]), stack[x])
           /\ \A H : Depths(Tail(stack[x]), H) = Depths(stack[x], H) \ {Len(stack[x]) - 1}
<1> DEFINE s == Tail(stack[x])
           r == stack[x]
           k == Len(stack[x]) - 1
<1>1. stack[x] \in Seq(FramesOf(x, link')) /\ Len(stack[x]) \in Nat /\ Len(stack[x]) > 0
  BY OnTop, FramesGrow, StackGrows
<1>2. s \in Seq(FramesOf(x, link')) /\ \A H : Depths(s, H) = Depths(r, H) \ {k}
  BY <1>1, Popped
<1>3. \A H : k \in Depths(r, H) <=> Top(x) \in H
  BY OnTop
<1>4. Depths(r, Bottom) \subseteq {0}
  BY OnTop
<1>5. Top(x) \in Bottom => \A H : Depths(r, H) \subseteq {k}
  <2> SUFFICES ASSUME Top(x) \in Bottom, NEW H PROVE Depths(r, H) \subseteq {k}
    OBVIOUS
  <2>1. Depths(r, H) = IF Top(x) \in H THEN {0} ELSE {}
    BY AloneOnTop
  <2> QED  BY <1>3, <2>1
<1>6. r # <<>> /\ Head(r) = Top(x)
  BY DEF Top
<1>a. Depths(r, SetupFrames) # {} => Top(x) \in Bottom
  BY SetupOnTop DEF Has
<1> HIDE DEF s, r, k
<1>b. Depths(s, SetupFrames) = {}
  BY <1>2, <1>5, <1>a
<1>7. GoodStack(x, s, link')
  BY <1>2, <1>3, <1>4, <1>b DEF GoodStack
<1>8. Became(r, s, {})
  <2> SUFFICES ASSUME NEW H
               PROVE  /\ Has(s, H) => Has(r, H)
                      /\ Has(r, H) => Has(s, H) \/ Top(x) \in H
                      /\ Top(x) \in Bottom => ~Has(s, H)
    BY <1>6 DEF Became
  <2>1. Depths(s, H) = Depths(r, H) \ {k}
    BY <1>2
  <2>2. k \in Depths(r, H) <=> Top(x) \in H
    BY <1>3
  <2>3. Top(x) \in Bottom => Depths(r, H) \subseteq {k}
    BY <1>5
  <2> QED  BY <2>1, <2>2, <2>3 DEF Has
<1>9. Top(x) \in Quiet => SameOwners(s, r)
  <2> SUFFICES ASSUME Top(x) \in Quiet, NEW H, H \cap Quiet = {}
               PROVE  Depths(s, H) = Depths(r, H)
    BY DEF SameOwners
  <2>1. Top(x) \notin H
    OBVIOUS
  <2>2. k \notin Depths(r, H) /\ Depths(s, H) = Depths(r, H) \ {k}
    BY <1>2, <1>3, <2>1
  <2> QED  BY <2>2
<1> QED  BY <1>2, <1>7, <1>8, <1>9 DEF s, r, k, Turns

\* A thread that is idle, or in a call that nobody called, goes on with no call, with
\* one or with two.
LEMMA Anew ==
    ASSUME StackInv, NEW x \in Actors, stack[x] = <<>> \/ Top(x) \in Bottom,
           NEW s, GoodStack(x, s, link'), NEW N,
           \A H : Has(s, H) <=> N \cap H # {},
           stack[x] = <<>> \/ Top(x) \in Quiet, N \subseteq Quiet
    PROVE  Turns(x, s, N) /\ SameOwners(s, stack[x])
<1> DEFINE r == stack[x]
<1>1. ASSUME NEW H
      PROVE  Depths(r, H) = IF r # <<>> /\ Head(r) \in H THEN {0} ELSE {}
  <2>1. CASE r = <<>>
    BY <2>1, Empty
  <2>2. CASE r # <<>>
    BY <2>2, AloneOnTop DEF Top
  <2> QED  BY <2>1, <2>2
<1>2. Became(r, s, N)
  <2> SUFFICES ASSUME NEW H
               PROVE  /\ Has(s, H) <=> N \cap H # {}
                      /\ Has(r, H) => (r # <<>> /\ Head(r) \in H)
    BY DEF Became
  <2> QED  BY <1>1 DEF Has
<1>3. SameOwners(s, r)
  <2> SUFFICES ASSUME NEW H, H \cap Quiet = {}
               PROVE  Depths(s, H) = Depths(r, H)
    BY DEF SameOwners
  <2>1. N \cap H = {}
    OBVIOUS
  <2>2. Depths(s, H) = {}
    BY <2>1 DEF Has
  <2>3. Depths(r, H) = {}
    BY <1>1 DEF Top
  <2> QED  BY <2>2, <2>3
<1> QED  BY <1>2, <1>3 DEF Turns

LEMMA NoCall ==
    ASSUME StackInv, NEW x \in Actors, stack[x] = <<>> \/ (Top(x) \in Bottom /\ Top(x) \in Quiet)
    PROVE  Turns(x, <<>>, {}) /\ SameOwners(<<>>, stack[x])
<1>1. GoodStack(x, <<>>, link') /\ \A H : ~Has(<<>>, H)
  BY Empty DEF GoodStack, Has
<1> QED  BY <1>1, Anew

LEMMA OneCall ==
    ASSUME StackInv, NEW x \in Actors, stack[x] = <<>> \/ (Top(x) \in Bottom /\ Top(x) \in Quiet),
           NEW g, g \in FramesOf(x, link'), g \in Quiet
    PROVE  Turns(x, <<g>>, {g}) /\ SameOwners(<<g>>, stack[x])
<1>1. /\ <<g>> \in Seq(FramesOf(x, link'))
      /\ \A H : Depths(<<g>>, H) = IF g \in H THEN {0} ELSE {}
  BY Single
<1>2. GoodStack(x, <<g>>, link') /\ \A H : Has(<<g>>, H) <=> {g} \cap H # {}
  BY <1>1 DEF GoodStack, Has
<1> QED  BY <1>2, Anew

LEMMA TwoCalls ==
    ASSUME StackInv, NEW x \in Actors, stack[x] = <<>> \/ (Top(x) \in Bottom /\ Top(x) \in Quiet),
           NEW g, g \in FramesOf(x, link'), g \in Quiet,
           NEW h, h \in FramesOf(x, link'), h \in Quiet, h \notin Bottom, g \notin SetupFrames
    PROVE  /\ Turns(x, <<h, g>>, {h, g}) /\ SameOwners(<<h, g>>, stack[x])
           /\ <<h, g>> = <<h>> \o <<g>>
<1> DEFINE u == <<g>>
           s == <<h>> \o u
<1>0. <<h, g>> = s
  BY Two
<1>1. /\ u \in Seq(FramesOf(x, link')) /\ Len(u) = 1
      /\ \A H : Depths(u, H) = IF g \in H THEN {0} ELSE {}
  BY Single
<1> HIDE DEF u
<1>2. /\ s \in Seq(FramesOf(x, link'))
      /\ \A H : Depths(s, H) = Depths(u, H) \cup (IF h \in H THEN {Len(u)} ELSE {})
  BY <1>1, Pushed
<1> HIDE DEF s
<1>3. GoodStack(x, s, link')
  <2>1. h \notin SetupFrames
    BY DEF SetupFrames, Bottom, AppPcs
  <2> QED  BY <1>1, <1>2, <2>1 DEF GoodStack
<1>4. ASSUME NEW H
      PROVE  Has(s, H) <=> {h, g} \cap H # {}
  <2>1. Depths(s, H) = (IF g \in H THEN {0} ELSE {}) \cup (IF h \in H THEN {1} ELSE {})
    BY <1>1, <1>2
  <2> QED  BY <2>1 DEF Has
<1>5. Turns(x, s, {h, g}) /\ SameOwners(s, stack[x])
  <2> DEFINE N == {h, g}
  <2>1. N \subseteq Quiet /\ \A H : Has(s, H) <=> N \cap H # {}
    BY <1>4
  <2> HIDE DEF N
  <2>2. Turns(x, s, N) /\ SameOwners(s, stack[x])
    BY <1>3, <2>1, Anew
  <2> QED  BY <2>2 DEF N
<1> QED  BY <1>0, <1>5 DEF s, u

\* The frames that are made: none is in hand of a frame, a message or a transport.
LEMMA FrameZero ==
    /\ NoItem \in Items
    /\ DOMAIN Frame0 = {"pc", "p", "parts", "own", "t", "open", "n", "then"}
    /\ Frame0.p = NoItem /\ Frame0.parts = <<>> /\ Frame0.own = 0 /\ Frame0.t = 0
    /\ Frame0.open = FALSE /\ Frame0.n = 0 /\ Frame0.then = "none"
    /\ 0 \in MaybeTransport /\ 0 \in 0 .. MaxRetries /\ <<>> \in Seq(Items)
<1>1. NoItem \in Items
  BY DEF NoItem, Item, Items, ItemTypes, MaybeTransport
<1>2. 0 \in 0 .. MaxRetries
  BY BoundsAssumption
<1> QED  BY <1>1, <1>2 DEF Frame0, MaybeTransport

LEMMA FramesMade ==
    ASSUME NEW pc \in SharedPcs \cup AppPcs \cup RxPcs \cup MtPcs, NEW own \in MaybeTransport
    PROVE  /\ [Frame0 EXCEPT !.pc = pc, !.own = own] \in Frame
           /\ [Frame0 EXCEPT !.pc = pc, !.own = own].pc = pc
           /\ [Frame0 EXCEPT !.pc = pc, !.own = own].own = own
           /\ [Frame0 EXCEPT !.pc = pc] \in Frame
           /\ [Frame0 EXCEPT !.pc = pc].pc = pc
  BY FrameZero DEF Frame0, Frame

\* A callback goes on with the calls s, under a close of its own or not.
LEMMA CloseFrameFacts ==
    ASSUME transport \in MaybeTransport, NEW x, NEW l
    PROVE  CloseFrame \in FramesOf(x, l) /\ CloseFrame \in Quiet
           /\ CloseFrame \notin Bottom /\ CloseFrame \notin Noted
<1>1. CloseFrame \in Frame /\ CloseFrame.pc = "close"
  BY FramesMade DEF CloseFrame, SharedPcs
<1> QED  BY <1>1 DEF FramesOf, SharedPcs, SetupPcs, Quiet, Noted, Bottom, AppPcs, RxPcs, MtPcs

LEMMA ClosesToo ==
    ASSUME transport \in MaybeTransport, NEW x, NEW s, NEW N, Turns(x, s, N), ~Has(s, SetupFrames)
    PROVE  /\ Turns(x, <<CloseFrame>> \o s, N)
           /\ \A r : SameOwners(s, r) => SameOwners(<<CloseFrame>> \o s, r)
<1> DEFINE g == CloseFrame
           u == <<g>> \o s
<1>1. g \in FramesOf(x, link') /\ g \in Quiet /\ g \notin Bottom /\ g \notin Noted
  BY CloseFrameFacts
<1> HIDE DEF g
<1>2. /\ u \in Seq(FramesOf(x, link'))
      /\ \A H : Depths(u, H) = Depths(s, H) \cup (IF g \in H THEN {Len(s)} ELSE {})
  BY <1>1, Pushed DEF Turns, GoodStack
<1> HIDE DEF u
<1>3. GoodStack(x, u, link')
  <2>1. g \notin SetupFrames
    BY <1>1 DEF SetupFrames, Bottom, AppPcs
  <2> QED  BY <1>1, <1>2, <2>1 DEF Turns, GoodStack, Has
<1>4. \A H : H \subseteq Noted => Depths(u, H) = Depths(s, H)
  BY <1>1, <1>2
<1>5. Became(stack[x], u, N)
  BY <1>4 DEF Turns, Became, Has
<1>6. \A H : H \cap Quiet = {} => Depths(u, H) = Depths(s, H)
  BY <1>1, <1>2
<1>7. \A r : SameOwners(s, r) => SameOwners(u, r)
  BY <1>6 DEF SameOwners
<1> QED  BY <1>3, <1>5, <1>7 DEF u, g, Turns

-----------------------------------------------------------------------------
(* What a step leaves alone. *)

OwnersStay == \A x \in Actors : SameOwners(stack'[x], stack[x])

LEMMA SetTurns ==
    ASSUME StackInv, ClosedStays, NEW x \in Actors, NEW s, NEW N, Turns(x, s, N), SetStack(x, s)
    PROVE  /\ StackInv' /\ Moved(x, N) /\ stack'[x] = s
           /\ SameOwners(s, stack[x]) => OwnersStay
<1>1. StackInv' /\ stack'[x] = s /\ \A y \in Actors \ {x} : stack'[y] = stack[y]
  BY StackSet DEF Turns
<1>2. SameOwners(s, stack[x]) => OwnersStay
  BY <1>1 DEF OwnersStay, SameOwners
<1> QED  BY <1>1, <1>2 DEF Turns, Moved

LEMMA CallsBack ==
    ASSUME StackInv, ClosedStays, transport \in MaybeTransport, budget \in 0 .. MaxEvents,
           NEW x \in Actors, NEW s, NEW N, Turns(x, s, N), Callback(x, s), ~Has(s, SetupFrames)
    PROVE  /\ StackInv' /\ Moved(x, N) /\ budget' \in 0 .. MaxEvents
           /\ SameOwners(s, stack[x]) => OwnersStay
           /\ stack'[x] \in {s, <<CloseFrame>> \o s}
<1>1. CASE SetStack(x, s) /\ UNCHANGED budget
  BY <1>1, SetTurns
<1>2. CASE budget > 0 /\ budget' = budget - 1 /\ SetStack(x, <<CloseFrame>> \o s)
  <2> DEFINE u == <<CloseFrame>> \o s
  <2>1. Turns(x, u, N) /\ (SameOwners(s, stack[x]) => SameOwners(u, stack[x]))
    BY ClosesToo
  <2>2. SetStack(x, u) /\ budget' \in 0 .. MaxEvents
    BY <1>2, BoundsAssumption
  <2> HIDE DEF u
  <2>3. /\ StackInv' /\ Moved(x, N) /\ stack'[x] = u
        /\ SameOwners(u, stack[x]) => OwnersStay
    BY <2>1, <2>2, SetTurns
  <2> QED  BY <2>1, <2>2, <2>3 DEF u
<1> QED  BY <1>1, <1>2 DEF Callback

LEMMA Still ==
    ASSUME StackInv, ClosedStays, UNCHANGED stack
    PROVE  StackInv' /\ OwnersStay
  BY StacksStay DEF OwnersStay, SameOwners

LEMMA HoldingNotQuiet == \A t : Holding(t) \cap Quiet = {} /\ Holding(t) \subseteq Noted
  BY DEF Holding, Quiet, Noted

\* Who owns which transport stays, if transport_ and the reports do.
LEMMA OwnersKeep ==
    ASSUME OwnerInv, ClosedStays, NoneStays, UNCHANGED <<transport, told>>, OwnersStay
    PROVE  OwnerInv'
<1> SUFFICES ASSUME NEW t \in Transports PROVE OneOwner(t)'
  BY DEF OwnerInv
<1>1. OneOwner(t)
  BY DEF OwnerInv
<1>2. \A x \in Actors : Depths(stack'[x], Holding(t)) = Depths(stack[x], Holding(t))
  BY HoldingNotQuiet DEF OwnersStay, SameOwners
<1> QED  BY <1>1, <1>2 DEF OneOwner, ClosedStays, NoneStays, Has

LEMMA SetupNoted == SetupFrames \subseteq Noted
  BY DEF SetupFrames, Noted, SetupPcs

LEMMA StartingFacts == Starting \subseteq Noted /\ Starting \subseteq Bottom
                       /\ Failing \subseteq Noted /\ Bottom \cap Failing = {}
  BY DEF Starting, Noted, Bottom, Failing, AppPcs, RxPcs, MtPcs, SetupPcs

\* A thread that starts no task leaves TaskInv, if it does not make the task's stack.
LEMMA TaskKeeps ==
    ASSUME TaskInv, UNCHANGED mtTask, NEW x \in Actors, NEW N, Moved(x, N), N \cap Starting = {},
           x = Mt /\ stack[x] = <<>> => stack'[x] = <<>>
    PROVE  TaskInv'
<1>1. Has(stack'[App], Starting) => Has(stack[App], Starting)
  <2>1. CASE x = App
    BY <2>1, StartingFacts DEF Moved, Became
  <2>2. CASE x # App
    BY <2>2, ActorFacts DEF Moved
  <2> QED  BY <2>1, <2>2
<1>2. stack'[Mt] # <<>> => stack[Mt] # <<>>
  BY ActorFacts DEF Moved
<1> QED  BY <1>1, <1>2 DEF TaskInv

\* A message that is too long is still being failed.
LEMMA FragKeeps ==
    ASSUME FragInv, UNCHANGED frag, NEW x \in Actors, NEW N, Moved(x, N),
           x = Rx /\ stack[Rx] # <<>> /\ Top(Rx) \in Failing => N \cap Failing # {}
    PROVE  FragInv'
<1>1. Has(stack[Rx], Failing) => Has(stack'[Rx], Failing)
  <2>1. CASE x = Rx
    BY <2>1, StartingFacts DEF Moved, Became, Top
  <2>2. CASE x # Rx
    BY <2>2, ActorFacts DEF Moved
  <2> QED  BY <2>1, <2>2
<1> QED  BY <1>1 DEF FragInv

LEMMA LinkSame ==
    ASSUME UNCHANGED link
    PROVE  ClosedStays /\ NoneStays
  BY DEF ClosedStays, NoneStays

\* A step that keeps the types, the owners and the task.
LEMMA QuietAction ==
    ASSUME BaseInv, StackInv', OwnersStay, ClosedStays, NoneStays, UNCHANGED <<transport, told>>,
           ClientType', FragInv', MtType', LinkType', HistoryType', TaskInv'
    PROVE  BaseInv'
  BY OwnersKeep DEF BaseInv, TypeInv

-----------------------------------------------------------------------------
(* Steps that are mild: no call is made that sets up, owns or sends, and none goes that *)
(* another invariant counts on.                                                        *)

ComingPcs == {"establish", "create", "assign", "upgrade", "wait", "drop", "tell", "send_data"}
GoingPcs == {"create", "assign", "upgrade", "wait", "drop", "tell", "give_up", "stop", "join",
             "close_frame", "refuse", "start", "send_data"}

Mild(x, N) ==
    /\ Moved(x, N)
    /\ \A f \in N : f.pc \notin ComingPcs
    /\ stack[x] = <<>> \/ Top(x).pc \notin GoingPcs

LEMMA MoveKeeps ==
    ASSUME BaseInv, NEW x \in Actors, NEW N, StackInv', Moved(x, N), OwnersStay,
           ClosedStays, NoneStays, UNCHANGED <<transport, told, mtTask, frag>>,
           N \cap Starting = {}, x = Mt /\ stack[x] = <<>> => stack'[x] = <<>>,
           x = Rx /\ stack[Rx] # <<>> /\ Top(Rx) \in Failing => N \cap Failing # {},
           ClientType', MtType', LinkType', HistoryType'
    PROVE  BaseInv'
<1>1. TaskInv'
  BY TaskKeeps DEF BaseInv
<1>2. FragInv'
  BY FragKeeps DEF BaseInv, TypeInv
<1> QED  BY <1>1, <1>2, QuietAction

LEMMA StillKeeps ==
    ASSUME BaseInv, UNCHANGED <<stack, transport, told, mtTask, frag>>, ClosedStays, NoneStays,
           ClientType', MtType', LinkType', HistoryType'
    PROVE  BaseInv'
<1>1. StackInv' /\ OwnersStay
  BY Still DEF BaseInv, TypeInv
<1>2. TaskInv' /\ FragInv'
  BY DEF BaseInv, TypeInv, TaskInv, FragInv
<1> QED  BY <1>1, <1>2, QuietAction

LEMMA TeardownFacts ==
    ASSUME NEW own \in MaybeTransport, NEW x, NEW l
    PROVE  /\ TeardownFrame(own) \in FramesOf(x, l) /\ TeardownFrame(own) \in Frame
           /\ TeardownFrame(own).pc = "give_up" /\ TeardownFrame(own).own = own
           /\ TeardownFrame(own) \in Quiet /\ TeardownFrame(own) \in Failing
           /\ TeardownFrame(own) \notin Bottom
<1>1. TeardownFrame(own) \in Frame /\ TeardownFrame(own).pc = "give_up"
      /\ TeardownFrame(own).own = own
  BY FramesMade DEF TeardownFrame, SharedPcs
<1> QED  BY <1>1 DEF FramesOf, SharedPcs, SetupPcs, Quiet, Failing, Bottom, AppPcs, RxPcs, MtPcs

LEMMA FailFacts ==
    ASSUME NEW own \in MaybeTransport, NEW x, NEW l
    PROVE  /\ FailFrame(own) \in FramesOf(x, l) /\ FailFrame(own) \in Frame
           /\ FailFrame(own).pc = "fail"
           /\ FailFrame(own) \in Quiet /\ FailFrame(own) \in Failing
           /\ FailFrame(own) \notin Bottom
<1>1. FailFrame(own) \in Frame /\ FailFrame(own).pc = "fail"
  BY FramesMade DEF FailFrame, SharedPcs
<1> QED  BY <1>1 DEF FramesOf, SharedPcs, SetupPcs, Quiet, Failing, Bottom, AppPcs, RxPcs, MtPcs

-----------------------------------------------------------------------------
(* The server and the link. *)

LEMMA AnswerKeeps ==
    ASSUME wire \in [Transports -> Seq(Items)], NEW t \in Transports, NEW p \in Items, Answer(t, p)
    PROVE  wire' \in [Transports -> Seq(Items)]
<1>1. Append(wire[t], p) \in Seq(Items)
  OBVIOUS
<1> QED  BY <1>1 DEF Answer

\* What the server takes: the message it is receiving changes only by data and by a
\* new connection.
LEMMA ServerAnswers ==
    ASSUME LinkType, NEW t \in Transports, NEW p \in Items, ServerTakes(t, p), UNCHANGED link,
           recent' \in BOOLEAN
    PROVE  /\ LinkType'
           /\ p.type = "data" =>
                  /\ server'.receiving = ~p.fin /\ server'.on = server.on
                  /\ server'.malformed = (server.malformed \/ server.receiving = p.start)
           /\ p.type # "data" => server'.malformed = server.malformed
           /\ p.type = "upgrade" => server'.on \in {0, t} /\ ~server'.receiving
           /\ p.type \notin {"data", "upgrade"} => UNCHANGED server
<1> USE DEF LinkType
<1>z. 0 \in MaybeTransport /\ t \in MaybeTransport
  BY DEF MaybeTransport
<1>1. CASE p.type = "upgrade"
  <2>1. PICK type \in {"accept", "refuse"} :
            /\ Answer(t, Item(type, FALSE, FALSE, 0))
            /\ server' = [server EXCEPT !.on = IF type = "accept" THEN t ELSE 0,
                                        !.sending = FALSE, !.receiving = FALSE]
    BY <1>1 DEF ServerTakes
  <2>2. Item(type, FALSE, FALSE, 0) \in Items
    BY <1>z DEF Item, Items, ItemTypes
  <2>3. wire' \in [Transports -> Seq(Items)]
    BY <2>1, <2>2, AnswerKeeps
  <2> QED  BY <1>1, <1>z, <2>1, <2>3
<1>2. CASE p.type = "data"
  <2>1. /\ server' = [server EXCEPT !.receiving = ~p.fin,
                                    !.malformed = @ \/ server.receiving = p.start]
        /\ UNCHANGED wire
    BY <1>2 DEF ServerTakes
  <2>2. /\ (~p.fin) \in BOOLEAN
        /\ (server.malformed \/ server.receiving = p.start) \in BOOLEAN
    OBVIOUS
  <2>3. /\ server' = [server EXCEPT !.receiving = ~p.fin,
                                    !.malformed = server.malformed \/ server.receiving = p.start]
    BY <2>1
  <2> QED  BY <1>2, <2>1, <2>2, <2>3
<1>3. CASE p.type = "ping"
  <2>1. Answer(t, Item("pong", FALSE, TRUE, 0)) /\ UNCHANGED server
    BY <1>3 DEF ServerTakes
  <2>2. Item("pong", FALSE, TRUE, 0) \in Items
    BY <1>z DEF Item, Items, ItemTypes
  <2>3. wire' \in [Transports -> Seq(Items)]
    BY <2>1, <2>2, AnswerKeeps
  <2> QED  BY <1>3, <2>1, <2>3
<1>4. CASE p.type = "close"
  <2>1. Answer(t, Item("close", FALSE, TRUE, 0)) /\ UNCHANGED server
    BY <1>4 DEF ServerTakes
  <2>2. Item("close", FALSE, TRUE, 0) \in Items
    BY <1>z DEF Item, Items, ItemTypes
  <2>3. wire' \in [Transports -> Seq(Items)]
    BY <2>1, <2>2, AnswerKeeps
  <2> QED  BY <1>4, <2>1, <2>3
<1>5. CASE p.type \notin {"upgrade", "data", "ping", "close"}
  <2>1. UNCHANGED <<wire, server>>
    BY <1>5 DEF ServerTakes
  <2> QED  BY <1>5, <2>1
<1> QED  BY <1>1, <1>2, <1>3, <1>4, <1>5

LEMMA TransmitKeeps ==
    ASSUME LinkType, NEW t \in MaybeTransport, NEW p \in Items, Transmit(t, p), UNCHANGED link,
           recent' \in BOOLEAN
    PROVE  LinkType' /\ (p.type \notin {"data", "upgrade"} => UNCHANGED server)
<1>1. CASE UNCHANGED <<wire, server>>
  BY <1>1 DEF LinkType
<1>2. CASE t # 0 /\ ServerTakes(t, p)
  BY <1>2, ServerAnswers DEF MaybeTransport
<1> QED  BY <1>1, <1>2 DEF Transmit

\* A control frame changes nothing that the server keeps.
LEMMA SendsKeeps ==
    ASSUME LinkType, transport \in MaybeTransport, NEW type \in {"ping", "pong", "close", "closed"},
           Sends(Item(type, FALSE, TRUE, 0)) \/ SendFails, UNCHANGED link
    PROVE  LinkType' /\ UNCHANGED server
<1>1. /\ Item(type, FALSE, TRUE, 0) \in Items
      /\ Item(type, FALSE, TRUE, 0).type = type
  BY DEF Item, Items, ItemTypes, MaybeTransport
<1>2. CASE Sends(Item(type, FALSE, TRUE, 0))
  BY <1>1, <1>2, TransmitKeeps DEF Sends
<1>3. CASE SendFails
  BY <1>3 DEF SendFails, LinkType
<1> QED  BY <1>2, <1>3

LEMMA SendFrameKeeps ==
    ASSUME LinkType, transport \in MaybeTransport, NEW type \in {"ping", "pong", "close", "closed"},
           SendFrame(type), UNCHANGED link
    PROVE  LinkType' /\ UNCHANGED server
  BY SendsKeeps DEF SendFrame

LEMMA SendCloseKeeps ==
    ASSUME LinkType, ClientType, NEW x, SendCloseFrame(x), UNCHANGED link
    PROVE  LinkType' /\ UNCHANGED server /\ closeSent' \in BOOLEAN
<1>1. closeSent' \in BOOLEAN /\ recent' \in BOOLEAN
  BY DEF SendCloseFrame, ClientType, LinkType
<1>2. CASE Transmit(transport, Item("close", FALSE, TRUE, 0))
  <2>1. /\ Item("close", FALSE, TRUE, 0) \in Items
        /\ Item("close", FALSE, TRUE, 0).type = "close"
    BY DEF Item, Items, ItemTypes, MaybeTransport
  <2> QED  BY <1>1, <1>2, <2>1, TransmitKeeps DEF ClientType
<1>3. CASE UNCHANGED <<wire, server>>
  BY <1>1, <1>3 DEF LinkType
<1> QED  BY <1>2, <1>3 DEF SendCloseFrame

LEMMA ServerSendsDataKeeps ==
    ASSUME BaseInv, ServerSendsData
    PROVE  BaseInv'
<1> USE DEF BaseInv, TypeInv
<1>1. PICK fin \in BOOLEAN :
          /\ Answer(server.on, Item("data", ~server.sending, fin, server.on))
          /\ server' = [server EXCEPT !.sending = ~fin]
  BY DEF ServerSendsData
<1>2. server.on \in Transports /\ server.on \in MaybeTransport
  BY DEF ServerSendsData, ServerUp, LinkType, MaybeTransport
<1>3. Item("data", ~server.sending, fin, server.on) \in Items
  <2>1. (~server.sending) \in BOOLEAN /\ "data" \in ItemTypes
    BY DEF ItemTypes
  <2> QED  BY <1>2, <2>1 DEF Item, Items
<1>4. wire' \in [Transports -> Seq(Items)]
  BY <1>1, <1>2, <1>3, AnswerKeeps DEF LinkType
<1>5. budget > 0 /\ budget' = budget - 1
      /\ UNCHANGED <<stack, clientVars, mtVars, link, recent, history>>
  BY DEF ServerSendsData
<1>6. LinkType'
  BY <1>1, <1>4, <1>5 DEF LinkType
<1>7. ClientType' /\ MtType' /\ HistoryType' /\ UNCHANGED <<stack, transport, told, mtTask, frag>>
  BY <1>5, BoundsAssumption DEF ClientType, MtType, HistoryType, clientVars, mtVars, history
<1> QED  BY <1>5, <1>6, <1>7, LinkSame, StillKeeps

LEMMA ServerSendsKeeps ==
    ASSUME BaseInv, NEW type \in StrayTypes, ServerSends(type)
    PROVE  BaseInv'
<1> USE DEF BaseInv, TypeInv
<1>1. Answer(server.on, Item(type, server.sending, TRUE, server.on))
  BY DEF ServerSends
<1>2. server.on \in Transports /\ server.on \in MaybeTransport /\ server.sending \in BOOLEAN
  BY DEF ServerSends, ServerUp, LinkType, MaybeTransport
<1>3. Item(type, server.sending, TRUE, server.on) \in Items
  BY <1>2 DEF Item, Items, ItemTypes, StrayTypes
<1>4. wire' \in [Transports -> Seq(Items)]
  BY <1>1, <1>2, <1>3, AnswerKeeps DEF LinkType
<1>5. /\ budget > 0 /\ budget' = budget - 1
      /\ UNCHANGED <<stack, clientVars, mtVars, link, server, recent, history>>
  BY DEF ServerSends
<1>6. LinkType'
  BY <1>4, <1>5 DEF LinkType
<1>7. ClientType' /\ MtType' /\ HistoryType' /\ UNCHANGED <<stack, transport, told, mtTask, frag>>
  BY <1>5, BoundsAssumption DEF ClientType, MtType, HistoryType, clientVars, mtVars, history
<1> QED  BY <1>5, <1>6, <1>7, LinkSame, StillKeeps

LEMMA LinkGoesSilentKeeps ==
    ASSUME BaseInv, NEW t \in Transports, LinkGoesSilent(t)
    PROVE  BaseInv' /\ NoneStays
<1> USE DEF BaseInv, TypeInv
<1>1. /\ link[t] = "open" /\ link' = [link EXCEPT ![t] = "silent"]
      /\ wire' = [wire EXCEPT ![t] = <<>>]
      /\ UNCHANGED <<stack, clientVars, mtVars, server, recent, budget, history>>
  BY DEF LinkGoesSilent
<1>2. ClosedStays /\ NoneStays
  BY <1>1 DEF ClosedStays, NoneStays, LinkType
<1>3. LinkType'
  BY <1>1 DEF LinkType
<1>4. ClientType' /\ MtType' /\ HistoryType' /\ UNCHANGED <<stack, transport, told, mtTask, frag>>
  BY <1>1 DEF ClientType, MtType, HistoryType, clientVars, mtVars, history
<1> QED  BY <1>2, <1>3, <1>4, StillKeeps

LEMMA CloseKeeps ==
    ASSUME LinkType, NEW t \in Transports, link[t] \in {"open", "silent"}, CloseLink(t)
    PROVE  /\ LinkType' /\ ClosedStays /\ NoneStays /\ link'[t] = "closed"
           /\ server'.on = (IF server.on = t THEN 0 ELSE server.on)
           /\ server'.receiving = server.receiving /\ server'.malformed = server.malformed
           /\ \A u \in Transports \ {t} : link'[u] = link[u]
<1>1. /\ link' = [link EXCEPT ![t] = "closed"]
      /\ wire' = [wire EXCEPT ![t] = <<>>]
      /\ server' = [server EXCEPT !.on = IF @ = t THEN 0 ELSE @]
      /\ UNCHANGED recent
  BY DEF CloseLink
<1>2. ClosedStays /\ NoneStays /\ link'[t] = "closed" /\ \A u \in Transports \ {t} : link'[u] = link[u]
  BY <1>1 DEF LinkType, ClosedStays, NoneStays
<1>3. (IF server.on = t THEN 0 ELSE server.on) \in MaybeTransport
  BY DEF LinkType, MaybeTransport
<1>4. server' = [server EXCEPT !.on = IF server.on = t THEN 0 ELSE server.on]
  BY <1>1
<1>5. <<>> \in Seq(Items)
  OBVIOUS
<1>6. LinkType'
  BY <1>1, <1>3, <1>4, <1>5 DEF LinkType
<1>7. /\ server'.on = (IF server.on = t THEN 0 ELSE server.on)
      /\ server'.receiving = server.receiving /\ server'.malformed = server.malformed
  BY <1>4 DEF LinkType
<1> QED  BY <1>2, <1>6, <1>7

LEMMA OnTransportClosedKeeps ==
    ASSUME BaseInv, NEW t \in Transports, OnTransportClosed(t)
    PROVE  BaseInv' /\ Mild(Rx, {TeardownFrame(t)})
<1> USE DEF BaseInv, TypeInv
<1>1. /\ stack[Rx] = <<>> /\ link[t] \in {"open", "silent"} /\ CloseLink(t)
      /\ SetStack(Rx, <<TeardownFrame(t)>>)
      /\ UNCHANGED <<clientVars, mtVars, budget, history>>
  BY DEF OnTransportClosed, Idle, CanSend
<1>2. LinkType' /\ ClosedStays /\ NoneStays
  BY <1>1, CloseKeeps
<1>3. ClientType' /\ MtType' /\ HistoryType' /\ UNCHANGED <<transport, told, mtTask, frag>>
  BY <1>1 DEF ClientType, MtType, HistoryType, clientVars, mtVars, history
<1> DEFINE g == TeardownFrame(t)
<1>4. g \in FramesOf(Rx, link') /\ g \in Quiet /\ g.pc = "give_up"
  BY TeardownFacts DEF MaybeTransport
<1> HIDE DEF g
<1>5. Turns(Rx, <<g>>, {g}) /\ SameOwners(<<g>>, stack[Rx])
  BY <1>1, <1>4, OneCall, ActorFacts
<1>6. StackInv' /\ Moved(Rx, {g}) /\ OwnersStay
  BY <1>1, <1>2, <1>5, SetTurns, ActorFacts DEF g
<1>7. {g} \cap Starting = {}
  BY <1>4 DEF Starting
<1>8. BaseInv'
  BY <1>1, <1>2, <1>3, <1>6, <1>7, MoveKeeps, ActorFacts
<1>9. Mild(Rx, {g})
  BY <1>1, <1>4, <1>6 DEF Mild, ComingPcs
<1> QED  BY <1>8, <1>9 DEF g

-----------------------------------------------------------------------------
(* The steps of the calls that own no transport. *)

\* The innermost call of x is a call that nobody called.
LEMMA PlainTop ==
    ASSUME StackInv, NEW x \in Actors, NEW l, At(x, l), l \in AppPcs \cup RxPcs \cup MtPcs
    PROVE  /\ stack[x] # <<>> /\ Top(x).pc = l /\ Top(x) \in Frame /\ Top(x) \in FramesOf(x, link)
           /\ Top(x) \in Bottom /\ Tail(stack[x]) = <<>> /\ stack[x] = <<Top(x)>>
           /\ (l # "assign" => Top(x) \in Quiet) /\ Top(x) \notin Failing
<1>1. stack[x] # <<>> /\ Top(x).pc = l
  BY DEF At
<1>2. Top(x) \in Frame /\ Top(x) \in FramesOf(x, link)
  BY <1>1, OnTop
<1>3. Top(x) \in Bottom
  BY <1>1, <1>2 DEF Bottom
<1>4. Tail(stack[x]) = <<>> /\ stack[x] = <<Top(x)>>
  BY <1>1, <1>3, AloneOnTop
<1> QED  BY <1>1, <1>2, <1>3, <1>4 DEF Quiet, Failing, AppPcs, RxPcs, MtPcs, SetupPcs

\* The innermost call of x goes on: where the program counter is, it stays a frame.
LEMMA FrameGoesOn ==
    ASSUME NEW f \in Frame, NEW l \in SharedPcs \cup AppPcs \cup RxPcs \cup MtPcs
    PROVE  /\ [f EXCEPT !.pc = l] \in Frame /\ [f EXCEPT !.pc = l].pc = l
           /\ [f EXCEPT !.pc = l].own = f.own /\ [f EXCEPT !.pc = l].t = f.t
           /\ [f EXCEPT !.pc = l].open = f.open /\ [f EXCEPT !.pc = l].n = f.n
           /\ [f EXCEPT !.pc = l].then = f.then /\ [f EXCEPT !.pc = l].p = f.p
  BY DEF Frame

\* A frame of the receive thread.
LEMMA RxFrame ==
    ASSUME NEW f \in Frame, f.pc \in RxPcs, NEW l
    PROVE  f \in FramesOf(Rx, l) /\ f \in Quiet /\ f.pc \notin ComingPcs \cup GoingPcs
           /\ f \notin Starting /\ f \in Bottom
  BY ActorFacts DEF FramesOf, RxPcs, OwnPcs, Quiet, Starting, Bottom, SharedPcs, ComingPcs, GoingPcs,
                    SetupPcs

LEMMA DrainingFacts ==
    ASSUME StackInv, stack[Rx] # <<>>
    PROVE  Draining \in Frame /\ Draining.pc = "drain"
<1>1. Top(Rx).own \in MaybeTransport
  BY OnTop, ActorFacts DEF Frame
<1> QED  BY <1>1, FramesMade DEF Draining, RxPcs

\* A step of the receive thread, from the handling of one frame to the next.
LEMMA RxSteps ==
    ASSUME BaseInv, NEW l \in RxPcs, At(Rx, l), NEW s, NEW N,
           \/ s = <<>> /\ N = {}
           \/ \E g \in Frame : g.pc \in RxPcs /\ s = <<g>> /\ N = {g}
           \/ \E h : h \in {TeardownFrame(Top(Rx).own), FailFrame(Top(Rx).own)} /\ s = <<h>> /\ N = {h}
           \/ \E h : h \in {TeardownFrame(Top(Rx).own), FailFrame(Top(Rx).own)}
                     /\ s = <<h, Draining>> /\ N = {h, Draining},
           ClosedStays
    PROVE  /\ Turns(Rx, s, N) /\ SameOwners(s, stack[Rx])
           /\ N \cap Starting = {} /\ \A f \in N : f.pc \notin ComingPcs
           /\ Top(Rx).pc \notin GoingPcs /\ Top(Rx) \notin Failing
           /\ stack[Rx] # <<>>
<1> USE DEF BaseInv, TypeInv
<1>1. /\ stack[Rx] # <<>> /\ Top(Rx).pc = l /\ Top(Rx) \in Bottom /\ Top(Rx) \in Quiet
      /\ Top(Rx) \notin Failing /\ Top(Rx).own \in MaybeTransport
  BY PlainTop, ActorFacts DEF RxPcs, Frame
<1>2. Top(Rx).pc \notin GoingPcs
  BY <1>1 DEF RxPcs, GoingPcs
<1>3. CASE s = <<>> /\ N = {}
  BY <1>1, <1>2, <1>3, NoCall, ActorFacts
<1>4. CASE \E g \in Frame : g.pc \in RxPcs /\ s = <<g>> /\ N = {g}
  <2>1. PICK g \in Frame : g.pc \in RxPcs /\ s = <<g>> /\ N = {g}
    BY <1>4
  <2>2. g \in FramesOf(Rx, link') /\ g \in Quiet /\ g.pc \notin ComingPcs /\ g \notin Starting
    BY <2>1, RxFrame
  <2>3. Turns(Rx, <<g>>, {g}) /\ SameOwners(<<g>>, stack[Rx])
    BY <1>1, <2>2, OneCall, ActorFacts
  <2> QED  BY <1>1, <1>2, <2>1, <2>2, <2>3
<1>5. ASSUME NEW h, h \in {TeardownFrame(Top(Rx).own), FailFrame(Top(Rx).own)}
      PROVE  /\ h \in FramesOf(Rx, link') /\ h \in Quiet /\ h \notin Bottom
             /\ h.pc \notin ComingPcs /\ h \notin Starting
  BY <1>1, <1>5, TeardownFacts, FailFacts DEF ComingPcs, Starting
<1>6. CASE \E h : h \in {TeardownFrame(Top(Rx).own), FailFrame(Top(Rx).own)} /\ s = <<h>> /\ N = {h}
  <2>1. PICK h : h \in {TeardownFrame(Top(Rx).own), FailFrame(Top(Rx).own)} /\ s = <<h>> /\ N = {h}
    BY <1>6
  <2>2. h \in FramesOf(Rx, link') /\ h \in Quiet /\ h.pc \notin ComingPcs /\ h \notin Starting
    BY <1>5, <2>1
  <2>3. Turns(Rx, <<h>>, {h}) /\ SameOwners(<<h>>, stack[Rx])
    BY <1>1, <2>2, OneCall, ActorFacts
  <2> QED  BY <1>1, <1>2, <2>1, <2>2, <2>3
<1>7. CASE \E h : h \in {TeardownFrame(Top(Rx).own), FailFrame(Top(Rx).own)}
                  /\ s = <<h, Draining>> /\ N = {h, Draining}
  <2>1. PICK h : h \in {TeardownFrame(Top(Rx).own), FailFrame(Top(Rx).own)}
                 /\ s = <<h, Draining>> /\ N = {h, Draining}
    BY <1>7
  <2>2. /\ h \in FramesOf(Rx, link') /\ h \in Quiet /\ h.pc \notin ComingPcs /\ h \notin Starting
        /\ h \notin Bottom
    BY <1>5, <2>1
  <2> DEFINE g == Draining
  <2>3. g \in FramesOf(Rx, link') /\ g \in Quiet /\ g.pc \notin ComingPcs /\ g \notin Starting
    BY <1>1, DrainingFacts, RxFrame DEF RxPcs
  <2>a. g \notin SetupFrames
    BY <1>1, DrainingFacts DEF SetupFrames, SetupPcs
  <2> HIDE DEF g
  <2>4. Turns(Rx, <<h, g>>, {h, g}) /\ SameOwners(<<h, g>>, stack[Rx])
    BY <1>1, <2>2, <2>3, <2>a, TwoCalls, ActorFacts
  <2>5. N = {h, g} /\ s = <<h, g>>
    BY <2>1 DEF g
  <2> QED  BY <1>1, <1>2, <2>2, <2>3, <2>4, <2>5
<1> QED  BY <1>3, <1>4, <1>6, <1>7

\* The receive thread is in no call that owns a transport or that another invariant
\* counts on, and neither are the calls it makes.
RxMild == \E N : Mild(Rx, N)

LEMMA RxSets ==
    ASSUME BaseInv, NEW l \in RxPcs, At(Rx, l), NEW s, NEW N, SetStack(Rx, s),
           \/ s = <<>> /\ N = {}
           \/ \E g \in Frame : g.pc \in RxPcs /\ s = <<g>> /\ N = {g}
           \/ \E h : h \in {TeardownFrame(Top(Rx).own), FailFrame(Top(Rx).own)} /\ s = <<h>> /\ N = {h}
           \/ \E h : h \in {TeardownFrame(Top(Rx).own), FailFrame(Top(Rx).own)}
                     /\ s = <<h, Draining>> /\ N = {h, Draining},
           UNCHANGED <<link, transport, told, mtTask, frag>>,
           ClientType', MtType', LinkType', HistoryType'
    PROVE  BaseInv' /\ RxMild
<1>1. ClosedStays /\ NoneStays
  BY LinkSame
<1>2. /\ Turns(Rx, s, N) /\ SameOwners(s, stack[Rx])
      /\ N \cap Starting = {} /\ \A f \in N : f.pc \notin ComingPcs
      /\ Top(Rx).pc \notin GoingPcs /\ Top(Rx) \notin Failing
  BY <1>1, RxSteps
<1>3. StackInv' /\ Moved(Rx, N) /\ OwnersStay
  BY <1>1, <1>2, SetTurns, ActorFacts DEF BaseInv, TypeInv
<1>4. BaseInv'
  BY <1>1, <1>2, <1>3, MoveKeeps, ActorFacts
<1> QED  BY <1>2, <1>3, <1>4 DEF RxMild, Mild

LEMMA RxCallsBack ==
    ASSUME BaseInv, NEW l \in RxPcs, At(Rx, l), Callback(Rx, <<Draining>>),
           UNCHANGED <<clientVars, config, mtTask, mtRunning, linkVars, history>>,
           ping' \in {"none", "sent", "overdue"}
    PROVE  BaseInv' /\ RxMild
<1> USE DEF BaseInv, TypeInv
<1>1. ClosedStays /\ NoneStays
  BY LinkSame DEF linkVars
<1> DEFINE g == Draining
<1>2. stack[Rx] # <<>>
  BY DEF At
<1>3. g \in Frame /\ g.pc \in RxPcs
  BY <1>2, DrainingFacts DEF RxPcs
<1>4. Callback(Rx, <<g>>)
  OBVIOUS
<1> HIDE DEF g
<1>5. /\ Turns(Rx, <<g>>, {g}) /\ SameOwners(<<g>>, stack[Rx])
      /\ {g} \cap Starting = {} /\ \A f \in {g} : f.pc \notin ComingPcs
      /\ Top(Rx).pc \notin GoingPcs /\ Top(Rx) \notin Failing
  BY <1>1, <1>3, RxSteps
<1>6. transport \in MaybeTransport /\ budget \in 0 .. MaxEvents
  BY DEF ClientType, HistoryType
<1>a. ~Has(<<g>>, SetupFrames)
  <2>1. g \notin SetupFrames
    BY <1>3 DEF SetupFrames, SetupPcs, RxPcs
  <2> QED  BY <1>3, <2>1, Single DEF Has
<1>7. StackInv' /\ Moved(Rx, {g}) /\ OwnersStay /\ budget' \in 0 .. MaxEvents
  BY <1>1, <1>4, <1>5, <1>6, <1>a, CallsBack, ActorFacts
<1>8. ClientType' /\ MtType' /\ LinkType' /\ HistoryType' /\ UNCHANGED <<transport, told, mtTask, frag>>
  BY <1>7 DEF ClientType, MtType, LinkType, HistoryType, clientVars, linkVars, history
<1>9. BaseInv'
  BY <1>1, <1>5, <1>7, <1>8, MoveKeeps, ActorFacts
<1> QED  BY <1>5, <1>7, <1>9 DEF RxMild, Mild

\* The step of a call that nobody called, which goes on as g.
LEMMA PlainContinues ==
    ASSUME StackInv, NEW x \in Actors, NEW l, At(x, l), l \in AppPcs \cup RxPcs \cup MtPcs,
           NEW g \in Frame, Continue(x, g)
    PROVE  SetStack(x, <<g>>)
<1>1. Tail(stack[x]) = <<>>
  BY PlainTop
<1>2. <<g>> \o <<>> = <<g>>
  BY Alone
<1> QED  BY <1>1, <1>2 DEF Continue

LEMMA PlainReturns ==
    ASSUME StackInv, NEW x \in Actors, NEW l, At(x, l), l \in AppPcs \cup RxPcs \cup MtPcs, Return(x)
    PROVE  SetStack(x, <<>>)
  BY PlainTop DEF Return

-----------------------------------------------------------------------------
(* The receive thread. *)

\* What was read of a sequence, and what is left of it.
LEMMA Parts ==
    ASSUME NEW S, NEW r \in Seq(S), NEW w \in Seq(S), NEW n \in 1 .. Len(w)
    PROVE  /\ r \o SubSeq(w, 1, n) \in Seq(S) /\ SubSeq(w, n + 1, Len(w)) \in Seq(S)
           /\ Len(r \o SubSeq(w, 1, n)) \in Nat /\ Len(r \o SubSeq(w, 1, n)) > 0
<1>1. /\ SubSeq(w, 1, n) \in Seq(S) /\ SubSeq(w, n + 1, Len(w)) \in Seq(S)
      /\ Len(SubSeq(w, 1, n)) = n /\ Len(r) \in Nat /\ n \in Nat /\ n > 0
  OBVIOUS
<1>2. /\ r \o SubSeq(w, 1, n) \in Seq(S)
      /\ Len(r \o SubSeq(w, 1, n)) = Len(r) + Len(SubSeq(w, 1, n))
  BY <1>1
<1> QED  BY <1>1, <1>2

LEMMA OnTransportDataKeeps ==
    ASSUME BaseInv, NEW t \in Transports, NEW n \in 1 .. Len(wire[t]), OnTransportData(t, n)
    PROVE  BaseInv' /\ RxMild
<1> USE DEF BaseInv, TypeInv
<1> DEFINE buffer == rxBuf \o SubSeq(wire[t], 1, n)
           f == [Frame0 EXCEPT !.pc = "drain", !.own = t]
<1>0. wire[t] \in Seq(Items) /\ rxBuf \in Seq(Items)
  BY DEF LinkType, ClientType
<1>1. /\ buffer \in Seq(Items) /\ Len(buffer) \in Nat /\ Len(buffer) > 0
      /\ SubSeq(wire[t], n + 1, Len(wire[t])) \in Seq(Items)
  BY <1>0, Parts
<1>2. /\ stack[Rx] = <<>>
      /\ wire' = [wire EXCEPT ![t] = SubSeq(wire[t], n + 1, Len(wire[t]))]
      /\ lapses' = Stale(t)
      /\ UNCHANGED <<state, transport, connected, userClosed, attempt, exhausted, frag, sendFrag,
                     closeSent, mtVars, link, server, recent, budget, opened, told>>
  BY DEF OnTransportData, Idle
<1>3. \/ rxBuf' = <<>> /\ UNCHANGED hs /\ SetStack(Rx, <<FailFrame(t)>>)
      \/ /\ Len(buffer) <= MaxParts
         /\ rxBuf' \in {Tail(buffer), buffer} /\ hs' \in {"ok", "bad", hs}
         /\ SetStack(Rx, <<f>>)
  <2> HIDE DEF buffer
  <2>1. Len(buffer) > MaxParts \/ Len(buffer) <= MaxParts
    BY <1>1, BoundsAssumption
  <2> QED  BY <2>1 DEF OnTransportData, buffer
<1>4. wire' \in [Transports -> Seq(Items)]
  BY <1>1, <1>2 DEF LinkType
<1>5. LinkType'
  BY <1>2, <1>4 DEF LinkType
<1>6. rxBuf' \in Seq(Items) /\ Len(rxBuf') <= MaxParts /\ hs' \in {"none", "ok", "bad"}
  <2>0. hs \in {"none", "ok", "bad"}
    BY DEF ClientType
  <2> HIDE DEF buffer
  <2>1. <<>> \in Seq(Items) /\ Len(<<>>) = 0
    OBVIOUS
  <2>2. MaxParts \in Nat
    BY BoundsAssumption
  <2>3. Tail(buffer) \in Seq(Items) /\ Len(Tail(buffer)) = Len(buffer) - 1
    BY <1>1
  <2>4. CASE rxBuf' = <<>> /\ UNCHANGED hs
    BY <2>0, <2>1, <2>2, <2>4
  <2>5. CASE Len(buffer) <= MaxParts /\ rxBuf' \in {Tail(buffer), buffer} /\ hs' \in {"ok", "bad", hs}
    BY <1>1, <2>0, <2>2, <2>3, <2>5
  <2> QED  BY <1>3, <2>4, <2>5
<1>7. ClientType'
  BY <1>2, <1>6 DEF ClientType
<1>8. MtType' /\ HistoryType' /\ UNCHANGED <<transport, told, mtTask, link, frag>>
  BY <1>2 DEF MtType, HistoryType, mtVars, Stale, Lapses
<1>9. ClosedStays /\ NoneStays
  BY <1>8, LinkSame
<1>10. PICK g \in {FailFrame(t), f} : SetStack(Rx, <<g>>)
  BY <1>3
<1>11. g \in FramesOf(Rx, link') /\ g \in Quiet /\ g.pc \notin ComingPcs /\ g \notin Starting
  <2>1. t \in MaybeTransport
    BY DEF MaybeTransport
  <2>2. CASE g = FailFrame(t)
    <3>1. FailFrame(t) \in FramesOf(Rx, link') /\ FailFrame(t) \in Quiet /\ FailFrame(t).pc = "fail"
      BY <2>1, FailFacts
    <3> QED  BY <2>2, <3>1 DEF ComingPcs, Starting
  <2>3. CASE g = f
    <3>1. f \in Frame /\ f.pc = "drain"
      BY <2>1, FramesMade DEF RxPcs
    <3> HIDE DEF f
    <3> QED  BY <2>3, <3>1, RxFrame DEF RxPcs
  <2> QED  BY <2>2, <2>3
<1> HIDE DEF f
<1>12. Turns(Rx, <<g>>, {g}) /\ SameOwners(<<g>>, stack[Rx])
  BY <1>2, <1>11, OneCall, ActorFacts
<1>13. StackInv' /\ Moved(Rx, {g}) /\ OwnersStay
  BY <1>9, <1>10, <1>12, SetTurns, ActorFacts
<1>14. BaseInv'
  BY <1>2, <1>5, <1>7, <1>8, <1>9, <1>11, <1>13, MoveKeeps, ActorFacts
<1> QED  BY <1>2, <1>11, <1>13, <1>14 DEF RxMild, Mild

\* The frame in hand.
LEMMA InHand ==
    ASSUME BaseInv, NEW l \in RxPcs, At(Rx, l)
    PROVE  /\ stack[Rx] # <<>> /\ Top(Rx) \in Frame /\ Top(Rx).pc = l /\ Top(Rx).p \in Items
           /\ Top(Rx).own \in MaybeTransport /\ Tail(stack[Rx]) = <<>>
           /\ Top(Rx) \in Bottom /\ Top(Rx) \in Quiet /\ ~Has(stack[Rx], Failing)
<1>1. /\ stack[Rx] # <<>> /\ Top(Rx) \in Frame /\ Top(Rx).pc = l /\ Tail(stack[Rx]) = <<>>
      /\ Top(Rx) \in Bottom /\ Top(Rx) \in Quiet /\ Top(Rx) \notin Failing
  BY PlainTop, ActorFacts DEF BaseInv, TypeInv, RxPcs
<1>2. ~Has(stack[Rx], Failing)
  BY <1>1, AloneOnTop, ActorFacts DEF BaseInv, TypeInv, Has
<1> QED  BY <1>1, <1>2 DEF Frame

LEMMA DrainFramesKeeps ==
    ASSUME BaseInv, DrainFrames
    PROVE  BaseInv' /\ RxMild
<1> USE DEF BaseInv, TypeInv
<1>1. /\ At(Rx, "drain")
      /\ UNCHANGED <<state, transport, connected, userClosed, attempt, exhausted, hs, frag, sendFrag,
                     closeSent, mtVars, linkVars, budget, history>>
  BY DEF DrainFrames
<1>2. /\ MtType' /\ LinkType' /\ HistoryType' /\ UNCHANGED <<link, transport, told, mtTask, frag>>
  BY <1>1 DEF MtType, LinkType, HistoryType, mtVars, linkVars, history
<1>3. "drain" \in RxPcs /\ stack[Rx] # <<>> /\ Top(Rx) \in Frame
  BY <1>1, InHand DEF RxPcs
<1>4. CASE Return(Rx) /\ UNCHANGED rxBuf
  <2>1. ClientType'
    BY <1>1, <1>4 DEF ClientType
  <2>2. SetStack(Rx, <<>>)
    BY <1>1, <1>3, <1>4, PlainReturns, ActorFacts
  <2> QED  BY <1>1, <1>2, <1>3, <2>1, <2>2, RxSets
<1>5. CASE SetStack(Rx, <<FailFrame(Top(Rx).own)>>) /\ UNCHANGED rxBuf
  <2>1. ClientType'
    BY <1>1, <1>5 DEF ClientType
  <2> QED  BY <1>1, <1>2, <1>3, <1>5, <2>1, RxSets
<1>6. CASE /\ rxBuf # <<>> /\ rxBuf' = Tail(rxBuf)
           /\ Continue(Rx, [Top(Rx) EXCEPT !.pc = "handle", !.p = Head(rxBuf)])
  <2> DEFINE g == [Top(Rx) EXCEPT !.pc = "handle", !.p = Head(rxBuf)]
  <2>1. Head(rxBuf) \in Items /\ Tail(rxBuf) \in Seq(Items) /\ Len(Tail(rxBuf)) <= MaxParts
    BY <1>6, BoundsAssumption DEF ClientType
  <2>2. ClientType'
    BY <1>1, <1>6, <2>1 DEF ClientType
  <2>3. g \in Frame /\ g.pc \in RxPcs /\ Continue(Rx, g)
    BY <1>3, <1>6, <2>1 DEF Frame, RxPcs
  <2> HIDE DEF g
  <2>4. SetStack(Rx, <<g>>)
    BY <1>1, <1>3, <2>3, PlainContinues, ActorFacts
  <2> QED  BY <1>1, <1>2, <1>3, <2>2, <2>3, <2>4, RxSets
<1> QED  BY <1>4, <1>5, <1>6 DEF DrainFrames

LEMMA HandleDataFrameKeeps ==
    ASSUME BaseInv, HandleDataFrame
    PROVE  BaseInv' /\ RxMild
<1> USE DEF BaseInv, TypeInv
<1> DEFINE p == Top(Rx).p
           parts == IF p.start THEN <<p>> ELSE Append(frag.parts, p)
           h == FailFrame(Top(Rx).own)
<1>1. /\ At(Rx, "handle") /\ lapses' = Stale(Top(Rx).own)
      /\ UNCHANGED <<state, transport, connected, userClosed, attempt, exhausted, hs, rxBuf, sendFrag,
                     closeSent, mtVars, linkVars, budget, opened, told>>
  BY DEF HandleDataFrame, Handling
<1>2. /\ "handle" \in RxPcs /\ stack[Rx] # <<>> /\ Top(Rx) \in Frame /\ p \in Items
      /\ Top(Rx).own \in MaybeTransport /\ ~Has(stack[Rx], Failing) /\ Tail(stack[Rx]) = <<>>
  BY <1>1, InHand DEF RxPcs
<1>3. Len(frag.parts) \in Nat /\ Len(frag.parts) <= MaxParts /\ frag.parts \in Seq(Items) /\ MaxParts \in Nat
  BY <1>2, BoundsAssumption DEF FragInv, ClientType
<1>4. parts \in Seq(Items) /\ Len(parts) \in Nat /\ Len(parts) <= MaxParts + 1
  BY <1>2, <1>3
<1> HIDE DEF parts, p
<1>5. \/ SetStack(Rx, <<h, Draining>>) /\ UNCHANGED frag
      \/ SetStack(Rx, <<h, Draining>>) /\ frag' = [frag EXCEPT !.parts = parts]
      \/ /\ Continue(Rx, [Top(Rx) EXCEPT !.pc = "deliver", !.parts = parts])
         /\ frag' = NoFragment
      \/ /\ Continue(Rx, Draining) /\ Len(parts) <= MaxParts
         /\ frag' = [open |-> TRUE, parts |-> parts]
  <2>1. Len(parts) <= MaxParts \/ Len(parts) > MaxParts
    BY <1>3, <1>4
  <2>2. p.start = frag.open \/ p.start # frag.open
    OBVIOUS
  <2> QED  BY <2>1, <2>2 DEF HandleDataFrame, p, parts
<1>6. MtType' /\ LinkType' /\ HistoryType' /\ UNCHANGED <<transport, told, mtTask, link>>
  BY <1>1 DEF MtType, LinkType, HistoryType, mtVars, linkVars, Stale, Lapses
<1>7. ClosedStays /\ NoneStays
  BY <1>6, LinkSame
<1>8. /\ frag' \in [open : BOOLEAN, parts : Seq(Items)] /\ Len(frag'.parts) <= MaxParts + 1
      /\ SetStack(Rx, <<h, Draining>>) \/ Len(frag'.parts) <= MaxParts
  <2>1. CASE UNCHANGED frag
    BY <1>3, <2>1 DEF ClientType
  <2>2. CASE SetStack(Rx, <<h, Draining>>) /\ frag' = [frag EXCEPT !.parts = parts]
    BY <1>4, <2>2 DEF ClientType
  <2>3. CASE frag' = NoFragment
    <3>1. NoFragment.open = FALSE /\ NoFragment.parts = <<>> /\ <<>> \in Seq(Items) /\ Len(<<>>) = 0
          /\ NoFragment \in [open : BOOLEAN, parts : Seq(Items)]
      BY DEF NoFragment
    <3> QED  BY <1>3, <2>3, <3>1
  <2>4. CASE Len(parts) <= MaxParts /\ frag' = [open |-> TRUE, parts |-> parts]
    BY <1>4, <2>4
  <2> QED  BY <1>5, <2>1, <2>2, <2>3, <2>4
<1>9. ClientType'
  BY <1>1, <1>8 DEF ClientType
<1>10. PICK s, N :
           /\ SetStack(Rx, s)
           /\ \/ \E g \in Frame : g.pc \in RxPcs /\ s = <<g>> /\ N = {g}
              \/ s = <<h, Draining>> /\ N = {h, Draining}
  <2>1. CASE SetStack(Rx, <<h, Draining>>)
    BY <2>1
  <2>2. ASSUME NEW g \in Frame, g.pc \in RxPcs, Continue(Rx, g)
        PROVE  SetStack(Rx, <<g>>)
    BY <1>1, <1>2, <2>2, PlainContinues, ActorFacts
  <2>3. CASE Continue(Rx, [Top(Rx) EXCEPT !.pc = "deliver", !.parts = parts])
    <3> DEFINE g == [Top(Rx) EXCEPT !.pc = "deliver", !.parts = parts]
    <3>1. g \in Frame /\ g.pc \in RxPcs
      BY <1>2, <1>4 DEF Frame, RxPcs
    <3> HIDE DEF g
    <3>2. SetStack(Rx, <<g>>)
      BY <2>2, <2>3, <3>1 DEF g
    <3> QED  BY <3>1, <3>2
  <2>4. CASE Continue(Rx, Draining)
    <3>1. Draining \in Frame /\ Draining.pc \in RxPcs
      BY <1>2, DrainingFacts DEF RxPcs
    <3>2. SetStack(Rx, <<Draining>>)
      BY <2>2, <2>4, <3>1
    <3> QED  BY <3>1, <3>2
  <2> QED  BY <1>5, <2>1, <2>3, <2>4
<1>11. /\ Turns(Rx, s, N) /\ SameOwners(s, stack[Rx])
       /\ N \cap Starting = {} /\ \A f \in N : f.pc \notin ComingPcs
       /\ Top(Rx).pc \notin GoingPcs
  BY <1>1, <1>2, <1>7, <1>10, RxSteps
<1>12. StackInv' /\ Moved(Rx, N) /\ OwnersStay /\ stack'[Rx] = s
  BY <1>7, <1>10, <1>11, SetTurns, ActorFacts
<1>13. TaskInv'
  BY <1>6, <1>11, <1>12, TaskKeeps, ActorFacts
<1>14. FragInv'
  <2>1. CASE Len(frag'.parts) <= MaxParts
    <3>1. Len(frag'.parts) \in Nat
      BY <1>8
    <3> QED  BY <1>3, <2>1, <3>1 DEF FragInv
  <2>2. CASE SetStack(Rx, <<h, Draining>>)
    <3>1. stack'[Rx] = <<h, Draining>>
      BY <2>2, ActorFacts DEF SetStack, StackInv
    <3>2. h \in Failing /\ h \in Noted /\ h.pc = "fail"
      BY <1>2, FailFacts DEF Noted
    <3>3. s = <<h, Draining>> /\ s # <<>> /\ Head(s) = h
      BY <1>12, <3>1
    <3>4. Top(Rx)' \in Failing /\ stack'[Rx] # <<>>
      BY <1>12, <3>2, <3>3 DEF Top
    <3>5. Has(stack'[Rx], Failing)
      <4>1. stack'[Rx] \in Seq(FramesOf(Rx, link'))
        BY <1>12, ActorFacts DEF StackInv, GoodStack
      <4>2. Len(stack'[Rx]) - 1 \in Depths(stack'[Rx], Failing)
        BY <3>4, <4>1, StackType DEF Top
      <4> QED  BY <4>2 DEF Has
    <3> QED  BY <1>8, <3>5 DEF FragInv
  <2> QED  BY <1>8, <2>1, <2>2
<1>15. BaseInv'
  BY <1>6, <1>7, <1>9, <1>12, <1>13, <1>14, QuietAction
<1> QED  BY <1>11, <1>12, <1>15 DEF RxMild, Mild

LEMMA DeliverKeeps ==
    ASSUME BaseInv, Deliver
    PROVE  BaseInv' /\ RxMild
<1>1. /\ At(Rx, "deliver") /\ Callback(Rx, <<Draining>>) /\ "deliver" \in RxPcs
      /\ UNCHANGED <<clientVars, config, mtTask, mtRunning, linkVars, history>> /\ UNCHANGED ping
  BY DEF Deliver, RxPcs, mtVars
<1> QED  BY <1>1, RxCallsBack DEF BaseInv, TypeInv, MtType

LEMMA HandlePongKeeps ==
    ASSUME BaseInv, HandlePong
    PROVE  BaseInv' /\ RxMild
<1>1. /\ At(Rx, "handle") /\ Callback(Rx, <<Draining>>) /\ "handle" \in RxPcs
      /\ UNCHANGED <<clientVars, config, mtTask, mtRunning, linkVars, history>> /\ ping' = "none"
  BY DEF HandlePong, RxPcs, Handling
<1> QED  BY <1>1, RxCallsBack

LEMMA HandlePingKeeps ==
    ASSUME BaseInv, HandlePing
    PROVE  BaseInv' /\ RxMild /\ UNCHANGED server
<1> USE DEF BaseInv, TypeInv
<1>1. /\ At(Rx, "handle") /\ "handle" \in RxPcs /\ SendFrame("pong") /\ Continue(Rx, Draining)
      /\ UNCHANGED <<clientVars, mtVars, link, budget, history>>
  BY DEF HandlePing, RxPcs, Handling
<1>2. ClientType' /\ MtType' /\ HistoryType' /\ UNCHANGED <<link, transport, told, mtTask, frag>>
  BY <1>1 DEF ClientType, MtType, HistoryType, clientVars, mtVars, history
<1>3. LinkType' /\ UNCHANGED server
  BY <1>1, <1>2, SendFrameKeeps DEF ClientType
<1>4. Draining \in Frame /\ Draining.pc \in RxPcs
  BY <1>1, DrainingFacts DEF RxPcs, At
<1>5. SetStack(Rx, <<Draining>>)
  BY <1>1, <1>4, PlainContinues, ActorFacts
<1> QED  BY <1>1, <1>2, <1>3, <1>4, <1>5, RxSets

LEMMA HandleCloseFrameKeeps ==
    ASSUME BaseInv, HandleCloseFrame
    PROVE  BaseInv' /\ RxMild
<1> USE DEF BaseInv, TypeInv
<1>1. /\ At(Rx, "handle") /\ "handle" \in RxPcs /\ closeSent' = TRUE
      /\ \/ SetStack(Rx, <<TeardownFrame(Top(Rx).own), Draining>>)
         \/ SetStack(Rx, <<[Top(Rx) EXCEPT !.pc = "answer"]>>)
      /\ UNCHANGED <<state, transport, connected, userClosed, attempt, exhausted, hs, rxBuf, frag,
                     sendFrag, mtVars, linkVars, budget, history>>
  BY DEF HandleCloseFrame, RxPcs, Handling
<1>2. /\ ClientType' /\ MtType' /\ LinkType' /\ HistoryType'
      /\ UNCHANGED <<link, transport, told, mtTask, frag>>
  BY <1>1 DEF ClientType, MtType, LinkType, HistoryType, mtVars, linkVars, history
<1>3. CASE SetStack(Rx, <<TeardownFrame(Top(Rx).own), Draining>>)
  BY <1>1, <1>2, <1>3, RxSets
<1>4. CASE SetStack(Rx, <<[Top(Rx) EXCEPT !.pc = "answer"]>>)
  <2> DEFINE g == [Top(Rx) EXCEPT !.pc = "answer"]
  <2>1. g \in Frame /\ g.pc \in RxPcs
    BY <1>1, InHand, FrameGoesOn DEF RxPcs
  <2> HIDE DEF g
  <2>2. SetStack(Rx, <<g>>)
    BY <1>4 DEF g
  <2> QED  BY <1>1, <1>2, <2>1, <2>2, RxSets
<1> QED  BY <1>1, <1>3, <1>4

LEMMA AnswerCloseKeeps ==
    ASSUME BaseInv, AnswerClose
    PROVE  BaseInv' /\ RxMild /\ UNCHANGED server
<1> USE DEF BaseInv, TypeInv
<1>1. /\ At(Rx, "answer") /\ "answer" \in RxPcs /\ SendFrame("closed")
      /\ SetStack(Rx, <<TeardownFrame(Top(Rx).own), Draining>>)
      /\ UNCHANGED <<clientVars, mtVars, link, budget, history>>
  BY DEF AnswerClose, RxPcs
<1>2. ClientType' /\ MtType' /\ HistoryType' /\ UNCHANGED <<link, transport, told, mtTask, frag>>
  BY <1>1 DEF ClientType, MtType, HistoryType, clientVars, mtVars, history
<1>3. LinkType' /\ UNCHANGED server
  BY <1>1, <1>2, SendFrameKeeps DEF ClientType
<1> QED  BY <1>1, <1>2, <1>3, RxSets

LEMMA HandleBadCloseKeeps ==
    ASSUME BaseInv, HandleBadClose
    PROVE  BaseInv' /\ RxMild
<1> USE DEF BaseInv, TypeInv
<1>1. /\ At(Rx, "handle") /\ "handle" \in RxPcs
      /\ SetStack(Rx, <<FailFrame(Top(Rx).own), Draining>>)
      /\ UNCHANGED <<clientVars, mtVars, linkVars, budget, history>>
  BY DEF HandleBadClose, RxPcs, Handling
<1>2. /\ ClientType' /\ MtType' /\ LinkType' /\ HistoryType'
      /\ UNCHANGED <<link, transport, told, mtTask, frag>>
  BY <1>1 DEF ClientType, MtType, LinkType, HistoryType, clientVars, mtVars, linkVars, history
<1> QED  BY <1>1, <1>2, RxSets

-----------------------------------------------------------------------------
(* The calls that nobody called, of any thread. *)

\* A frame of x that owns no transport and starts no task.
QuietOf(x) == {g \in FramesOf(x, link') : g \in Quiet /\ g \notin Starting}

\* The calls s that follow a call which nobody called: none, one or two.
Follow(x, s, N) ==
    \/ s = <<>> /\ N = {}
    \/ \E g \in QuietOf(x) : s = <<g>> /\ N = {g}
    \/ \E g, h \in QuietOf(x) :
           h \notin Bottom /\ g \notin SetupFrames /\ s = <<h, g>> /\ N = {h, g}

LEMMA PlainTurns ==
    ASSUME StackInv, ClosedStays, NEW x \in Actors,
           stack[x] = <<>> \/ (Top(x) \in Bottom /\ Top(x) \in Quiet),
           NEW s, NEW N, Follow(x, s, N)
    PROVE  Turns(x, s, N) /\ SameOwners(s, stack[x]) /\ N \cap Starting = {}
<1>1. CASE s = <<>> /\ N = {}
  BY <1>1, NoCall
<1>2. CASE \E g \in QuietOf(x) : s = <<g>> /\ N = {g}
  BY <1>2, OneCall DEF QuietOf
<1>3. CASE \E g, h \in QuietOf(x) :
               h \notin Bottom /\ g \notin SetupFrames /\ s = <<h, g>> /\ N = {h, g}
  <2>1. PICK g \in QuietOf(x), h \in QuietOf(x) :
            h \notin Bottom /\ g \notin SetupFrames /\ s = <<h, g>> /\ N = {h, g}
    BY <1>3
  <2>2. Turns(x, <<h, g>>, {h, g}) /\ SameOwners(<<h, g>>, stack[x])
    BY <2>1, TwoCalls DEF QuietOf
  <2> QED  BY <2>1, <2>2 DEF QuietOf
<1> QED  BY <1>1, <1>2, <1>3 DEF Follow

LEMMA PlainSets ==
    ASSUME BaseInv, NEW x \in Actors,
           (stack[x] = <<>> /\ x # Mt) \/ (stack[x] # <<>> /\ Top(x) \in Bottom /\ Top(x) \in Quiet),
           NEW s, NEW N, Follow(x, s, N), SetStack(x, s),
           UNCHANGED <<link, transport, told, mtTask, frag>>,
           ClientType', MtType', LinkType', HistoryType'
    PROVE  BaseInv' /\ Moved(x, N)
<1> USE DEF BaseInv, TypeInv
<1>1. ClosedStays /\ NoneStays
  BY LinkSame
<1>2. Turns(x, s, N) /\ SameOwners(s, stack[x]) /\ N \cap Starting = {}
  BY <1>1, PlainTurns
<1>3. StackInv' /\ Moved(x, N) /\ OwnersStay
  BY <1>1, <1>2, SetTurns
<1>4. stack[x] # <<>> => Top(x) \notin Failing
  BY StartingFacts
<1> QED  BY <1>1, <1>2, <1>3, <1>4, MoveKeeps

LEMMA PlainCallsBack ==
    ASSUME BaseInv, NEW x \in Actors,
           (stack[x] = <<>> /\ x # Mt) \/ (stack[x] # <<>> /\ Top(x) \in Bottom /\ Top(x) \in Quiet),
           NEW s, NEW N, Follow(x, s, N), N \cap SetupFrames = {}, Callback(x, s),
           UNCHANGED <<link, transport, history, mtTask, frag>>,
           ClientType', MtType', LinkType'
    PROVE  BaseInv' /\ Moved(x, N)
<1> USE DEF BaseInv, TypeInv
<1>1. ClosedStays /\ NoneStays
  BY LinkSame
<1>2. Turns(x, s, N) /\ SameOwners(s, stack[x]) /\ N \cap Starting = {}
  BY <1>1, PlainTurns
<1>3. transport \in MaybeTransport /\ budget \in 0 .. MaxEvents
  BY DEF ClientType, HistoryType
<1>a. ~Has(s, SetupFrames)
  BY <1>2, SetupNoted DEF Turns, Became, Top
<1>4. StackInv' /\ Moved(x, N) /\ OwnersStay /\ budget' \in 0 .. MaxEvents
  BY <1>1, <1>2, <1>3, <1>a, CallsBack
<1>5. HistoryType' /\ UNCHANGED told
  BY <1>4 DEF HistoryType, history
<1>6. stack[x] # <<>> => Top(x) \notin Failing
  BY StartingFacts
<1> QED  BY <1>1, <1>2, <1>4, <1>5, <1>6, MoveKeeps

\* The frames that the maintenance task goes on with.
LEMMA MtFrame ==
    ASSUME NEW f \in Frame, f.pc \in MtPcs \ {"assign", "upgrade", "wait"}
    PROVE  f \in QuietOf(Mt) /\ f \in Bottom
  BY ActorFacts DEF QuietOf, FramesOf, MtPcs, OwnPcs, Quiet, Starting, Bottom, SetupPcs, SharedPcs

LEMMA TeardownStill ==
    ASSUME NEW own \in MaybeTransport, NEW x
    PROVE  /\ TeardownFrame(own) \in QuietOf(x) /\ TeardownFrame(own) \notin Bottom
           /\ TeardownFrame(own).pc = "give_up"
  BY TeardownFacts DEF QuietOf, Starting

LEMMA MtAt ==
    ASSUME BaseInv, NEW l \in MtPcs, l # "assign", At(Mt, l)
    PROVE  /\ stack[Mt] # <<>> /\ Top(Mt) \in Frame /\ Top(Mt).pc = l
           /\ Top(Mt).own \in MaybeTransport /\ Tail(stack[Mt]) = <<>> /\ stack[Mt] = <<Top(Mt)>>
           /\ Top(Mt) \in Bottom /\ Top(Mt) \in Quiet
  BY PlainTop, ActorFacts DEF BaseInv, TypeInv, Frame, FramesOf

LEMMA LoopFacts ==
    LET f == [Frame0 EXCEPT !.pc = "loop"]
    IN  f \in Frame /\ f.pc = "loop" /\ f \in QuietOf(Mt) /\ MtLoop = <<f>>
<1> DEFINE f == [Frame0 EXCEPT !.pc = "loop"]
<1>1. f \in Frame /\ f.pc = "loop"
  BY FramesMade DEF MtPcs, MaybeTransport
<1>2. f \in QuietOf(Mt)
  BY <1>1, MtFrame DEF MtPcs, SetupPcs
<1> QED  BY <1>1, <1>2 DEF MtLoop

-----------------------------------------------------------------------------
(* The maintenance task. *)

MtMild == \E N : Mild(Mt, N)

LEMMA MtExitKeeps ==
    ASSUME BaseInv, MtExit
    PROVE  BaseInv' /\ MtMild
<1> USE DEF BaseInv, TypeInv
<1>1. /\ At(Mt, "loop") /\ "loop" \in MtPcs /\ Return(Mt)
      /\ UNCHANGED <<clientVars, mtVars, linkVars, budget, history>>
  BY DEF MtExit, MtPcs
<1>2. /\ ClientType' /\ MtType' /\ LinkType' /\ HistoryType'
      /\ UNCHANGED <<link, transport, told, mtTask, frag>>
  BY <1>1 DEF ClientType, MtType, LinkType, HistoryType, clientVars, mtVars, linkVars, history
<1>3. /\ stack[Mt] # <<>> /\ Top(Mt).pc = "loop" /\ Tail(stack[Mt]) = <<>>
      /\ Top(Mt) \in Bottom /\ Top(Mt) \in Quiet
  BY <1>1, MtAt
<1>4. Follow(Mt, <<>>, {}) /\ SetStack(Mt, <<>>)
  BY <1>1, <1>3 DEF Follow, Return
<1>5. BaseInv' /\ Moved(Mt, {})
  BY <1>2, <1>3, <1>4, PlainSets, ActorFacts
<1> QED  BY <1>3, <1>5 DEF MtMild, Mild, GoingPcs

\* The loop finds the connection open.
LEMMA MtOpenKeeps ==
    ASSUME BaseInv, MtOpen
    PROVE  /\ ClientType' /\ At(Mt, "loop") /\ "loop" \in MtPcs /\ UNCHANGED <<transport, frag>>
           /\ stack[Mt] # <<>> /\ Top(Mt).pc = "loop" /\ stack[Mt] = <<Top(Mt)>>
           /\ Top(Mt) \in Frame /\ Top(Mt) \in Bottom /\ Top(Mt) \in Quiet
           /\ Top(Mt).own \in MaybeTransport
<1>1. /\ At(Mt, "loop") /\ "loop" \in MtPcs /\ attempt' = 0
      /\ UNCHANGED <<state, transport, connected, userClosed, exhausted, hs, rxBuf, frag, sendFrag,
                     closeSent>>
  BY DEF MtOpen, MtPcs
<1>2. attempt' \in 0 .. MaxRetries
  <2>1. attempt' = 0
    BY <1>1
  <2> QED  BY <2>1, BoundsAssumption
<1>3. ClientType'
  BY <1>1, <1>2 DEF BaseInv, TypeInv, ClientType
<1> QED  BY <1>1, <1>3, MtAt

LEMMA MtNothingKeeps ==
    ASSUME BaseInv, MtNothing
    PROVE  BaseInv'
<1> USE DEF BaseInv, TypeInv
<1>1. ClientType' /\ UNCHANGED <<transport, frag>>
  BY MtOpenKeeps DEF MtNothing
<1>2. UNCHANGED <<stack, mtVars, linkVars, budget, history>>
  BY DEF MtNothing
<1>3. /\ MtType' /\ LinkType' /\ HistoryType' /\ UNCHANGED <<stack, told, mtTask, link>>
  BY <1>2 DEF MtType, LinkType, HistoryType, mtVars, linkVars, history
<1> QED  BY <1>1, <1>3, LinkSame, StillKeeps

LEMMA TimePassesKeeps ==
    ASSUME BaseInv, TimePasses
    PROVE  BaseInv'
<1> USE DEF BaseInv, TypeInv
<1>1. /\ ping' \in {ping, "overdue"} /\ recent' \in BOOLEAN
      /\ UNCHANGED <<stack, clientVars, config, mtTask, mtRunning, link, wire, server, budget, history>>
  BY DEF TimePasses, LinkType
<1>2. ClientType' /\ UNCHANGED <<transport, frag>>
  BY <1>1 DEF ClientType, clientVars
<1>3. /\ MtType' /\ LinkType' /\ HistoryType' /\ UNCHANGED <<stack, told, mtTask, link>>
  BY <1>1 DEF MtType, LinkType, HistoryType, history
<1> QED  BY <1>2, <1>3, LinkSame, StillKeeps

LEMMA MtPingKeeps ==
    ASSUME BaseInv, MtPing
    PROVE  BaseInv' /\ MtMild /\ UNCHANGED server
<1> USE DEF BaseInv, TypeInv
<1>1. /\ MtOpen /\ Sends(Item("ping", FALSE, TRUE, 0))
      /\ Continue(Mt, [Top(Mt) EXCEPT !.pc = "store", !.own = transport])
      /\ UNCHANGED <<mtVars, link, budget, history>>
  BY DEF MtPing
<1>2. /\ stack[Mt] # <<>> /\ Top(Mt).pc = "loop" /\ Top(Mt) \in Frame
      /\ Top(Mt) \in Bottom /\ Top(Mt) \in Quiet /\ At(Mt, "loop") /\ "loop" \in MtPcs
      /\ ClientType' /\ UNCHANGED <<transport, frag>>
  BY <1>1, MtOpenKeeps
<1>3. LinkType' /\ UNCHANGED server
  BY <1>1, SendsKeeps DEF ClientType
<1>4. MtType' /\ HistoryType' /\ UNCHANGED <<link, transport, told, mtTask, frag>>
  BY <1>1, <1>2 DEF MtType, HistoryType, mtVars, history
<1> DEFINE g == [Top(Mt) EXCEPT !.pc = "store", !.own = transport]
<1>5. g \in Frame /\ g.pc = "store"
  BY <1>2 DEF Frame, MtPcs, ClientType
<1>6. Continue(Mt, g)
  BY <1>1
<1> HIDE DEF g
<1>7. SetStack(Mt, <<g>>)
  BY <1>2, <1>5, <1>6, PlainContinues, ActorFacts
<1>8. Follow(Mt, <<g>>, {g})
  BY <1>5, MtFrame DEF Follow, MtPcs, SetupPcs
<1>9. BaseInv' /\ Moved(Mt, {g})
  BY <1>2, <1>3, <1>4, <1>7, <1>8, PlainSets, ActorFacts
<1> QED  BY <1>2, <1>3, <1>5, <1>9 DEF MtMild, Mild, GoingPcs, ComingPcs

LEMMA MtPingFailsKeeps ==
    ASSUME BaseInv, MtPingFails
    PROVE  BaseInv' /\ MtMild
<1> USE DEF BaseInv, TypeInv
<1>1. /\ MtOpen /\ Callback(Mt, <<[Top(Mt) EXCEPT !.pc = "tick"]>>)
      /\ UNCHANGED <<mtVars, linkVars, history>>
  BY DEF MtPingFails
<1>2. /\ stack[Mt] # <<>> /\ Top(Mt).pc = "loop" /\ Top(Mt) \in Frame
      /\ Top(Mt) \in Bottom /\ Top(Mt) \in Quiet
      /\ ClientType' /\ UNCHANGED <<transport, frag>>
  BY <1>1, MtOpenKeeps
<1>3. MtType' /\ LinkType' /\ UNCHANGED <<link, transport, mtTask, frag>>
  BY <1>1, <1>2 DEF MtType, LinkType, mtVars, linkVars
<1> DEFINE g == [Top(Mt) EXCEPT !.pc = "tick"]
<1>4. g \in Frame /\ g.pc = "tick" /\ Callback(Mt, <<g>>)
  BY <1>1, <1>2, FrameGoesOn DEF MtPcs
<1> HIDE DEF g
<1>5. Follow(Mt, <<g>>, {g})
  BY <1>4, MtFrame DEF Follow, MtPcs, SetupPcs
<1>6. {g} \cap SetupFrames = {}
  BY <1>4 DEF SetupFrames, SetupPcs
<1>7. BaseInv' /\ Moved(Mt, {g})
  BY <1>1, <1>2, <1>3, <1>4, <1>5, <1>6, PlainCallsBack, ActorFacts
<1> QED  BY <1>2, <1>4, <1>7 DEF MtMild, Mild, GoingPcs, ComingPcs

\* The loop turns again.
LEMMA MtTurns ==
    ASSUME BaseInv, NEW l \in {"store", "tick"}, At(Mt, l), GoTo(Mt, "loop"),
           UNCHANGED <<clientVars, config, mtTask, mtRunning, linkVars, budget, history>>,
           ping' \in {"none", "sent", "overdue"}
    PROVE  BaseInv' /\ MtMild
<1> USE DEF BaseInv, TypeInv
<1>1. l \in MtPcs
  BY DEF MtPcs
<1>2. /\ stack[Mt] # <<>> /\ Top(Mt).pc = l /\ Top(Mt) \in Frame
      /\ Top(Mt) \in Bottom /\ Top(Mt) \in Quiet
  BY <1>1, MtAt
<1>3. /\ ClientType' /\ MtType' /\ LinkType' /\ HistoryType'
      /\ UNCHANGED <<link, transport, told, mtTask, frag>>
  BY DEF ClientType, MtType, LinkType, HistoryType, clientVars, linkVars, history
<1> DEFINE g == [Top(Mt) EXCEPT !.pc = "loop"]
<1>4. g \in Frame /\ g.pc = "loop" /\ Continue(Mt, g)
  BY <1>2, FrameGoesOn DEF MtPcs, GoTo
<1> HIDE DEF g
<1>5. SetStack(Mt, <<g>>)
  BY <1>1, <1>4, PlainContinues, ActorFacts
<1>6. Follow(Mt, <<g>>, {g})
  BY <1>4, MtFrame DEF Follow, MtPcs, SetupPcs
<1>7. BaseInv' /\ Moved(Mt, {g})
  BY <1>2, <1>3, <1>5, <1>6, PlainSets, ActorFacts
<1> QED  BY <1>2, <1>4, <1>7 DEF MtMild, Mild, GoingPcs, ComingPcs

LEMMA MtStoreKeeps ==
    ASSUME BaseInv, MtStore
    PROVE  BaseInv' /\ MtMild
  BY MtTurns DEF MtStore

LEMMA MtTickKeeps ==
    ASSUME BaseInv, MtTick
    PROVE  BaseInv' /\ MtMild
  BY MtTurns DEF MtTick, mtVars, BaseInv, TypeInv, MtType

LEMMA MtTimeoutKeeps ==
    ASSUME BaseInv, MtTimeout
    PROVE  BaseInv' /\ MtMild
<1> USE DEF BaseInv, TypeInv
<1>1. /\ MtOpen /\ Callback(Mt, <<TeardownFrame(Top(Mt).own)>> \o stack[Mt])
      /\ UNCHANGED <<mtVars, linkVars, history>>
  BY DEF MtTimeout
<1>2. /\ stack[Mt] # <<>> /\ Top(Mt).pc = "loop" /\ stack[Mt] = <<Top(Mt)>> /\ Top(Mt) \in Frame
      /\ Top(Mt) \in Bottom /\ Top(Mt) \in Quiet /\ Top(Mt).own \in MaybeTransport
      /\ ClientType' /\ UNCHANGED <<transport, frag>>
  BY <1>1, MtOpenKeeps
<1>3. MtType' /\ LinkType' /\ UNCHANGED <<link, transport, mtTask, frag>>
  BY <1>1, <1>2 DEF MtType, LinkType, mtVars, linkVars
<1> DEFINE g == Top(Mt)
           h == TeardownFrame(Top(Mt).own)
<1>4. g \in QuietOf(Mt) /\ g.pc = "loop"
  BY <1>2, MtFrame DEF MtPcs, SetupPcs
<1>5. h \in QuietOf(Mt) /\ h \notin Bottom /\ h.pc = "give_up"
  BY <1>2, TeardownStill
<1>6. Callback(Mt, <<h>> \o <<g>>)
  BY <1>1, <1>2
<1> HIDE DEF g, h
<1>7. <<h, g>> = <<h>> \o <<g>>
  BY <1>4, <1>5, Two
<1>a. g \notin SetupFrames /\ h \notin SetupFrames
  BY <1>4, <1>5 DEF SetupFrames, SetupPcs
<1>8. Follow(Mt, <<h, g>>, {h, g}) /\ Callback(Mt, <<h, g>>)
  BY <1>4, <1>5, <1>6, <1>7, <1>a DEF Follow
<1> DEFINE N == {h, g}
<1>b. Follow(Mt, <<h, g>>, N) /\ N \cap SetupFrames = {}
  BY <1>8, <1>a
<1> HIDE DEF N
<1>c. BaseInv' /\ Moved(Mt, N)
  BY <1>1, <1>2, <1>3, <1>8, <1>b, PlainCallsBack, ActorFacts
<1>9. BaseInv' /\ Moved(Mt, {h, g})
  BY <1>c DEF N
<1> QED  BY <1>2, <1>4, <1>5, <1>9 DEF MtMild, Mild, GoingPcs, ComingPcs

LEMMA MtRetryKeeps ==
    ASSUME BaseInv, MtRetry
    PROVE  BaseInv' /\ MtMild
<1> USE DEF BaseInv, TypeInv
<1>1. /\ At(Mt, "loop") /\ "loop" \in MtPcs
      /\ Continue(Mt, [Frame0 EXCEPT !.pc = "backoff", !.n = attempt])
      /\ UNCHANGED <<clientVars, mtVars, linkVars, budget, history>>
  BY DEF MtRetry, MtDown, MtPcs
<1>2. /\ stack[Mt] # <<>> /\ Top(Mt).pc = "loop" /\ Top(Mt) \in Bottom /\ Top(Mt) \in Quiet
  BY <1>1, MtAt
<1>3. /\ ClientType' /\ MtType' /\ LinkType' /\ HistoryType'
      /\ UNCHANGED <<link, transport, told, mtTask, frag>>
  BY <1>1 DEF ClientType, MtType, LinkType, HistoryType, clientVars, mtVars, linkVars, history
<1> DEFINE g == [Frame0 EXCEPT !.pc = "backoff", !.n = attempt]
<1>4. g \in Frame /\ g.pc = "backoff" /\ g.n = attempt /\ Continue(Mt, g)
  BY <1>1, FrameZero DEF Frame0, Frame, MtPcs, ClientType
<1> HIDE DEF g
<1>5. SetStack(Mt, <<g>>)
  BY <1>1, <1>4, PlainContinues, ActorFacts
<1>6. Follow(Mt, <<g>>, {g})
  BY <1>1, <1>4, MtFrame DEF Follow, MtPcs, SetupPcs
<1>7. BaseInv' /\ Moved(Mt, {g})
  BY <1>2, <1>3, <1>5, <1>6, PlainSets, ActorFacts
<1> QED  BY <1>2, <1>4, <1>7 DEF MtMild, Mild, GoingPcs, ComingPcs

\* The end of the backoff: a new attempt, if the task is still to run.
LEMMA MtBackoffKeeps ==
    ASSUME BaseInv, MtBackoff
    PROVE  /\ BaseInv' /\ stack[Mt] # <<>> /\ Top(Mt).pc = "backoff"
           /\ \/ mtRunning /\ \E g \in Frame : g.pc = "establish" /\ Moved(Mt, {g})
              \/ Moved(Mt, {})
<1> USE DEF BaseInv, TypeInv
<1>1. /\ At(Mt, "backoff") /\ "backoff" \in MtPcs
      /\ UNCHANGED <<clientVars, mtVars, linkVars, budget, history>>
  BY DEF MtBackoff, MtPcs
<1>2. /\ stack[Mt] # <<>> /\ Top(Mt).pc = "backoff" /\ Top(Mt) \in Bottom /\ Top(Mt) \in Quiet
      /\ Tail(stack[Mt]) = <<>> /\ Top(Mt) \in Frame
  BY <1>1, MtAt
<1>3. /\ ClientType' /\ MtType' /\ LinkType' /\ HistoryType'
      /\ UNCHANGED <<link, transport, told, mtTask, frag>>
  BY <1>1 DEF ClientType, MtType, LinkType, HistoryType, clientVars, mtVars, linkVars, history
<1>4. CASE mtRunning /\ GoTo(Mt, "establish")
  <2> DEFINE g == [Top(Mt) EXCEPT !.pc = "establish"]
  <2>1. g \in Frame /\ g.pc = "establish" /\ Continue(Mt, g)
    BY <1>2, <1>4, FrameGoesOn DEF MtPcs, SetupPcs, GoTo
  <2> HIDE DEF g
  <2>2. SetStack(Mt, <<g>>)
    BY <1>1, <2>1, PlainContinues, ActorFacts
  <2>3. Follow(Mt, <<g>>, {g})
    BY <2>1, MtFrame DEF Follow, MtPcs, SetupPcs
  <2>4. BaseInv' /\ Moved(Mt, {g})
    BY <1>2, <1>3, <2>2, <2>3, PlainSets, ActorFacts
  <2> QED  BY <1>2, <1>4, <2>1, <2>4
<1>5. CASE Return(Mt)
  <2>1. Follow(Mt, <<>>, {}) /\ SetStack(Mt, <<>>)
    BY <1>2, <1>5 DEF Follow, Return
  <2>2. BaseInv' /\ Moved(Mt, {})
    BY <1>2, <1>3, <2>1, PlainSets, ActorFacts
  <2> QED  BY <1>2, <2>2
<1> QED  BY <1>4, <1>5 DEF MtBackoff

\* A report of the maintenance task, after which it turns again.
LEMMA MtReports ==
    ASSUME BaseInv, NEW l \in {"failed", "reconnected", "loop"}, At(Mt, l), Callback(Mt, MtLoop),
           ClientType', UNCHANGED <<transport, frag, mtVars, linkVars, history>>
    PROVE  BaseInv' /\ MtMild
<1> USE DEF BaseInv, TypeInv
<1>1. /\ stack[Mt] # <<>> /\ Top(Mt).pc = l /\ Top(Mt) \in Bottom /\ Top(Mt) \in Quiet
  BY MtAt DEF MtPcs
<1>2. MtType' /\ LinkType' /\ UNCHANGED <<link, transport, mtTask, frag>>
  BY DEF MtType, LinkType, mtVars, linkVars
<1> DEFINE g == [Frame0 EXCEPT !.pc = "loop"]
<1>3. g \in Frame /\ g.pc = "loop" /\ g \in QuietOf(Mt) /\ Callback(Mt, <<g>>)
  BY LoopFacts
<1> HIDE DEF g
<1>4. Follow(Mt, <<g>>, {g})
  BY <1>3 DEF Follow
<1>a. {g} \cap SetupFrames = {}
  BY <1>3 DEF SetupFrames, SetupPcs
<1>5. BaseInv' /\ Moved(Mt, {g})
  BY <1>1, <1>2, <1>3, <1>4, <1>a, PlainCallsBack, ActorFacts
<1> QED  BY <1>1, <1>3, <1>5 DEF MtMild, Mild, GoingPcs, ComingPcs

LEMMA MtFailedKeeps ==
    ASSUME BaseInv, MtFailed
    PROVE  BaseInv' /\ MtMild
<1>1. /\ At(Mt, "failed") /\ Callback(Mt, MtLoop)
      /\ attempt' = IF Top(Mt).n < MaxRetries THEN Top(Mt).n + 1 ELSE MaxRetries
      /\ UNCHANGED <<state, transport, connected, userClosed, exhausted, hs, rxBuf, frag, sendFrag,
                     closeSent, mtVars, linkVars, history>>
  BY DEF MtFailed
<1>2. Top(Mt) \in Frame
  BY <1>1, MtAt DEF MtPcs
<1>3. attempt' \in 0 .. MaxRetries
  BY <1>1, <1>2, BoundsAssumption DEF Frame
<1>4. ClientType'
  BY <1>1, <1>3 DEF BaseInv, TypeInv, ClientType
<1> QED  BY <1>1, <1>4, MtReports

LEMMA MtReconnectedKeeps ==
    ASSUME BaseInv, MtReconnected
    PROVE  BaseInv' /\ MtMild
<1>1. /\ At(Mt, "reconnected") /\ attempt' = 0 /\ exhausted' = FALSE /\ Callback(Mt, MtLoop)
      /\ UNCHANGED <<state, transport, connected, userClosed, hs, rxBuf, frag, sendFrag, closeSent,
                     mtVars, linkVars, history>>
  BY DEF MtReconnected
<1>2. attempt' \in 0 .. MaxRetries
  <2>1. attempt' = 0
    BY <1>1
  <2> QED  BY <2>1, BoundsAssumption
<1>3. ClientType'
  BY <1>1, <1>2 DEF BaseInv, TypeInv, ClientType
<1> QED  BY <1>1, <1>3, MtReports

LEMMA MtGivesUpKeeps ==
    ASSUME BaseInv, MtGivesUp
    PROVE  BaseInv' /\ MtMild
<1>1. /\ At(Mt, "loop") /\ exhausted' = TRUE /\ Callback(Mt, MtLoop)
      /\ UNCHANGED <<state, transport, connected, userClosed, attempt, hs, rxBuf, frag, sendFrag,
                     closeSent, mtVars, linkVars, history>>
  BY DEF MtGivesUp, MtDown
<1>2. ClientType'
  BY <1>1 DEF BaseInv, TypeInv, ClientType
<1> QED  BY <1>1, <1>2, MtReports

-----------------------------------------------------------------------------
(* The application. *)

LEMMA AppAt ==
    ASSUME BaseInv, NEW l \in AppPcs, l # "assign", At(App, l)
    PROVE  /\ stack[App] # <<>> /\ Top(App) \in Frame /\ Top(App).pc = l
           /\ Top(App) \in FramesOf(App, link) /\ stack[App] = <<Top(App)>>
           /\ Top(App).own \in MaybeTransport /\ Tail(stack[App]) = <<>>
           /\ Top(App) \in Bottom /\ Top(App) \in Quiet
  BY PlainTop, ActorFacts DEF BaseInv, TypeInv, Frame

LEMMA AppFrame ==
    ASSUME NEW f \in Frame, f.pc \in {"establish", "create", "up", "store_ping"}
    PROVE  f \in QuietOf(App) /\ f \in Bottom
  BY ActorFacts DEF QuietOf, FramesOf, AppPcs, OwnPcs, Quiet, Starting, Bottom, SetupPcs, SharedPcs

LEMMA ConnectKeeps ==
    ASSUME BaseInv, Connect
    PROVE  /\ BaseInv' /\ stack[App] = <<>>
           /\ \E g \in Frame : g.pc = "establish" /\ Moved(App, {g})
<1> USE DEF BaseInv, TypeInv
<1>1. /\ stack[App] = <<>> /\ userClosed' = FALSE /\ attempt' = 0 /\ exhausted' = FALSE
      /\ SetStack(App, <<[Frame0 EXCEPT !.pc = "establish"]>>)
      /\ UNCHANGED <<state, transport, connected, hs, rxBuf, frag, sendFrag, closeSent, mtVars,
                     linkVars, budget, history>>
  BY DEF Connect, Idle
<1>2. attempt' \in 0 .. MaxRetries
  <2>1. attempt' = 0
    BY <1>1
  <2> QED  BY <2>1, BoundsAssumption
<1>3. /\ ClientType' /\ MtType' /\ LinkType' /\ HistoryType'
      /\ UNCHANGED <<link, transport, told, mtTask, frag>>
  <2>1. ClientType'
    BY <1>1, <1>2 DEF ClientType
  <2>2. /\ MtType' /\ LinkType' /\ HistoryType'
        /\ UNCHANGED <<link, transport, told, mtTask, frag>>
    BY <1>1 DEF MtType, LinkType, HistoryType, mtVars, linkVars, history
  <2> QED  BY <2>1, <2>2
<1> DEFINE g == [Frame0 EXCEPT !.pc = "establish"]
<1>4. g \in Frame /\ g.pc = "establish" /\ SetStack(App, <<g>>)
  BY <1>1, FramesMade DEF AppPcs, SetupPcs, MaybeTransport
<1> HIDE DEF g
<1>5. Follow(App, <<g>>, {g})
  BY <1>4, AppFrame DEF Follow
<1>6. BaseInv' /\ Moved(App, {g})
  BY <1>1, <1>3, <1>4, <1>5, PlainSets, ActorFacts
<1> QED  BY <1>1, <1>4, <1>6

LEMMA ConnectReturnsKeeps ==
    ASSUME BaseInv, ConnectReturns
    PROVE  BaseInv' /\ \E N : Mild(App, N)
<1> USE DEF BaseInv, TypeInv
<1>1. /\ At(App, "up") /\ "up" \in AppPcs /\ Callback(App, <<>>)
      /\ UNCHANGED <<clientVars, mtVars, linkVars, history>>
  BY DEF ConnectReturns, AppPcs
<1>2. /\ stack[App] # <<>> /\ Top(App).pc = "up" /\ Top(App) \in Bottom /\ Top(App) \in Quiet
  BY <1>1, AppAt
<1>3. ClientType' /\ MtType' /\ LinkType' /\ UNCHANGED <<link, transport, mtTask, frag>>
  BY <1>1 DEF ClientType, MtType, LinkType, clientVars, mtVars, linkVars
<1>4. Follow(App, <<>>, {})
  BY DEF Follow
<1>5. BaseInv' /\ Moved(App, {})
  BY <1>1, <1>2, <1>3, <1>4, PlainCallsBack, ActorFacts
<1> QED  BY <1>2, <1>5 DEF Mild, GoingPcs

LEMMA AppClosesKeeps ==
    ASSUME BaseInv, AppCloses
    PROVE  BaseInv' /\ \E N : Mild(App, N)
<1> USE DEF BaseInv, TypeInv
<1>1. /\ stack[App] = <<>> /\ SetStack(App, <<CloseFrame>>)
      /\ UNCHANGED <<clientVars, mtVars, linkVars, budget, history>>
  BY DEF AppCloses, Idle
<1>2. /\ ClientType' /\ MtType' /\ LinkType' /\ HistoryType'
      /\ UNCHANGED <<link, transport, told, mtTask, frag>>
  BY <1>1 DEF ClientType, MtType, LinkType, HistoryType, clientVars, mtVars, linkVars, history
<1> DEFINE g == CloseFrame
<1>3. g \in FramesOf(App, link') /\ g \in Quiet /\ g.pc = "close" /\ SetStack(App, <<g>>)
  BY <1>1, CloseFrameFacts DEF ClientType, CloseFrame, Frame0
<1> HIDE DEF g
<1>4. Follow(App, <<g>>, {g})
  BY <1>3 DEF Follow, QuietOf, Starting
<1>5. BaseInv' /\ Moved(App, {g})
  BY <1>1, <1>2, <1>3, <1>4, PlainSets, ActorFacts
<1> QED  BY <1>1, <1>3, <1>5 DEF Mild, ComingPcs

LEMMA SpendsKeeps ==
    ASSUME budget \in 0 .. MaxEvents, NEW fragment, Spends(fragment)
    PROVE  budget' \in 0 .. MaxEvents
  BY BoundsAssumption DEF Spends

LEMMA PingKeeps ==
    ASSUME BaseInv, Ping
    PROVE  BaseInv' /\ UNCHANGED server /\ \E N : Mild(App, N)
<1> USE DEF BaseInv, TypeInv
<1>1. /\ stack[App] = <<>> /\ Spends(FALSE) /\ Sends(Item("ping", FALSE, TRUE, 0))
      /\ SetStack(App, <<[Frame0 EXCEPT !.pc = "store_ping"]>>)
      /\ UNCHANGED <<clientVars, mtVars, link, history>>
  BY DEF Ping, Idle
<1>2. LinkType' /\ UNCHANGED server
  BY <1>1, SendsKeeps DEF ClientType
<1>3. budget' \in 0 .. MaxEvents
  BY <1>1, SpendsKeeps DEF HistoryType
<1>4. /\ ClientType' /\ MtType' /\ HistoryType' /\ UNCHANGED <<link, transport, told, mtTask, frag>>
  BY <1>1, <1>3 DEF ClientType, MtType, HistoryType, clientVars, mtVars, history
<1> DEFINE g == [Frame0 EXCEPT !.pc = "store_ping"]
<1>5. g \in Frame /\ g.pc = "store_ping" /\ SetStack(App, <<g>>)
  BY <1>1, FramesMade DEF AppPcs, MaybeTransport
<1> HIDE DEF g
<1>6. Follow(App, <<g>>, {g})
  BY <1>5, AppFrame DEF Follow
<1>7. BaseInv' /\ Moved(App, {g})
  BY <1>1, <1>2, <1>4, <1>5, <1>6, PlainSets, ActorFacts
<1> QED  BY <1>1, <1>2, <1>5, <1>7 DEF Mild, ComingPcs

LEMMA PingFailsKeeps ==
    ASSUME BaseInv, PingFails
    PROVE  BaseInv' /\ \E N : Mild(App, N)
<1> USE DEF BaseInv, TypeInv
<1>1. /\ stack[App] = <<>> /\ Callback(App, <<>>)
      /\ UNCHANGED <<clientVars, mtVars, linkVars, history>>
  BY DEF PingFails, Idle
<1>2. ClientType' /\ MtType' /\ LinkType' /\ UNCHANGED <<link, transport, mtTask, frag>>
  BY <1>1 DEF ClientType, MtType, LinkType, clientVars, mtVars, linkVars
<1>3. Follow(App, <<>>, {})
  BY DEF Follow
<1>4. BaseInv' /\ Moved(App, {})
  <2>1. {} \cap SetupFrames = {} /\ App # Mt /\ App \in Actors
    BY ActorFacts
  <2> QED  BY <1>1, <1>2, <1>3, <2>1, PlainCallsBack
<1> QED  BY <1>1, <1>4 DEF Mild

LEMMA PingStoreKeeps ==
    ASSUME BaseInv, PingStore
    PROVE  BaseInv' /\ \E N : Mild(App, N)
<1> USE DEF BaseInv, TypeInv
<1>1. /\ At(App, "store_ping") /\ "store_ping" \in AppPcs /\ Return(App) /\ ping' = "sent"
      /\ UNCHANGED <<clientVars, config, mtTask, mtRunning, linkVars, budget, history>>
  BY DEF PingStore, AppPcs
<1>2. /\ stack[App] # <<>> /\ Top(App).pc = "store_ping" /\ Top(App) \in Bottom
      /\ Top(App) \in Quiet /\ Tail(stack[App]) = <<>>
  BY <1>1, AppAt
<1>3. /\ ClientType' /\ MtType' /\ LinkType' /\ HistoryType'
      /\ UNCHANGED <<link, transport, told, mtTask, frag>>
  BY <1>1 DEF ClientType, MtType, LinkType, HistoryType, clientVars, linkVars, history
<1>4. Follow(App, <<>>, {}) /\ SetStack(App, <<>>)
  BY <1>1, <1>2 DEF Follow, Return
<1>5. BaseInv' /\ Moved(App, {})
  BY <1>2, <1>3, <1>4, PlainSets, ActorFacts
<1> QED  BY <1>2, <1>5 DEF Mild, GoingPcs

\* What the application sets.
LEMMA SetsKeep ==
    ASSUME BaseInv, SetHeartbeat \/ SetAutoReconnect
    PROVE  /\ BaseInv' /\ UNCHANGED <<stack, linkVars, history>>
           /\ UNCHANGED <<state, transport, connected, userClosed, mtTask, mtRunning, sendFrag>>
<1> USE DEF BaseInv, TypeInv
<1>1. /\ budget > 0 /\ budget' = budget - 1 /\ attempt' \in {0, attempt}
      /\ exhausted' \in {FALSE, exhausted}
      /\ UNCHANGED <<stack, state, transport, connected, userClosed, hs, rxBuf, frag, sendFrag,
                     closeSent, mtTask, mtRunning, ping, linkVars, history>>
  BY DEF SetHeartbeat, SetAutoReconnect, clientVars
<1>2. heartbeat \in BOOLEAN /\ schedule \in Schedules
  BY DEF MtType, config
<1>3. config' \in BOOLEAN \X Schedules
  <2>1. heartbeat' \in BOOLEAN /\ schedule' \in Schedules
    BY <1>2, SettingsAssumption DEF SetHeartbeat, SetAutoReconnect
  <2> QED  BY <2>1 DEF config
<1>4. attempt' \in 0 .. MaxRetries /\ exhausted' \in BOOLEAN /\ budget' \in 0 .. MaxEvents
  <2>1. 0 \in 0 .. MaxRetries /\ attempt \in 0 .. MaxRetries /\ exhausted \in BOOLEAN
    BY BoundsAssumption DEF ClientType
  <2>2. budget' \in 0 .. MaxEvents
    BY <1>1, BoundsAssumption DEF HistoryType
  <2> QED  BY <1>1, <2>1, <2>2
<1>5. ClientType' /\ LinkType' /\ HistoryType'
  BY <1>1, <1>4 DEF ClientType, LinkType, HistoryType, linkVars, history
<1>6. MtType'
  BY <1>1, <1>3 DEF MtType
<1>7. UNCHANGED <<link, told>>
  BY <1>1 DEF linkVars, history
<1>8. BaseInv'
  BY <1>1, <1>5, <1>6, <1>7, LinkSame, StillKeeps
<1> QED  BY <1>1, <1>8

\* The frame of a send, with the message's state as it was before.
LEMMA SendFragmentKeeps ==
    ASSUME BaseInv, SendFragment
    PROVE  /\ BaseInv' /\ stack[App] = <<>>
           /\ \E g \in Frame : /\ g.pc = "send_data" /\ g.own = transport
                               /\ g.p.start = ~sendFrag /\ sendFrag' = ~g.p.fin
                               /\ Moved(App, {g})
<1> USE DEF BaseInv, TypeInv
<1>1. PICK fin \in BOOLEAN :
          /\ Spends(sendFrag \/ ~fin)
          /\ sendFrag' = ~fin
          /\ SetStack(App, <<[Frame0 EXCEPT !.pc = "send_data", !.own = transport,
                                            !.p = Item("data", ~sendFrag, fin, 0)]>>)
  BY DEF SendFragment
<1>2. /\ stack[App] = <<>>
      /\ UNCHANGED <<state, transport, connected, userClosed, attempt, exhausted, hs, rxBuf, frag,
                     closeSent, mtVars, linkVars, history>>
  BY DEF SendFragment, Idle
<1>3. sendFrag' \in BOOLEAN /\ budget' \in 0 .. MaxEvents
  BY <1>1, SpendsKeeps DEF HistoryType
<1>4. /\ ClientType' /\ MtType' /\ LinkType' /\ HistoryType'
      /\ UNCHANGED <<link, transport, told, mtTask, frag>>
  BY <1>2, <1>3 DEF ClientType, MtType, LinkType, HistoryType, mtVars, linkVars, history
<1> DEFINE p == Item("data", ~sendFrag, fin, 0)
           g == [Frame0 EXCEPT !.pc = "send_data", !.own = transport, !.p = p]
<1>5. p \in Items /\ p.type = "data" /\ p.start = ~sendFrag /\ p.fin = fin
  <2>1. (~sendFrag) \in BOOLEAN /\ "data" \in ItemTypes /\ 0 \in MaybeTransport
    BY DEF ItemTypes, MaybeTransport
  <2> QED  BY <2>1 DEF Item, Items
<1> HIDE DEF p
<1>6. g \in Frame /\ g.pc = "send_data" /\ g.own = transport /\ g.p = p
  BY <1>5, FrameZero DEF Frame0, Frame, AppPcs, ClientType
<1>7. SetStack(App, <<g>>)
  BY <1>1 DEF p
<1> HIDE DEF g
<1>8. g \in QuietOf(App)
  BY <1>5, <1>6, ActorFacts DEF QuietOf, FramesOf, AppPcs, OwnPcs, Quiet, Starting, SetupPcs
<1>9. Follow(App, <<g>>, {g})
  BY <1>8 DEF Follow
<1>10. BaseInv' /\ Moved(App, {g})
  BY <1>2, <1>4, <1>7, <1>9, PlainSets, ActorFacts
<1> QED  BY <1>1, <1>2, <1>5, <1>6, <1>10

LEMMA SendDataKeeps ==
    ASSUME BaseInv, SendData \/ SendDataFails
    PROVE  /\ BaseInv' /\ stack[App] # <<>> /\ Top(App).pc = "send_data" /\ Moved(App, {})
           /\ Top(App) \in Frame /\ Top(App).p \in Items /\ Top(App).p.type = "data"
<1> USE DEF BaseInv, TypeInv
<1>1. /\ At(App, "send_data") /\ "send_data" \in AppPcs /\ Return(App)
      /\ UNCHANGED <<clientVars, mtVars, link, budget, opened, told>>
  BY DEF SendData, SendDataFails, AppPcs, linkVars
<1>2. /\ stack[App] # <<>> /\ Top(App).pc = "send_data" /\ Top(App) \in Bottom /\ Top(App) \in Quiet
      /\ Top(App) \in Frame /\ Tail(stack[App]) = <<>> /\ Top(App) \in FramesOf(App, link)
  BY <1>1, AppAt
<1>3. Top(App).p \in Items /\ Top(App).p.type = "data"
  BY <1>2 DEF Frame, FramesOf
<1>4. LinkType'
  <2>1. CASE SendData
    <3>1. CASE Sends(Top(App).p)
      BY <1>1, <1>3, <3>1, TransmitKeeps DEF Sends, ClientType
    <3>2. CASE SendFails
      BY <1>1, <3>2 DEF SendFails, LinkType
    <3> QED  BY <2>1, <3>1, <3>2 DEF SendData
  <2>2. CASE SendDataFails
    BY <2>2 DEF SendDataFails, linkVars, LinkType
  <2> QED  BY <2>1, <2>2
<1>5. lapses' \subseteq Lapses
  BY DEF SendData, SendDataFails, HistoryType, Lapses
<1>6. ClientType' /\ MtType' /\ HistoryType' /\ UNCHANGED <<link, transport, told, mtTask, frag>>
  BY <1>1, <1>5 DEF ClientType, MtType, HistoryType, clientVars, mtVars
<1>7. Follow(App, <<>>, {}) /\ SetStack(App, <<>>)
  BY <1>1, <1>2 DEF Follow, Return
<1>8. BaseInv' /\ Moved(App, {})
  BY <1>2, <1>4, <1>6, <1>7, PlainSets, ActorFacts
<1> QED  BY <1>2, <1>3, <1>8

-----------------------------------------------------------------------------
(* The calls that any thread makes. *)

\* A call that somebody called, and that owns nothing.
LEMMA SharedTop ==
    ASSUME StackInv, NEW x \in Actors, NEW l, At(x, l), l \in SharedPcs \ {"drop", "tell"}
    PROVE  /\ stack[x] # <<>> /\ Top(x).pc = l /\ Top(x) \in Frame /\ Top(x) \in FramesOf(x, link)
           /\ Top(x) \in Quiet /\ Top(x).own \in MaybeTransport
           /\ l \notin {"stop", "join"} => Top(x) \notin Bottom
<1>1. stack[x] # <<>> /\ Top(x).pc = l
  BY DEF At
<1>2. Top(x) \in Frame /\ Top(x) \in FramesOf(x, link)
  BY <1>1, OnTop
<1> QED  BY <1>1, <1>2 DEF Frame, Quiet, Bottom, SharedPcs, AppPcs, RxPcs, MtPcs, SetupPcs

\* A shared call that goes on as g.
LEMMA SharedContinues ==
    ASSUME BaseInv, NEW x \in Actors, NEW l, At(x, l), l \in SharedPcs \ {"drop", "tell"},
           NEW g, g \in FramesOf(x, link'), g \in Quiet, g \in Bottom => Top(x) \in Bottom,
           g \notin Starting, l \in {"fail", "fail_close", "give_up"} => g \in Failing,
           SetStack(x, <<g>> \o Tail(stack[x])),
           UNCHANGED <<link, transport, told, mtTask, frag>>,
           ClientType', MtType', LinkType', HistoryType'
    PROVE  BaseInv' /\ Moved(x, {g})
<1> USE DEF BaseInv, TypeInv
<1>1. ClosedStays /\ NoneStays
  BY LinkSame
<1>2. stack[x] # <<>> /\ Top(x).pc = l /\ Top(x) \in Quiet
  BY SharedTop
<1> DEFINE s == <<g>> \o Tail(stack[x])
<1>3. Turns(x, s, {g}) /\ SameOwners(s, stack[x])
  BY <1>1, <1>2, GoesOn
<1> HIDE DEF s
<1>4. StackInv' /\ Moved(x, {g}) /\ OwnersStay
  BY <1>1, <1>3, SetTurns DEF s
<1>5. Top(x) \in Failing => {g} \cap Failing # {}
  BY <1>2 DEF Failing
<1> QED  BY <1>1, <1>2, <1>4, <1>5, MoveKeeps

LEMMA SharedReturns ==
    ASSUME BaseInv, NEW x \in Actors, NEW l, At(x, l), l \in SharedPcs \ {"drop", "tell"},
           l \notin {"fail", "fail_close", "give_up"}, SetStack(x, Tail(stack[x])),
           UNCHANGED <<link, transport, told, mtTask, frag>>,
           ClientType', MtType', LinkType', HistoryType'
    PROVE  BaseInv' /\ Moved(x, {})
<1> USE DEF BaseInv, TypeInv
<1>1. ClosedStays /\ NoneStays
  BY LinkSame
<1>2. stack[x] # <<>> /\ Top(x).pc = l /\ Top(x) \in Quiet
  BY SharedTop
<1> DEFINE s == Tail(stack[x])
<1>3. Turns(x, s, {}) /\ SameOwners(s, stack[x])
  BY <1>1, <1>2, Returns
<1> HIDE DEF s
<1>4. StackInv' /\ Moved(x, {}) /\ OwnersStay
  BY <1>1, <1>3, SetTurns DEF s
<1>5. Top(x) \notin Failing
  BY <1>2 DEF Failing
<1> QED  BY <1>1, <1>2, <1>4, <1>5, MoveKeeps

LEMMA FailKeeps ==
    ASSUME BaseInv, NEW x \in Actors, Fail(x)
    PROVE  BaseInv' /\ \E N : Mild(x, N)
<1> USE DEF BaseInv, TypeInv
<1> DEFINE g == [Top(x) EXCEPT !.pc = "fail_close"]
<1>1. /\ At(x, "fail") /\ Callback(x, <<g>> \o Tail(stack[x]))
      /\ UNCHANGED <<clientVars, mtVars, linkVars, history>>
  BY DEF Fail
<1>2. /\ stack[x] # <<>> /\ Top(x).pc = "fail" /\ Top(x) \in Frame /\ Top(x) \in Quiet
      /\ Top(x) \notin Bottom
  BY <1>1, SharedTop DEF SharedPcs
<1>3. /\ ClientType' /\ MtType' /\ LinkType' /\ UNCHANGED <<link, transport, told, mtTask, frag>>
      /\ ClosedStays /\ NoneStays
  BY <1>1, LinkSame DEF ClientType, MtType, LinkType, clientVars, mtVars, linkVars, history
<1>4. g \in Frame /\ g.pc = "fail_close"
  BY <1>2, FrameGoesOn DEF SharedPcs
<1> HIDE DEF g
<1>5. g \in FramesOf(x, link') /\ g \in Quiet /\ g \notin Bottom /\ g \notin Starting /\ g \in Failing
  BY <1>4 DEF FramesOf, SharedPcs, SetupPcs, Quiet, Bottom, Starting, Failing, AppPcs, RxPcs, MtPcs
<1> DEFINE s == <<g>> \o Tail(stack[x])
<1>6. Turns(x, s, {g}) /\ SameOwners(s, stack[x])
  BY <1>2, <1>3, <1>5, GoesOn
<1> HIDE DEF s
<1>7. transport \in MaybeTransport /\ budget \in 0 .. MaxEvents
  BY DEF ClientType, HistoryType
<1>a. ~Has(s, SetupFrames)
  <2>1. Top(x) \notin SetupFrames /\ g \notin SetupFrames
    BY <1>2, <1>4 DEF SetupFrames, SetupPcs
  <2>2. ~Has(stack[x], SetupFrames)
    BY <1>2, <2>1, SetupOnTop
  <2> QED  BY <1>6, <2>1, <2>2, SetupNoted DEF Turns, Became
<1>8. StackInv' /\ Moved(x, {g}) /\ OwnersStay /\ budget' \in 0 .. MaxEvents
  BY <1>1, <1>3, <1>6, <1>7, <1>a, CallsBack DEF s
<1>9. HistoryType'
  BY <1>1, <1>8 DEF HistoryType, history
<1>10. BaseInv'
  BY <1>2, <1>3, <1>5, <1>8, <1>9, MoveKeeps
<1> QED  BY <1>2, <1>4, <1>8, <1>10 DEF Mild, GoingPcs, ComingPcs

LEMMA FailClosesKeeps ==
    ASSUME BaseInv, NEW x \in Actors, FailCloses(x)
    PROVE  BaseInv' /\ (\E N : Mild(x, N)) /\ UNCHANGED server
<1> USE DEF BaseInv, TypeInv
<1> DEFINE g == [Top(x) EXCEPT !.pc = "give_up"]
<1>1. /\ At(x, "fail_close") /\ SendCloseFrame(x) /\ SetStack(x, <<g>> \o Tail(stack[x]))
      /\ UNCHANGED <<state, transport, connected, userClosed, attempt, exhausted, hs, rxBuf, frag,
                     sendFrag, mtVars, link, budget, history>>
  BY DEF FailCloses, GoTo, Continue
<1>2. /\ stack[x] # <<>> /\ Top(x).pc = "fail_close" /\ Top(x) \in Frame
  BY <1>1, SharedTop DEF SharedPcs
<1>3. LinkType' /\ UNCHANGED server /\ closeSent' \in BOOLEAN
  BY <1>1, SendCloseKeeps
<1>4. /\ ClientType' /\ MtType' /\ HistoryType' /\ UNCHANGED <<link, transport, told, mtTask, frag>>
  BY <1>1, <1>3 DEF ClientType, MtType, HistoryType, mtVars, history
<1>5. g \in Frame /\ g.pc = "give_up"
  BY <1>2, FrameGoesOn DEF SharedPcs
<1> HIDE DEF g
<1>6. g \in FramesOf(x, link') /\ g \in Quiet /\ g \notin Bottom /\ g \notin Starting /\ g \in Failing
  BY <1>5 DEF FramesOf, SharedPcs, SetupPcs, Quiet, Bottom, Starting, Failing, AppPcs, RxPcs, MtPcs
<1>7. BaseInv' /\ Moved(x, {g})
  BY <1>1, <1>3, <1>4, <1>6, SharedContinues DEF SharedPcs
<1> QED  BY <1>2, <1>3, <1>5, <1>7 DEF Mild, GoingPcs, ComingPcs

LEMMA CloseCallKeeps ==
    ASSUME BaseInv, NEW x \in Actors, Close(x)
    PROVE  BaseInv' /\ \E N : Mild(x, N)
<1> USE DEF BaseInv, TypeInv
<1>1. /\ At(x, "close") /\ userClosed' = TRUE
      /\ UNCHANGED <<state, transport, connected, attempt, exhausted, hs, rxBuf, frag, sendFrag,
                     closeSent, mtVars, linkVars, budget, history>>
  BY DEF Close
<1>2. PICK then \in {"close_frame", "refuse"} :
          Continue(x, [Top(x) EXCEPT !.pc = "stop", !.then = then])
  BY DEF Close
<1> DEFINE g == [Top(x) EXCEPT !.pc = "stop", !.then = then]
<1>3. stack[x] # <<>> /\ Top(x).pc = "close" /\ Top(x) \in Frame
  BY <1>1, SharedTop DEF SharedPcs
<1>4. /\ ClientType' /\ MtType' /\ LinkType' /\ HistoryType'
      /\ UNCHANGED <<link, transport, told, mtTask, frag>>
  BY <1>1 DEF ClientType, MtType, LinkType, HistoryType, mtVars, linkVars, history
<1>5. g \in Frame /\ g.pc = "stop" /\ g.then = then
  BY <1>3 DEF Frame, SharedPcs
<1>6. SetStack(x, <<g>> \o Tail(stack[x]))
  BY <1>2 DEF Continue
<1> HIDE DEF g
<1>7. g \in FramesOf(x, link') /\ g \in Quiet /\ g \notin Bottom /\ g \notin Starting
  BY <1>5 DEF FramesOf, SharedPcs, SetupPcs, Quiet, Bottom, Starting, AppPcs, RxPcs, MtPcs
<1>8. BaseInv' /\ Moved(x, {g})
  BY <1>1, <1>4, <1>6, <1>7, SharedContinues DEF SharedPcs
<1> QED  BY <1>3, <1>5, <1>8 DEF Mild, GoingPcs, ComingPcs

\* After on_error_: Teardown.
LEMMA CloseRefusedKeeps ==
    ASSUME BaseInv, NEW x \in Actors, CloseRefused(x)
    PROVE  /\ BaseInv' /\ stack[x] # <<>> /\ Top(x).pc = "refuse"
           /\ \E g \in Frame : g.pc = "give_up" /\ Moved(x, {g})
<1> USE DEF BaseInv, TypeInv
<1> DEFINE g == [Top(x) EXCEPT !.pc = "give_up"]
<1>1. /\ At(x, "refuse") /\ Callback(x, <<g>> \o Tail(stack[x]))
      /\ UNCHANGED <<clientVars, mtVars, linkVars, history>>
  BY DEF CloseRefused
<1>2. /\ stack[x] # <<>> /\ Top(x).pc = "refuse" /\ Top(x) \in Frame /\ Top(x) \in Quiet
      /\ Top(x) \notin Bottom
  BY <1>1, SharedTop DEF SharedPcs
<1>3. /\ ClientType' /\ MtType' /\ LinkType' /\ UNCHANGED <<link, transport, told, mtTask, frag>>
      /\ ClosedStays /\ NoneStays
  BY <1>1, LinkSame DEF ClientType, MtType, LinkType, clientVars, mtVars, linkVars, history
<1>4. g \in Frame /\ g.pc = "give_up"
  BY <1>2, FrameGoesOn DEF SharedPcs
<1> HIDE DEF g
<1>5. /\ g \in FramesOf(x, link') /\ g \in Quiet /\ g \notin Bottom /\ g \notin Starting
      /\ g \in Failing
  BY <1>4 DEF FramesOf, SharedPcs, SetupPcs, Quiet, Bottom, Starting, Failing, AppPcs, RxPcs, MtPcs
<1> DEFINE s == <<g>> \o Tail(stack[x])
<1>6. Turns(x, s, {g}) /\ SameOwners(s, stack[x])
  BY <1>2, <1>3, <1>5, GoesOn
<1> HIDE DEF s
<1>7. transport \in MaybeTransport /\ budget \in 0 .. MaxEvents
  BY DEF ClientType, HistoryType
<1>a. ~Has(s, SetupFrames)
  <2>1. Top(x) \notin SetupFrames /\ g \notin SetupFrames
    BY <1>2, <1>4 DEF SetupFrames, SetupPcs
  <2>2. ~Has(stack[x], SetupFrames)
    BY <1>2, <2>1, SetupOnTop
  <2> QED  BY <1>6, <2>1, <2>2, SetupNoted DEF Turns, Became
<1>8. StackInv' /\ Moved(x, {g}) /\ OwnersStay /\ budget' \in 0 .. MaxEvents
  BY <1>1, <1>3, <1>6, <1>7, <1>a, CallsBack DEF s
<1>9. HistoryType'
  BY <1>1, <1>8 DEF HistoryType, history
<1>10. BaseInv'
  BY <1>2, <1>3, <1>5, <1>8, <1>9, MoveKeeps
<1> QED  BY <1>2, <1>4, <1>8, <1>10

\* After the close frame: Teardown, or nothing where nothing is open.
LEMMA CloseSendsKeeps ==
    ASSUME BaseInv, NEW x \in Actors, CloseSends(x)
    PROVE  /\ BaseInv' /\ UNCHANGED server /\ stack[x] # <<>> /\ Top(x).pc = "close_frame"
           /\ \/ \E g \in Frame : g.pc = "give_up" /\ Moved(x, {g})
              \/ ~(state = "open" /\ transport # 0) /\ Moved(x, {})
<1> USE DEF BaseInv, TypeInv
<1> DEFINE g == [Top(x) EXCEPT !.pc = "give_up"]
<1>1. /\ At(x, "close_frame") /\ SendCloseFrame(x)
      /\ UNCHANGED <<state, transport, connected, userClosed, attempt, exhausted, hs, rxBuf, frag,
                     sendFrag, mtVars, link, budget, history>>
      /\ \/ SetStack(x, <<g>> \o Tail(stack[x]))
         \/ ~(state = "open" /\ transport # 0) /\ SetStack(x, Tail(stack[x]))
  BY DEF CloseSends, GoTo, Continue, Return
<1>2. stack[x] # <<>> /\ Top(x).pc = "close_frame" /\ Top(x) \in Frame
  BY <1>1, SharedTop DEF SharedPcs
<1>3. LinkType' /\ UNCHANGED server /\ closeSent' \in BOOLEAN
  BY <1>1, SendCloseKeeps
<1>4. /\ ClientType' /\ MtType' /\ HistoryType' /\ UNCHANGED <<link, transport, told, mtTask, frag>>
  BY <1>1, <1>3 DEF ClientType, MtType, HistoryType, mtVars, history
<1>5. g \in Frame /\ g.pc = "give_up"
  BY <1>2, FrameGoesOn DEF SharedPcs
<1> HIDE DEF g
<1>6. g \in FramesOf(x, link') /\ g \in Quiet /\ g \notin Bottom /\ g \notin Starting
  BY <1>5 DEF FramesOf, SharedPcs, SetupPcs, Quiet, Bottom, Starting, AppPcs, RxPcs, MtPcs
<1>7. CASE SetStack(x, <<g>> \o Tail(stack[x]))
  <2>1. BaseInv' /\ Moved(x, {g})
    BY <1>1, <1>3, <1>4, <1>6, <1>7, SharedContinues DEF SharedPcs
  <2> QED  BY <1>2, <1>3, <1>5, <2>1
<1>8. CASE ~(state = "open" /\ transport # 0) /\ SetStack(x, Tail(stack[x]))
  <2>1. BaseInv' /\ Moved(x, {})
    BY <1>1, <1>3, <1>4, <1>8, SharedReturns DEF SharedPcs
  <2> QED  BY <1>2, <1>3, <1>8, <2>1
<1> QED  BY <1>1, <1>7, <1>8

-----------------------------------------------------------------------------
(* The steps that start and stop the maintenance task. *)

LEMMA NotZero == 0 \notin Transports
  BY BoundsAssumption DEF Transports

\* StopMaintain goes on at l.
LEMMA StopGoesOn ==
    ASSUME BaseInv, NEW x \in Actors, NEW j \in {"stop", "join"}, At(x, j),
           NEW l \in {"join", Top(x).then}, GoTo(x, l),
           l = "start" => ~mtTask', mtTask' => mtTask, stack[Mt] # <<>> => UNCHANGED mtTask,
           UNCHANGED <<link, transport, told, frag>>,
           ClientType', MtType', LinkType', HistoryType'
    PROVE  /\ BaseInv' /\ stack[x] # <<>> /\ Top(x) \in Frame /\ Top(x).pc = j
           /\ Top(x).then = "start" => x = App
           /\ \E g \in Frame : /\ g.pc = l /\ g.then = Top(x).then /\ g.own = Top(x).own
                               /\ l \in {"join", "close_frame", "refuse", "start"}
                               /\ Moved(x, {g})
<1> USE DEF BaseInv, TypeInv
<1> DEFINE g == [Top(x) EXCEPT !.pc = l]
<1>1. /\ stack[x] # <<>> /\ Top(x).pc = j /\ Top(x) \in Frame /\ Top(x) \in FramesOf(x, link)
      /\ Top(x) \in Quiet
  BY SharedTop DEF SharedPcs
<1>2. /\ Top(x).then \in {"close_frame", "refuse"} \/ (x = App /\ Top(x).then = "start")
      /\ Top(x).then = "start" => Top(x) \in Bottom
  BY <1>1 DEF FramesOf, Bottom
<1>3. l \in {"join", "close_frame", "refuse", "start"} /\ (l = "start" => x = App)
  BY <1>2
<1>4. g \in Frame /\ g.pc = l /\ g.then = Top(x).then /\ g.own = Top(x).own
  BY <1>1, <1>3 DEF Frame, SharedPcs, AppPcs
<1>5. SetStack(x, <<g>> \o Tail(stack[x]))
  BY DEF GoTo, Continue
<1> HIDE DEF g
<1>6. g \in FramesOf(x, link') /\ g \in Quiet
  BY <1>2, <1>3, <1>4 DEF FramesOf, SharedPcs, SetupPcs, OwnPcs, AppPcs, Quiet
<1>7. g \in Bottom => Top(x) \in Bottom
  BY <1>2, <1>3, <1>4 DEF Bottom, AppPcs, RxPcs, MtPcs, SetupPcs
<1>8. ClosedStays /\ NoneStays
  BY LinkSame
<1> DEFINE s == <<g>> \o Tail(stack[x])
<1>9. Turns(x, s, {g}) /\ SameOwners(s, stack[x])
  BY <1>1, <1>6, <1>7, <1>8, GoesOn
<1> HIDE DEF s
<1>10. StackInv' /\ Moved(x, {g}) /\ OwnersStay
  BY <1>5, <1>8, <1>9, SetTurns DEF s
<1>11. FragInv'
  <2>1. Top(x) \notin Failing
    BY <1>1 DEF Failing
  <2> QED  BY <1>10, <2>1, FragKeeps
<1>12. TaskInv'
  <2>1. Has(stack'[App], Starting) => ~mtTask'
    <3>1. CASE g \in Starting
      BY <1>4, <3>1 DEF Starting
    <3>2. CASE g \notin Starting
      <4>1. Has(stack'[App], Starting) => Has(stack[App], Starting)
        <5>1. CASE x = App
          BY <1>10, <3>2, <5>1, StartingFacts DEF Moved, Became
        <5>2. CASE x # App
          BY <1>10, <5>2, ActorFacts DEF Moved
        <5> QED  BY <5>1, <5>2
      <4> QED  BY <4>1 DEF TaskInv
    <3> QED  BY <3>1, <3>2
  <2>2. stack'[Mt] # <<>> => stack[Mt] # <<>>
    BY <1>1, <1>10, ActorFacts DEF Moved
  <2> QED  BY <2>1, <2>2 DEF TaskInv
<1>13. BaseInv'
  BY <1>8, <1>10, <1>11, <1>12, QuietAction
<1> QED  BY <1>1, <1>2, <1>3, <1>4, <1>10, <1>13

LEMMA StopMaintainKeeps ==
    ASSUME BaseInv, NEW x \in Actors, StopMaintain(x)
    PROVE  /\ BaseInv' /\ stack[x] # <<>> /\ Top(x) \in Frame /\ Top(x).pc = "stop"
           /\ Top(x).then = "start" => x = App
           /\ \E g \in Frame : /\ g.pc = IF mtTask /\ x # Mt THEN "join" ELSE Top(x).then
                               /\ g.pc \in {"join", "close_frame", "refuse", "start"}
                               /\ g.then = Top(x).then /\ g.own = Top(x).own /\ Moved(x, {g})
<1> USE DEF BaseInv, TypeInv
<1> DEFINE l == IF mtTask /\ x # Mt THEN "join" ELSE Top(x).then
<1>1. /\ At(x, "stop") /\ mtRunning' = FALSE /\ GoTo(x, l)
      /\ UNCHANGED <<clientVars, config, mtTask, ping, linkVars, budget, opened, told>>
  BY DEF StopMaintain
<1>2. stack[x] # <<>> /\ Top(x) \in FramesOf(x, link)
  BY <1>1, OnTop DEF At
<1>3. l = "start" => ~mtTask
  <2>1. Top(x).then = "start" => x = App
    BY <1>1, <1>2 DEF FramesOf, At
  <2> QED  BY <2>1, ActorFacts
<1>4. l \in {"join", Top(x).then}
  OBVIOUS
<1> HIDE DEF l
<1>5. lapses' \subseteq Lapses
  BY DEF StopMaintain, HistoryType, Lapses
<1>6. /\ ClientType' /\ LinkType' /\ HistoryType' /\ UNCHANGED <<transport, told, frag, link>>
  BY <1>1, <1>5 DEF ClientType, LinkType, HistoryType, clientVars, linkVars
<1>7. MtType' /\ UNCHANGED mtTask /\ (l = "start" => ~mtTask') /\ (mtTask' => mtTask)
  BY <1>1, <1>3 DEF MtType
<1>8. /\ BaseInv' /\ stack[x] # <<>> /\ Top(x) \in Frame /\ Top(x).pc = "stop"
      /\ Top(x).then = "start" => x = App
      /\ \E g \in Frame : /\ g.pc = l /\ g.then = Top(x).then /\ g.own = Top(x).own
                          /\ l \in {"join", "close_frame", "refuse", "start"}
                          /\ Moved(x, {g})
  BY <1>1, <1>4, <1>6, <1>7, StopGoesOn
<1> QED  BY <1>8 DEF l

LEMMA JoinMaintainKeeps ==
    ASSUME BaseInv, NEW x \in Actors, JoinMaintain(x)
    PROVE  /\ BaseInv' /\ stack[x] # <<>> /\ Top(x) \in Frame /\ Top(x).pc = "join"
           /\ Top(x).then = "start" => x = App
           /\ \E g \in Frame : /\ g.pc = Top(x).then
                               /\ g.pc \in {"join", "close_frame", "refuse", "start"}
                               /\ g.then = Top(x).then /\ g.own = Top(x).own /\ Moved(x, {g})
<1> USE DEF BaseInv, TypeInv
<1>1. /\ At(x, "join") /\ stack[Mt] = <<>> /\ mtTask' = FALSE /\ GoTo(x, Top(x).then)
      /\ UNCHANGED <<clientVars, config, mtRunning, ping, linkVars, budget, history>>
  BY DEF JoinMaintain, Idle
<1>2. /\ ClientType' /\ LinkType' /\ HistoryType' /\ UNCHANGED <<transport, told, frag, link>>
  BY <1>1 DEF ClientType, LinkType, HistoryType, clientVars, linkVars, history
<1>3. MtType' /\ ~mtTask'
  BY <1>1 DEF MtType
<1> QED  BY <1>1, <1>2, <1>3, StopGoesOn

\* The task starts where none is: its stack was empty.
LEMMA StartMaintainKeeps ==
    ASSUME BaseInv, StartMaintain
    PROVE  /\ BaseInv' /\ stack[App] # <<>> /\ Top(App).pc = "start" /\ stack[Mt] = <<>>
           /\ stack'[Rx] = stack[Rx]
           /\ \E g \in Frame : g.pc = "up" /\ Became(stack[App], stack'[App], {g})
           /\ \E h \in Frame : h.pc = "loop" /\ Became(stack[Mt], stack'[Mt], {h})
<1> USE DEF BaseInv, TypeInv
<1> DEFINE g == [Top(App) EXCEPT !.pc = "up"]
           h == [Frame0 EXCEPT !.pc = "loop"]
<1>1. /\ At(App, "start") /\ "start" \in AppPcs /\ mtRunning' = TRUE /\ mtTask' = TRUE
      /\ stack' = [stack EXCEPT ![Mt] = MtLoop, ![App] = <<g>>]
      /\ UNCHANGED <<clientVars, config, ping, linkVars, budget, history>>
  BY DEF StartMaintain, AppPcs
<1>2. /\ stack[App] # <<>> /\ Top(App) \in Frame /\ Top(App).pc = "start"
      /\ Top(App) \in Bottom /\ Top(App) \in Quiet
  BY <1>1, AppAt
<1>3. stack[Mt] = <<>>
  <2>1. Has(stack[App], Starting)
    BY <1>2, TopHas, ActorFacts DEF Starting
  <2> QED  BY <2>1 DEF TaskInv
<1>4. g \in Frame /\ g.pc = "up"
  BY <1>2, FrameGoesOn DEF AppPcs
<1>5. h \in Frame /\ h.pc = "loop" /\ h \in QuietOf(Mt) /\ MtLoop = <<h>>
  BY LoopFacts
<1> HIDE DEF g, h
<1>6. g \in QuietOf(App)
  BY <1>4, AppFrame
<1>7. ClosedStays /\ NoneStays /\ link' = link
  BY <1>1, LinkSame DEF linkVars
<1>8. Turns(App, <<g>>, {g}) /\ SameOwners(<<g>>, stack[App])
  BY <1>2, <1>6, OneCall, ActorFacts DEF QuietOf
<1>9. Turns(Mt, <<h>>, {h}) /\ SameOwners(<<h>>, stack[Mt])
  BY <1>3, <1>5, OneCall, ActorFacts DEF QuietOf
<1>10. /\ DOMAIN stack' = Actors /\ stack'[App] = <<g>> /\ stack'[Mt] = <<h>>
       /\ stack'[Rx] = stack[Rx]
  BY <1>1, <1>5, ActorFacts DEF StackInv
<1>11. StackInv'
  <2>1. GoodStack(Rx, stack'[Rx], link')
    BY <1>7, <1>10, ActorFacts DEF StackInv
  <2>2. GoodStack(App, stack'[App], link') /\ GoodStack(Mt, stack'[Mt], link')
    BY <1>8, <1>9, <1>10 DEF Turns
  <2> QED  BY <1>10, <2>1, <2>2, ActorFacts DEF StackInv
<1>12. OwnersStay
  <2>1. SameOwners(stack'[Rx], stack[Rx])
    BY <1>10 DEF SameOwners
  <2> QED  BY <1>8, <1>9, <1>10, <2>1, ActorFacts DEF OwnersStay
<1>13. ClientType' /\ LinkType' /\ HistoryType' /\ UNCHANGED <<transport, told, frag>>
  BY <1>1 DEF ClientType, LinkType, HistoryType, clientVars, linkVars, history
<1>14. MtType' /\ mtTask'
  BY <1>1 DEF MtType
<1>15. FragInv'
  BY <1>10, <1>13 DEF FragInv
<1>16. TaskInv'
  <2>1. ~Has(stack'[App], Starting)
    <3>1. Has(stack'[App], Starting) => {g} \cap Starting # {}
      BY <1>2, <1>8, <1>10, StartingFacts DEF Turns, Became, Top
    <3> QED  BY <1>4, <3>1 DEF Starting
  <2> QED  BY <1>14, <2>1 DEF TaskInv
<1>17. BaseInv'
  BY <1>7, <1>11, <1>12, <1>13, <1>14, <1>15, <1>16, QuietAction
<1> QED  BY <1>2, <1>3, <1>4, <1>5, <1>8, <1>9, <1>10, <1>17 DEF Turns

-----------------------------------------------------------------------------
(* Establish. *)

LEMMA SetupAt ==
    ASSUME BaseInv, NEW x \in {App, Mt}, NEW l \in SetupPcs, At(x, l)
    PROVE  /\ x \in Actors /\ l \in AppPcs /\ l \in MtPcs
           /\ stack[x] # <<>> /\ Top(x) \in Frame /\ Top(x).pc = l
           /\ Top(x) \in FramesOf(x, link) /\ stack[x] = <<Top(x)>>
           /\ Top(x).own \in MaybeTransport /\ Tail(stack[x]) = <<>>
           /\ Top(x) \in Bottom /\ Top(x) \notin Failing
           /\ l # "assign" => Top(x) \in Quiet
           /\ l \in {"assign", "upgrade", "wait"} => Top(x).own \in Transports
<1>1. x \in Actors /\ l \in AppPcs /\ l \in MtPcs /\ StackInv
  BY ActorFacts DEF AppPcs, MtPcs, BaseInv, TypeInv
<1>2. /\ stack[x] # <<>> /\ Top(x).pc = l /\ Top(x) \in Frame /\ Top(x) \in FramesOf(x, link)
      /\ Top(x) \in Bottom /\ Tail(stack[x]) = <<>> /\ stack[x] = <<Top(x)>>
      /\ (l # "assign" => Top(x) \in Quiet) /\ Top(x) \notin Failing
  BY <1>1, PlainTop
<1> QED  BY <1>1, <1>2 DEF Frame, FramesOf

LEMMA SetupSets ==
    ASSUME BaseInv, NEW x \in {App, Mt}, NEW l \in SetupPcs, l # "assign", At(x, l), NEW s, NEW N,
           Follow(x, s, N), SetStack(x, s), ClosedStays, NoneStays,
           UNCHANGED <<transport, told, mtTask>>, frag' = frag \/ frag' = NoFragment,
           ClientType', MtType', LinkType', HistoryType'
    PROVE  BaseInv' /\ Moved(x, N)
<1> USE DEF BaseInv, TypeInv
<1>1. /\ x \in Actors /\ stack[x] # <<>> /\ Top(x) \in Bottom /\ Top(x) \in Quiet
      /\ Top(x) \notin Failing
  BY SetupAt
<1>2. Turns(x, s, N) /\ SameOwners(s, stack[x]) /\ N \cap Starting = {}
  BY <1>1, PlainTurns
<1>3. StackInv' /\ Moved(x, N) /\ OwnersStay
  BY <1>1, <1>2, SetTurns
<1>4. FragInv'
  <2>1. CASE frag' = frag
    BY <1>1, <1>3, <2>1, FragKeeps, ActorFacts
  <2>2. CASE frag' = NoFragment
    <3>1. Len(frag'.parts) = 0
      BY <2>2 DEF NoFragment
    <3> QED  BY <3>1, BoundsAssumption DEF FragInv
  <2> QED  BY <2>1, <2>2
<1>5. TaskInv'
  BY <1>1, <1>2, <1>3, TaskKeeps
<1>6. BaseInv'
  BY <1>3, <1>4, <1>5, QuietAction
<1> QED  BY <1>3, <1>6

\* The calls that are left when Establish fails.
LEMMA AfterFailureFollows ==
    ASSUME BaseInv, NEW x \in {App, Mt}, NEW l \in SetupPcs, At(x, l)
    PROVE  \/ x # Mt /\ AfterFailure(x) = <<>>
           \/ \E f \in QuietOf(x) : /\ x = Mt /\ f \in Frame /\ f.pc = "failed"
                                    /\ AfterFailure(x) = <<f>>
<1>1. Top(x) \in Frame
  BY SetupAt
<1>2. CASE x = Mt
  <2> DEFINE f == [Top(x) EXCEPT !.pc = "failed"]
  <2>1. f \in Frame /\ f.pc = "failed" 
    BY <1>1, FrameGoesOn DEF MtPcs
  <2>2. AfterFailure(x) = <<f>>
    BY <1>2 DEF AfterFailure
  <2> HIDE DEF f
  <2>3. f \in QuietOf(Mt)
    BY <1>1, <1>2, <2>1, MtFrame DEF MtPcs
  <2> QED  BY <1>2, <2>1, <2>2, <2>3
<1>3. CASE x # Mt
  BY <1>3 DEF AfterFailure
<1> QED  BY <1>2, <1>3

LEMMA FailureFollows ==
    ASSUME BaseInv, NEW x \in {App, Mt}, NEW l \in SetupPcs, At(x, l)
    PROVE  \E N : /\ Follow(x, AfterFailure(x), N)
                  /\ \A f \in N : f.pc = "failed"
<1>1. CASE x # Mt /\ AfterFailure(x) = <<>>
  <2>1. Follow(x, AfterFailure(x), {})
    BY <1>1 DEF Follow
  <2> QED  BY <2>1
<1>2. CASE \E f \in QuietOf(x) : /\ x = Mt /\ f \in Frame /\ f.pc = "failed"
                                 /\ AfterFailure(x) = <<f>>
  <2>1. PICK f \in QuietOf(x) : f.pc = "failed" /\ AfterFailure(x) = <<f>>
    BY <1>2
  <2>2. Follow(x, AfterFailure(x), {f})
    BY <2>1 DEF Follow
  <2> QED  BY <2>1, <2>2
<1> QED  BY <1>1, <1>2, AfterFailureFollows

LEMMA TeardownFollows ==
    ASSUME BaseInv, NEW x \in {App, Mt}, NEW l \in SetupPcs, At(x, l), NEW own \in MaybeTransport
    PROVE  \E N : /\ Follow(x, <<TeardownFrame(own)>> \o AfterFailure(x), N)
                  /\ TeardownFrame(own) \in N
                  /\ \A f \in N : f = TeardownFrame(own) \/ f.pc = "failed"
<1> DEFINE h == TeardownFrame(own)
<1>1. h \in QuietOf(x) /\ h \notin Bottom
  BY TeardownStill
<1> HIDE DEF h
<1>2. CASE x # Mt /\ AfterFailure(x) = <<>>
  <2>1. <<h>> \o AfterFailure(x) = <<h>>
    BY <1>2, Alone
  <2>2. Follow(x, <<h>> \o AfterFailure(x), {h})
    BY <1>1, <2>1 DEF Follow
  <2> QED  BY <2>2 DEF h
<1>3. CASE \E f \in QuietOf(x) : /\ x = Mt /\ f \in Frame /\ f.pc = "failed"
                                 /\ AfterFailure(x) = <<f>>
  <2>1. PICK f \in QuietOf(x) : f.pc = "failed" /\ AfterFailure(x) = <<f>>
    BY <1>3
  <2>2. <<h>> \o AfterFailure(x) = <<h, f>>
    <3>1. <<h, f>> = <<h>> \o <<f>>
      BY <1>1, Two
    <3> QED  BY <2>1, <3>1
  <2>3. Follow(x, <<h>> \o AfterFailure(x), {h, f})
    <3>1. f \notin SetupFrames
      BY <2>1 DEF SetupFrames, SetupPcs
    <3> QED  BY <1>1, <2>1, <2>2, <3>1 DEF Follow
  <2> QED  BY <2>1, <2>3 DEF h
<1> QED  BY <1>2, <1>3, AfterFailureFollows

LEMMA EstablishKeeps ==
    ASSUME BaseInv, NEW x \in {App, Mt}, Establish(x)
    PROVE  /\ BaseInv' /\ stack[x] # <<>> /\ Top(x) \in Frame /\ Top(x).pc = "establish"
           /\ Top(x) \in Bottom
           /\ \/ state # "down" /\ \E N : Moved(x, N) /\ \A f \in N : f.pc = "failed"
              \/ state = "down" /\ \E g \in Frame : g.pc = "create" /\ Moved(x, {g})
<1> USE DEF BaseInv, TypeInv
<1>1. /\ At(x, "establish") /\ "establish" \in SetupPcs
      /\ UNCHANGED <<transport, connected, userClosed, attempt, exhausted, mtVars, linkVars, budget,
                     history>>
  BY DEF Establish, SetupPcs
<1>2. /\ x \in Actors /\ stack[x] # <<>> /\ Top(x) \in Frame /\ Top(x).pc = "establish"
      /\ Top(x) \in Bottom
  BY <1>1, SetupAt
<1>3. /\ MtType' /\ LinkType' /\ HistoryType' /\ UNCHANGED <<transport, told, mtTask, link>>
      /\ ClosedStays /\ NoneStays
  BY <1>1, LinkSame DEF MtType, LinkType, HistoryType, mtVars, linkVars, history
<1>4. CASE /\ state # "down" /\ SetStack(x, AfterFailure(x))
           /\ UNCHANGED <<state, hs, rxBuf, frag, sendFrag, closeSent>>
  <2>1. ClientType'
    BY <1>1, <1>4 DEF ClientType
  <2>2. PICK N : Follow(x, AfterFailure(x), N) /\ \A f \in N : f.pc = "failed"
    BY <1>1, FailureFollows
  <2>3. BaseInv' /\ Moved(x, N)
    BY <1>1, <1>3, <1>4, <2>1, <2>2, SetupSets
  <2> QED  BY <1>2, <1>4, <2>2, <2>3
<1>5. CASE /\ state = "down" /\ GoTo(x, "create")
           /\ state' = "handshaking" /\ hs' = "none" /\ rxBuf' = <<>> /\ frag' = NoFragment
           /\ sendFrag' = FALSE /\ closeSent' = FALSE
  <2>1. ClientType'
    <3>1. /\ <<>> \in Seq(Items) /\ Len(<<>>) = 0
          /\ NoFragment \in [open : BOOLEAN, parts : Seq(Items)]
      BY DEF NoFragment
    <3>2. rxBuf' \in Seq(Items) /\ Len(rxBuf') <= MaxParts
      BY <1>5, <3>1, BoundsAssumption
    <3> QED  BY <1>1, <1>5, <3>1, <3>2 DEF ClientType
  <2> DEFINE g == [Top(x) EXCEPT !.pc = "create"]
  <2>2. g \in Frame /\ g.pc = "create"
    BY <1>2, FrameGoesOn DEF AppPcs, SetupPcs
  <2>3. Continue(x, g)
    BY <1>5 DEF GoTo
  <2> HIDE DEF g
  <2>4. SetStack(x, <<g>>)
    BY <1>1, <1>2, <2>2, <2>3, PlainContinues DEF AppPcs
  <2>5. g \in QuietOf(x)
    BY <1>2, <2>2, AppFrame, MtFrame DEF MtPcs, SetupPcs
  <2>6. Follow(x, <<g>>, {g})
    BY <2>5 DEF Follow
  <2>7. BaseInv' /\ Moved(x, {g})
    BY <1>1, <1>3, <1>5, <2>1, <2>4, <2>6, SetupSets
  <2> QED  BY <1>2, <1>5, <2>2, <2>7
<1> QED  BY <1>4, <1>5 DEF Establish

LEMMA CreateFailsKeeps ==
    ASSUME BaseInv, NEW x \in {App, Mt}, CreateFails(x)
    PROVE  /\ BaseInv' /\ stack[x] # <<>> /\ Top(x) \in Frame /\ Top(x).pc = "create"
           /\ Top(x) \in Bottom
           /\ \E N : Moved(x, N) /\ \A f \in N : f.pc = "failed"
           /\ ClosedStays /\ NoneStays
           /\ \A t \in Transports : link'[t] = "open" => link[t] = "open"
<1> USE DEF BaseInv, TypeInv
<1>1. /\ At(x, "create") /\ "create" \in SetupPcs /\ state' = "down" /\ SetStack(x, AfterFailure(x))
      /\ link' = [t \in Transports |-> IF t \in NextTransport THEN "closed" ELSE link[t]]
      /\ UNCHANGED <<transport, connected, userClosed, attempt, exhausted, hs, rxBuf, frag, sendFrag,
                     closeSent, mtVars, wire, server, recent, budget, history>>
  BY DEF CreateFails, SetupPcs
<1>2. stack[x] # <<>> /\ Top(x) \in Frame /\ Top(x).pc = "create" /\ Top(x) \in Bottom
  BY <1>1, SetupAt
<1>3. /\ ClientType' /\ MtType' /\ HistoryType' /\ UNCHANGED <<transport, told, mtTask, frag>>
  BY <1>1 DEF ClientType, MtType, HistoryType, mtVars, history
<1>4. /\ LinkType' /\ ClosedStays /\ NoneStays
      /\ \A t \in Transports : link'[t] = "open" => link[t] = "open"
  BY <1>1 DEF LinkType, ClosedStays, NoneStays
<1>5. PICK N : Follow(x, AfterFailure(x), N) /\ \A f \in N : f.pc = "failed"
  BY <1>1, FailureFollows
<1>6. BaseInv' /\ Moved(x, N)
  BY <1>1, <1>3, <1>4, <1>5, SetupSets
<1> QED  BY <1>2, <1>4, <1>5, <1>6

\* What the server makes of the upgrade.
LEMMA UpgradeTakes ==
    ASSUME LinkType, NEW t \in Transports, Transmit(t, Item("upgrade", FALSE, FALSE, 0)),
           UNCHANGED <<link, recent>>
    PROVE  /\ LinkType' /\ server'.malformed = server.malformed
           /\ UNCHANGED server \/ (server'.on \in {0, t} /\ ~server'.receiving)
<1> DEFINE p == Item("upgrade", FALSE, FALSE, 0)
<1>1. p \in Items /\ p.type = "upgrade"
  BY DEF Item, Items, ItemTypes, MaybeTransport
<1> HIDE DEF p
<1>2. CASE UNCHANGED <<wire, server>>
  BY <1>2 DEF LinkType
<1>3. CASE ServerTakes(t, p)
  BY <1>1, <1>3, ServerAnswers DEF LinkType
<1> QED  BY <1>2, <1>3 DEF Transmit, p

LEMMA SendUpgradeKeeps ==
    ASSUME BaseInv, NEW x \in {App, Mt}, SendUpgrade(x)
    PROVE  /\ BaseInv' /\ stack[x] # <<>> /\ Top(x) \in Frame /\ Top(x).pc = "upgrade"
           /\ Top(x) \in Bottom /\ Top(x).own \in Transports
           /\ server'.malformed = server.malformed
           /\ UNCHANGED server \/ (server'.on \in {0, Top(x).own} /\ ~server'.receiving)
           /\ \/ \E g \in Frame : g.pc = "wait" /\ g.own = Top(x).own /\ Moved(x, {g})
              \/ \E N : /\ Moved(x, N) /\ TeardownFrame(Top(x).own) \in N
                        /\ \A f \in N : f = TeardownFrame(Top(x).own) \/ f.pc = "failed"
<1> USE DEF BaseInv, TypeInv
<1>1. /\ At(x, "upgrade") /\ "upgrade" \in SetupPcs
      /\ Transmit(Top(x).own, Item("upgrade", FALSE, FALSE, 0)) \/ UNCHANGED <<wire, server>>
      /\ UNCHANGED <<clientVars, mtVars, link, recent, budget, history>>
  BY DEF SendUpgrade, SetupPcs
<1>2. /\ x \in Actors /\ stack[x] # <<>> /\ Top(x) \in Frame /\ Top(x).pc = "upgrade"
      /\ Top(x) \in Bottom
      /\ Top(x).own \in Transports /\ Top(x).own \in MaybeTransport
  BY <1>1, SetupAt
<1>3. /\ LinkType' /\ server'.malformed = server.malformed
      /\ UNCHANGED server \/ (server'.on \in {0, Top(x).own} /\ ~server'.receiving)
  <2>1. CASE Transmit(Top(x).own, Item("upgrade", FALSE, FALSE, 0))
    BY <1>1, <1>2, <2>1, UpgradeTakes
  <2>2. CASE UNCHANGED <<wire, server>>
    BY <1>1, <2>2 DEF LinkType
  <2> QED  BY <1>1, <2>1, <2>2
<1>4. /\ ClientType' /\ MtType' /\ HistoryType' /\ UNCHANGED <<transport, told, mtTask, frag, link>>
      /\ ClosedStays /\ NoneStays
  BY <1>1, LinkSame DEF ClientType, MtType, HistoryType, clientVars, mtVars, history
<1>5. CASE GoTo(x, "wait")
  <2> DEFINE g == [Top(x) EXCEPT !.pc = "wait"]
  <2>1. g \in Frame /\ g.pc = "wait" /\ g.own = Top(x).own
    BY <1>2, FrameGoesOn DEF AppPcs, SetupPcs
  <2>2. Continue(x, g)
    BY <1>5 DEF GoTo
  <2> HIDE DEF g
  <2>3. SetStack(x, <<g>>)
    BY <1>1, <1>2, <2>1, <2>2, PlainContinues DEF AppPcs
  <2>4. g \in QuietOf(x)
    BY <1>2, <2>1, ActorFacts
       DEF QuietOf, FramesOf, AppPcs, MtPcs, OwnPcs, Quiet, Starting, SetupPcs, SharedPcs
  <2>5. Follow(x, <<g>>, {g})
    BY <2>4 DEF Follow
  <2>6. BaseInv' /\ Moved(x, {g})
    BY <1>1, <1>3, <1>4, <2>3, <2>5, SetupSets
  <2> QED  BY <1>2, <1>3, <2>1, <2>6
<1>6. CASE SetStack(x, <<TeardownFrame(Top(x).own)>> \o AfterFailure(x))
  <2>1. PICK N : /\ Follow(x, <<TeardownFrame(Top(x).own)>> \o AfterFailure(x), N)
                 /\ TeardownFrame(Top(x).own) \in N
                 /\ \A f \in N : f = TeardownFrame(Top(x).own) \/ f.pc = "failed"
    BY <1>1, <1>2, TeardownFollows
  <2>2. BaseInv' /\ Moved(x, N)
    BY <1>1, <1>3, <1>4, <1>6, <2>1, SetupSets
  <2> QED  BY <1>2, <1>3, <2>1, <2>2
<1> QED  BY <1>5, <1>6 DEF SendUpgrade

LEMMA WaitOpenKeeps ==
    ASSUME BaseInv, NEW x \in {App, Mt}, WaitOpen(x)
    PROVE  /\ BaseInv' /\ stack[x] # <<>> /\ Top(x) \in Frame /\ Top(x).pc = "wait"
           /\ Top(x) \in Bottom /\ Top(x).own \in Transports
           /\ \/ x = App /\ \E g \in Frame : g.pc = "stop" /\ g.then = "start" /\ Moved(x, {g})
              \/ x = Mt /\ \E g \in Frame : g.pc = "reconnected" /\ Moved(x, {g})
<1> USE DEF BaseInv, TypeInv
<1>1. /\ At(x, "wait") /\ "wait" \in SetupPcs /\ state' = "open" /\ connected' = TRUE
      /\ recent' = TRUE
      /\ UNCHANGED <<transport, userClosed, attempt, exhausted, hs, rxBuf, frag, sendFrag, closeSent,
                     mtVars, link, wire, server, budget, told>>
  BY DEF WaitOpen, SetupPcs
<1>2. /\ x \in Actors /\ stack[x] # <<>> /\ Top(x) \in Frame /\ Top(x).pc = "wait"
      /\ Top(x) \in Bottom /\ Top(x).own \in Transports
  BY <1>1, SetupAt
<1>3. opened' \subseteq Transports /\ lapses' \subseteq Lapses
  BY <1>2 DEF WaitOpen, HistoryType, Lapses
<1>4. /\ ClientType' /\ MtType' /\ LinkType' /\ HistoryType'
      /\ UNCHANGED <<transport, told, mtTask, frag, link>> /\ ClosedStays /\ NoneStays
  <2>1. ClientType'
    BY <1>1 DEF ClientType
  <2> QED  BY <1>1, <1>3, <2>1, LinkSame DEF MtType, LinkType, HistoryType, mtVars
<1>5. CASE x = App
  <2> DEFINE g == [Top(x) EXCEPT !.pc = "stop", !.then = "start"]
  <2>1. g \in Frame /\ g.pc = "stop" /\ g.then = "start"
    BY <1>2 DEF Frame, SharedPcs
  <2>2. Continue(x, g)
    BY <1>5 DEF WaitOpen
  <2> HIDE DEF g
  <2>3. SetStack(x, <<g>>)
    BY <1>1, <1>2, <2>1, <2>2, PlainContinues DEF AppPcs
  <2>4. g \in QuietOf(x)
    BY <1>5, <2>1 DEF QuietOf, FramesOf, Quiet, Starting, SharedPcs, SetupPcs
  <2>5. Follow(x, <<g>>, {g})
    BY <2>4 DEF Follow
  <2>6. BaseInv' /\ Moved(x, {g})
    BY <1>1, <1>4, <2>3, <2>5, SetupSets
  <2> QED  BY <1>2, <1>5, <2>1, <2>6
<1>6. CASE x = Mt
  <2> DEFINE g == [Top(x) EXCEPT !.pc = "reconnected"]
  <2>1. g \in Frame /\ g.pc = "reconnected"
    BY <1>2, FrameGoesOn DEF MtPcs
  <2>2. Continue(x, g)
    BY <1>6, ActorFacts DEF WaitOpen
  <2> HIDE DEF g
  <2>3. SetStack(x, <<g>>)
    BY <1>1, <1>2, <2>1, <2>2, PlainContinues DEF AppPcs
  <2>4. g \in QuietOf(x)
    BY <1>6, <2>1, MtFrame DEF MtPcs, SetupPcs
  <2>5. Follow(x, <<g>>, {g})
    BY <2>4 DEF Follow
  <2>6. BaseInv' /\ Moved(x, {g})
    BY <1>1, <1>4, <2>3, <2>5, SetupSets
  <2> QED  BY <1>2, <1>6, <2>1, <2>6
<1> QED  BY <1>5, <1>6

LEMMA WaitFailsKeeps ==
    ASSUME BaseInv, NEW x \in {App, Mt}, WaitFails(x)
    PROVE  /\ BaseInv' /\ stack[x] # <<>> /\ Top(x) \in Frame /\ Top(x).pc = "wait"
           /\ Top(x) \in Bottom /\ Top(x).own \in Transports
           /\ \E N : /\ Moved(x, N) /\ TeardownFrame(Top(x).own) \in N
                     /\ \A f \in N : f = TeardownFrame(Top(x).own) \/ f.pc = "failed"
<1> USE DEF BaseInv, TypeInv
<1>1. /\ At(x, "wait") /\ "wait" \in SetupPcs
      /\ SetStack(x, <<TeardownFrame(Top(x).own)>> \o AfterFailure(x))
      /\ UNCHANGED <<clientVars, mtVars, linkVars, budget, history>>
  BY DEF WaitFails, SetupPcs
<1>2. /\ stack[x] # <<>> /\ Top(x) \in Frame /\ Top(x).pc = "wait"
      /\ Top(x) \in Bottom /\ Top(x).own \in Transports /\ Top(x).own \in MaybeTransport
  BY <1>1, SetupAt
<1>3. /\ ClientType' /\ MtType' /\ LinkType' /\ HistoryType'
      /\ UNCHANGED <<transport, told, mtTask, frag, link>> /\ ClosedStays /\ NoneStays
  BY <1>1, LinkSame DEF ClientType, MtType, LinkType, HistoryType, clientVars, mtVars, linkVars,
                        history
<1>4. PICK N : /\ Follow(x, <<TeardownFrame(Top(x).own)>> \o AfterFailure(x), N)
               /\ TeardownFrame(Top(x).own) \in N
               /\ \A f \in N : f = TeardownFrame(Top(x).own) \/ f.pc = "failed"
  BY <1>1, <1>2, TeardownFollows
<1>5. BaseInv' /\ Moved(x, N)
  BY <1>1, <1>3, <1>4, SetupSets
<1> QED  BY <1>2, <1>4, <1>5

-----------------------------------------------------------------------------
(* The steps that make, pass on and give up a transport. *)

\* The innermost call of x goes on as g.
LEMMA HoldersAfter ==
    ASSUME StackInv, ClosedStays, NEW x \in Actors, stack[x] # <<>>, NEW g,
           SetStack(x, <<g>> \o Tail(stack[x])),
           g \in FramesOf(x, link'), g \in Bottom => Top(x) \in Bottom
    PROVE  /\ StackInv' /\ Moved(x, {g})
           /\ \A y \in Actors \ {x} : stack'[y] = stack[y]
           /\ \A H : (g \in H <=> Top(x) \in H) => Depths(stack'[x], H) = Depths(stack[x], H)
           /\ \A H : g \notin H =>
                  Depths(stack'[x], H) = Depths(stack[x], H) \ {Len(stack[x]) - 1}
           /\ \A H : Depths(stack[x], H) = {} /\ g \in H =>
                  Depths(stack'[x], H) = {Len(stack[x]) - 1}
<1> DEFINE s == <<g>> \o Tail(stack[x])
<1>1. /\ Turns(x, s, {g})
      /\ \A H : Depths(s, H) = (Depths(stack[x], H) \ {Len(stack[x]) - 1})
                                   \cup (IF g \in H THEN {Len(stack[x]) - 1} ELSE {})
  BY GoesOn
<1> HIDE DEF s
<1>2. StackInv' /\ Moved(x, {g}) /\ stack'[x] = s
  BY <1>1, SetTurns DEF s
<1>3. \A H : Len(stack[x]) - 1 \in Depths(stack[x], H) <=> Top(x) \in H
  BY OnTop
<1>4. ASSUME NEW H, g \in H <=> Top(x) \in H
      PROVE  Depths(stack'[x], H) = Depths(stack[x], H)
  <2>1. CASE g \in H
    <3>1. Len(stack[x]) - 1 \in Depths(stack[x], H)
      BY <1>3, <1>4, <2>1
    <3>2. Depths(s, H) = (Depths(stack[x], H) \ {Len(stack[x]) - 1}) \cup {Len(stack[x]) - 1}
      BY <1>1, <2>1
    <3> QED  BY <1>2, <3>1, <3>2
  <2>2. CASE g \notin H
    <3>1. Len(stack[x]) - 1 \notin Depths(stack[x], H)
      BY <1>3, <1>4, <2>2
    <3>2. Depths(s, H) = Depths(stack[x], H) \ {Len(stack[x]) - 1}
      BY <1>1, <2>2
    <3> QED  BY <1>2, <3>1, <3>2
  <2> QED  BY <2>1, <2>2
<1> QED  BY <1>1, <1>2, <1>4 DEF Moved

\* Only the owner of transport t changes: x takes it.
LEMMA TakesOver ==
    ASSUME NEW t \in Transports, NEW x \in Actors, NEW k, Depths(stack'[x], Holding(t)) = {k},
           \A y \in Actors \ {x} : Depths(stack'[y], Holding(t)) = {},
           transport' # t, told'[t] = 0, link'[t] # "none"
    PROVE  OneOwner(t)'
<1>1. \A y \in Actors : \A d \in Depths(stack'[y], Holding(t)) : y = x /\ d = k
  OBVIOUS
<1>2. ASSUME NEW y \in Actors, NEW z \in Actors, NEW d \in Depths(stack'[y], Holding(t)),
             NEW e \in Depths(stack'[z], Holding(t))
      PROVE  y = z /\ d = e
  BY <1>1
<1> QED  BY <1>2 DEF OneOwner

LEMMA CreateKeeps ==
    ASSUME BaseInv, NEW x \in {App, Mt}, Create(x)
    PROVE  /\ BaseInv' /\ stack[x] # <<>> /\ Top(x) \in Frame /\ Top(x).pc = "create"
           /\ Top(x) \in Bottom /\ ClosedStays /\ NoneStays
           /\ \E t \in Transports, g \in Frame :
                  /\ link[t] = "none" /\ link'[t] = "open" /\ g.pc = "assign" /\ g.own = t
                  /\ \A u \in Transports \ {t} : link'[u] = link[u]
                  /\ Moved(x, {g})
<1> USE DEF BaseInv, TypeInv
<1>1. PICK t \in NextTransport :
          /\ link' = [link EXCEPT ![t] = "open"]
          /\ Continue(x, [Top(x) EXCEPT !.pc = "assign", !.own = t])
  BY DEF Create
<1>2. /\ At(x, "create") /\ "create" \in SetupPcs
      /\ UNCHANGED <<clientVars, mtVars, wire, server, recent, budget, history>>
  BY DEF Create, SetupPcs
<1>3. /\ x \in Actors /\ stack[x] # <<>> /\ Top(x) \in Frame /\ Top(x).pc = "create"
      /\ Top(x) \in Bottom /\ Top(x) \notin Failing
  BY <1>2, SetupAt
<1>4. t \in Transports /\ link[t] = "none" /\ t # 0
  BY NotZero DEF NextTransport
<1>5. /\ LinkType' /\ ClosedStays /\ NoneStays /\ link'[t] = "open"
      /\ \A u \in Transports \ {t} : link'[u] = link[u]
  BY <1>1, <1>2, <1>4 DEF LinkType, ClosedStays, NoneStays
<1>6. /\ ClientType' /\ MtType' /\ HistoryType' /\ UNCHANGED <<transport, told, mtTask, frag>>
  BY <1>2 DEF ClientType, MtType, HistoryType, clientVars, mtVars, history
<1> DEFINE g == [Top(x) EXCEPT !.pc = "assign", !.own = t]
<1>7. g \in Frame /\ g.pc = "assign" /\ g.own = t
  BY <1>3, <1>4 DEF Frame, AppPcs, SetupPcs, MaybeTransport
<1>8. SetStack(x, <<g>> \o Tail(stack[x]))
  BY <1>1 DEF Continue
<1> HIDE DEF g
<1>9. g \in FramesOf(x, link')
  BY <1>3, <1>4, <1>7, ActorFacts DEF FramesOf, OwnPcs, AppPcs, MtPcs, SetupPcs, SharedPcs
<1>10. /\ Top(x) \notin Starting /\ g \notin Starting
       /\ \A u \in Transports : Top(x) \notin Holding(u) /\ (g \in Holding(u) <=> u = t)
  BY <1>3, <1>7 DEF Starting, Holding
<1>11. /\ StackInv' /\ Moved(x, {g})
       /\ \A y \in Actors \ {x} : stack'[y] = stack[y]
       /\ \A H : (g \in H <=> Top(x) \in H) => Depths(stack'[x], H) = Depths(stack[x], H)
       /\ \A H : Depths(stack[x], H) = {} /\ g \in H =>
              Depths(stack'[x], H) = {Len(stack[x]) - 1}
  BY <1>3, <1>5, <1>8, <1>9, HoldersAfter
<1>12. OwnerInv'
  <2> SUFFICES ASSUME NEW u \in Transports PROVE OneOwner(u)'
    BY DEF OwnerInv
  <2>1. OneOwner(u)
    BY DEF OwnerInv
  <2>2. CASE u = t
    <3>1. /\ \A y \in Actors : Depths(stack[y], Holding(t)) = {}
          /\ transport # t /\ told[t] # 1
      BY <1>4, <2>1, <2>2 DEF OneOwner, Has
    <3>2. told[t] = 0
      BY <1>4, <3>1 DEF HistoryType
    <3>3. Depths(stack'[x], Holding(t)) = {Len(stack[x]) - 1}
      <4>1. g \in Holding(t) /\ Depths(stack[x], Holding(t)) = {}
        BY <1>3, <1>4, <1>10, <3>1
      <4> QED  BY <1>11, <4>1
    <3>4. \A y \in Actors \ {x} : Depths(stack'[y], Holding(t)) = {}
      BY <1>11, <3>1
    <3>5. transport' # t /\ told'[t] = 0 /\ link'[t] # "none"
      BY <1>5, <1>6, <3>1, <3>2
    <3> QED  BY <1>3, <1>4, <2>2, <3>3, <3>4, <3>5, TakesOver
  <2>3. CASE u # t
    <3>1. \A y \in Actors : Depths(stack'[y], Holding(u)) = Depths(stack[y], Holding(u))
      BY <1>10, <1>11, <2>3
    <3> QED  BY <1>5, <1>6, <2>1, <2>3, <3>1 DEF OneOwner, Has
  <2> QED  BY <2>2, <2>3
<1>13. TaskInv'
  BY <1>3, <1>6, <1>10, <1>11, TaskKeeps
<1>14. FragInv'
  BY <1>3, <1>6, <1>11, FragKeeps
<1>15. BaseInv'
  BY <1>5, <1>6, <1>11, <1>12, <1>13, <1>14
<1> QED  BY <1>3, <1>4, <1>5, <1>7, <1>11, <1>15

LEMMA AssignKeeps ==
    ASSUME BaseInv, NEW x \in {App, Mt}, Assign(x)
    PROVE  /\ BaseInv' /\ stack[x] # <<>> /\ Top(x) \in Frame /\ Top(x).pc = "assign"
           /\ Top(x) \in Bottom /\ Top(x).own \in Transports
           /\ \E g \in Frame : g.pc = "upgrade" /\ g.own = Top(x).own /\ Moved(x, {g})
<1> USE DEF BaseInv, TypeInv
<1> DEFINE g == [Top(x) EXCEPT !.pc = "upgrade"]
           t == Top(x).own
<1>1. /\ At(x, "assign") /\ "assign" \in SetupPcs /\ transport' = t
      /\ SetStack(x, <<g>> \o Tail(stack[x]))
      /\ UNCHANGED <<state, connected, userClosed, attempt, exhausted, hs, rxBuf, frag, sendFrag,
                     closeSent, mtVars, linkVars, budget, history>>
  BY DEF Assign, SetupPcs, GoTo, Continue
<1>2. /\ x \in Actors /\ stack[x] # <<>> /\ Top(x) \in Frame /\ Top(x).pc = "assign"
      /\ Top(x) \in Bottom /\ Top(x) \notin Failing
      /\ t \in Transports
  BY <1>1, SetupAt
<1>3. g \in Frame /\ g.pc = "upgrade" /\ g.own = t /\ t = Top(x).own
  BY <1>2, FrameGoesOn DEF AppPcs, SetupPcs
<1> HIDE DEF g, t
<1>4. /\ LinkType' /\ MtType' /\ HistoryType' /\ UNCHANGED <<told, mtTask, frag, link>>
      /\ ClosedStays /\ NoneStays
  BY <1>1, LinkSame DEF MtType, LinkType, HistoryType, mtVars, linkVars, history
<1>5. ClientType'
  BY <1>1, <1>2 DEF ClientType, MaybeTransport
<1>6. g \in FramesOf(x, link')
  BY <1>2, <1>3, ActorFacts DEF FramesOf, OwnPcs, AppPcs, MtPcs, SetupPcs, SharedPcs
<1>7. /\ Top(x) \notin Starting /\ g \notin Starting
      /\ \A u \in Transports : g \notin Holding(u) /\ (Top(x) \in Holding(u) <=> u = t)
  BY <1>2, <1>3 DEF Starting, Holding
<1>8. /\ StackInv' /\ Moved(x, {g})
      /\ \A y \in Actors \ {x} : stack'[y] = stack[y]
      /\ \A H : (g \in H <=> Top(x) \in H) => Depths(stack'[x], H) = Depths(stack[x], H)
      /\ \A H : g \notin H =>
             Depths(stack'[x], H) = Depths(stack[x], H) \ {Len(stack[x]) - 1}
  BY <1>1, <1>2, <1>4, <1>6, HoldersAfter
<1>9. OwnerInv'
  <2> SUFFICES ASSUME NEW u \in Transports PROVE OneOwner(u)'
    BY DEF OwnerInv
  <2>1. OneOwner(u)
    BY DEF OwnerInv
  <2>2. CASE u = t
    <3> DEFINE k == Len(stack[x]) - 1
    <3>1. k \in Depths(stack[x], Holding(t))
      BY <1>2, <1>7, OnTop
    <3>2. Depths(stack'[x], Holding(t)) = Depths(stack[x], Holding(t)) \ {k}
      BY <1>2, <1>7, <1>8
    <3> HIDE DEF k
    <3>3. /\ \A y \in Actors : \A d : d \in Depths(stack[y], Holding(t)) => y = x /\ d = k
          /\ told[t] = 0 /\ link[t] # "none"
      <4>1. /\ \A y, z \in Actors : \A d \in Depths(stack[y], Holding(t)),
                                    e \in Depths(stack[z], Holding(t)) : y = z /\ d = e
            /\ Has(stack[x], Holding(t)) => told[t] = 0 /\ link[t] # "none"
        BY <1>2, <2>1, <2>2 DEF OneOwner
      <4>2. Has(stack[x], Holding(t))
        BY <3>1 DEF Has
      <4>3. ASSUME NEW y \in Actors, NEW d \in Depths(stack[y], Holding(t))
            PROVE  y = x /\ d = k
        BY <1>2, <3>1, <4>1
      <4> QED  BY <4>1, <4>2, <4>3
    <3>4. \A y \in Actors : Depths(stack'[y], Holding(t)) = {}
      <4>1. Depths(stack'[x], Holding(t)) = {}
        BY <1>2, <3>2, <3>3
      <4>2. \A y \in Actors \ {x} : Depths(stack'[y], Holding(t)) = {}
        BY <1>8, <3>3
      <4> QED  BY <4>1, <4>2
    <3> QED  BY <1>1, <1>4, <2>2, <3>3, <3>4 DEF OneOwner, Has
  <2>3. CASE u # t
    <3>1. \A y \in Actors : Depths(stack'[y], Holding(u)) = Depths(stack[y], Holding(u))
      BY <1>7, <1>8, <2>3
    <3> QED  BY <1>1, <1>4, <2>1, <2>3, <3>1 DEF OneOwner, Has
  <2> QED  BY <2>2, <2>3
<1>10. TaskInv'
  BY <1>2, <1>4, <1>7, <1>8, TaskKeeps
<1>11. FragInv'
  BY <1>2, <1>4, <1>8, FragKeeps
<1>12. BaseInv'
  BY <1>4, <1>5, <1>8, <1>9, <1>10, <1>11
<1> QED  BY <1>2, <1>3, <1>8, <1>12 DEF t

LEMMA GiveUpKeeps ==
    ASSUME BaseInv, NEW x \in Actors, GiveUp(x)
    PROVE  /\ BaseInv' /\ stack[x] # <<>> /\ Top(x) \in Frame /\ Top(x).pc = "give_up"
           /\ \/ transport = 0 /\ Moved(x, {})
              \/ /\ transport # 0
                 /\ \E g \in Frame : /\ g.pc = "drop" /\ g.t = transport
                                     /\ g.open = (state = "open") /\ Moved(x, {g})
<1> USE DEF BaseInv, TypeInv
<1> DEFINE g == [Top(x) EXCEPT !.pc = "drop", !.t = transport, !.open = state = "open"]
<1>1. /\ At(x, "give_up") /\ transport' = 0
      /\ UNCHANGED <<mtTask, linkVars, budget, opened, told>>
  BY DEF GiveUp
<1>2. /\ stack[x] # <<>> /\ Top(x).pc = "give_up" /\ Top(x) \in Frame /\ Top(x) \in Quiet
      /\ Top(x) \notin Bottom
  BY <1>1, SharedTop DEF SharedPcs
<1>3. ClosedStays /\ NoneStays /\ UNCHANGED link
  BY <1>1, LinkSame DEF linkVars
<1>4. ClientType' /\ frag' = NoFragment
  <2>1. /\ state' = "down" /\ transport' = 0 /\ rxBuf' = <<>> /\ frag' = NoFragment
        /\ sendFrag' = FALSE /\ closeSent' = FALSE
        /\ UNCHANGED <<connected, userClosed, attempt, exhausted, hs>>
    BY DEF GiveUp
  <2>2. /\ <<>> \in Seq(Items) /\ Len(<<>>) = 0 /\ 0 \in MaybeTransport
        /\ NoFragment \in [open : BOOLEAN, parts : Seq(Items)]
    BY DEF NoFragment, MaybeTransport
  <2>3. rxBuf' \in Seq(Items) /\ Len(rxBuf') <= MaxParts
    BY <2>1, <2>2, BoundsAssumption
  <2> QED  BY <2>1, <2>2, <2>3 DEF ClientType
<1>5. MtType' /\ LinkType'
  BY DEF GiveUp, MtType, LinkType, linkVars
<1>6. HistoryType'
  <2>1. lapses' \subseteq Lapses
    BY DEF GiveUp, HistoryType, Lapses
  <2> QED  BY <1>1, <2>1 DEF HistoryType
<1>7. FragInv'
  <2>1. Len(frag'.parts) = 0
    BY <1>4 DEF NoFragment
  <2> QED  BY <2>1, BoundsAssumption DEF FragInv
<1>8. CASE transport = 0
  <2>1. SetStack(x, Tail(stack[x])) /\ UNCHANGED transport
    BY <1>1, <1>8 DEF GiveUp, Return
  <2> DEFINE s == Tail(stack[x])
  <2>2. Turns(x, s, {}) /\ SameOwners(s, stack[x])
    BY <1>2, <1>3, Returns
  <2> HIDE DEF s
  <2>3. StackInv' /\ Moved(x, {}) /\ OwnersStay
    BY <1>3, <2>1, <2>2, SetTurns DEF s
  <2>4. TaskInv'
    BY <1>1, <1>2, <2>3, TaskKeeps
  <2>5. BaseInv'
    BY <1>1, <1>3, <1>4, <1>5, <1>6, <1>7, <2>1, <2>3, <2>4, QuietAction
  <2> QED  BY <1>2, <1>8, <2>3, <2>5
<1>9. CASE transport # 0
  <2>1. SetStack(x, <<g>> \o Tail(stack[x]))
    BY <1>9 DEF GiveUp, Continue
  <2>2. transport \in Transports
    BY <1>9 DEF ClientType, MaybeTransport
  <2>3. g \in Frame /\ g.pc = "drop" /\ g.t = transport /\ g.open = (state = "open")
    <3>1. (state = "open") \in BOOLEAN /\ "drop" \in SharedPcs /\ transport \in MaybeTransport
      BY DEF SharedPcs, ClientType
    <3> QED  BY <1>2, <3>1 DEF Frame
  <2> HIDE DEF g
  <2>4. g \in FramesOf(x, link') /\ g \notin Bottom
    BY <2>2, <2>3 DEF FramesOf, SharedPcs, SetupPcs, Bottom, AppPcs, RxPcs, MtPcs
  <2>5. /\ Top(x) \notin Starting /\ g \notin Starting
        /\ \A t \in Transports : Top(x) \notin Holding(t) /\ (g \in Holding(t) <=> t = transport)
    BY <1>2, <2>3 DEF Starting, Holding
  <2>6. /\ StackInv' /\ Moved(x, {g})
        /\ \A y \in Actors \ {x} : stack'[y] = stack[y]
        /\ \A H : (g \in H <=> Top(x) \in H) => Depths(stack'[x], H) = Depths(stack[x], H)
        /\ \A H : Depths(stack[x], H) = {} /\ g \in H =>
               Depths(stack'[x], H) = {Len(stack[x]) - 1}
    BY <1>2, <1>3, <2>1, <2>4, HoldersAfter
  <2>7. OwnerInv'
    <3> SUFFICES ASSUME NEW t \in Transports PROVE OneOwner(t)'
      BY DEF OwnerInv
    <3>1. OneOwner(t) /\ t # 0
      BY NotZero DEF OwnerInv
    <3>2. CASE t = transport
      <4>1. \A y \in Actors : Depths(stack[y], Holding(t)) = {}
        BY <3>1, <3>2 DEF OneOwner, Has
      <4>2. Depths(stack'[x], Holding(t)) = {Len(stack[x]) - 1}
        <5>1. g \in Holding(t) /\ Depths(stack[x], Holding(t)) = {}
          BY <2>5, <3>2, <4>1
        <5> QED  BY <2>6, <5>1
      <4>3. \A y \in Actors \ {x} : Depths(stack'[y], Holding(t)) = {}
        BY <2>6, <4>1
      <4>4. transport' # t /\ told'[t] = 0 /\ link'[t] # "none"
        BY <1>1, <1>3, <3>1, <3>2 DEF OneOwner
      <4> QED  BY <4>2, <4>3, <4>4, TakesOver
    <3>3. CASE t # transport
      <4>1. \A y \in Actors : Depths(stack'[y], Holding(t)) = Depths(stack[y], Holding(t))
        BY <2>5, <2>6, <3>3
      <4> QED  BY <1>1, <1>3, <3>1, <3>3, <4>1 DEF OneOwner, Has
    <3> QED  BY <3>2, <3>3
  <2>8. TaskInv'
    BY <1>1, <1>2, <2>5, <2>6, TaskKeeps
  <2>9. BaseInv'
    BY <1>4, <1>5, <1>6, <1>7, <2>6, <2>7, <2>8
  <2> QED  BY <1>2, <1>9, <2>3, <2>6, <2>9
<1> QED  BY <1>8, <1>9

\* A step of the owner u of a transport that leaves the owners as they are, or takes
\* the one transport away that was the owner's, whose connection has not been reported.
LEMMA OwnerLets ==
    ASSUME OwnerInv, ClosedStays, NoneStays, UNCHANGED <<transport, told>>, NEW x \in Actors,
           \A y \in Actors \ {x} : stack'[y] = stack[y],
           \A t \in Transports : Depths(stack'[x], Holding(t)) \subseteq Depths(stack[x], Holding(t))
    PROVE  OwnerInv'
<1> SUFFICES ASSUME NEW t \in Transports PROVE OneOwner(t)'
  BY DEF OwnerInv
<1>1. OneOwner(t)
  BY DEF OwnerInv
<1>2. \A y \in Actors : Depths(stack'[y], Holding(t)) \subseteq Depths(stack[y], Holding(t))
  OBVIOUS
<1>3. \A y, z \in Actors : \A d \in Depths(stack'[y], Holding(t)),
                            e \in Depths(stack'[z], Holding(t)) : y = z /\ d = e
  BY <1>1, <1>2 DEF OneOwner
<1>4. \A y \in Actors : Has(stack'[y], Holding(t)) =>
          transport' # t /\ told'[t] = 0 /\ link'[t] # "none"
  BY <1>1, <1>2 DEF OneOwner, Has, NoneStays
<1>5. (transport' = t => told'[t] = 0 /\ link'[t] # "none") /\ (told'[t] = 1 => link'[t] = "closed")
  BY <1>1 DEF OneOwner, NoneStays, ClosedStays
<1> QED  BY <1>3, <1>4, <1>5 DEF OneOwner

\* x goes on with the calls s and makes the call h.
LEMMA CallsToo ==
    ASSUME NEW x, NEW s, NEW N, Turns(x, s, N), NEW h, h \in FramesOf(x, link'), h \in Quiet,
           h \notin Bottom, ~Has(s, SetupFrames)
    PROVE  /\ Turns(x, <<h>> \o s, N \cup {h})
           /\ \A H : H \cap Quiet = {} => Depths(<<h>> \o s, H) = Depths(s, H)
<1> DEFINE u == <<h>> \o s
<1>1. /\ u \in Seq(FramesOf(x, link'))
      /\ \A H : Depths(u, H) = Depths(s, H) \cup (IF h \in H THEN {Len(s)} ELSE {})
  BY Pushed DEF Turns, GoodStack
<1> HIDE DEF u
<1>2. GoodStack(x, u, link')
  <2>1. h \notin SetupFrames
    BY DEF SetupFrames, Bottom, AppPcs
  <2> QED  BY <1>1, <2>1 DEF Turns, GoodStack, Has
<1>3. \A H : Has(u, H) <=> Has(s, H) \/ h \in H
  BY <1>1 DEF Has
<1>4. Became(stack[x], u, N \cup {h})
  <2> SUFFICES ASSUME NEW H, H \subseteq Noted
               PROVE  /\ Has(u, H) => Has(stack[x], H) \/ (N \cup {h}) \cap H # {}
                      /\ (N \cup {h}) \cap H # {} => Has(u, H)
                      /\ Has(stack[x], H) =>
                             Has(u, H) \/ (stack[x] # <<>> /\ Head(stack[x]) \in H)
                      /\ (stack[x] = <<>> \/ Head(stack[x]) \in Bottom) /\ Has(u, H) =>
                             (N \cup {h}) \cap H # {}
    BY DEF Became
  <2>1. /\ Has(s, H) => Has(stack[x], H) \/ N \cap H # {}
        /\ N \cap H # {} => Has(s, H)
        /\ Has(stack[x], H) => Has(s, H) \/ (stack[x] # <<>> /\ Head(stack[x]) \in H)
        /\ (stack[x] = <<>> \/ Head(stack[x]) \in Bottom) /\ Has(s, H) => N \cap H # {}
    BY DEF Turns, Became
  <2>2. (N \cup {h}) \cap H # {} <=> N \cap H # {} \/ h \in H
    OBVIOUS
  <2> QED  BY <1>3, <2>1, <2>2
<1>5. \A H : H \cap Quiet = {} => Depths(u, H) = Depths(s, H)
  BY <1>1
<1> QED  BY <1>2, <1>4, <1>5 DEF u, Turns

\* What is left of a Teardown once the transport is closed.
LEMMA DropRest ==
    ASSUME StackInv, ClosedStays, NEW x \in Actors, stack[x] # <<>>, Top(x).pc = "drop",
           NEW f \in Frame, f.pc = "tell", f.t = Top(x).t, f.t \in Transports,
           link'[f.t] = "closed", NEW o \in BOOLEAN, o = f.open
    PROVE  \E M : /\ Turns(x, (IF o THEN <<f>> ELSE <<>>) \o Tail(stack[x]), M)
                  /\ M \subseteq {f} /\ (o => f \in M) /\ (f \in M => f.open)
                  /\ \A t \in Transports :
                         Depths((IF o THEN <<f>> ELSE <<>>) \o Tail(stack[x]), Holding(t))
                             \subseteq Depths(stack[x], Holding(t))
<1>1. Top(x) \in Frame
  BY OnTop
<1>2. CASE o
  <2> DEFINE s == <<f>> \o Tail(stack[x])
  <2>1. f \in FramesOf(x, link') /\ f \notin Bottom
    BY <1>2 DEF FramesOf, SharedPcs, SetupPcs, Bottom, AppPcs, RxPcs, MtPcs
  <2>2. /\ Turns(x, s, {f})
        /\ \A H : Depths(s, H) = (Depths(stack[x], H) \ {Len(stack[x]) - 1})
                                     \cup (IF f \in H THEN {Len(stack[x]) - 1} ELSE {})
    BY <2>1, GoesOn
  <2> HIDE DEF s
  <2>3. ASSUME NEW t \in Transports
        PROVE  Depths(s, Holding(t)) \subseteq Depths(stack[x], Holding(t))
    <3>1. f \in Holding(t) => Len(stack[x]) - 1 \in Depths(stack[x], Holding(t))
      <4>1. f \in Holding(t) => Top(x) \in Holding(t)
        BY <1>1 DEF Holding
      <4> QED  BY <4>1, OnTop
    <3> QED  BY <2>2, <3>1
  <2> QED  BY <1>2, <2>2, <2>3 DEF s
<1>3. CASE ~o
  <2> DEFINE s == Tail(stack[x])
  <2>1. Turns(x, s, {}) /\ \A H : Depths(s, H) = Depths(stack[x], H) \ {Len(stack[x]) - 1}
    BY Returns
  <2> HIDE DEF s
  <2>2. <<>> \o s = s
    <3>1. s \in Seq(FramesOf(x, link'))
      BY <2>1 DEF Turns, GoodStack
    <3> QED  BY <3>1
  <2> QED  BY <1>3, <2>1, <2>2 DEF s
<1> QED  BY <1>2, <1>3

LEMMA DropKeeps ==
    ASSUME BaseInv, NEW x \in Actors, Drop(x)
    PROVE  /\ BaseInv' /\ stack[x] # <<>> /\ Top(x) \in Frame /\ Top(x).pc = "drop"
           /\ Top(x).t \in Transports /\ ClosedStays /\ NoneStays
           /\ \E N : /\ Moved(x, N)
                     /\ Top(x).open => \E g \in N : g \in Frame /\ g.pc = "tell" /\ g.open /\ g.t = Top(x).t
                     /\ \A g \in N : \/ g = TeardownFrame(Top(x).t)
                                     \/ /\ g.pc = "tell" /\ g.t = Top(x).t
                                        /\ g.open /\ Top(x).open
           /\ server'.receiving = server.receiving /\ server'.malformed = server.malformed
           /\ server'.on \in {0, server.on}
           /\ \A t \in Transports : link'[t] = "open" => link[t] = "open"
<1> USE DEF BaseInv, TypeInv
<1> DEFINE f == [Top(x) EXCEPT !.pc = "tell"]
           rest == (IF f.open THEN <<f>> ELSE <<>>) \o Tail(stack[x])
<1>1. /\ At(x, "drop") /\ UNCHANGED <<clientVars, mtVars, budget, history>>
  BY DEF Drop
<1>2. /\ stack[x] # <<>> /\ Top(x).pc = "drop" /\ Top(x) \in Frame /\ Top(x) \in FramesOf(x, link)
  BY <1>1, OnTop DEF At
<1>3. /\ f \in Frame /\ f.pc = "tell" /\ f.t = Top(x).t /\ f.open = Top(x).open
      /\ f.t \in Transports /\ f.t \in MaybeTransport /\ f.open \in BOOLEAN
  BY <1>2 DEF Frame, FramesOf, SharedPcs, MaybeTransport
<1>4. /\ ClientType' /\ MtType' /\ HistoryType' /\ UNCHANGED <<transport, told, mtTask, frag>>
  BY <1>1 DEF ClientType, MtType, HistoryType, clientVars, mtVars, history
<1>5. link[f.t] # "none"
  <2>1. Top(x) \in Holding(f.t)
    BY <1>2, <1>3 DEF Holding
  <2>2. Has(stack[x], Holding(f.t)) /\ OneOwner(f.t)
    BY <1>2, <1>3, <2>1, TopHas DEF OwnerInv
  <2> QED  BY <2>2 DEF OneOwner
<1>6. \/ CanSend(f.t) /\ CloseLink(f.t) /\ SetStack(x, <<TeardownFrame(f.t)>> \o rest)
      \/ ~CanSend(f.t) /\ SetStack(x, rest) /\ UNCHANGED linkVars
  BY DEF Drop
<1> HIDE DEF f
<1>7. /\ LinkType' /\ ClosedStays /\ NoneStays /\ link'[f.t] = "closed"
      /\ server'.receiving = server.receiving /\ server'.malformed = server.malformed
      /\ server'.on \in {0, server.on}
      /\ \A t \in Transports : link'[t] = "open" => link[t] = "open"
  <2>1. CASE CanSend(f.t) /\ CloseLink(f.t)
    <3>1. link[f.t] \in {"open", "silent"}
      BY <2>1 DEF CanSend
    <3>2. /\ LinkType' /\ ClosedStays /\ NoneStays /\ link'[f.t] = "closed"
          /\ server'.on = (IF server.on = f.t THEN 0 ELSE server.on)
          /\ server'.receiving = server.receiving /\ server'.malformed = server.malformed
          /\ \A u \in Transports \ {f.t} : link'[u] = link[u]
      BY <1>3, <2>1, <3>1, CloseKeeps
    <3> QED  BY <3>2
  <2>2. CASE ~CanSend(f.t) /\ UNCHANGED linkVars
    <3>1. UNCHANGED link /\ UNCHANGED server /\ LinkType'
      BY <2>2 DEF linkVars, LinkType
    <3>2. link[f.t] = "closed"
      <4>1. f.t # 0 /\ link[f.t] \in {"none", "open", "silent", "closed"}
        BY <1>3, NotZero DEF LinkType
      <4> QED  BY <1>5, <2>2, <4>1 DEF CanSend
    <3> QED  BY <3>1, <3>2, LinkSame
  <2> QED  BY <1>6, <2>1, <2>2
<1>8. PICK M : /\ Turns(x, rest, M)
               /\ M \subseteq {f} /\ (f.open => f \in M) /\ (f \in M => f.open)
               /\ \A t \in Transports :
                      Depths(rest, Holding(t)) \subseteq Depths(stack[x], Holding(t))
  BY <1>2, <1>3, <1>7, DropRest
<1> HIDE DEF rest
<1>9. \E N, s : /\ SetStack(x, s) /\ Turns(x, s, N) /\ M \subseteq N
                /\ N \subseteq M \cup {TeardownFrame(f.t)}
                /\ \A t \in Transports : Depths(s, Holding(t)) \subseteq Depths(stack[x], Holding(t))
  <2>1. CASE SetStack(x, rest)
    BY <1>8, <2>1
  <2>2. CASE SetStack(x, <<TeardownFrame(f.t)>> \o rest)
    <3> DEFINE h == TeardownFrame(f.t)
    <3>1. h \in FramesOf(x, link') /\ h \in Quiet /\ h \notin Bottom
      BY <1>3, TeardownFacts
    <3> HIDE DEF h
    <3> DEFINE s == <<h>> \o rest
    <3>a. ~Has(rest, SetupFrames)
      <4>1. Top(x) \notin SetupFrames /\ f \notin SetupFrames
        BY <1>2, <1>3 DEF SetupFrames, SetupPcs
      <4>2. ~Has(stack[x], SetupFrames)
        BY <1>2, <4>1, SetupOnTop
      <4> QED  BY <1>8, <4>1, <4>2, SetupNoted DEF Turns, Became
    <3>2. /\ Turns(x, s, M \cup {h})
          /\ \A H : H \cap Quiet = {} => Depths(s, H) = Depths(rest, H)
      BY <1>8, <3>1, <3>a, CallsToo
    <3> HIDE DEF s
    <3>3. \A t \in Transports : Depths(s, Holding(t)) \subseteq Depths(stack[x], Holding(t))
      BY <1>8, <3>2, HoldingNotQuiet
    <3>4. SetStack(x, s)
      BY <2>2 DEF s, h
    <3> QED  BY <3>2, <3>3, <3>4 DEF h
  <2> QED  BY <1>6, <2>1, <2>2
<1>10. PICK N, s : /\ SetStack(x, s) /\ Turns(x, s, N) /\ M \subseteq N
                   /\ N \subseteq M \cup {TeardownFrame(f.t)}
                   /\ \A t \in Transports :
                          Depths(s, Holding(t)) \subseteq Depths(stack[x], Holding(t))
  BY <1>9
<1>11. StackInv' /\ Moved(x, N) /\ stack'[x] = s
  BY <1>7, <1>10, SetTurns
<1>12. OwnerInv'
  BY <1>4, <1>7, <1>10, <1>11, OwnerLets DEF Moved
<1>13. TeardownFrame(f.t).pc = "give_up"
  BY <1>3, TeardownFacts
<1>14. TaskInv'
  <2>1. N \cap Starting = {}
    BY <1>3, <1>8, <1>10, <1>13 DEF Starting
  <2> QED  BY <1>2, <1>4, <1>11, <2>1, TaskKeeps
<1>15. FragInv'
  <2>1. Top(x) \notin Failing
    BY <1>2 DEF Failing
  <2> QED  BY <1>4, <1>11, <2>1, FragKeeps
<1>16. BaseInv'
  BY <1>4, <1>7, <1>11, <1>12, <1>14, <1>15
<1>17. /\ Top(x).open => \E g \in N : g \in Frame /\ g.pc = "tell" /\ g.open /\ g.t = Top(x).t
       /\ \A g \in N : \/ g = TeardownFrame(Top(x).t)
                       \/ g.pc = "tell" /\ g.t = Top(x).t /\ g.open /\ Top(x).open
  <2>1. CASE f \in M
    BY <1>3, <1>8, <1>10, <2>1
  <2>2. CASE f \notin M
    <3>1. M = {} /\ ~f.open
      BY <1>8, <2>2
    <3> QED  BY <1>3, <1>10, <3>1
  <2> QED  BY <2>1, <2>2
<1>18. Top(x).t \in Transports
  BY <1>3
<1> QED  BY <1>2, <1>7, <1>11, <1>16, <1>17, <1>18

LEMMA TellKeeps ==
    ASSUME BaseInv, NEW x \in Actors, Tell(x)
    PROVE  /\ BaseInv' /\ stack[x] # <<>> /\ Top(x) \in Frame /\ Top(x).pc = "tell" /\ Top(x).open
           /\ Top(x).t \in Transports /\ told' = [told EXCEPT ![Top(x).t] = 1]
           /\ Moved(x, {})
<1> USE DEF BaseInv, TypeInv
<1> DEFINE u == Top(x).t
<1>1. /\ At(x, "tell") /\ told' = [told EXCEPT ![u] = @ + 1] /\ Callback(x, Tail(stack[x]))
      /\ connected' = FALSE
      /\ UNCHANGED <<state, transport, userClosed, attempt, exhausted, hs, rxBuf, frag, sendFrag,
                     closeSent, mtVars, linkVars, opened>>
  BY DEF Tell
<1>2. stack[x] # <<>> /\ Top(x).pc = "tell" /\ Top(x) \in Frame /\ Top(x) \in FramesOf(x, link)
  BY <1>1, OnTop DEF At
<1>3. u \in Transports /\ link[u] = "closed" /\ Top(x).open
  BY <1>2 DEF FramesOf
<1>4. /\ Top(x) \notin Failing
      /\ \A t \in Transports : Top(x) \in Holding(t) <=> t = u
  BY <1>2 DEF Failing, Holding
<1> HIDE DEF u
<1>5. ClosedStays /\ NoneStays /\ UNCHANGED <<link, frag, mtTask, transport>>
  BY <1>1, LinkSame DEF linkVars, mtVars
<1>6. ClientType' /\ MtType' /\ LinkType'
  <2>1. ClientType'
    BY <1>1 DEF ClientType
  <2> QED  BY <1>1, <2>1 DEF MtType, LinkType, mtVars, linkVars
<1> DEFINE s == Tail(stack[x])
<1>7. Turns(x, s, {}) /\ \A H : Depths(s, H) = Depths(stack[x], H) \ {Len(stack[x]) - 1}
  BY <1>2, <1>5, Returns
<1>8. transport \in MaybeTransport /\ budget \in 0 .. MaxEvents
  BY DEF ClientType, HistoryType
<1> HIDE DEF s
<1>a. ~Has(s, SetupFrames)
  <2>1. Top(x) \notin SetupFrames
    BY <1>2 DEF SetupFrames, SetupPcs
  <2>2. ~Has(stack[x], SetupFrames)
    BY <1>2, <2>1, SetupOnTop
  <2> QED  BY <1>7, <2>2, SetupNoted DEF Turns, Became
<1>9. /\ StackInv' /\ Moved(x, {}) /\ budget' \in 0 .. MaxEvents
      /\ stack'[x] \in {s, <<CloseFrame>> \o s}
  BY <1>1, <1>5, <1>7, <1>8, <1>a, CallsBack DEF s
<1>10. \A H : H \cap Quiet = {} => Depths(stack'[x], H) = Depths(s, H)
  <2>1. SameOwners(s, s)
    BY DEF SameOwners
  <2>2. SameOwners(<<CloseFrame>> \o s, s)
    BY <1>7, <1>8, <1>a, <2>1, ClosesToo
  <2> QED  BY <1>9, <2>1, <2>2 DEF SameOwners
<1>11. \A H : H \cap Quiet = {} =>
              Depths(stack'[x], H) = Depths(stack[x], H) \ {Len(stack[x]) - 1}
  BY <1>7, <1>10
<1> DEFINE k == Len(stack[x]) - 1
<1>12. \A H : k \in Depths(stack[x], H) <=> Top(x) \in H
  BY <1>2, OnTop
<1>13. \A t \in Transports : Depths(stack'[x], Holding(t)) = Depths(stack[x], Holding(t)) \ {k}
  BY <1>11, HoldingNotQuiet
<1> HIDE DEF k
<1>14. OneOwner(u) /\ k \in Depths(stack[x], Holding(u))
  BY <1>3, <1>4, <1>12 DEF OwnerInv
<1>15. told[u] = 0 /\ transport # u
  BY <1>14 DEF OneOwner, Has
<1>16. told' = [told EXCEPT ![u] = 1]
  BY <1>1, <1>15
<1>17. HistoryType'
  <2>1. lapses' \subseteq Lapses
    BY DEF Tell, HistoryType, Lapses
  <2> QED  BY <1>1, <1>3, <1>9, <1>16, <2>1 DEF HistoryType
<1>18. OwnerInv'
  <2> SUFFICES ASSUME NEW t \in Transports PROVE OneOwner(t)'
    BY DEF OwnerInv
  <2>1. CASE t = u
    <3>1. told'[u] = 1
      BY <1>3, <1>16 DEF HistoryType
    <3>2. \A y, z \in Actors : \A d \in Depths(stack[y], Holding(u)),
                                e \in Depths(stack[z], Holding(u)) : y = z /\ d = e
      BY <1>14 DEF OneOwner
    <3>3. ASSUME NEW y \in Actors, NEW d \in Depths(stack[y], Holding(u))
          PROVE  y = x /\ d = k
      BY <1>14, <3>2
    <3>4. \A y \in Actors : Depths(stack'[y], Holding(u)) = {}
      <4>1. Depths(stack'[x], Holding(u)) = {}
        BY <1>3, <1>13, <3>3
      <4>2. \A y \in Actors \ {x} : Depths(stack'[y], Holding(u)) = {}
        BY <1>9, <3>3 DEF Moved
      <4> QED  BY <4>1, <4>2
    <3> QED  BY <1>3, <1>5, <1>15, <2>1, <3>1, <3>4 DEF OneOwner, Has
  <2>2. CASE t # u
    <3>1. told'[t] = told[t]
      BY <1>16, <2>2 DEF HistoryType
    <3>2. Depths(stack'[x], Holding(t)) = Depths(stack[x], Holding(t))
      <4>1. k \notin Depths(stack[x], Holding(t))
        BY <1>4, <1>12, <2>2
      <4> QED  BY <1>13, <4>1
    <3>3. \A y \in Actors : Depths(stack'[y], Holding(t)) = Depths(stack[y], Holding(t))
      BY <1>9, <3>2 DEF Moved
    <3>4. OneOwner(t)
      BY DEF OwnerInv
    <3> QED  BY <1>5, <3>1, <3>3, <3>4 DEF OneOwner, Has
  <2> QED  BY <2>1, <2>2
<1>19. TaskInv'
  BY <1>2, <1>5, <1>9, TaskKeeps
<1>20. FragInv'
  BY <1>4, <1>5, <1>9, FragKeeps
<1>21. BaseInv'
  BY <1>6, <1>9, <1>17, <1>18, <1>19, <1>20
<1> QED  BY <1>2, <1>3, <1>9, <1>16, <1>21 DEF u

-----------------------------------------------------------------------------
(* The types and the owners. *)

LEMMA BaseStarts ==
    ASSUME Init
    PROVE  BaseInv
<1> USE DEF Init
<1>1. StackInv
  <2>1. \A x \in Actors : GoodStack(x, stack[x], link)
    BY Empty DEF GoodStack
  <2> QED  BY <2>1 DEF StackInv
<1>2. \A x \in Actors : \A H : ~Has(stack[x], H)
  BY Empty DEF Has
<1>3. ClientType /\ FragInv
  <2>1. /\ <<>> \in Seq(Items) /\ Len(<<>>) = 0
        /\ NoFragment \in [open : BOOLEAN, parts : Seq(Items)] /\ Len(NoFragment.parts) = 0
    BY DEF NoFragment
  <2>2. Len(rxBuf) <= MaxParts /\ attempt \in 0 .. MaxRetries
    BY <2>1, BoundsAssumption
  <2>3. FragInv
    BY <2>1, BoundsAssumption DEF FragInv
  <2> QED  BY <2>1, <2>2, <2>3 DEF ClientType, MaybeTransport
<1>4. MtType
  <2>1. heartbeat \in BOOLEAN /\ schedule \in Schedules
    BY SettingsAssumption
  <2>2. config \in BOOLEAN \X Schedules
    BY <2>1 DEF config
  <2> QED  BY <2>2 DEF MtType
<1>5. LinkType
  <2>1. link \in [Transports -> {"none", "open", "silent", "closed"}]
    OBVIOUS
  <2>2. wire \in [Transports -> Seq(Items)]
    OBVIOUS
  <2>3. server \in [on : MaybeTransport, sending : BOOLEAN, receiving : BOOLEAN, malformed : BOOLEAN]
    BY DEF MaybeTransport
  <2> QED  BY <2>1, <2>2, <2>3 DEF LinkType
<1>6. HistoryType
  BY BoundsAssumption DEF HistoryType
<1>7. OwnerInv
  <2>1. \A x \in Actors, t \in Transports : Depths(stack[x], Holding(t)) = {}
    BY <1>2 DEF Has
  <2> QED  BY <2>1, NotZero DEF OwnerInv, OneOwner, Has
<1>8. TaskInv
  BY <1>2, ActorFacts DEF TaskInv
<1> QED  BY <1>1, <1>3, <1>4, <1>5, <1>6, <1>7, <1>8 DEF BaseInv, TypeInv

LEMMA BaseStays ==
    ASSUME BaseInv, UNCHANGED vars
    PROVE  BaseInv'
<1> USE DEF BaseInv, TypeInv
<1>1. UNCHANGED <<stack, clientVars, mtVars, linkVars, budget, history>>
  BY DEF vars
<1>2. /\ ClientType' /\ MtType' /\ LinkType' /\ HistoryType'
      /\ UNCHANGED <<stack, transport, told, mtTask, frag, link>>
  BY <1>1 DEF ClientType, MtType, LinkType, HistoryType, clientVars, mtVars, linkVars, history
<1> QED  BY <1>2, StillKeeps, LinkSame

LEMMA BaseSteps ==
    ASSUME BaseInv, Next
    PROVE  BaseInv'
<1>1. CASE \E x \in Actors : Calls(x)
  BY <1>1, GiveUpKeeps, DropKeeps, TellKeeps, FailKeeps, FailClosesKeeps, CloseCallKeeps,
     CloseRefusedKeeps, CloseSendsKeeps, StopMaintainKeeps, JoinMaintainKeeps DEF Calls, Teardown
<1>2. CASE \E x \in {App, Mt} : Establishing(x)
  BY <1>2, EstablishKeeps, CreateFailsKeeps, CreateKeeps, AssignKeeps, SendUpgradeKeeps,
     WaitOpenKeeps, WaitFailsKeeps DEF Establishing
<1>3. CASE Application
  BY <1>3, ConnectKeeps, ConnectReturnsKeeps, StartMaintainKeeps, AppClosesKeeps,
     SendFragmentKeeps, SendDataKeeps, PingKeeps, PingFailsKeeps, PingStoreKeeps, SetsKeep
     DEF Application
<1>4. CASE Maintain \/ TimePasses
  BY <1>4, MtExitKeeps, MtNothingKeeps, MtPingKeeps, MtPingFailsKeeps, MtTickKeeps, MtStoreKeeps,
     TimePassesKeeps, MtTimeoutKeeps, MtRetryKeeps, MtBackoffKeeps,
     MtFailedKeeps, MtReconnectedKeeps, MtGivesUpKeeps DEF Maintain
<1>5. CASE Receive
  BY <1>5, OnTransportDataKeeps, DrainFramesKeeps, HandleDataFrameKeeps, DeliverKeeps,
     HandlePingKeeps, HandlePongKeeps, HandleCloseFrameKeeps, AnswerCloseKeeps, HandleBadCloseKeeps
     DEF Receive
<1>6. CASE ServerSendsData \/ \E type \in StrayTypes : ServerSends(type)
  BY <1>6, ServerSendsDataKeeps, ServerSendsKeeps
<1>7. CASE \E t \in Transports : LinkGoesSilent(t) \/ OnTransportClosed(t)
  BY <1>7, LinkGoesSilentKeeps, OnTransportClosedKeeps
<1> QED  BY <1>1, <1>2, <1>3, <1>4, <1>5, <1>6, <1>7 DEF Next

LEMMA BaseAlways == Spec => []BaseInv
<1>1. Init => BaseInv
  BY BaseStarts
<1>2. BaseInv /\ [Next]_vars => BaseInv'
  BY BaseSteps, BaseStays
<1> QED  BY <1>1, <1>2, PTL DEF Spec

LEMMA BaseTypes ==
    ASSUME BaseInv
    PROVE  TypeOK
<1> USE DEF BaseInv, TypeInv
<1>1. /\ {connected, userClosed, exhausted, sendFrag, closeSent, heartbeat, mtTask, mtRunning,
          recent} \subseteq BOOLEAN
      /\ schedule \in Schedules /\ ping \in {"none", "sent", "overdue"}
  BY DEF ClientType, MtType, LinkType, config
<1>2. /\ state \in {"down", "handshaking", "open"} /\ transport \in {0} \cup Transports
      /\ attempt \in 0 .. MaxRetries /\ hs \in {"none", "ok", "bad"} /\ Len(rxBuf) <= MaxParts
      /\ frag.open \in BOOLEAN /\ Len(frag.parts) <= MaxParts + 1
  BY DEF ClientType, FragInv, MaybeTransport
<1>3. /\ link \in [Transports -> {"none", "open", "silent", "closed"}]
      /\ budget \in 0 .. MaxEvents /\ opened \subseteq Transports /\ lapses \subseteq Lapses
      /\ told \in [Transports -> {0, 1}]
  BY DEF LinkType, HistoryType
<1>4. told \in [Transports -> Nat]
  BY <1>3
<1> QED  BY <1>1, <1>2, <1>3, <1>4 DEF TypeOK, Lapses

\* SoftwareWsClient keeps its variables within their types: the count of attempts stays
\* within max_retries, the receive buffer within kMaxMessageBytes, and the message under
\* way exceeds kMaxMessageBytes by no more than the frame that it is failed for.
THEOREM TypeCorrect == Spec => []TypeOK
  BY BaseAlways, BaseTypes, PTL

-----------------------------------------------------------------------------
(* The inductive invariant: what the state of the client says of the calls under way, *)
(* unless one connection has been taken for another.                                  *)

Astray == lapses \cap {"strayed", "zombie"} # {}

\* Establish between the lock that it takes twice; Establish, and the Teardown of what it
\* made, about transport t; a Teardown that is to report the end of transport t.
Opening == {f \in Frame : f.pc \in {"create", "assign"}}
Shaking(t) == {f \in Frame : f.pc \in {"upgrade", "wait", "give_up"} /\ f.own = t}
Ending(t) == {f \in Frame : f.pc \in {"drop", "tell"} /\ f.open /\ f.t = t}

\* Some thread is in a call of H.
Anywhere(calls, H) == \E x \in Actors : Has(calls[x], H)

\* Only one thread is making a transport, and transport_ is null until it is there.
OpeningInv ==
    /\ Anywhere(stack, Opening) => state = "handshaking" /\ transport = 0
    /\ ~(Has(stack[App], Opening) /\ Has(stack[Mt], Opening))

\* What transport_ and the reports are in each state.
StateInv ==
    /\ state = "down" => transport = 0
    /\ state = "open" => transport # 0 /\ transport \in opened
    /\ state = "handshaking" =>
           \/ Anywhere(stack, Opening)
           \/ transport # 0 /\ Anywhere(stack, Shaking(transport))
    /\ \A t \in Transports : Anywhere(stack, Ending(t)) \/ told[t] = 1 => t \in opened

PhaseInv == Astray \/ (OpeningInv /\ StateInv)

\* connected_ follows the state, except that it is cleared late.
ConnectedInv ==
    Astray \/ "late" \in lapses \/
        /\ state = "open" => connected
        /\ connected /\ state # "open" => \E t \in Transports : Anywhere(stack, Ending(t))

\* The calls of Connect and of Close that are between the end of one maintenance task
\* and the start of another, or the Teardown that follows.
Replacing ==
    {f \in Frame : \/ f.pc \in {"stop", "join", "start"} /\ f.then = "start"
                   \/ f.pc \in {"join", "close_frame", "refuse", "give_up"}}

Joining == {f \in Frame : f.pc = "join"}

\* The task is told to end, while it opens a connection, only by a thread that waits for
\* it.
JoinInv ==
    Has(stack[Mt], SetupFrames) /\ ~mtRunning => Has(stack[App], Joining) \/ Has(stack[Rx], Joining)

\* An open client has the task, or will have it.
HeartbeatInv ==
    Astray \/ (state = "open" /\ ~(mtTask /\ (mtRunning \/ userClosed)) => Anywhere(stack, Replacing))

MaintainInv == JoinInv /\ HeartbeatInv

-----------------------------------------------------------------------------
(* What a step leaves of the calls of all threads. *)

\* The frames with a pc in P.
Frames(P) == {f \in Frame : f.pc \in P}

\* No call with a pc in C comes and none with a pc in G goes.
Calm(C, G) ==
    \A y \in Actors : \A H :
        /\ H \subseteq Frames(C) /\ Has(stack'[y], H) => Has(stack[y], H)
        /\ H \subseteq Frames(G) /\ Has(stack[y], H) => Has(stack'[y], H)

LEMMA MovedCalm ==
    ASSUME NEW x \in Actors, NEW N, Moved(x, N), NEW C, NEW G, "close" \notin C, "close" \notin G,
           \A f \in N : f.pc \notin C, stack[x] = <<>> \/ Top(x).pc \notin G
    PROVE  Calm(C, G)
<1> SUFFICES ASSUME NEW y \in Actors, NEW H
             PROVE  /\ H \subseteq Frames(C) /\ Has(stack'[y], H) => Has(stack[y], H)
                    /\ H \subseteq Frames(G) /\ Has(stack[y], H) => Has(stack'[y], H)
  BY DEF Calm
<1>1. CASE y # x
  BY <1>1 DEF Moved
<1>2. CASE y = x
  <2>1. H \subseteq Frames(C) => H \subseteq Noted /\ N \cap H = {}
    BY DEF Frames, Noted
  <2>2. H \subseteq Frames(G) => H \subseteq Noted /\ ~(stack[x] # <<>> /\ Head(stack[x]) \in H)
    BY DEF Frames, Noted, Top
  <2> QED  BY <1>2, <2>1, <2>2 DEF Moved, Became
<1> QED  BY <1>1, <1>2

LEMMA StillCalm ==
    ASSUME UNCHANGED stack, NEW C, NEW G
    PROVE  Calm(C, G)
  BY DEF Calm

LEMMA CalmLess ==
    ASSUME NEW C, NEW G, Calm(C, G), NEW D, NEW E, D \subseteq C, E \subseteq G
    PROVE  Calm(D, E)
<1>1. Frames(D) \subseteq Frames(C) /\ Frames(E) \subseteq Frames(G)
  BY DEF Frames
<1> QED  BY <1>1 DEF Calm

\* A step of thread x, seen from all threads.
LEMMA Somewhere ==
    ASSUME NEW x \in Actors, NEW N, Moved(x, N), NEW H, H \subseteq Noted
    PROVE  /\ Anywhere(stack', H) => Anywhere(stack, H) \/ N \cap H # {}
           /\ N \cap H # {} => Anywhere(stack', H)
           /\ Anywhere(stack, H) => Anywhere(stack', H) \/ (stack[x] # <<>> /\ Top(x) \in H)
           /\ (stack[x] = <<>> \/ Top(x) \in Bottom) /\ N \cap H = {} => ~Has(stack'[x], H)
  BY DEF Moved, Became, Anywhere, Top

LEMMA CalmSomewhere ==
    ASSUME NEW C, NEW G, Calm(C, G), NEW H
    PROVE  /\ H \subseteq Frames(C) /\ Anywhere(stack', H) => Anywhere(stack, H)
           /\ H \subseteq Frames(G) /\ Anywhere(stack, H) => Anywhere(stack', H)
  BY DEF Calm, Anywhere

\* What a mild step leaves of the rest.
Steady ==
    /\ UNCHANGED <<state, transport, connected, mtTask, mtRunning, sendFrag, opened, told>>
    /\ userClosed => userClosed'
    /\ lapses \subseteq lapses'
    /\ server'.receiving = server.receiving /\ server'.malformed = server.malformed
    /\ server'.on \in {0, server.on}
    /\ NoneStays
    /\ \A t \in Transports : link'[t] = "open" => link[t] = "open"

MildStep == Calm(ComingPcs, GoingPcs) /\ Steady

LEMMA MildCalm ==
    ASSUME NEW x \in Actors, NEW N, Mild(x, N)
    PROVE  Calm(ComingPcs, GoingPcs)
<1>1. "close" \notin ComingPcs /\ "close" \notin GoingPcs
  BY DEF ComingPcs, GoingPcs
<1> QED  BY <1>1, MovedCalm DEF Mild

\* The steps that are mild.
MildNext ==
    \/ \E x \in Actors : Fail(x) \/ FailCloses(x) \/ Close(x)
    \/ ConnectReturns \/ AppCloses \/ Ping \/ PingFails \/ PingStore
    \/ MtExit \/ MtPing \/ MtPingFails \/ MtTick \/ MtStore \/ MtTimeout \/ MtRetry \/ MtFailed
    \/ MtReconnected \/ MtGivesUp
    \/ SetHeartbeat \/ SetAutoReconnect \/ MtNothing \/ TimePasses
    \/ Receive
    \/ ServerSendsData \/ \E type \in StrayTypes : ServerSends(type)
    \/ \E t \in Transports : LinkGoesSilent(t) \/ OnTransportClosed(t)
    \/ UNCHANGED vars

LEMMA SteadySame ==
    ASSUME UNCHANGED <<state, transport, connected, mtTask, mtRunning, sendFrag, opened, told,
                       link, server>>,
           userClosed => userClosed', lapses \subseteq lapses'
    PROVE  Steady
  BY LinkSame DEF Steady

LEMMA MildSteps ==
    ASSUME BaseInv, MildNext
    PROVE  MildStep
<1> USE DEF MildStep
<1>1. CASE \E x \in Actors : Fail(x) \/ FailCloses(x) \/ Close(x)
  <2>1. PICK x \in Actors : Fail(x) \/ FailCloses(x) \/ Close(x)
    BY <1>1
  <2>2. (\E N : Mild(x, N)) /\ UNCHANGED server
    <3>1. CASE Fail(x)
      BY <3>1, FailKeeps DEF Fail, linkVars
    <3>2. CASE FailCloses(x)
      BY <3>2, FailClosesKeeps
    <3>3. CASE Close(x)
      BY <3>3, CloseCallKeeps DEF Close, linkVars
    <3> QED  BY <2>1, <3>1, <3>2, <3>3
  <2>3. Calm(ComingPcs, GoingPcs)
    BY <2>2, MildCalm
  <2>4. Steady
    BY <2>1, <2>2, SteadySame DEF Fail, FailCloses, Close, clientVars, mtVars, linkVars, history
  <2> QED  BY <2>3, <2>4
<1>2. CASE ConnectReturns \/ AppCloses \/ Ping \/ PingFails \/ PingStore
  <2>1. \E N : Mild(App, N)
    BY <1>2, ConnectReturnsKeeps, AppClosesKeeps, PingKeeps, PingFailsKeeps, PingStoreKeeps
  <2>2. Calm(ComingPcs, GoingPcs)
    BY <2>1, MildCalm, ActorFacts
  <2>3. UNCHANGED server
    BY <1>2, PingKeeps DEF ConnectReturns, AppCloses, PingFails, PingStore, linkVars
  <2>4. UNCHANGED <<clientVars, mtTask, mtRunning, link, history>>
    BY <1>2 DEF ConnectReturns, AppCloses, Ping, PingFails, PingStore, mtVars, linkVars
  <2>5. Steady
    BY <2>3, <2>4, SteadySame DEF clientVars, history
  <2> QED  BY <2>2, <2>5
<1>3. CASE MtExit \/ MtPing \/ MtPingFails \/ MtTick \/ MtStore \/ MtTimeout \/ MtRetry
           \/ MtFailed \/ MtReconnected \/ MtGivesUp
  <2>1. MtMild
    BY <1>3, MtExitKeeps, MtPingKeeps, MtPingFailsKeeps, MtTickKeeps, MtStoreKeeps, MtTimeoutKeeps,
       MtRetryKeeps, MtFailedKeeps, MtReconnectedKeeps, MtGivesUpKeeps
  <2>2. Calm(ComingPcs, GoingPcs)
    BY <2>1, MildCalm, ActorFacts DEF MtMild
  <2>3. UNCHANGED server
    BY <1>3, MtPingKeeps DEF MtExit, MtPingFails, MtTick, MtStore, MtTimeout, MtRetry, MtFailed,
       MtReconnected, MtGivesUp, linkVars
  <2>4. UNCHANGED <<state, transport, connected, userClosed, sendFrag>>
    BY <1>3
       DEF MtOpen, MtExit, MtPing, MtPingFails, MtTick, MtStore, MtTimeout, MtRetry, MtFailed,
           MtReconnected, MtGivesUp, clientVars
  <2>5. UNCHANGED <<mtTask, mtRunning, link, history>>
    BY <1>3
       DEF MtExit, MtPing, MtPingFails, MtTick, MtStore, MtTimeout, MtRetry, MtFailed,
           MtReconnected, MtGivesUp, mtVars, linkVars
  <2>6. Steady
    BY <2>3, <2>4, <2>5, SteadySame DEF history
  <2> QED  BY <2>2, <2>6
<1>4. CASE Receive
  <2>1. RxMild
    BY <1>4, OnTransportDataKeeps, DrainFramesKeeps, HandleDataFrameKeeps, DeliverKeeps,
       HandlePingKeeps, HandlePongKeeps, HandleCloseFrameKeeps, AnswerCloseKeeps,
       HandleBadCloseKeeps DEF Receive
  <2>2. Calm(ComingPcs, GoingPcs)
    BY <2>1, MildCalm, ActorFacts DEF RxMild
  <2>3. UNCHANGED server
    BY <1>4, HandlePingKeeps, AnswerCloseKeeps
       DEF Receive, OnTransportData, DrainFrames, HandleDataFrame, Deliver, HandlePong,
           HandleCloseFrame, HandleBadClose, linkVars
  <2>4. /\ UNCHANGED <<state, transport, connected, userClosed, mtTask, mtRunning, sendFrag,
                       opened, told, link>>
        /\ lapses \subseteq lapses'
    BY <1>4 DEF Receive, OnTransportData, DrainFrames, HandleDataFrame, Deliver, HandlePing,
       HandlePong, HandleCloseFrame, AnswerClose, HandleBadClose, Stale, clientVars, mtVars,
       linkVars, history
  <2> QED  BY <2>2, <2>3, <2>4, SteadySame
<1>5. CASE ServerSendsData \/ \E type \in StrayTypes : ServerSends(type)
  <2>1. UNCHANGED <<stack, clientVars, mtVars, link, history>>
    BY <1>5 DEF ServerSendsData, ServerSends
  <2>2. server'.on = server.on /\ server'.receiving = server.receiving
        /\ server'.malformed = server.malformed
    BY <1>5 DEF ServerSendsData, ServerSends, BaseInv, TypeInv, LinkType
  <2>3. Steady
    BY <2>1, <2>2, LinkSame DEF Steady, clientVars, mtVars, history
  <2> QED  BY <2>1, <2>3, StillCalm
<1>6. ASSUME NEW t \in Transports, LinkGoesSilent(t)
      PROVE  MildStep
  <2>1. UNCHANGED <<stack, clientVars, mtVars, server, history>> /\ NoneStays
    BY <1>6, LinkGoesSilentKeeps DEF LinkGoesSilent
  <2>2. \A u \in Transports : link'[u] = "open" => link[u] = "open"
    BY <1>6 DEF LinkGoesSilent, BaseInv, TypeInv, LinkType
  <2>3. Steady
    BY <2>1, <2>2 DEF Steady, clientVars, mtVars, history
  <2> QED  BY <2>1, <2>3, StillCalm
<1>7. ASSUME NEW t \in Transports, OnTransportClosed(t)
      PROVE  MildStep
  <2>1. Calm(ComingPcs, GoingPcs)
    BY <1>7, OnTransportClosedKeeps, MildCalm, ActorFacts
  <2>2. /\ NoneStays /\ link'[t] = "closed"
        /\ server'.on = (IF server.on = t THEN 0 ELSE server.on)
        /\ server'.receiving = server.receiving /\ server'.malformed = server.malformed
        /\ \A u \in Transports \ {t} : link'[u] = link[u]
    BY <1>7, CloseKeeps DEF OnTransportClosed, CanSend, BaseInv, TypeInv
  <2>3. UNCHANGED <<clientVars, mtVars, history>>
    BY <1>7 DEF OnTransportClosed
  <2>4. Steady
    BY <2>2, <2>3 DEF Steady, clientVars, mtVars, history
  <2> QED  BY <2>1, <2>4
<1>8. CASE UNCHANGED vars
  <2>1. UNCHANGED <<stack, clientVars, mtVars, linkVars, history>>
    BY <1>8 DEF vars
  <2>2. Steady
    BY <2>1, SteadySame DEF clientVars, mtVars, linkVars, history
  <2> QED  BY <2>1, <2>2, StillCalm
<1>9. CASE SetHeartbeat \/ SetAutoReconnect \/ MtNothing \/ TimePasses
  <2>1. /\ UNCHANGED <<stack, link, server, history>>
        /\ UNCHANGED <<state, transport, connected, userClosed, mtTask, mtRunning, sendFrag>>
    BY <1>9, SetsKeep DEF MtNothing, MtOpen, TimePasses, clientVars, mtVars, linkVars
  <2>2. Steady
    BY <2>1, SteadySame DEF history
  <2> QED  BY <2>1, <2>2, StillCalm
<1> QED  BY <1>1, <1>2, <1>3, <1>4, <1>5, <1>6, <1>7, <1>8, <1>9 DEF MildNext

-----------------------------------------------------------------------------
(* The invariants of the state, of connected_ and of the task start. *)

\* The calls that come and those that go that the state is about.
PhaseComing == {"create", "assign", "drop", "tell"}
PhaseGoing == {"create", "assign", "upgrade", "wait", "give_up", "drop", "tell"}

\* The steps that are not mild but leave the state alone.
SideNext ==
    \/ Connect \/ MtBackoff \/ SendFragment \/ SendData \/ SendDataFails \/ StartMaintain
    \/ \E x \in Actors :
           CloseRefused(x) \/ CloseSends(x) \/ StopMaintain(x) \/ JoinMaintain(x)

LEMMA PcsFacts ==
    /\ PhaseComing \subseteq ComingPcs /\ PhaseGoing \subseteq GoingPcs
    /\ "close" \notin PhaseComing /\ "close" \notin PhaseGoing
  BY DEF PhaseComing, PhaseGoing, ComingPcs, GoingPcs

LEMMA FrameSets ==
    /\ Opening \subseteq Frames(PhaseComing) /\ Opening \subseteq Frames(PhaseGoing)
    /\ \A t : Shaking(t) \subseteq Frames(PhaseGoing)
    /\ \A t : Ending(t) \subseteq Frames(PhaseComing) /\ Ending(t) \subseteq Frames(PhaseGoing)
    /\ Opening \subseteq Noted /\ \A t : Shaking(t) \subseteq Noted /\ Ending(t) \subseteq Noted
  BY DEF Opening, Shaking, Ending, Frames, PhaseComing, PhaseGoing, Noted

LEMMA SideSteps ==
    ASSUME BaseInv, SideNext
    PROVE  /\ Calm(PhaseComing, PhaseGoing)
           /\ UNCHANGED <<state, transport, connected, opened, told>>
           /\ lapses \subseteq lapses'
<1>1. /\ UNCHANGED <<state, transport, connected, opened, told>>
      /\ lapses \subseteq lapses'
  BY DEF SideNext, Connect, MtBackoff, SendFragment, SendData, SendDataFails, StartMaintain,
     CloseRefused, CloseSends, StopMaintain, JoinMaintain, clientVars, mtVars, linkVars, history
<1>2. CASE StartMaintain
  <2>1. /\ stack[App] # <<>> /\ Top(App).pc = "start" /\ stack[Mt] = <<>>
        /\ stack'[Rx] = stack[Rx]
        /\ \E g \in Frame : g.pc = "up" /\ Became(stack[App], stack'[App], {g})
        /\ \E h \in Frame : h.pc = "loop" /\ Became(stack[Mt], stack'[Mt], {h})
    BY <1>2, StartMaintainKeeps
  <2> SUFFICES ASSUME NEW y \in Actors, NEW H
               PROVE  /\ H \subseteq Frames(PhaseComing) /\ Has(stack'[y], H) => Has(stack[y], H)
                      /\ H \subseteq Frames(PhaseGoing) /\ Has(stack[y], H) => Has(stack'[y], H)
    BY <1>1 DEF Calm
  <2>2. CASE y = Rx
    BY <2>1, <2>2
  <2>3. CASE y = App
    <3>1. PICK g \in Frame : g.pc = "up" /\ Became(stack[App], stack'[App], {g})
      BY <2>1
    <3>2. H \subseteq Frames(PhaseComing) => H \subseteq Noted /\ {g} \cap H = {}
      BY <3>1 DEF Frames, Noted, PhaseComing
    <3>3. H \subseteq Frames(PhaseGoing) => H \subseteq Noted /\ Head(stack[App]) \notin H
      BY <2>1 DEF Frames, Noted, PhaseGoing, Top
    <3> QED  BY <2>3, <3>1, <3>2, <3>3 DEF Became
  <2>4. CASE y = Mt
    <3>1. PICK g \in Frame : g.pc = "loop" /\ Became(stack[Mt], stack'[Mt], {g})
      BY <2>1
    <3>2. H \subseteq Frames(PhaseComing) => H \subseteq Noted /\ {g} \cap H = {}
      BY <3>1 DEF Frames, Noted, PhaseComing
    <3>3. ~Has(stack[Mt], H)
      BY <2>1, Empty DEF Has
    <3> QED  BY <2>4, <3>1, <3>2, <3>3 DEF Became
  <2> QED  BY <2>2, <2>3, <2>4, ActorFacts
<1>3. CASE ~StartMaintain
  <2>1. \E x \in Actors : \E N :
            /\ Moved(x, N) /\ \A f \in N : f.pc \notin PhaseComing
            /\ stack[x] = <<>> \/ Top(x).pc \notin PhaseGoing
    <3> USE ActorFacts DEF PhaseComing, PhaseGoing
    <3>1. CASE Connect
      BY <3>1, ConnectKeeps
    <3>2. CASE MtBackoff
      <4>1. /\ Top(Mt).pc = "backoff"
            /\ (\E g \in Frame : g.pc = "establish" /\ Moved(Mt, {g})) \/ Moved(Mt, {})
        BY <3>2, MtBackoffKeeps
      <4>2. CASE Moved(Mt, {})
        BY <4>1, <4>2
      <4>3. CASE \E g \in Frame : g.pc = "establish" /\ Moved(Mt, {g})
        BY <4>1, <4>3
      <4> QED  BY <4>1, <4>2, <4>3
    <3>3. CASE SendFragment
      BY <3>3, SendFragmentKeeps
    <3>4. CASE SendData \/ SendDataFails
      BY <3>4, SendDataKeeps
    <3>5. CASE \E x \in Actors : CloseSends(x)
      <4>1. PICK x \in Actors : CloseSends(x)
        BY <3>5
      <4>2. /\ Top(x).pc = "close_frame"
            /\ (\E g \in Frame : g.pc = "give_up" /\ Moved(x, {g})) \/ Moved(x, {})
        BY <4>1, CloseSendsKeeps
      <4>3. CASE Moved(x, {})
        BY <4>2, <4>3
      <4>4. CASE \E g \in Frame : g.pc = "give_up" /\ Moved(x, {g})
        BY <4>2, <4>4
      <4> QED  BY <4>2, <4>3, <4>4
    <3>6. CASE \E x \in Actors : StopMaintain(x)
      <4>1. PICK x \in Actors : StopMaintain(x)
        BY <3>6
      <4>2. PICK g \in Frame : g.pc \in {"join", "close_frame", "refuse", "start"} /\ Moved(x, {g})
        BY <4>1, StopMaintainKeeps
      <4>3. Top(x).pc = "stop"
        BY <4>1, StopMaintainKeeps
      <4> QED  BY <4>2, <4>3
    <3>7. CASE \E x \in Actors : JoinMaintain(x)
      <4>1. PICK x \in Actors : JoinMaintain(x)
        BY <3>7
      <4>2. PICK g \in Frame : g.pc \in {"join", "close_frame", "refuse", "start"} /\ Moved(x, {g})
        BY <4>1, JoinMaintainKeeps
      <4>3. Top(x).pc = "join"
        BY <4>1, JoinMaintainKeeps
      <4> QED  BY <4>2, <4>3
    <3>8. CASE \E x \in Actors : CloseRefused(x)
      <4>1. PICK x \in Actors : CloseRefused(x)
        BY <3>8
      <4>2. PICK g \in Frame : g.pc = "give_up" /\ Moved(x, {g})
        BY <4>1, CloseRefusedKeeps
      <4>3. Top(x).pc = "refuse"
        BY <4>1, CloseRefusedKeeps
      <4> QED  BY <4>2, <4>3
    <3> QED  BY <1>3, <3>1, <3>2, <3>3, <3>4, <3>5, <3>6, <3>7, <3>8 DEF SideNext
  <2>2. PICK x \in Actors : \E N : /\ Moved(x, N) /\ \A f \in N : f.pc \notin PhaseComing
                                   /\ stack[x] = <<>> \/ Top(x).pc \notin PhaseGoing
    BY <2>1
  <2>3. Calm(PhaseComing, PhaseGoing)
    BY <2>2, MovedCalm, PcsFacts
  <2> QED  BY <1>1, <2>3
<1> QED  BY <1>2, <1>3

\* A step that is about something else, or one of Establish that finds the state taken.
LEMMA CalmKeepsPhase ==
    ASSUME Calm(PhaseComing, PhaseGoing), UNCHANGED <<state, transport, opened, told>>,
           lapses \subseteq lapses', PhaseInv
    PROVE  PhaseInv'
<1> SUFFICES ASSUME ~Astray' PROVE OpeningInv' /\ StateInv'
  BY DEF PhaseInv
<1>1. OpeningInv /\ StateInv
  BY DEF PhaseInv, Astray
<1>2. /\ Anywhere(stack', Opening) <=> Anywhere(stack, Opening)
      /\ Anywhere(stack, Shaking(transport)) => Anywhere(stack', Shaking(transport))
      /\ \A t : Anywhere(stack', Ending(t)) => Anywhere(stack, Ending(t))
  BY CalmSomewhere, FrameSets
<1>3. \A y \in {App, Mt} : Has(stack'[y], Opening) => Has(stack[y], Opening)
  BY FrameSets, ActorFacts DEF Calm
<1> QED  BY <1>1, <1>2, <1>3 DEF OpeningInv, StateInv

LEMMA CalmKeepsConnected ==
    ASSUME Calm(PhaseComing, PhaseGoing), UNCHANGED <<state, connected>>,
           lapses \subseteq lapses', ConnectedInv
    PROVE  ConnectedInv'
<1>1. \A t : Anywhere(stack, Ending(t)) => Anywhere(stack', Ending(t))
  BY CalmSomewhere, FrameSets
<1> QED  BY <1>1 DEF ConnectedInv, Astray

LEMMA HasMore ==
    ASSUME NEW s, NEW H, NEW K, H \subseteq K, Has(s, H)
    PROVE  Has(s, K)
  BY DEF Has, Depths

\* Establish is not on the receive thread.
LEMMA NoSetupOnRx ==
    ASSUME StackInv
    PROVE  ~Has(stack[Rx], SetupFrames)
<1>1. CASE stack[Rx] = <<>>
  BY <1>1, Empty DEF Has
<1>2. CASE stack[Rx] # <<>>
  <2>1. Top(Rx) \notin SetupFrames
    BY <1>2, ActorFacts, OnTop DEF FramesOf, OwnPcs, RxPcs, SharedPcs, SetupFrames, SetupPcs
  <2> QED  BY <1>2, <2>1, ActorFacts, SetupOnTop
<1> QED  BY <1>1, <1>2

LEMMA OpeningAlone ==
    ASSUME BaseInv, OpeningInv, NEW x \in {App, Mt}, stack[x] # <<>>, Top(x) \in Opening
    PROVE  /\ state = "handshaking" /\ transport = 0
           /\ \A y \in Actors \ {x} : ~Has(stack[y], Opening)
<1>1. Has(stack[x], Opening) /\ x \in Actors
  BY ActorFacts, TopHas DEF BaseInv, TypeInv
<1>2. Opening \subseteq SetupFrames
  BY DEF Opening, SetupFrames, SetupPcs
<1>3. ~Has(stack[Rx], Opening)
  BY <1>2, HasMore, NoSetupOnRx DEF BaseInv, TypeInv
<1> QED  BY <1>1, <1>3, ActorFacts DEF OpeningInv, Anywhere

\* Establish, when nothing is open, begins.
LEMMA EstablishKeepsPhase ==
    ASSUME BaseInv, NEW x \in {App, Mt}, Establish(x), PhaseInv, ConnectedInv
    PROVE  PhaseInv' /\ ConnectedInv'
<1>1. /\ stack[x] # <<>> /\ Top(x) \in Frame /\ Top(x).pc = "establish" /\ x \in Actors
      /\ \/ state # "down" /\ \E N : Moved(x, N) /\ \A f \in N : f.pc = "failed"
         \/ state = "down" /\ \E g \in Frame : g.pc = "create" /\ Moved(x, {g})
  BY EstablishKeeps, ActorFacts
<1>2. /\ UNCHANGED <<transport, connected, opened, told, lapses>>
      /\ IF state # "down" THEN UNCHANGED state ELSE state' = "handshaking"
  BY DEF Establish, history
<1>3. CASE state # "down"
  <2>1. PICK N : Moved(x, N) /\ \A f \in N : f.pc = "failed"
    BY <1>1, <1>3
  <2>2. Calm(PhaseComing, PhaseGoing)
    <3>1. /\ \A f \in N : f.pc \notin PhaseComing
          /\ Top(x).pc \notin PhaseGoing
      BY <1>1, <2>1 DEF PhaseComing, PhaseGoing
    <3> QED  BY <1>1, <2>1, <3>1, MovedCalm, PcsFacts
  <2> QED  BY <1>2, <1>3, <2>2, CalmKeepsPhase, CalmKeepsConnected
<1>4. CASE state = "down"
  <2>1. PICK g \in Frame : g.pc = "create" /\ Moved(x, {g})
    BY <1>1, <1>4
  <2>2. /\ g \in Opening /\ \A t : g \notin Ending(t)
        /\ \A t : Top(x) \notin Ending(t)
    BY <1>1, <2>1 DEF Opening, Ending
  <2>3. Anywhere(stack', Opening)
    BY <1>1, <2>1, <2>2, Somewhere, FrameSets
  <2>4. ASSUME NEW t PROVE Anywhere(stack', Ending(t)) <=> Anywhere(stack, Ending(t))
    BY <1>1, <2>1, <2>2, Somewhere, FrameSets
  <2>5. ConnectedInv'
    BY <1>2, <1>4, <2>4 DEF ConnectedInv, Astray
  <2>6. SUFFICES ASSUME ~Astray' PROVE OpeningInv' /\ StateInv'
    BY <2>5 DEF PhaseInv
  <2>7. OpeningInv /\ StateInv
    BY <1>2, <2>6 DEF PhaseInv, Astray
  <2>8. \A y \in Actors : ~Has(stack[y], Opening)
    BY <1>4, <2>7 DEF OpeningInv, Anywhere
  <2>9. transport' = 0
    BY <1>2, <1>4, <2>7 DEF StateInv
  <2>10. OpeningInv'
    BY <1>2, <1>4, <2>1, <2>8, <2>9, ActorFacts DEF OpeningInv, Moved
  <2> QED  BY <1>2, <1>4, <2>3, <2>4, <2>7, <2>10 DEF StateInv
<1> QED  BY <1>3, <1>4

\* Create hands the connection that it makes to Assign, or leaves nothing.
LEMMA CreateKeepsPhase ==
    ASSUME BaseInv, NEW x \in {App, Mt}, Create(x) \/ CreateFails(x), PhaseInv, ConnectedInv
    PROVE  PhaseInv' /\ ConnectedInv'
<1>1. /\ stack[x] # <<>> /\ Top(x) \in Frame /\ Top(x).pc = "create" /\ Top(x) \in Bottom
      /\ x \in Actors
      /\ \E N : /\ Moved(x, N)
                /\ \/ CreateFails(x) /\ \A f \in N : f.pc = "failed"
                   \/ Create(x) /\ \E g \in Frame : g.pc = "assign" /\ N = {g}
  <2>1. CASE Create(x)
    <3>1. PICK t \in Transports, g \in Frame : g.pc = "assign" /\ Moved(x, {g})
      BY <2>1, CreateKeeps
    <3>2. stack[x] # <<>> /\ Top(x) \in Frame /\ Top(x).pc = "create" /\ Top(x) \in Bottom
      BY <2>1, CreateKeeps
    <3> QED  BY <2>1, <3>1, <3>2, ActorFacts
  <2>2. CASE CreateFails(x)
    BY <2>2, CreateFailsKeeps, ActorFacts
  <2> QED  BY <2>1, <2>2
<1>2. /\ UNCHANGED <<transport, connected, opened, told, lapses>>
      /\ Create(x) => UNCHANGED state
      /\ CreateFails(x) => state' = "down"
  BY DEF Create, CreateFails, history, clientVars
<1>3. PICK N : /\ Moved(x, N)
               /\ \/ CreateFails(x) /\ \A f \in N : f.pc = "failed"
                  \/ Create(x) /\ \E g \in Frame : g.pc = "assign" /\ N = {g}
  BY <1>1
<1>4. /\ Top(x) \in Opening /\ \A t : N \cap Ending(t) = {} /\ Top(x) \notin Ending(t)
      /\ CreateFails(x) \/ N \cap Opening # {}
      /\ Create(x) \/ N \cap Opening = {}
  BY <1>1, <1>3 DEF Opening, Ending
<1>5. ASSUME NEW t PROVE Anywhere(stack', Ending(t)) <=> Anywhere(stack, Ending(t))
  BY <1>1, <1>3, <1>4, Somewhere, FrameSets
<1>6. SUFFICES ASSUME ~Astray' PROVE OpeningInv' /\ StateInv' /\ ConnectedInv'
  BY DEF PhaseInv, ConnectedInv
<1>7. OpeningInv /\ StateInv
  BY <1>2, <1>6 DEF PhaseInv, Astray
<1>8. /\ state = "handshaking" /\ transport = 0
      /\ \A y \in Actors \ {x} : ~Has(stack'[y], Opening)
  BY <1>1, <1>3, <1>4, <1>7, OpeningAlone DEF Moved
<1>9. ConnectedInv'
  BY <1>2, <1>3, <1>5, <1>8 DEF ConnectedInv, Astray
<1>10. CASE CreateFails(x) /\ N \cap Opening = {}
  <2>1. ~Has(stack'[x], Opening)
    BY <1>1, <1>3, <1>10, Somewhere, FrameSets
  <2>2. ~Anywhere(stack', Opening) /\ ~Has(stack'[App], Opening)
    BY <1>8, <2>1, ActorFacts DEF Anywhere
  <2>3. OpeningInv'
    BY <2>2 DEF OpeningInv
  <2> QED  BY <1>2, <1>5, <1>7, <1>8, <1>9, <1>10, <2>3 DEF StateInv
<1>11. CASE Create(x) /\ N \cap Opening # {}
  <2>1. Anywhere(stack', Opening)
    BY <1>1, <1>3, <1>11, Somewhere, FrameSets
  <2>2. OpeningInv'
    BY <1>2, <1>8, <1>11, ActorFacts DEF OpeningInv
  <2> QED  BY <1>2, <1>5, <1>7, <1>8, <1>9, <1>11, <2>1, <2>2 DEF StateInv
<1> QED  BY <1>3, <1>4, <1>10, <1>11

\* transport_ is set by the thread that has been making it.
LEMMA AssignKeepsPhase ==
    ASSUME BaseInv, NEW x \in {App, Mt}, Assign(x), PhaseInv, ConnectedInv
    PROVE  PhaseInv' /\ ConnectedInv'
<1>1. /\ stack[x] # <<>> /\ Top(x) \in Frame /\ Top(x).pc = "assign" /\ Top(x) \in Bottom
      /\ x \in Actors /\ Top(x).own \in Transports
      /\ \E g \in Frame : g.pc = "upgrade" /\ g.own = Top(x).own /\ Moved(x, {g})
  BY AssignKeeps, ActorFacts
<1>2. UNCHANGED <<state, connected, opened, told, lapses>> /\ transport' = Top(x).own
  BY DEF Assign, history
<1>3. PICK g \in Frame : g.pc = "upgrade" /\ g.own = Top(x).own /\ Moved(x, {g})
  BY <1>1
<1>4. /\ Top(x) \in Opening /\ \A t : g \notin Ending(t) /\ Top(x) \notin Ending(t)
      /\ g \notin Opening /\ g \in Shaking(transport')
  BY <1>1, <1>2, <1>3 DEF Opening, Ending, Shaking
<1>5. ASSUME NEW t PROVE Anywhere(stack', Ending(t)) <=> Anywhere(stack, Ending(t))
  BY <1>1, <1>3, <1>4, Somewhere, FrameSets
<1>6. ConnectedInv'
  BY <1>2, <1>5 DEF ConnectedInv, Astray
<1>7. SUFFICES ASSUME ~Astray' PROVE OpeningInv' /\ StateInv'
  BY <1>6 DEF PhaseInv
<1>8. OpeningInv /\ StateInv
  BY <1>2, <1>7 DEF PhaseInv, Astray
<1>9. /\ state = "handshaking" /\ transport = 0
      /\ \A y \in Actors \ {x} : ~Has(stack'[y], Opening)
  BY <1>1, <1>3, <1>4, <1>8, OpeningAlone DEF Moved
<1>10. ~Has(stack'[x], Opening)
  BY <1>1, <1>3, <1>4, Somewhere, FrameSets
<1>11. ~Anywhere(stack', Opening) /\ ~Has(stack'[App], Opening)
  BY <1>9, <1>10, ActorFacts DEF Anywhere
<1>12. OpeningInv'
  BY <1>11 DEF OpeningInv
<1>13. Anywhere(stack', Shaking(transport')) /\ transport' # 0
  BY <1>1, <1>2, <1>3, <1>4, Somewhere, FrameSets, NotZero
<1> QED  BY <1>2, <1>5, <1>8, <1>9, <1>12, <1>13 DEF StateInv

\* The request goes out, or Establish fails: the Teardown is about the same transport.
LEMMA ShakingKeepsPhase ==
    ASSUME BaseInv, NEW x \in {App, Mt}, SendUpgrade(x) \/ WaitFails(x), PhaseInv, ConnectedInv
    PROVE  PhaseInv' /\ ConnectedInv'
<1>1. /\ stack[x] # <<>> /\ Top(x) \in Frame /\ Top(x).pc \in {"upgrade", "wait"}
      /\ Top(x).own \in Transports /\ x \in Actors
  BY SendUpgradeKeeps, WaitFailsKeeps, ActorFacts
<1>2. \E N : /\ Moved(x, N) /\ N \cap Shaking(Top(x).own) # {}
             /\ \A f \in N : f.pc \in {"wait", "give_up", "failed"}
  <2> DEFINE h == TeardownFrame(Top(x).own)
  <2>1. h \in Frame /\ h.pc = "give_up" /\ h.own = Top(x).own
    BY <1>1, TeardownFacts DEF MaybeTransport
  <2> HIDE DEF h
  <2>2. CASE \E g \in Frame : g.pc = "wait" /\ g.own = Top(x).own /\ Moved(x, {g})
    <3>1. PICK g \in Frame : g.pc = "wait" /\ g.own = Top(x).own /\ Moved(x, {g})
      BY <2>2
    <3>2. g \in Shaking(Top(x).own)
      BY <3>1 DEF Shaking
    <3> QED  BY <3>1, <3>2
  <2>3. CASE \E N : Moved(x, N) /\ h \in N /\ \A f \in N : f = h \/ f.pc = "failed"
    <3>1. PICK N : Moved(x, N) /\ h \in N /\ \A f \in N : f = h \/ f.pc = "failed"
      BY <2>3
    <3>2. h \in Shaking(Top(x).own)
      BY <2>1 DEF Shaking
    <3>3. \A f \in N : f.pc \in {"wait", "give_up", "failed"}
      BY <2>1, <3>1
    <3> QED  BY <3>1, <3>2, <3>3
  <2>4. \/ \E g \in Frame : g.pc = "wait" /\ g.own = Top(x).own /\ Moved(x, {g})
        \/ \E N : Moved(x, N) /\ h \in N /\ \A f \in N : f = h \/ f.pc = "failed"
    BY SendUpgradeKeeps, WaitFailsKeeps DEF h
  <2> QED  BY <2>2, <2>3, <2>4
<1>3. PICK N : /\ Moved(x, N) /\ N \cap Shaking(Top(x).own) # {}
               /\ \A f \in N : f.pc \in {"wait", "give_up", "failed"}
  BY <1>2
<1>4. UNCHANGED <<state, transport, connected, opened, told, lapses>>
  BY DEF SendUpgrade, WaitFails, clientVars, history
<1>5. /\ Top(x) \notin Opening /\ N \cap Opening = {}
      /\ \A t : N \cap Ending(t) = {} /\ Top(x) \notin Ending(t)
      /\ \A t : Top(x) \in Shaking(t) => N \cap Shaking(t) # {}
  BY <1>1, <1>3 DEF Opening, Ending, Shaking
<1>6. ASSUME NEW t
      PROVE  /\ Anywhere(stack', Ending(t)) <=> Anywhere(stack, Ending(t))
             /\ Anywhere(stack, Shaking(t)) => Anywhere(stack', Shaking(t))
  BY <1>1, <1>3, <1>5, Somewhere, FrameSets
<1>7. /\ Anywhere(stack', Opening) <=> Anywhere(stack, Opening)
      /\ \A y \in Actors : Has(stack'[y], Opening) => Has(stack[y], Opening)
  <2>1. Anywhere(stack', Opening) <=> Anywhere(stack, Opening)
    BY <1>1, <1>3, <1>5, Somewhere, FrameSets
  <2>2. ASSUME NEW y \in Actors, Has(stack'[y], Opening)
        PROVE  Has(stack[y], Opening)
    BY <1>3, <1>5, <2>2, FrameSets DEF Moved, Became
  <2> QED  BY <2>1, <2>2
<1>8. ConnectedInv'
  BY <1>4, <1>6 DEF ConnectedInv, Astray
<1> QED  BY <1>4, <1>6, <1>7, <1>8, ActorFacts DEF PhaseInv, Astray, OpeningInv, StateInv

\* The client is open once the upgrade was accepted.
LEMMA WaitOpenKeepsPhase ==
    ASSUME BaseInv, NEW x \in {App, Mt}, WaitOpen(x), PhaseInv, ConnectedInv
    PROVE  PhaseInv' /\ ConnectedInv'
<1>1. /\ stack[x] # <<>> /\ Top(x) \in Frame /\ Top(x).pc = "wait"
      /\ Top(x).own \in Transports /\ x \in Actors
      /\ \E g \in Frame : g.pc \in {"stop", "reconnected"} /\ Moved(x, {g})
  BY WaitOpenKeeps, ActorFacts
<1>2. PICK g \in Frame : g.pc \in {"stop", "reconnected"} /\ Moved(x, {g})
  BY <1>1
<1>3. /\ UNCHANGED <<transport, told>> /\ state' = "open" /\ connected' = TRUE
      /\ opened' = (IF transport = Top(x).own THEN opened \cup {transport} ELSE opened)
      /\ lapses' = (IF transport = Top(x).own THEN lapses ELSE lapses \cup {"zombie"})
  BY DEF WaitOpen
<1>4. g \notin Opening /\ \A t : g \notin Ending(t)
  BY <1>2 DEF Opening, Ending
<1>5. /\ Anywhere(stack', Opening) => Anywhere(stack, Opening)
      /\ \A t : Anywhere(stack', Ending(t)) => Anywhere(stack, Ending(t))
  BY <1>1, <1>2, <1>4, Somewhere, FrameSets
<1>6. ConnectedInv'
  BY <1>3 DEF ConnectedInv
<1>7. SUFFICES ASSUME ~Astray' PROVE OpeningInv' /\ StateInv'
  BY <1>6 DEF PhaseInv
<1>8. /\ transport = Top(x).own /\ transport # 0 /\ OpeningInv /\ StateInv
  BY <1>1, <1>3, <1>7, NotZero DEF PhaseInv, Astray
<1>9. ~Anywhere(stack', Opening) /\ ~Has(stack'[App], Opening)
  BY <1>5, <1>8, ActorFacts DEF OpeningInv, Anywhere
<1>10. OpeningInv'
  BY <1>9 DEF OpeningInv
<1> QED  BY <1>3, <1>5, <1>8, <1>10 DEF StateInv

\* Teardown takes the transport, and with it the report that is due.
LEMMA GiveUpKeepsPhase ==
    ASSUME BaseInv, NEW x \in Actors, GiveUp(x), PhaseInv, ConnectedInv
    PROVE  PhaseInv' /\ ConnectedInv'
<1>1. /\ stack[x] # <<>> /\ Top(x) \in Frame /\ Top(x).pc = "give_up"
      /\ \/ transport = 0 /\ Moved(x, {})
         \/ /\ transport # 0
            /\ \E g \in Frame : /\ g.pc = "drop" /\ g.t = transport
                                /\ g.open = (state = "open") /\ Moved(x, {g})
  BY GiveUpKeeps
<1>2. /\ UNCHANGED <<connected, opened, told>> /\ state' = "down" /\ transport' = 0
      /\ lapses' = (IF transport \in {0, Top(x).own} /\ (state = "down" \/ transport # 0)
                    THEN lapses ELSE lapses \cup {"strayed"})
  BY DEF GiveUp
<1>3. SUFFICES ASSUME ~Astray' PROVE OpeningInv' /\ StateInv' /\ ConnectedInv'
  BY DEF PhaseInv, ConnectedInv
<1>4. /\ OpeningInv /\ StateInv /\ (state = "down" \/ transport # 0) /\ lapses' = lapses /\ ~Astray
  BY <1>2, <1>3 DEF PhaseInv, Astray
<1>5. ~Anywhere(stack, Opening)
  BY <1>4 DEF OpeningInv
<1>6. \E N : /\ Moved(x, N) /\ N \cap Opening = {}
             /\ \A t : N \cap Ending(t) # {} => t = transport /\ state = "open"
             /\ state = "open" => N \cap Ending(transport) # {}
  <2>1. CASE transport = 0 /\ Moved(x, {})
    <3>1. state # "open"
      BY <1>4, <2>1 DEF StateInv
    <3> QED  BY <2>1, <3>1
  <2>2. CASE \E g \in Frame : /\ g.pc = "drop" /\ g.t = transport
                              /\ g.open = (state = "open") /\ Moved(x, {g})
    <3>1. PICK g \in Frame : /\ g.pc = "drop" /\ g.t = transport
                             /\ g.open = (state = "open") /\ Moved(x, {g})
      BY <2>2
    <3>2. /\ g \notin Opening /\ \A t : g \in Ending(t) <=> t = transport /\ state = "open"
      BY <3>1 DEF Opening, Ending
    <3> QED  BY <3>1, <3>2
  <2> QED  BY <1>1, <2>1, <2>2
<1>7. PICK N : /\ Moved(x, N) /\ N \cap Opening = {}
               /\ \A t : N \cap Ending(t) # {} => t = transport /\ state = "open"
               /\ state = "open" => N \cap Ending(transport) # {}
  BY <1>6
<1>8. \A t : Top(x) \notin Ending(t)
  BY <1>1 DEF Ending
<1>9. ~Anywhere(stack', Opening) /\ ~Has(stack'[App], Opening)
  <2>1. ~Anywhere(stack', Opening)
    BY <1>5, <1>7, Somewhere, FrameSets
  <2> QED  BY <2>1, ActorFacts DEF Anywhere
<1>10. OpeningInv'
  BY <1>9 DEF OpeningInv
<1>11. ASSUME NEW t
       PROVE  /\ Anywhere(stack', Ending(t)) => Anywhere(stack, Ending(t))
                     \/ (t = transport /\ state = "open")
              /\ Anywhere(stack, Ending(t)) => Anywhere(stack', Ending(t))
  BY <1>7, <1>8, Somewhere, FrameSets
<1>12. StateInv'
  BY <1>2, <1>4, <1>11 DEF StateInv
<1>13. state = "open" => transport \in Transports /\ Anywhere(stack', Ending(transport))
  <2>1. state = "open" => Anywhere(stack', Ending(transport))
    BY <1>7, Somewhere, FrameSets
  <2>2. state = "open" => transport \in Transports
    BY <1>4 DEF StateInv, BaseInv, TypeInv, ClientType, MaybeTransport
  <2> QED  BY <2>1, <2>2
<1>14. ConnectedInv'
  BY <1>2, <1>4, <1>11, <1>13 DEF ConnectedInv, Astray
<1> QED  BY <1>10, <1>12, <1>14

\* A report that is due stays due until it is made.
LEMMA DropKeepsPhase ==
    ASSUME BaseInv, NEW x \in Actors, Drop(x), PhaseInv, ConnectedInv
    PROVE  PhaseInv' /\ ConnectedInv'
<1>1. /\ stack[x] # <<>> /\ Top(x) \in Frame /\ Top(x).pc = "drop" /\ Top(x).t \in Transports
      /\ \E N : /\ Moved(x, N)
                /\ Top(x).open => \E g \in N : g \in Frame /\ g.pc = "tell" /\ g.open /\ g.t = Top(x).t
                /\ \A g \in N : \/ g = TeardownFrame(Top(x).t)
                                \/ /\ g.pc = "tell" /\ g.t = Top(x).t
                                   /\ g.open /\ Top(x).open
  BY DropKeeps
<1>2. PICK N : /\ Moved(x, N)
               /\ Top(x).open => \E g \in N : g \in Frame /\ g.pc = "tell" /\ g.open /\ g.t = Top(x).t
               /\ \A g \in N : \/ g = TeardownFrame(Top(x).t)
                               \/ /\ g.pc = "tell" /\ g.t = Top(x).t
                                  /\ g.open /\ Top(x).open
  BY <1>1
<1>3. TeardownFrame(Top(x).t).pc = "give_up"
  BY <1>1, TeardownFacts DEF MaybeTransport
<1>4. UNCHANGED <<state, transport, connected, opened, told, lapses>>
  BY DEF Drop, clientVars, history
<1>5. /\ N \cap Opening = {} /\ Top(x) \notin Opening /\ \A t : Top(x) \notin Shaking(t)
      /\ \A t : N \cap Ending(t) # {} <=> Top(x) \in Ending(t)
  <2>1. N \cap Opening = {} /\ Top(x) \notin Opening /\ \A t : Top(x) \notin Shaking(t)
    BY <1>1, <1>2, <1>3 DEF Opening, Shaking
  <2>2. ASSUME NEW t PROVE N \cap Ending(t) # {} => Top(x) \in Ending(t)
    BY <1>1, <1>2, <1>3 DEF Ending
  <2>3. ASSUME NEW t PROVE Top(x) \in Ending(t) => N \cap Ending(t) # {}
    BY <1>1, <1>2 DEF Ending
  <2> QED  BY <2>1, <2>2, <2>3
<1>6. ASSUME NEW t
      PROVE  /\ Anywhere(stack', Ending(t)) <=> Anywhere(stack, Ending(t))
             /\ Anywhere(stack, Shaking(t)) => Anywhere(stack', Shaking(t))
  <2>1. Top(x) \in Ending(t) => Anywhere(stack, Ending(t))
    BY <1>1, TopHas DEF Anywhere, BaseInv, TypeInv
  <2> QED  BY <1>1, <1>2, <1>5, <2>1, Somewhere, FrameSets
<1>7. /\ Anywhere(stack', Opening) <=> Anywhere(stack, Opening)
      /\ \A y \in Actors : Has(stack'[y], Opening) => Has(stack[y], Opening)
  <2>1. Anywhere(stack', Opening) <=> Anywhere(stack, Opening)
    BY <1>1, <1>2, <1>5, Somewhere, FrameSets
  <2>2. ASSUME NEW y \in Actors, Has(stack'[y], Opening)
        PROVE  Has(stack[y], Opening)
    BY <1>2, <1>5, <2>2, FrameSets DEF Moved, Became
  <2> QED  BY <2>1, <2>2
<1>8. ConnectedInv'
  BY <1>4, <1>6 DEF ConnectedInv, Astray
<1> QED  BY <1>4, <1>6, <1>7, <1>8, ActorFacts DEF PhaseInv, Astray, OpeningInv, StateInv

\* The report is made, of a connection that the application was told is open.
LEMMA TellKeepsPhase ==
    ASSUME BaseInv, NEW x \in Actors, Tell(x), PhaseInv
    PROVE  PhaseInv' /\ ConnectedInv'
<1>1. /\ stack[x] # <<>> /\ Top(x) \in Frame /\ Top(x).pc = "tell" /\ Top(x).open
      /\ Top(x).t \in Transports /\ told' = [told EXCEPT ![Top(x).t] = 1]
      /\ Moved(x, {})
  BY TellKeeps
<1>2. /\ UNCHANGED <<state, transport, opened>> /\ connected' = FALSE
      /\ lapses' = (IF state = "open" THEN lapses \cup {"late"} ELSE lapses)
  BY DEF Tell
<1>3. ConnectedInv'
  BY <1>2 DEF ConnectedInv
<1>4. SUFFICES ASSUME ~Astray' PROVE OpeningInv' /\ StateInv'
  BY <1>3 DEF PhaseInv
<1>5. OpeningInv /\ StateInv
  BY <1>2, <1>4 DEF PhaseInv, Astray
<1>6. Top(x) \notin Opening /\ (\A t : Top(x) \notin Shaking(t)) /\ Top(x) \in Ending(Top(x).t)
  BY <1>1 DEF Opening, Shaking, Ending
<1>7. /\ Anywhere(stack', Opening) <=> Anywhere(stack, Opening)
      /\ \A y \in Actors : Has(stack'[y], Opening) => Has(stack[y], Opening)
  <2>1. Anywhere(stack', Opening) <=> Anywhere(stack, Opening)
    BY <1>1, <1>6, Somewhere, FrameSets
  <2>2. ASSUME NEW y \in Actors, Has(stack'[y], Opening)
        PROVE  Has(stack[y], Opening)
    BY <1>1, <2>2, FrameSets DEF Moved, Became
  <2> QED  BY <2>1, <2>2
<1>8. ASSUME NEW t
      PROVE  /\ Anywhere(stack', Ending(t)) => Anywhere(stack, Ending(t))
             /\ Anywhere(stack, Shaking(t)) => Anywhere(stack', Shaking(t))
  BY <1>1, <1>6, Somewhere, FrameSets
<1>9. Top(x).t \in opened
  BY <1>1, <1>5, <1>6, TopHas DEF StateInv, Anywhere, BaseInv, TypeInv
<1>10. OpeningInv'
  BY <1>2, <1>5, <1>7, ActorFacts DEF OpeningInv
<1>11. \A t \in Transports : told'[t] = 1 => told[t] = 1 \/ t = Top(x).t
  BY <1>1 DEF BaseInv, TypeInv, HistoryType
<1> QED  BY <1>2, <1>5, <1>7, <1>8, <1>9, <1>10, <1>11 DEF StateInv

\* The steps of a thread that the state is about.
PhaseNext ==
    \/ \E x \in Actors : GiveUp(x) \/ Drop(x) \/ Tell(x)
    \/ \E x \in {App, Mt} : Establishing(x)

LEMMA StepKinds ==
    ASSUME Next \/ UNCHANGED vars
    PROVE  MildNext \/ SideNext \/ PhaseNext
  BY DEF Next, Calls, Teardown, Application, Maintain, MildNext, SideNext, PhaseNext

LEMMA PhaseSteps ==
    ASSUME BaseInv, PhaseInv, ConnectedInv, Next \/ UNCHANGED vars
    PROVE  PhaseInv' /\ ConnectedInv'
<1>1. CASE MildNext
  <2>1. Calm(PhaseComing, PhaseGoing) /\ Steady
    BY <1>1, MildSteps, CalmLess, PcsFacts DEF MildStep
  <2> QED  BY <2>1, CalmKeepsPhase, CalmKeepsConnected DEF Steady
<1>2. CASE SideNext
  BY <1>2, SideSteps, CalmKeepsPhase, CalmKeepsConnected
<1>3. CASE PhaseNext
  BY <1>3, GiveUpKeepsPhase, DropKeepsPhase, TellKeepsPhase, EstablishKeepsPhase, CreateKeepsPhase,
     AssignKeepsPhase, ShakingKeepsPhase, WaitOpenKeepsPhase DEF PhaseNext, Establishing
<1> QED  BY <1>1, <1>2, <1>3, StepKinds

\* No thread is in a call at first.
LEMMA NoCallsAtFirst ==
    ASSUME Init
    PROVE  \A H : ~Anywhere(stack, H) /\ \A x \in Actors : ~Has(stack[x], H)
<1>1. \A x \in Actors : stack[x] = <<>>
  BY DEF Init
<1>2. \A H : Depths(<<>>, H) = {}
  BY Empty
<1> QED  BY <1>1, <1>2 DEF Anywhere, Has

LEMMA PhaseStarts ==
    ASSUME Init
    PROVE  PhaseInv /\ ConnectedInv
<1>1. \A H : ~Anywhere(stack, H) /\ \A x \in Actors : ~Has(stack[x], H)
  BY NoCallsAtFirst
<1>2. /\ state = "down" /\ transport = 0 /\ connected = FALSE /\ opened = {} /\ lapses = {}
      /\ \A t \in Transports : told[t] = 0
  BY DEF Init
<1>3. OpeningInv /\ StateInv
  BY <1>1, <1>2, ActorFacts DEF OpeningInv, StateInv
<1> QED  BY <1>2, <1>3 DEF PhaseInv, ConnectedInv

LEMMA PhaseAlways == Spec => [](PhaseInv /\ ConnectedInv)
<1>1. Init => PhaseInv /\ ConnectedInv
  BY PhaseStarts
<1>2. BaseInv /\ (PhaseInv /\ ConnectedInv) /\ [Next]_vars => (PhaseInv /\ ConnectedInv)'
  BY PhaseSteps
<1> QED  BY <1>1, <1>2, BaseAlways, PTL DEF Spec

\* SoftwareWsClient::Teardown: on_disconnected_ runs at most once for a connection,
\* only when transport_ is no longer that connection, and, unless a Teardown or an
\* Establish has worked on a connection that was not its own, only for a connection
\* that the application was told is open.
THEOREM WsToldOnce == Spec => []ToldOnce
<1>1. ASSUME BaseInv, PhaseInv
      PROVE  ToldOnce
  <2> SUFFICES ASSUME NEW t \in Transports
               PROVE  /\ told[t] <= 1
                      /\ told[t] = 1 => transport # t /\ (t \in opened \/ Confused)
    BY DEF ToldOnce
  <2>1. told[t] \in {0, 1}
    BY <1>1 DEF BaseInv, TypeInv, HistoryType
  <2>2. told[t] = 1 => transport # t
    BY <1>1 DEF BaseInv, OwnerInv, OneOwner
  <2>3. told[t] = 1 => t \in opened \/ Confused
    BY <1>1 DEF PhaseInv, StateInv, Astray, Confused
  <2> QED  BY <2>1, <2>2, <2>3
<1>2. BaseInv /\ PhaseInv => ToldOnce
  BY <1>1
<1> QED  BY <1>2, BaseAlways, PhaseAlways, PTL

-----------------------------------------------------------------------------
(* The maintenance task of an open client. *)

MaintainGoing == {"stop", "join", "close_frame", "refuse", "start", "give_up"}

LEMMA MaintainSets ==
    /\ SetupFrames = Frames(SetupPcs) /\ SetupFrames \subseteq Noted
    /\ Joining \subseteq Frames({"join"}) /\ Joining \subseteq Noted
    /\ Joining \subseteq Replacing
    /\ Replacing \subseteq Frames(MaintainGoing) /\ Replacing \subseteq Noted
    /\ SetupPcs \subseteq ComingPcs /\ MaintainGoing \subseteq GoingPcs
    /\ "close" \notin SetupPcs /\ "close" \notin {"join"} /\ "close" \notin MaintainGoing
  BY DEF SetupFrames, Frames, Joining, Replacing, MaintainGoing, SetupPcs, ComingPcs, GoingPcs,
     Noted

LEMMA CalmKeepsJoin ==
    ASSUME Calm(SetupPcs, {"join"}), UNCHANGED mtRunning, JoinInv
    PROVE  JoinInv'
<1>1. /\ Has(stack'[Mt], SetupFrames) => Has(stack[Mt], SetupFrames)
      /\ Has(stack[App], Joining) => Has(stack'[App], Joining)
      /\ Has(stack[Rx], Joining) => Has(stack'[Rx], Joining)
  BY MaintainSets, ActorFacts DEF Calm
<1> QED  BY <1>1 DEF JoinInv

\* A step of Establish.
LEMMA SetupKeepsJoin ==
    ASSUME BaseInv, NEW x \in {App, Mt}, stack[x] # <<>>, Top(x) \in SetupFrames, NEW N, Moved(x, N),
           UNCHANGED mtRunning, JoinInv
    PROVE  JoinInv'
<1>1. Has(stack'[Mt], SetupFrames) => Has(stack[Mt], SetupFrames)
  <2>1. CASE x = Mt
    BY <2>1, ActorFacts, TopHas DEF BaseInv, TypeInv
  <2>2. CASE x = App
    BY <2>2, ActorFacts DEF Moved
  <2> QED  BY <2>1, <2>2
<1>2. \A y \in {App, Rx} : Has(stack[y], Joining) => Has(stack'[y], Joining)
  <2>1. Top(x) \notin Joining
    BY DEF SetupFrames, SetupPcs, Joining
  <2> QED  BY <2>1, MaintainSets, ActorFacts DEF Moved, Became, Top
<1> QED  BY <1>1, <1>2 DEF JoinInv

\* The steps that Teardown, Establish and the sends take leave maintain_running_.
LEMMA RunningStays ==
    /\ \A x : GiveUp(x) \/ Drop(x) \/ Tell(x) \/ CloseSends(x) \/ Establishing(x) => UNCHANGED mtRunning
    /\ Connect \/ MtBackoff \/ SendFragment \/ SendData \/ SendDataFails => UNCHANGED mtRunning
    /\ \A x : CloseRefused(x) \/ JoinMaintain(x) => UNCHANGED mtRunning
  BY DEF GiveUp, Drop, Tell, CloseRefused, CloseSends, Establishing, Establish, Create, CreateFails, Assign,
     SendUpgrade, WaitOpen, WaitFails, Connect, MtBackoff, SendFragment, SendData, SendDataFails,
     JoinMaintain, mtVars

\* What a step of Establish does to the calls.
LEMMA SetupMoves ==
    ASSUME BaseInv, NEW x \in {App, Mt}, Establishing(x)
    PROVE  /\ stack[x] # <<>> /\ Top(x) \in Frame /\ Top(x) \in SetupFrames /\ x \in Actors
           /\ \E N : Moved(x, N)
<1> USE DEF SetupFrames, SetupPcs
<1>1. x \in Actors
  BY ActorFacts
<1>2. CASE Establish(x)
  BY <1>1, <1>2, EstablishKeeps
<1>3. CASE CreateFails(x)
  BY <1>1, <1>3, CreateFailsKeeps
<1>4. CASE Create(x)
  BY <1>1, <1>4, CreateKeeps
<1>5. CASE Assign(x)
  BY <1>1, <1>5, AssignKeeps
<1>6. CASE SendUpgrade(x)
  BY <1>1, <1>6, SendUpgradeKeeps
<1>7. CASE WaitOpen(x)
  BY <1>1, <1>7, WaitOpenKeeps
<1>8. CASE WaitFails(x)
  BY <1>1, <1>8, WaitFailsKeeps
<1> QED  BY <1>2, <1>3, <1>4, <1>5, <1>6, <1>7, <1>8 DEF Establishing

LEMMA JoinSteps ==
    ASSUME BaseInv, JoinInv, Next \/ UNCHANGED vars
    PROVE  JoinInv'
<1>1. CASE MildNext
  <2>1. {"join"} \subseteq GoingPcs
    BY DEF GoingPcs
  <2>2. Calm(SetupPcs, {"join"}) /\ UNCHANGED mtRunning
    BY <1>1, <2>1, MildSteps, CalmLess, MaintainSets DEF MildStep, Steady
  <2> QED  BY <2>2, CalmKeepsJoin
<1>2. CASE \E x \in {App, Mt} : Establishing(x)
  BY <1>2, SetupMoves, SetupKeepsJoin, RunningStays
<1>3. ASSUME NEW x \in Actors, NEW N, Moved(x, N), \A f \in N : f.pc \notin SetupPcs,
             stack[x] = <<>> \/ Top(x).pc # "join", UNCHANGED mtRunning
      PROVE  JoinInv'
  <2>1. Calm(SetupPcs, {"join"})
    BY <1>3, MovedCalm, MaintainSets
  <2> QED  BY <1>3, <2>1, CalmKeepsJoin
<1>4. CASE \E x \in Actors : GiveUp(x)
  <2>1. PICK x \in Actors : GiveUp(x)
    BY <1>4
  <2>2. Top(x).pc # "join" /\ \E N : Moved(x, N) /\ \A f \in N : f.pc \notin SetupPcs
    <3>1. CASE Moved(x, {})
      BY <2>1, <3>1, GiveUpKeeps
    <3>2. CASE \E g \in Frame : g.pc = "drop" /\ Moved(x, {g})
      BY <2>1, <3>2, GiveUpKeeps DEF SetupPcs
    <3> QED  BY <2>1, <3>1, <3>2, GiveUpKeeps
  <2> QED  BY <1>3, <2>1, <2>2, RunningStays
<1>5. CASE \E x \in Actors : Drop(x)
  <2>1. PICK x \in Actors : Drop(x)
    BY <1>5
  <2>2. PICK N : /\ Moved(x, N)
                 /\ \A g \in N : g = TeardownFrame(Top(x).t) \/ g.pc = "tell"
    BY <2>1, DropKeeps
  <2>3. Top(x).pc # "join" /\ TeardownFrame(Top(x).t).pc = "give_up"
    BY <2>1, DropKeeps, TeardownFacts DEF MaybeTransport
  <2>4. \A f \in N : f.pc \notin SetupPcs
    BY <2>2, <2>3 DEF SetupPcs
  <2> QED  BY <1>3, <2>1, <2>2, <2>3, <2>4, RunningStays
<1>6. CASE \E x \in Actors : Tell(x)
  BY <1>3, <1>6, TellKeeps, RunningStays
<1>7. CASE Connect
  <2>1. PICK g \in Frame : g.pc = "establish" /\ Moved(App, {g})
    BY <1>7, ConnectKeeps
  <2>2. stack[App] = <<>> /\ ~Has(stack[App], Joining)
    BY <1>7, ConnectKeeps, Empty DEF Has
  <2> QED  BY <1>7, <2>1, <2>2, RunningStays, ActorFacts DEF JoinInv, Moved
<1>8. CASE MtBackoff
  <2>1. CASE mtRunning
    BY <1>8, <2>1, RunningStays DEF JoinInv
  <2>2. CASE Moved(Mt, {})
    BY <1>3, <1>8, <2>2, MtBackoffKeeps, RunningStays, ActorFacts
  <2> QED  BY <1>8, <2>1, <2>2, MtBackoffKeeps
<1>9. CASE SendFragment
  <2>1. PICK g \in Frame : g.pc = "send_data" /\ Moved(App, {g})
    BY <1>9, SendFragmentKeeps
  <2>2. stack[App] = <<>> /\ \A f \in {g} : f.pc \notin SetupPcs
    BY <1>9, <2>1, SendFragmentKeeps DEF SetupPcs
  <2> QED  BY <1>3, <1>9, <2>1, <2>2, RunningStays, ActorFacts
<1>10. CASE SendData \/ SendDataFails
  BY <1>3, <1>10, SendDataKeeps, RunningStays, ActorFacts
<1>11. CASE StartMaintain
  BY <1>11 DEF StartMaintain, JoinInv
<1>12. CASE \E x \in Actors : CloseSends(x)
  <2>1. PICK x \in Actors : CloseSends(x)
    BY <1>12
  <2>2. Top(x).pc # "join" /\ \E N : Moved(x, N) /\ \A f \in N : f.pc \notin SetupPcs
    <3>1. CASE Moved(x, {})
      BY <2>1, <3>1, CloseSendsKeeps
    <3>2. CASE \E g \in Frame : g.pc = "give_up" /\ Moved(x, {g})
      BY <2>1, <3>2, CloseSendsKeeps DEF SetupPcs
    <3> QED  BY <2>1, <3>1, <3>2, CloseSendsKeeps
  <2> QED  BY <1>3, <2>1, <2>2, RunningStays
<1>13. CASE \E x \in Actors : StopMaintain(x)
  <2>1. PICK x \in Actors : StopMaintain(x)
    BY <1>13
  <2>2. PICK g \in Frame : /\ g.pc = IF mtTask /\ x # Mt THEN "join" ELSE Top(x).then
                           /\ g.pc \in {"join", "close_frame", "refuse", "start"} /\ Moved(x, {g})
    BY <2>1, StopMaintainKeeps
  <2>3. stack[x] # <<>> /\ Top(x).pc = "stop"
    BY <2>1, StopMaintainKeeps
  <2>4. CASE x = Mt
    <3>1. g \notin SetupFrames /\ Top(x) \notin SetupFrames
      BY <2>2, <2>3 DEF SetupFrames, SetupPcs
    <3>2. ~Has(stack[Mt], SetupFrames)
      BY <2>3, <2>4, <3>1, SetupOnTop DEF BaseInv, TypeInv
    <3>3. ~Has(stack'[Mt], SetupFrames)
      BY <2>2, <2>4, <3>1, <3>2, MaintainSets DEF Moved, Became
    <3> QED  BY <3>3 DEF JoinInv
  <2>5. CASE x # Mt
    <3>1. SUFFICES ASSUME Has(stack'[Mt], SetupFrames)
                   PROVE  Has(stack'[x], Joining)
      BY <2>5, ActorFacts DEF JoinInv
    <3>2. stack[Mt] # <<>>
      BY <2>2, <2>5, <3>1, ActorFacts, Empty DEF Moved, Has
    <3>3. mtTask
      BY <3>2 DEF BaseInv, TaskInv
    <3>4. g \in Joining
      BY <2>2, <2>5, <3>3 DEF Joining
    <3> QED  BY <2>2, <3>4, MaintainSets DEF Moved, Became
  <2> QED  BY <2>4, <2>5
<1>14. CASE \E x \in Actors : JoinMaintain(x)
  <2>1. PICK x \in Actors : JoinMaintain(x)
    BY <1>14
  <2>2. stack[Mt] = <<>> /\ x # Mt
    BY <2>1 DEF JoinMaintain, Idle, At
  <2>3. stack'[Mt] = <<>>
    BY <2>1, <2>2, JoinMaintainKeeps, ActorFacts DEF Moved
  <2> QED  BY <2>3, Empty DEF JoinInv, Has
<1>15. CASE \E x \in Actors : CloseRefused(x)
  <2>1. PICK x \in Actors : CloseRefused(x)
    BY <1>15
  <2>2. Top(x).pc # "join" /\ \E N : Moved(x, N) /\ \A f \in N : f.pc \notin SetupPcs
    BY <2>1, CloseRefusedKeeps DEF SetupPcs
  <2> QED  BY <1>3, <2>1, <2>2, RunningStays
<1> QED  BY <1>1, <1>2, <1>4, <1>5, <1>6, <1>7, <1>8, <1>9, <1>10, <1>11, <1>12, <1>13, <1>14,
            <1>15, StepKinds DEF SideNext, PhaseNext

\* A step that replaces no task and opens nothing.
LEMMA CalmKeepsHeartbeat ==
    ASSUME Calm({}, MaintainGoing), UNCHANGED <<mtTask, mtRunning>>, userClosed => userClosed',
           state' = "open" => state = "open", lapses \subseteq lapses', HeartbeatInv
    PROVE  HeartbeatInv'
<1>1. Anywhere(stack, Replacing) => Anywhere(stack', Replacing)
  BY CalmSomewhere, MaintainSets
<1> QED  BY <1>1 DEF HeartbeatInv, Astray

\* A thread that leaves a call of Replacing goes on in another.
LEMMA ReplacesOn ==
    ASSUME NEW x \in Actors, NEW g, g \in Replacing, Moved(x, {g})
    PROVE  HeartbeatInv'
<1>1. Anywhere(stack', Replacing)
  BY Somewhere, MaintainSets
<1> QED  BY <1>1 DEF HeartbeatInv

LEMMA StopKeepsHeartbeat ==
    ASSUME BaseInv, NEW x \in Actors, StopMaintain(x) \/ JoinMaintain(x)
    PROVE  HeartbeatInv'
<1>1. PICK g \in Frame : /\ g.pc \in {"join", Top(x).then} /\ g.then = Top(x).then
                         /\ g.pc \in {"join", "close_frame", "refuse", "start"}
                         /\ Moved(x, {g})
  BY StopMaintainKeeps, JoinMaintainKeeps
<1>2. g \in Replacing
  BY <1>1 DEF Replacing
<1> QED  BY <1>1, <1>2, ReplacesOn

\* A new connection is the task's own, which is there, or one that Connect starts it for.
LEMMA OpenKeepsHeartbeat ==
    ASSUME BaseInv, JoinInv, NEW x \in {App, Mt}, WaitOpen(x)
    PROVE  HeartbeatInv'
<1>1. CASE x = App
  <2>1. PICK g \in Frame : g.pc = "stop" /\ g.then = "start" /\ Moved(x, {g})
    BY <1>1, WaitOpenKeeps, ActorFacts
  <2>2. g \in Replacing
    BY <2>1 DEF Replacing
  <2> QED  BY <1>1, <2>1, <2>2, ReplacesOn, ActorFacts
<1>2. CASE x = Mt
  <2>1. /\ stack[Mt] # <<>> /\ Top(Mt) \in SetupFrames
        /\ \E N : Moved(Mt, N)
    BY <1>2, SetupMoves DEF Establishing
  <2>2. mtTask /\ UNCHANGED <<mtTask, mtRunning>>
    BY <2>1 DEF BaseInv, TaskInv, WaitOpen, mtVars
  <2>3. ~mtRunning => Has(stack[App], Joining) \/ Has(stack[Rx], Joining)
    BY <2>1, TopHas, ActorFacts DEF JoinInv, BaseInv, TypeInv
  <2>4. stack'[App] = stack[App] /\ stack'[Rx] = stack[Rx]
    BY <2>1, ActorFacts DEF Moved
  <2>5. ~mtRunning => Has(stack'[App], Replacing) \/ Has(stack'[Rx], Replacing)
    BY <2>3, <2>4, HasMore, MaintainSets
  <2> QED  BY <2>2, <2>5, ActorFacts DEF HeartbeatInv, Anywhere
<1> QED  BY <1>1, <1>2

LEMMA HeartbeatSteps ==
    ASSUME BaseInv, PhaseInv, JoinInv, HeartbeatInv, Next \/ UNCHANGED vars
    PROVE  HeartbeatInv'
<1>0. {} \subseteq ComingPcs /\ "close" \notin {}
  OBVIOUS
<1>1. CASE MildNext
  <2>1. Calm({}, MaintainGoing) /\ Steady
    BY <1>0, <1>1, MildSteps, CalmLess, MaintainSets DEF MildStep
  <2> QED  BY <2>1, CalmKeepsHeartbeat DEF Steady
<1>2. ASSUME NEW x \in Actors, NEW N, Moved(x, N),
             stack[x] = <<>> \/ Top(x).pc \notin MaintainGoing,
             UNCHANGED <<mtTask, mtRunning, userClosed>>, state' = "open" => state = "open",
             lapses \subseteq lapses'
      PROVE  HeartbeatInv'
  <2>1. Calm({}, MaintainGoing)
    BY <1>0, <1>2, MovedCalm, MaintainSets
  <2> QED  BY <1>2, <2>1, CalmKeepsHeartbeat
<1>3. CASE \E x \in {App, Mt} : Establishing(x)
  <2>1. PICK x \in {App, Mt} : Establishing(x)
    BY <1>3
  <2>2. CASE WaitOpen(x)
    BY <2>2, OpenKeepsHeartbeat
  <2>3. CASE ~WaitOpen(x)
    <3>1. /\ UNCHANGED <<mtTask, mtRunning, userClosed>> /\ lapses \subseteq lapses'
          /\ state' = "open" => state = "open"
      BY <2>1, <2>3 DEF Establishing, Establish, CreateFails, Create, Assign, SendUpgrade,
         WaitFails, clientVars, mtVars, history
    <3>2. /\ Top(x) \in SetupFrames /\ x \in Actors /\ \E N : Moved(x, N)
      BY <2>1, SetupMoves
    <3>3. Top(x).pc \notin MaintainGoing
      BY <3>2 DEF SetupFrames, SetupPcs, MaintainGoing
    <3> QED  BY <1>2, <3>1, <3>2, <3>3
  <2> QED  BY <2>2, <2>3
<1>4. CASE \E x \in Actors : GiveUp(x)
  BY <1>4 DEF GiveUp, HeartbeatInv
<1>5. CASE \E x \in Actors : Drop(x) \/ Tell(x)
  <2>1. PICK x \in Actors : Drop(x) \/ Tell(x)
    BY <1>5
  <2>2. /\ UNCHANGED <<state, mtTask, mtRunning, userClosed>> /\ lapses \subseteq lapses'
    BY <2>1 DEF Drop, Tell, clientVars, mtVars, history
  <2>3. /\ Top(x).pc \in {"drop", "tell"} /\ \E N : Moved(x, N)
    BY <2>1, DropKeeps, TellKeeps
  <2>4. Top(x).pc \notin MaintainGoing
    BY <2>3 DEF MaintainGoing
  <2> QED  BY <1>2, <2>2, <2>3, <2>4
<1>6. CASE Connect
  BY <1>6 DEF Connect, HeartbeatInv
<1>7. CASE MtBackoff \/ SendFragment \/ SendData \/ SendDataFails
  <2>1. /\ UNCHANGED <<state, mtTask, mtRunning, userClosed>> /\ lapses \subseteq lapses'
    BY <1>7 DEF MtBackoff, SendFragment, SendData, SendDataFails, clientVars, mtVars, history
  <2>2. \E x \in Actors : \E N : Moved(x, N) /\ (stack[x] = <<>> \/ Top(x).pc \notin MaintainGoing)
    <3>1. CASE MtBackoff
      <4>1. Top(Mt).pc \notin MaintainGoing /\ \E N : Moved(Mt, N)
        BY <3>1, MtBackoffKeeps DEF MaintainGoing
      <4> QED  BY <4>1, ActorFacts
    <3>2. CASE SendFragment
      <4>1. stack[App] = <<>> /\ \E N : Moved(App, N)
        BY <3>2, SendFragmentKeeps
      <4> QED  BY <4>1, ActorFacts
    <3>3. CASE SendData \/ SendDataFails
      <4>1. Top(App).pc \notin MaintainGoing /\ \E N : Moved(App, N)
        BY <3>3, SendDataKeeps DEF MaintainGoing
      <4> QED  BY <4>1, ActorFacts
    <3> QED  BY <1>7, <3>1, <3>2, <3>3
  <2> QED  BY <1>2, <2>1, <2>2
<1>8. CASE StartMaintain
  BY <1>8 DEF StartMaintain, HeartbeatInv
<1>9. CASE \E x \in Actors : CloseSends(x)
  <2>1. PICK x \in Actors : CloseSends(x)
    BY <1>9
  <2>2. CASE \E g \in Frame : g.pc = "give_up" /\ Moved(x, {g})
    <3>1. PICK g \in Frame : g.pc = "give_up" /\ Moved(x, {g})
      BY <2>2
    <3>2. g \in Replacing
      BY <3>1 DEF Replacing
    <3> QED  BY <3>1, <3>2, ReplacesOn
  <2>3. CASE ~(state = "open" /\ transport # 0)
    <3>1. UNCHANGED <<state, lapses>>
      BY <2>1 DEF CloseSends, history
    <3> QED  BY <2>3, <3>1 DEF PhaseInv, StateInv, HeartbeatInv, Astray
  <2> QED  BY <2>1, <2>2, <2>3, CloseSendsKeeps
<1>10. CASE \E x \in Actors : StopMaintain(x) \/ JoinMaintain(x)
  BY <1>10, StopKeepsHeartbeat
<1>11. CASE \E x \in Actors : CloseRefused(x)
  <2>1. PICK x \in Actors : CloseRefused(x)
    BY <1>11
  <2>2. PICK g \in Frame : g.pc = "give_up" /\ Moved(x, {g})
    BY <2>1, CloseRefusedKeeps
  <2>3. g \in Replacing
    BY <2>2 DEF Replacing
  <2> QED  BY <2>2, <2>3, ReplacesOn
<1> QED  BY <1>1, <1>3, <1>4, <1>5, <1>6, <1>7, <1>8, <1>9, <1>10, <1>11, StepKinds
            DEF SideNext, PhaseNext

LEMMA MaintainAlways == Spec => []MaintainInv
<1>1. Init => MaintainInv
  <2> SUFFICES ASSUME Init PROVE MaintainInv
    OBVIOUS
  <2>1. ~Has(stack[Mt], SetupFrames)
    BY NoCallsAtFirst, ActorFacts
  <2> QED  BY <2>1 DEF MaintainInv, JoinInv, HeartbeatInv, Init
<1>2. BaseInv /\ (PhaseInv /\ ConnectedInv) /\ MaintainInv /\ [Next]_vars => MaintainInv'
  BY JoinSteps, HeartbeatSteps DEF MaintainInv
<1> QED  BY <1>1, <1>2, BaseAlways, PhaseAlways, PTL DEF Spec

\* A client that is at rest has no call that counts.
LEMMA AtRestNoCalls ==
    ASSUME BaseInv, AtRest, NEW H, \A f \in H : f.pc \notin {"loop", "store", "tick"}
    PROVE  ~Anywhere(stack, H)
<1>1. stack[App] = <<>> /\ stack[Rx] = <<>>
  BY DEF AtRest, Idle
<1>2. ~Has(<<>>, H)
  BY Empty DEF Has
<1>3. ~Has(stack[Mt], H)
  <2>1. CASE stack[Mt] = <<>>
    BY <1>2, <2>1
  <2>2. CASE stack[Mt] # <<>>
    <3>1. Top(Mt).pc \in {"loop", "store", "tick"} /\ Top(Mt) \in Frame
      BY <2>2, OnTop, ActorFacts DEF AtRest, Idle, BaseInv, TypeInv
    <3>2. Top(Mt) \in Bottom /\ Top(Mt) \notin H
      BY <3>1 DEF Bottom, MtPcs
    <3>3. Depths(stack[Mt], H) = {}
      BY <2>2, <3>2, AloneOnTop, ActorFacts DEF BaseInv, TypeInv
    <3> QED  BY <3>3 DEF Has
  <2> QED  BY <2>1, <2>2
<1> QED  BY <1>1, <1>2, <1>3, ActorFacts DEF Anywhere

\* SoftwareWsClient between its calls: it is open exactly when it has a transport,
\* IsConnected says so unless connected_ was cleared late, and StartMaintain has left it
\* a heartbeat that runs, or that Close has told to end; unless a Teardown, an Establish
\* or two stops of the task have met.
THEOREM WsOpenIsUsable == Spec => []OpenIsUsable
<1>1. ASSUME BaseInv, PhaseInv, ConnectedInv, MaintainInv
      PROVE  OpenIsUsable
  <2> SUFFICES ASSUME AtRest, ~Confused
               PROVE  /\ state = "open" <=> transport # 0
                      /\ "late" \notin lapses => (state = "open" <=> connected)
                      /\ state # "handshaking"
                      /\ state = "open" => mtTask /\ (mtRunning \/ userClosed)
    BY DEF OpenIsUsable
  <2>1. ~Astray
    BY DEF Confused, Astray
  <2>2. ~Anywhere(stack, Opening) /\ ~Anywhere(stack, Replacing)
    BY <1>1, AtRestNoCalls DEF Opening, Replacing
  <2>3. ASSUME NEW t PROVE ~Anywhere(stack, Shaking(t)) /\ ~Anywhere(stack, Ending(t))
    BY <1>1, AtRestNoCalls DEF Shaking, Ending
  <2>4. StateInv
    BY <1>1, <2>1 DEF PhaseInv
  <2>5. state \in {"down", "open"} /\ (state = "open" <=> transport # 0)
    BY <1>1, <2>2, <2>3, <2>4 DEF StateInv, BaseInv, TypeInv, ClientType
  <2>6. "late" \notin lapses => (state = "open" <=> connected)
    BY <1>1, <2>1, <2>3 DEF ConnectedInv
  <2>7. state = "open" => mtTask /\ (mtRunning \/ userClosed)
    BY <1>1, <2>1, <2>2 DEF MaintainInv, HeartbeatInv
  <2> QED  BY <2>5, <2>6, <2>7
<1>2. BaseInv /\ (PhaseInv /\ ConnectedInv) /\ MaintainInv => OpenIsUsable
  BY <1>1
<1> QED  BY <1>2, BaseAlways, PhaseAlways, MaintainAlways, PTL

-----------------------------------------------------------------------------
(* The inductive invariant: what is sent. *)

\* No frame failed to go out, and none went out on a later connection.
Sound == lapses \cap {"unsent", "fragment", "strayed", "zombie"} = {}

\* Establish about transport t: until it is done, until the request has gone out, and
\* between the two.
Trying(t) == {f \in Frame : f.pc \in {"assign", "upgrade", "wait"} /\ f.own = t}
Dialing(t) == {f \in Frame : f.pc \in {"assign", "upgrade"} /\ f.own = t}
Upgrading(t) == {f \in Frame : f.pc = "upgrade" /\ f.own = t}

\* A send that found transport t: whichever frame, one that starts a message or not, one
\* that ends a message or not.
Sending(t) == {f \in Frame : f.pc = "send_data" /\ f.own = t}
Starts(t, b) == {f \in Sending(t) : f.p.start = b}
Ends(t, b) == {f \in Sending(t) : f.p.fin = b}

\* A connection is tried by one thread, and the server has answered on it only once the
\* request has gone out.
DialInv ==
    \A t \in Transports :
        /\ Anywhere(stack, Trying(t)) \/ server.on = t => link[t] # "none"
        /\ ~(Has(stack[App], Trying(t)) /\ Has(stack[Mt], Trying(t)))
        /\ server.on = t => ~Anywhere(stack, Dialing(t))

\* A frame is sent on a connection that was open when its kind was chosen.
SendingInv ==
    \A t \in Transports :
        Has(stack[App], Sending(t)) => link[t] # "none" /\ ~Anywhere(stack, Dialing(t))

\* No message is under way on a connection that is being made.
FreshInv ==
    /\ Anywhere(stack, Opening) => ~sendFrag
    /\ transport # 0 /\ Anywhere(stack, Upgrading(transport)) => state = "handshaking" /\ ~sendFrag

\* send_fragment_open_ is what the server is in, but for the frame that is on its way.
FragmentInv ==
    transport # 0 =>
        /\ \A b \in BOOLEAN : Has(stack[App], Ends(transport, b)) => sendFrag = ~b
        /\ server.on = transport /\ link[transport] = "open" =>
               /\ \A b \in BOOLEAN : Has(stack[App], Starts(transport, b)) => server.receiving = ~b
               /\ ~Has(stack[App], Sending(transport)) => server.receiving = sendFrag

OutboundInv == ~Sound \/ (~server.malformed /\ SendingInv /\ FreshInv /\ FragmentInv)

-----------------------------------------------------------------------------
(* The steps that neither dial nor send. *)

DialPcs == {"create", "assign", "upgrade", "wait"}

\* The sends that are under way are the same ones.
SendsStay ==
    \A H : H \subseteq Frames({"send_data"}) => (Has(stack'[App], H) <=> Has(stack[App], H))

Unsent == Calm(DialPcs, {}) /\ SendsStay

\* What such a step leaves alone.
SendSteady ==
    /\ UNCHANGED <<transport, sendFrag>>
    /\ lapses \subseteq lapses'
    /\ server'.receiving = server.receiving /\ server'.malformed = server.malformed
    /\ server'.on \in {0, server.on}
    /\ NoneStays
    /\ \A t \in Transports : link'[t] = "open" => link[t] = "open"

LEMMA DialSets ==
    /\ \A t : /\ Trying(t) \subseteq Frames(DialPcs) /\ Dialing(t) \subseteq Frames(DialPcs)
              /\ Upgrading(t) \subseteq Frames(DialPcs)
              /\ Dialing(t) \subseteq Trying(t) /\ Upgrading(t) \subseteq Dialing(t)
              /\ Trying(t) \subseteq Noted /\ Dialing(t) \subseteq Noted /\ Upgrading(t) \subseteq Noted
              /\ Trying(t) \subseteq SetupFrames
    /\ Opening \subseteq Frames(DialPcs)
  BY DEF Trying, Dialing, Upgrading, Opening, Frames, DialPcs, Noted, SetupFrames, SetupPcs

LEMMA SendSets ==
    \A t : /\ Sending(t) \subseteq Frames({"send_data"}) /\ Sending(t) \subseteq Noted
           /\ \A b : /\ Starts(t, b) \subseteq Frames({"send_data"}) /\ Starts(t, b) \subseteq Noted
                     /\ Starts(t, b) \subseteq Sending(t)
                     /\ Ends(t, b) \subseteq Frames({"send_data"}) /\ Ends(t, b) \subseteq Noted
                     /\ Ends(t, b) \subseteq Sending(t)
  BY DEF Sending, Starts, Ends, Frames, Noted

LEMMA UnsentMove ==
    ASSUME NEW x \in Actors, NEW N, Moved(x, N),
           \A f \in N : f.pc \notin DialPcs /\ f.pc # "send_data",
           stack[x] = <<>> \/ Top(x).pc # "send_data"
    PROVE  Unsent
<1>1. /\ "close" \notin DialPcs /\ "close" \notin {} /\ "close" \notin {"send_data"}
      /\ \A f \in N : f.pc \notin DialPcs /\ f.pc \notin {"send_data"}
      /\ stack[x] = <<>> \/ Top(x).pc \notin {"send_data"}
      /\ stack[x] = <<>> \/ Top(x).pc \notin {}
  BY DEF DialPcs
<1>2. Calm(DialPcs, {})
  BY <1>1, MovedCalm
<1>3. Calm({"send_data"}, {"send_data"})
  BY <1>1, MovedCalm
<1> QED  BY <1>2, <1>3, ActorFacts DEF Unsent, SendsStay, Calm

LEMMA SteadySends ==
    ASSUME UNCHANGED <<transport, sendFrag, link, server>>, lapses \subseteq lapses'
    PROVE  SendSteady
  BY LinkSame DEF SendSteady

LEMMA MildUnsent ==
    ASSUME BaseInv, MildNext
    PROVE  Unsent /\ SendSteady /\ UNCHANGED state
<1>1. Calm(ComingPcs, GoingPcs) /\ Steady
  BY MildSteps DEF MildStep
<1>2. /\ DialPcs \subseteq ComingPcs /\ {} \subseteq GoingPcs
      /\ {"send_data"} \subseteq ComingPcs /\ {"send_data"} \subseteq GoingPcs
  BY DEF DialPcs, ComingPcs, GoingPcs
<1>3. Calm(DialPcs, {}) /\ Calm({"send_data"}, {"send_data"})
  BY <1>1, <1>2, CalmLess
<1>4. Unsent
  BY <1>3, ActorFacts DEF Unsent, SendsStay, Calm
<1> QED  BY <1>1, <1>4 DEF Steady, SendSteady

LEMMA SideUnsent ==
    ASSUME BaseInv, SideNext, ~SendFragment, ~SendData, ~SendDataFails
    PROVE  Unsent /\ SendSteady /\ UNCHANGED state
<1>1. UNCHANGED server
  <2>1. CASE \E x \in Actors : CloseSends(x)
    BY <2>1, CloseSendsKeeps
  <2>2. CASE ~\E x \in Actors : CloseSends(x)
    BY <2>2 DEF SideNext, Connect, MtBackoff, StartMaintain, CloseRefused, StopMaintain,
       JoinMaintain, linkVars
  <2> QED  BY <2>1, <2>2
<1>2. /\ UNCHANGED <<state, transport, sendFrag, link>>
      /\ lapses \subseteq lapses'
  BY DEF SideNext, Connect, MtBackoff, StartMaintain, CloseRefused, CloseSends, StopMaintain,
     JoinMaintain, clientVars, mtVars, linkVars, history
<1>3. SendSteady
  BY <1>1, <1>2, SteadySends
<1>4. CASE StartMaintain
  <2>1. /\ stack[App] # <<>> /\ Top(App).pc = "start" /\ stack[Mt] = <<>>
        /\ stack'[Rx] = stack[Rx]
        /\ \E g \in Frame : g.pc = "up" /\ Became(stack[App], stack'[App], {g})
        /\ \E h \in Frame : h.pc = "loop" /\ Became(stack[Mt], stack'[Mt], {h})
    BY <1>4, StartMaintainKeeps
  <2>2. PICK g \in Frame : g.pc = "up" /\ Became(stack[App], stack'[App], {g})
    BY <2>1
  <2>3. PICK h \in Frame : h.pc = "loop" /\ Became(stack[Mt], stack'[Mt], {h})
    BY <2>1
  <2>4. ASSUME NEW H, H \subseteq Frames(DialPcs)
        PROVE  \A y \in Actors : Has(stack'[y], H) => Has(stack[y], H)
    <3>1. H \subseteq Noted /\ {g} \cap H = {} /\ {h} \cap H = {}
      BY <2>2, <2>3, <2>4 DEF Frames, Noted, DialPcs
    <3> QED  BY <2>1, <2>2, <2>3, <3>1, ActorFacts DEF Became
  <2>5. ASSUME NEW H, H \subseteq Frames({})
        PROVE  \A y \in Actors : ~Has(stack[y], H)
    BY <2>5 DEF Frames, Has, Depths
  <2>6. SendsStay
    <3> SUFFICES ASSUME NEW H, H \subseteq Frames({"send_data"})
                 PROVE  Has(stack'[App], H) <=> Has(stack[App], H)
      BY DEF SendsStay
    <3>1. H \subseteq Noted /\ {g} \cap H = {} /\ Head(stack[App]) \notin H
      BY <2>1, <2>2 DEF Frames, Noted, Top
    <3> QED  BY <2>2, <3>1 DEF Became
  <2>7. Calm(DialPcs, {})
    BY <2>4, <2>5 DEF Calm
  <2> QED  BY <1>2, <1>3, <2>6, <2>7 DEF Unsent
<1>5. CASE Connect
  <2>1. PICK g \in Frame : g.pc = "establish" /\ Moved(App, {g})
    BY <1>5, ConnectKeeps
  <2>2. stack[App] = <<>> /\ \A f \in {g} : f.pc \notin DialPcs /\ f.pc # "send_data"
    BY <1>5, <2>1, ConnectKeeps DEF DialPcs
  <2> QED  BY <1>2, <1>3, <2>1, <2>2, UnsentMove, ActorFacts
<1>6. CASE MtBackoff
  <2>1. Top(Mt).pc # "send_data"
    BY <1>6, MtBackoffKeeps
  <2>2. CASE Moved(Mt, {})
    BY <1>2, <1>3, <2>1, <2>2, UnsentMove, ActorFacts
  <2>3. CASE \E g \in Frame : g.pc = "establish" /\ Moved(Mt, {g})
    <3>1. PICK g \in Frame : g.pc = "establish" /\ Moved(Mt, {g})
      BY <2>3
    <3>2. \A f \in {g} : f.pc \notin DialPcs /\ f.pc # "send_data"
      BY <3>1 DEF DialPcs
    <3> QED  BY <1>2, <1>3, <2>1, <3>1, <3>2, UnsentMove, ActorFacts
  <2> QED  BY <1>6, <2>2, <2>3, MtBackoffKeeps
<1>7. CASE \E x \in Actors : CloseSends(x)
  <2>1. PICK x \in Actors : CloseSends(x)
    BY <1>7
  <2>2. Top(x).pc # "send_data"
    BY <2>1, CloseSendsKeeps
  <2>3. CASE Moved(x, {})
    BY <1>2, <1>3, <2>2, <2>3, UnsentMove
  <2>4. CASE \E g \in Frame : g.pc = "give_up" /\ Moved(x, {g})
    <3>1. PICK g \in Frame : g.pc = "give_up" /\ Moved(x, {g})
      BY <2>4
    <3>2. \A f \in {g} : f.pc \notin DialPcs /\ f.pc # "send_data"
      BY <3>1 DEF DialPcs
    <3> QED  BY <1>2, <1>3, <2>2, <3>1, <3>2, UnsentMove
  <2> QED  BY <2>1, <2>3, <2>4, CloseSendsKeeps
<1>8. CASE \E x \in Actors : StopMaintain(x) \/ JoinMaintain(x)
  <2>1. PICK x \in Actors : StopMaintain(x) \/ JoinMaintain(x)
    BY <1>8
  <2>2. PICK g \in Frame : g.pc \in {"join", "close_frame", "refuse", "start"} /\ Moved(x, {g})
    BY <2>1, StopMaintainKeeps, JoinMaintainKeeps
  <2>3. Top(x).pc # "send_data" /\ \A f \in {g} : f.pc \notin DialPcs /\ f.pc # "send_data"
    BY <2>1, <2>2, StopMaintainKeeps, JoinMaintainKeeps DEF DialPcs
  <2> QED  BY <1>2, <1>3, <2>2, <2>3, UnsentMove
<1>9. CASE \E x \in Actors : CloseRefused(x)
  <2>1. PICK x \in Actors : CloseRefused(x)
    BY <1>9
  <2>2. PICK g \in Frame : g.pc = "give_up" /\ Moved(x, {g})
    BY <2>1, CloseRefusedKeeps
  <2>3. Top(x).pc # "send_data" /\ \A f \in {g} : f.pc \notin DialPcs /\ f.pc # "send_data"
    BY <2>1, <2>2, CloseRefusedKeeps DEF DialPcs
  <2> QED  BY <1>2, <1>3, <2>2, <2>3, UnsentMove
<1> QED  BY <1>4, <1>5, <1>6, <1>7, <1>8, <1>9 DEF SideNext

\* Teardown, and Establish where it ends or begins.
LEMMA TeardownUnsent ==
    ASSUME BaseInv, NEW x \in Actors, Drop(x) \/ Tell(x)
    PROVE  Unsent /\ SendSteady /\ UNCHANGED state
<1>1. CASE Drop(x)
  <2>1. PICK N : /\ Moved(x, N)
                 /\ \A g \in N : g = TeardownFrame(Top(x).t) \/ g.pc = "tell"
    BY <1>1, DropKeeps
  <2>2. Top(x).pc # "send_data" /\ TeardownFrame(Top(x).t).pc = "give_up"
    BY <1>1, DropKeeps, TeardownFacts DEF MaybeTransport
  <2>3. \A f \in N : f.pc \notin DialPcs /\ f.pc # "send_data"
    BY <2>1, <2>2 DEF DialPcs
  <2>4. UNCHANGED <<state, transport, sendFrag, lapses>>
    BY <1>1 DEF Drop, clientVars, history
  <2>5. SendSteady
    BY <1>1, <2>4, DropKeeps DEF SendSteady
  <2> QED  BY <2>1, <2>2, <2>3, <2>4, <2>5, UnsentMove
<1>2. CASE Tell(x)
  <2>1. Moved(x, {}) /\ Top(x).pc # "send_data"
    BY <1>2, TellKeeps
  <2>2. UNCHANGED <<state, transport, sendFrag, link, server>> /\ lapses \subseteq lapses'
    BY <1>2 DEF Tell, linkVars
  <2> QED  BY <2>1, <2>2, UnsentMove, SteadySends
<1> QED  BY <1>1, <1>2

LEMMA GiveUpUnsent ==
    ASSUME BaseInv, NEW x \in Actors, GiveUp(x)
    PROVE  /\ Unsent /\ UNCHANGED <<link, server>> /\ lapses \subseteq lapses'
           /\ transport' = 0 /\ sendFrag' = FALSE
<1>1. /\ UNCHANGED <<link, server>> /\ lapses \subseteq lapses'
      /\ transport' = 0 /\ sendFrag' = FALSE
  BY DEF GiveUp, linkVars
<1>2. Top(x).pc # "send_data"
  BY GiveUpKeeps
<1>3. CASE Moved(x, {})
  BY <1>1, <1>2, <1>3, UnsentMove
<1>4. CASE \E g \in Frame : g.pc = "drop" /\ Moved(x, {g})
  <2>1. PICK g \in Frame : g.pc = "drop" /\ Moved(x, {g})
    BY <1>4
  <2>2. \A f \in {g} : f.pc \notin DialPcs /\ f.pc # "send_data"
    BY <2>1 DEF DialPcs
  <2> QED  BY <1>1, <1>2, <2>1, <2>2, UnsentMove
<1> QED  BY <1>3, <1>4, GiveUpKeeps

LEMMA FailureUnsent ==
    ASSUME BaseInv, NEW x \in {App, Mt}, (Establish(x) /\ state # "down") \/ CreateFails(x) \/ WaitFails(x)
    PROVE  Unsent /\ SendSteady /\ (~CreateFails(x) => UNCHANGED state)
<1>1. x \in Actors /\ Top(x).pc # "send_data"
  BY EstablishKeeps, CreateFailsKeeps, WaitFailsKeeps, ActorFacts
<1>2. \E N : Moved(x, N) /\ \A f \in N : f.pc \in {"give_up", "failed"}
  <2>1. CASE Establish(x) /\ state # "down"
    BY <2>1, EstablishKeeps
  <2>2. CASE CreateFails(x)
    BY <2>2, CreateFailsKeeps
  <2>3. CASE WaitFails(x)
    <3>1. PICK N : Moved(x, N) /\ \A f \in N : f = TeardownFrame(Top(x).own) \/ f.pc = "failed"
      BY <2>3, WaitFailsKeeps
    <3>2. TeardownFrame(Top(x).own).pc = "give_up"
      BY <2>3, WaitFailsKeeps, TeardownFacts DEF MaybeTransport
    <3> QED  BY <3>1, <3>2
  <2> QED  BY <2>1, <2>2, <2>3
<1>3. PICK N : Moved(x, N) /\ \A f \in N : f.pc \in {"give_up", "failed"}
  BY <1>2
<1>4. \A f \in N : f.pc \notin DialPcs /\ f.pc # "send_data"
  BY <1>3 DEF DialPcs
<1>5. Unsent
  BY <1>1, <1>3, <1>4, UnsentMove
<1>6. SendSteady /\ (~CreateFails(x) => UNCHANGED state)
  <2>1. CASE CreateFails(x)
    <3>1. UNCHANGED <<transport, sendFrag, server, lapses>>
      BY <2>1 DEF CreateFails, history
    <3> QED  BY <2>1, <3>1, CreateFailsKeeps DEF SendSteady
  <2>2. CASE Establish(x) /\ state # "down"
    <3>1. UNCHANGED <<state, transport, sendFrag, link, server, lapses>>
      BY <2>2 DEF Establish, linkVars, history
    <3> QED  BY <3>1, SteadySends
  <2>3. CASE WaitFails(x)
    <3>1. UNCHANGED <<state, transport, sendFrag, link, server, lapses>>
      BY <2>3 DEF WaitFails, clientVars, linkVars, history
    <3> QED  BY <3>1, SteadySends
  <2> QED  BY <2>1, <2>2, <2>3
<1> QED  BY <1>5, <1>6

LEMMA WaitOpenUnsent ==
    ASSUME BaseInv, NEW x \in {App, Mt}, WaitOpen(x)
    PROVE  Unsent /\ SendSteady
<1>1. PICK g \in Frame : g.pc \in {"stop", "reconnected"} /\ Moved(x, {g})
  BY WaitOpenKeeps
<1>2. /\ x \in Actors /\ Top(x).pc # "send_data"
      /\ \A f \in {g} : f.pc \notin DialPcs /\ f.pc # "send_data"
  BY <1>1, WaitOpenKeeps, ActorFacts DEF DialPcs
<1>3. UNCHANGED <<transport, sendFrag, link, server>> /\ lapses \subseteq lapses'
  BY DEF WaitOpen, linkVars
<1> QED  BY <1>1, <1>2, <1>3, UnsentMove, SteadySends

\* The steps of Establish that go on: the calls of thread x are the same but for the
\* innermost, and no send is among them.
LEMMA SetupSends ==
    ASSUME NEW x \in Actors, NEW g \in Frame, Moved(x, {g}), Top(x).pc # "send_data",
           g.pc # "send_data"
    PROVE  SendsStay
<1>1. /\ "close" \notin {"send_data"}
      /\ \A f \in {g} : f.pc \notin {"send_data"}
      /\ stack[x] = <<>> \/ Top(x).pc \notin {"send_data"}
  OBVIOUS
<1>2. Calm({"send_data"}, {"send_data"})
  BY <1>1, MovedCalm
<1> QED  BY <1>2, ActorFacts DEF SendsStay, Calm

-----------------------------------------------------------------------------
(* A connection is tried by one thread. *)

\* No thread comes to try a connection.
LEMMA DialKeeps ==
    ASSUME DialInv, NoneStays,
           \A y \in Actors : \A t \in Transports :
               /\ Has(stack'[y], Trying(t)) => Has(stack[y], Trying(t))
               /\ Has(stack'[y], Dialing(t)) => Has(stack[y], Dialing(t)),
           \A t \in Transports :
               server'.on = t => server.on = t \/ (link'[t] # "none" /\ ~Anywhere(stack', Dialing(t)))
    PROVE  DialInv'
<1> SUFFICES ASSUME NEW t \in Transports
             PROVE  /\ Anywhere(stack', Trying(t)) \/ server'.on = t => link'[t] # "none"
                    /\ ~(Has(stack'[App], Trying(t)) /\ Has(stack'[Mt], Trying(t)))
                    /\ server'.on = t => ~Anywhere(stack', Dialing(t))
  BY DEF DialInv
<1>1. /\ Anywhere(stack, Trying(t)) \/ server.on = t => link[t] # "none"
      /\ ~(Has(stack[App], Trying(t)) /\ Has(stack[Mt], Trying(t)))
      /\ server.on = t => ~Anywhere(stack, Dialing(t))
  BY DEF DialInv
<1>2. /\ Anywhere(stack', Trying(t)) => Anywhere(stack, Trying(t))
      /\ Anywhere(stack', Dialing(t)) => Anywhere(stack, Dialing(t))
  BY DEF Anywhere
<1> QED  BY <1>1, <1>2, ActorFacts DEF NoneStays

LEMMA CalmKeepsDial ==
    ASSUME Calm(DialPcs, {}), DialInv, NoneStays, server'.on \in {0, server.on}
    PROVE  DialInv'
<1>1. ASSUME NEW y \in Actors, NEW t \in Transports
      PROVE  /\ Has(stack'[y], Trying(t)) => Has(stack[y], Trying(t))
             /\ Has(stack'[y], Dialing(t)) => Has(stack[y], Dialing(t))
  BY DialSets DEF Calm
<1>2. \A t \in Transports : server'.on = t => server.on = t
  BY NotZero
<1> QED  BY <1>1, <1>2, DialKeeps

\* No other thread tries the connection that thread x tries.
LEMMA TriesAlone ==
    ASSUME BaseInv, DialInv, NEW x \in {App, Mt}, stack[x] # <<>>, NEW t \in Transports,
           Top(x) \in Trying(t)
    PROVE  \A y \in Actors \ {x} : ~Has(stack[y], Trying(t))
<1>1. Has(stack[x], Trying(t))
  BY TopHas, ActorFacts DEF BaseInv, TypeInv
<1>2. ~Has(stack[Rx], Trying(t))
  BY HasMore, NoSetupOnRx, DialSets DEF BaseInv, TypeInv
<1> QED  BY <1>1, <1>2, ActorFacts DEF DialInv

\* A step of Establish about the same transport.
LEMMA StaysTrying ==
    ASSUME BaseInv, NEW x \in Actors, stack[x] # <<>>, NEW N, Moved(x, N), NEW H, H \subseteq Noted,
           N \cap H # {} => Top(x) \in H
    PROVE  \A y \in Actors : Has(stack'[y], H) => Has(stack[y], H)
<1>1. Top(x) \in H => Has(stack[x], H)
  BY TopHas DEF BaseInv, TypeInv
<1> QED  BY <1>1 DEF Moved, Became

LEMMA CreateKeepsDial ==
    ASSUME BaseInv, NEW x \in {App, Mt}, Create(x), DialInv
    PROVE  DialInv'
<1>1. PICK t \in Transports, g \in Frame :
          /\ link[t] = "none" /\ link'[t] = "open" /\ g.pc = "assign" /\ g.own = t
          /\ \A u \in Transports \ {t} : link'[u] = link[u]
          /\ Moved(x, {g})
  BY CreateKeeps
<1>2. x \in Actors /\ NoneStays /\ UNCHANGED server
  BY CreateKeeps, ActorFacts DEF Create
<1>3. ASSUME NEW u \in Transports
      PROVE  /\ Anywhere(stack', Trying(u)) \/ server'.on = u => link'[u] # "none"
             /\ ~(Has(stack'[App], Trying(u)) /\ Has(stack'[Mt], Trying(u)))
             /\ server'.on = u => ~Anywhere(stack', Dialing(u))
  <2>1. /\ Anywhere(stack, Trying(u)) \/ server.on = u => link[u] # "none"
        /\ ~(Has(stack[App], Trying(u)) /\ Has(stack[Mt], Trying(u)))
        /\ server.on = u => ~Anywhere(stack, Dialing(u))
    BY DEF DialInv
  <2>2. CASE u = t
    <3>1. /\ \A y \in Actors : ~Has(stack[y], Trying(t))
          /\ server.on # t
      BY <1>1, <2>1, <2>2 DEF Anywhere
    <3>2. \A y \in Actors \ {x} : ~Has(stack'[y], Trying(t))
      BY <1>1, <3>1 DEF Moved
    <3> QED  BY <1>1, <1>2, <2>2, <3>1, <3>2, ActorFacts
  <2>3. CASE u # t
    <3>1. {g} \cap Trying(u) = {} /\ {g} \cap Dialing(u) = {}
      BY <1>1, <2>3 DEF Trying, Dialing
    <3>2. \A y \in Actors : Has(stack'[y], Trying(u)) => Has(stack[y], Trying(u))
      BY <1>1, <1>2, <3>1, DialSets DEF Moved, Became
    <3>3. Anywhere(stack', Dialing(u)) => Anywhere(stack, Dialing(u))
      BY <1>1, <1>2, <3>1, DialSets, Somewhere
    <3>4. Anywhere(stack', Trying(u)) => Anywhere(stack, Trying(u))
      BY <3>2 DEF Anywhere
    <3> QED  BY <1>1, <1>2, <2>1, <2>3, <3>2, <3>3, <3>4, ActorFacts
  <2> QED  BY <2>2, <2>3
<1> QED  BY <1>3 DEF DialInv

LEMMA AssignKeepsDial ==
    ASSUME BaseInv, NEW x \in {App, Mt}, Assign(x), DialInv
    PROVE  /\ DialInv'
           /\ \A t : Anywhere(stack', Dialing(t)) => Anywhere(stack, Dialing(t))
<1>1. PICK g \in Frame : g.pc = "upgrade" /\ g.own = Top(x).own /\ Moved(x, {g})
  BY AssignKeeps
<1>2. /\ x \in Actors /\ UNCHANGED <<link, server>> /\ stack[x] # <<>>
      /\ Top(x).pc = "assign" /\ Top(x) \in Frame
  BY AssignKeeps, ActorFacts DEF Assign, linkVars
<1>3. ASSUME NEW t
      PROVE  /\ {g} \cap Trying(t) # {} => Top(x) \in Trying(t)
             /\ {g} \cap Dialing(t) # {} => Top(x) \in Dialing(t)
  BY <1>1, <1>2 DEF Trying, Dialing
<1>4. ASSUME NEW t
      PROVE  /\ \A y \in Actors : Has(stack'[y], Trying(t)) => Has(stack[y], Trying(t))
             /\ \A y \in Actors : Has(stack'[y], Dialing(t)) => Has(stack[y], Dialing(t))
  BY <1>1, <1>2, <1>3, DialSets, StaysTrying
<1>5. DialInv'
  BY <1>2, <1>4, LinkSame, DialKeeps
<1> QED  BY <1>4, <1>5 DEF Anywhere

LEMMA SendUpgradeKeepsDial ==
    ASSUME BaseInv, NEW x \in {App, Mt}, SendUpgrade(x), DialInv
    PROVE  /\ DialInv' /\ SendsStay
           /\ \A t : Anywhere(stack', Dialing(t)) => Anywhere(stack, Dialing(t))
           /\ \A t : Anywhere(stack', Upgrading(t)) => Anywhere(stack, Upgrading(t))
           /\ Anywhere(stack', Opening) => Anywhere(stack, Opening)
<1>1. /\ stack[x] # <<>> /\ Top(x) \in Frame /\ Top(x).pc = "upgrade" /\ Top(x) \in Bottom
      /\ Top(x).own \in Transports /\ x \in Actors
      /\ UNCHANGED server \/ server'.on \in {0, Top(x).own}
  BY SendUpgradeKeeps, ActorFacts
<1>2. \E N : /\ Moved(x, N)
             /\ \A f \in N : (f.pc = "wait" /\ f.own = Top(x).own) \/ f.pc \in {"give_up", "failed"}
  <2>1. CASE \E g \in Frame : g.pc = "wait" /\ g.own = Top(x).own /\ Moved(x, {g})
    BY <2>1
  <2>2. CASE \E N : Moved(x, N) /\ \A f \in N : f = TeardownFrame(Top(x).own) \/ f.pc = "failed"
    <3>1. TeardownFrame(Top(x).own).pc = "give_up"
      BY <1>1, TeardownFacts DEF MaybeTransport
    <3> QED  BY <2>2, <3>1
  <2> QED  BY <2>1, <2>2, SendUpgradeKeeps
<1>3. PICK N : /\ Moved(x, N)
               /\ \A f \in N : (f.pc = "wait" /\ f.own = Top(x).own) \/ f.pc \in {"give_up", "failed"}
  BY <1>2
<1>4. ASSUME NEW t
      PROVE  /\ N \cap Trying(t) # {} => Top(x) \in Trying(t)
             /\ N \cap Dialing(t) = {} /\ N \cap Upgrading(t) = {} /\ N \cap Opening = {}
  BY <1>1, <1>3 DEF Trying, Dialing, Upgrading, Opening
<1>5. ASSUME NEW t
      PROVE  /\ \A y \in Actors : Has(stack'[y], Trying(t)) => Has(stack[y], Trying(t))
             /\ \A y \in Actors : Has(stack'[y], Dialing(t)) => Has(stack[y], Dialing(t))
             /\ Anywhere(stack', Upgrading(t)) => Anywhere(stack, Upgrading(t))
  <2>1. \A y \in Actors : Has(stack'[y], Trying(t)) => Has(stack[y], Trying(t))
    BY <1>1, <1>3, <1>4, DialSets, StaysTrying
  <2>2. \A y \in Actors : Has(stack'[y], Dialing(t)) => Has(stack[y], Dialing(t))
    BY <1>1, <1>3, <1>4, DialSets, StaysTrying
  <2>3. Anywhere(stack', Upgrading(t)) => Anywhere(stack, Upgrading(t))
    BY <1>1, <1>3, <1>4, DialSets, Somewhere
  <2> QED  BY <2>1, <2>2, <2>3
<1>6. Anywhere(stack', Opening) => Anywhere(stack, Opening)
  BY <1>1, <1>3, <1>4, FrameSets, Somewhere
<1>7. UNCHANGED link
  BY DEF SendUpgrade
<1>8. ASSUME NEW t \in Transports, server'.on = t, server.on # t
      PROVE  link'[t] # "none" /\ ~Anywhere(stack', Dialing(t))
  <2>1. t = Top(x).own
    BY <1>1, <1>8, NotZero
  <2>2. Top(x) \in Trying(t) /\ Top(x) \in Dialing(t)
    BY <1>1, <2>1 DEF Trying, Dialing
  <2>3. \A y \in Actors \ {x} : ~Has(stack[y], Trying(t))
    BY <1>1, <2>2, TriesAlone
  <2>4. \A y \in Actors \ {x} : ~Has(stack'[y], Dialing(t))
    BY <1>5, <2>3, HasMore, DialSets
  <2>5. ~Has(stack'[x], Dialing(t))
    BY <1>1, <1>3, <1>4, DialSets, Somewhere
  <2>6. link[t] # "none"
    BY <1>1, <2>2, TopHas DEF DialInv, Anywhere, BaseInv, TypeInv
  <2> QED  BY <1>7, <2>4, <2>5, <2>6 DEF Anywhere
<1>9. DialInv'
  BY <1>5, <1>7, <1>8, LinkSame, DialKeeps
<1>10. SendsStay
  <2>1. \A f \in N : f.pc \notin {"send_data"}
    BY <1>3
  <2>2. Calm({"send_data"}, {"send_data"})
    BY <1>1, <1>3, <2>1, MovedCalm
  <2> QED  BY <2>2, ActorFacts DEF SendsStay, Calm
<1> QED  BY <1>5, <1>6, <1>9, <1>10 DEF Anywhere

-----------------------------------------------------------------------------
(* What the server gets. *)

LEMMA CalmKeepsOutbound ==
    ASSUME BaseInv, Unsent, SendSteady, OutboundInv, state' = state \/ transport = 0
    PROVE  OutboundInv'
<1> SUFFICES ASSUME Sound' PROVE ~server'.malformed /\ SendingInv' /\ FreshInv' /\ FragmentInv'
  BY DEF OutboundInv
<1>1. ~server.malformed /\ SendingInv /\ FreshInv /\ FragmentInv
  BY DEF OutboundInv, Sound, SendSteady
<1>2. ASSUME NEW t
      PROVE  /\ Anywhere(stack', Dialing(t)) => Anywhere(stack, Dialing(t))
             /\ Anywhere(stack', Upgrading(t)) => Anywhere(stack, Upgrading(t))
             /\ Has(stack'[App], Sending(t)) <=> Has(stack[App], Sending(t))
             /\ \A b : Has(stack'[App], Starts(t, b)) <=> Has(stack[App], Starts(t, b))
             /\ \A b : Has(stack'[App], Ends(t, b)) <=> Has(stack[App], Ends(t, b))
  BY CalmSomewhere, DialSets, SendSets DEF Unsent, SendsStay
<1>3. Anywhere(stack', Opening) => Anywhere(stack, Opening)
  BY CalmSomewhere, DialSets DEF Unsent
<1>4. SendingInv'
  BY <1>1, <1>2 DEF SendingInv, SendSteady, NoneStays
<1>5. FreshInv'
  BY <1>1, <1>2, <1>3 DEF FreshInv, SendSteady
<1>6. FragmentInv'
  <2> SUFFICES ASSUME transport # 0
               PROVE  /\ \A b \in BOOLEAN : Has(stack'[App], Ends(transport, b)) => sendFrag = ~b
                      /\ server'.on = transport /\ link'[transport] = "open" =>
                             /\ \A b \in BOOLEAN : Has(stack'[App], Starts(transport, b)) =>
                                    server.receiving = ~b
                             /\ ~Has(stack'[App], Sending(transport)) => server.receiving = sendFrag
    BY DEF FragmentInv, SendSteady
  <2>1. transport \in Transports
    BY DEF BaseInv, TypeInv, ClientType, MaybeTransport
  <2>2. server'.on = transport /\ link'[transport] = "open" =>
            server.on = transport /\ link[transport] = "open"
    BY <2>1 DEF SendSteady
  <2> QED  BY <1>1, <1>2, <2>2 DEF FragmentInv
<1> QED  BY <1>1, <1>4, <1>5, <1>6 DEF SendSteady

\* A step after which there is no transport and no message under way.
LEMMA NothingKeepsOutbound ==
    ASSUME SendsStay, \A t : Anywhere(stack', Dialing(t)) => Anywhere(stack, Dialing(t)),
           NoneStays, transport' = 0, sendFrag' = FALSE, UNCHANGED server, lapses \subseteq lapses',
           OutboundInv
    PROVE  OutboundInv'
<1> SUFFICES ASSUME Sound' PROVE ~server'.malformed /\ SendingInv' /\ FreshInv' /\ FragmentInv'
  BY DEF OutboundInv
<1>1. ~server.malformed /\ SendingInv
  BY DEF OutboundInv, Sound
<1>2. \A t : Has(stack'[App], Sending(t)) <=> Has(stack[App], Sending(t))
  BY SendSets DEF SendsStay
<1>3. SendingInv'
  BY <1>1, <1>2 DEF SendingInv, NoneStays
<1>4. FreshInv' /\ FragmentInv'
  BY DEF FreshInv, FragmentInv
<1> QED  BY <1>1, <1>3, <1>4

LEMMA GiveUpKeepsOutbound ==
    ASSUME BaseInv, NEW x \in Actors, GiveUp(x), OutboundInv
    PROVE  OutboundInv'
<1>1. /\ Unsent /\ UNCHANGED <<link, server>> /\ lapses \subseteq lapses'
      /\ transport' = 0 /\ sendFrag' = FALSE
  BY GiveUpUnsent
<1>2. \A t : Anywhere(stack', Dialing(t)) => Anywhere(stack, Dialing(t))
  BY <1>1, CalmSomewhere, DialSets DEF Unsent
<1> QED  BY <1>1, <1>2, NothingKeepsOutbound, LinkSame DEF Unsent

LEMMA EstablishKeepsOutbound ==
    ASSUME BaseInv, PhaseInv, NEW x \in {App, Mt}, Establish(x), state = "down", OutboundInv
    PROVE  OutboundInv'
<1>1. PICK g \in Frame : g.pc = "create" /\ Moved(x, {g})
  BY EstablishKeeps
<1>2. x \in Actors /\ Top(x).pc # "send_data"
  BY EstablishKeeps, ActorFacts
<1>3. UNCHANGED <<transport, link, server, lapses>> /\ sendFrag' = FALSE
  BY DEF Establish, linkVars, history
<1>4. SendsStay
  BY <1>1, <1>2, SetupSends
<1>5. \A t : Anywhere(stack', Dialing(t)) => Anywhere(stack, Dialing(t))
  <2>1. \A t : {g} \cap Dialing(t) = {}
    BY <1>1 DEF Dialing
  <2> QED  BY <1>1, <1>2, <2>1, DialSets, Somewhere
<1>6. CASE Astray
  BY <1>3, <1>6 DEF OutboundInv, Sound, Astray
<1>7. CASE ~Astray
  <2>1. transport = 0
    BY <1>7 DEF PhaseInv, StateInv
  <2> QED  BY <1>3, <1>4, <1>5, <2>1, NothingKeepsOutbound, LinkSame
<1> QED  BY <1>6, <1>7

LEMMA CreateKeepsOutbound ==
    ASSUME BaseInv, PhaseInv, NEW x \in {App, Mt}, Create(x), OutboundInv
    PROVE  OutboundInv'
<1>1. PICK t \in Transports, g \in Frame :
          /\ link[t] = "none" /\ link'[t] = "open" /\ g.pc = "assign" /\ g.own = t
          /\ \A u \in Transports \ {t} : link'[u] = link[u]
          /\ Moved(x, {g})
  BY CreateKeeps
<1>2. /\ x \in Actors /\ stack[x] # <<>> /\ Top(x).pc = "create" /\ Top(x) \in Frame
      /\ Top(x) \in Opening
  BY CreateKeeps, ActorFacts DEF Opening
<1>3. UNCHANGED <<state, transport, sendFrag, server, lapses>>
  BY DEF Create, clientVars, history
<1>4. SUFFICES ASSUME Sound' PROVE ~server'.malformed /\ SendingInv' /\ FreshInv' /\ FragmentInv'
  BY DEF OutboundInv
<1>5. ~server.malformed /\ SendingInv /\ FreshInv /\ ~Astray
  BY <1>3, <1>4 DEF OutboundInv, Sound, Astray
<1>6. transport = 0
  BY <1>2, <1>5, OpeningAlone DEF PhaseInv
<1>7. sendFrag = FALSE
  <2>1. Anywhere(stack, Opening)
    BY <1>2, TopHas DEF Anywhere, BaseInv, TypeInv
  <2> QED  BY <1>5, <2>1 DEF FreshInv, BaseInv, TypeInv, ClientType
<1>8. \A u : Has(stack'[App], Sending(u)) <=> Has(stack[App], Sending(u))
  BY <1>1, <1>2, SetupSends, SendSets DEF SendsStay
<1>9. ASSUME NEW u \in Transports, Has(stack'[App], Sending(u))
      PROVE  link'[u] # "none" /\ ~Anywhere(stack', Dialing(u))
  <2>1. link[u] # "none" /\ ~Anywhere(stack, Dialing(u))
    BY <1>5, <1>8, <1>9 DEF SendingInv
  <2>2. u # t
    BY <1>1, <2>1
  <2>3. {g} \cap Dialing(u) = {}
    BY <1>1, <2>2 DEF Dialing
  <2>4. ~Anywhere(stack', Dialing(u))
    BY <1>1, <1>2, <2>1, <2>3, DialSets, Somewhere
  <2> QED  BY <1>1, <2>1, <2>2, <2>4
<1>10. SendingInv'
  BY <1>9 DEF SendingInv
<1>11. FreshInv' /\ FragmentInv'
  BY <1>3, <1>6, <1>7 DEF FreshInv, FragmentInv
<1> QED  BY <1>3, <1>5, <1>10, <1>11

LEMMA AssignKeepsOutbound ==
    ASSUME BaseInv, PhaseInv, DialInv, NEW x \in {App, Mt}, Assign(x), OutboundInv
    PROVE  OutboundInv'
<1>1. PICK g \in Frame : g.pc = "upgrade" /\ g.own = Top(x).own /\ Moved(x, {g})
  BY AssignKeeps
<1>2. /\ x \in Actors /\ stack[x] # <<>> /\ Top(x).pc = "assign" /\ Top(x) \in Frame
      /\ Top(x).own \in Transports
  BY AssignKeeps, ActorFacts
<1>3. UNCHANGED <<state, sendFrag, link, server, lapses>> /\ transport' = Top(x).own
  BY DEF Assign, linkVars, history
<1>4. SUFFICES ASSUME Sound' PROVE ~server'.malformed /\ SendingInv' /\ FreshInv' /\ FragmentInv'
  BY DEF OutboundInv
<1>5. ~server.malformed /\ SendingInv /\ FreshInv /\ ~Astray
  BY <1>3, <1>4 DEF OutboundInv, Sound, Astray
<1>6. Top(x) \in Opening /\ Top(x) \in Dialing(transport')
  BY <1>2, <1>3 DEF Opening, Dialing
<1>7. state = "handshaking"
  BY <1>2, <1>5, <1>6, OpeningAlone DEF PhaseInv
<1>8. sendFrag = FALSE
  <2>1. Anywhere(stack, Opening)
    BY <1>2, <1>6, TopHas DEF Anywhere, BaseInv, TypeInv
  <2> QED  BY <1>5, <2>1 DEF FreshInv, BaseInv, TypeInv, ClientType
<1>9. SendsStay
  BY <1>1, <1>2, SetupSends
<1>10. \A u : Has(stack'[App], Sending(u)) <=> Has(stack[App], Sending(u))
  BY <1>9, SendSets DEF SendsStay
<1>11. \A u : Anywhere(stack', Dialing(u)) => Anywhere(stack, Dialing(u))
  BY AssignKeepsDial
<1>12. SendingInv'
  BY <1>3, <1>5, <1>10, <1>11 DEF SendingInv
<1>13. FreshInv'
  BY <1>3, <1>7, <1>8 DEF FreshInv
<1>14. Anywhere(stack, Dialing(transport'))
  BY <1>2, <1>6, TopHas DEF Anywhere, BaseInv, TypeInv
<1>15. ~Has(stack'[App], Sending(transport')) /\ server.on # transport'
  BY <1>2, <1>3, <1>5, <1>10, <1>14 DEF SendingInv, DialInv
<1>16. \A b : ~Has(stack'[App], Ends(transport', b))
  BY <1>15, SendSets, HasMore
<1>17. FragmentInv'
  BY <1>3, <1>15, <1>16 DEF FragmentInv
<1> QED  BY <1>3, <1>5, <1>12, <1>13, <1>17

LEMMA SendUpgradeKeepsOutbound ==
    ASSUME BaseInv, DialInv, NEW x \in {App, Mt}, SendUpgrade(x), OutboundInv
    PROVE  OutboundInv'
<1>1. /\ x \in Actors /\ stack[x] # <<>> /\ Top(x).pc = "upgrade" /\ Top(x) \in Frame
      /\ Top(x).own \in Transports /\ server'.malformed = server.malformed
      /\ UNCHANGED server \/ (server'.on \in {0, Top(x).own} /\ ~server'.receiving)
  BY SendUpgradeKeeps, ActorFacts
<1>2. UNCHANGED <<state, transport, sendFrag, link, lapses>>
  BY DEF SendUpgrade, clientVars, history
<1>3. SUFFICES ASSUME Sound' PROVE ~server'.malformed /\ SendingInv' /\ FreshInv' /\ FragmentInv'
  BY DEF OutboundInv
<1>4. ~server.malformed /\ SendingInv /\ FreshInv /\ FragmentInv
  BY <1>2, <1>3 DEF OutboundInv, Sound
<1>5. /\ SendsStay
      /\ \A t : Anywhere(stack', Dialing(t)) => Anywhere(stack, Dialing(t))
      /\ \A t : Anywhere(stack', Upgrading(t)) => Anywhere(stack, Upgrading(t))
      /\ Anywhere(stack', Opening) => Anywhere(stack, Opening)
  BY SendUpgradeKeepsDial
<1>6. ASSUME NEW t
      PROVE  /\ Has(stack'[App], Sending(t)) <=> Has(stack[App], Sending(t))
             /\ \A b : Has(stack'[App], Starts(t, b)) <=> Has(stack[App], Starts(t, b))
             /\ \A b : Has(stack'[App], Ends(t, b)) <=> Has(stack[App], Ends(t, b))
  BY <1>5, SendSets DEF SendsStay
<1>7. SendingInv'
  BY <1>2, <1>4, <1>5, <1>6 DEF SendingInv
<1>8. FreshInv'
  BY <1>2, <1>4, <1>5 DEF FreshInv
<1>9. FragmentInv'
  <2>1. CASE UNCHANGED server
    BY <1>2, <1>4, <1>6, <2>1 DEF FragmentInv
  <2>2. CASE server'.on \in {0, Top(x).own} /\ ~server'.receiving
    <3> SUFFICES ASSUME transport # 0
                 PROVE  /\ \A b \in BOOLEAN : Has(stack'[App], Ends(transport, b)) => sendFrag = ~b
                        /\ server'.on = transport =>
                               /\ \A b \in BOOLEAN : ~Has(stack'[App], Starts(transport, b))
                               /\ server'.receiving = sendFrag
      BY <1>2 DEF FragmentInv
    <3>1. \A b \in BOOLEAN : Has(stack'[App], Ends(transport, b)) => sendFrag = ~b
      BY <1>4, <1>6 DEF FragmentInv
    <3>2. ASSUME server'.on = transport
          PROVE  /\ \A b \in BOOLEAN : ~Has(stack'[App], Starts(transport, b))
                 /\ server'.receiving = sendFrag
      <4>1. transport = Top(x).own /\ transport \in Transports
        BY <1>1, <2>2, <3>2
      <4>2. Top(x) \in Upgrading(transport) /\ Top(x) \in Dialing(transport)
        BY <1>1, <4>1 DEF Upgrading, Dialing
      <4>3. Anywhere(stack, Upgrading(transport)) /\ Anywhere(stack, Dialing(transport))
        BY <1>1, <4>2, TopHas DEF Anywhere, BaseInv, TypeInv
      <4>4. ~sendFrag
        BY <1>4, <4>3 DEF FreshInv
      <4>5. ~Has(stack[App], Sending(transport))
        BY <1>4, <4>1, <4>3 DEF SendingInv
      <4>6. \A b : ~Has(stack'[App], Starts(transport, b))
        BY <1>6, <4>5, SendSets, HasMore
      <4>7. server'.receiving = FALSE /\ sendFrag = FALSE
        <5>1. sendFrag \in BOOLEAN
          BY DEF BaseInv, TypeInv, ClientType
        <5>2. server'.receiving \in BOOLEAN
          BY SendUpgradeKeeps DEF BaseInv, TypeInv, LinkType
        <5> QED  BY <2>2, <4>4, <5>1, <5>2
      <4> QED  BY <4>6, <4>7
    <3> QED  BY <3>1, <3>2
  <2> QED  BY <1>1, <2>1, <2>2
<1> QED  BY <1>1, <1>4, <1>7, <1>8, <1>9

LEMMA WaitOpenKeepsOutbound ==
    ASSUME BaseInv, DialInv, NEW x \in {App, Mt}, WaitOpen(x), OutboundInv
    PROVE  OutboundInv'
<1>1. /\ x \in Actors /\ stack[x] # <<>> /\ Top(x).pc = "wait" /\ Top(x) \in Frame
      /\ Top(x) \in Bottom /\ Top(x).own \in Transports
      /\ \E g \in Frame : g.pc \in {"stop", "reconnected"} /\ Moved(x, {g})
  BY WaitOpenKeeps, ActorFacts
<1>2. PICK g \in Frame : g.pc \in {"stop", "reconnected"} /\ Moved(x, {g})
  BY <1>1
<1>3. Unsent /\ SendSteady
  BY WaitOpenUnsent
<1>4. CASE transport # Top(x).own
  BY <1>4 DEF WaitOpen, OutboundInv, Sound
<1>5. CASE transport = Top(x).own
  <2>1. Top(x) \in Trying(transport)
    BY <1>1, <1>5 DEF Trying
  <2>2. \A y \in Actors \ {x} : ~Has(stack[y], Trying(transport))
    BY <1>1, <1>5, <2>1, TriesAlone
  <2>3. \A y \in Actors \ {x} : ~Has(stack[y], Upgrading(transport))
    BY <2>2, HasMore, DialSets
  <2>4. ~Has(stack[x], Upgrading(transport))
    <3>1. Top(x) \notin Upgrading(transport)
      BY <1>1 DEF Upgrading
    <3>2. Depths(stack[x], Upgrading(transport)) = {}
      BY <1>1, <3>1, AloneOnTop DEF BaseInv, TypeInv
    <3> QED  BY <3>2 DEF Has
  <2>5. ~Anywhere(stack, Upgrading(transport))
    BY <2>3, <2>4 DEF Anywhere
  <2>6. SUFFICES ASSUME Sound' PROVE ~server'.malformed /\ SendingInv' /\ FreshInv' /\ FragmentInv'
    BY DEF OutboundInv
  <2>7. ~server.malformed /\ SendingInv /\ FreshInv /\ FragmentInv
    BY <1>3, <2>6 DEF OutboundInv, Sound, SendSteady
  <2>8. ASSUME NEW t
        PROVE  /\ Anywhere(stack', Dialing(t)) => Anywhere(stack, Dialing(t))
               /\ Anywhere(stack', Upgrading(t)) => Anywhere(stack, Upgrading(t))
               /\ Has(stack'[App], Sending(t)) <=> Has(stack[App], Sending(t))
               /\ \A b : Has(stack'[App], Starts(t, b)) <=> Has(stack[App], Starts(t, b))
               /\ \A b : Has(stack'[App], Ends(t, b)) <=> Has(stack[App], Ends(t, b))
    BY <1>3, CalmSomewhere, DialSets, SendSets DEF Unsent, SendsStay
  <2>9. Anywhere(stack', Opening) => Anywhere(stack, Opening)
    BY <1>3, CalmSomewhere, DialSets DEF Unsent
  <2>10. UNCHANGED <<transport, sendFrag, link, server>>
    BY DEF WaitOpen, linkVars
  <2>11. SendingInv'
    BY <2>7, <2>8, <2>10 DEF SendingInv
  <2>12. FreshInv'
    BY <2>5, <2>7, <2>8, <2>9, <2>10 DEF FreshInv
  <2>13. FragmentInv'
    BY <2>7, <2>8, <2>10 DEF FragmentInv
  <2> QED  BY <2>7, <2>10, <2>11, <2>12, <2>13
<1> QED  BY <1>4, <1>5

\* The kind of the frame is chosen, and send_fragment_open_ moved on.
LEMMA SendFragmentKeepsOutbound ==
    ASSUME BaseInv, PhaseInv, NEW g \in Frame, g.pc = "send_data", g.own = transport,
           g.p.start = ~sendFrag, sendFrag' = ~g.p.fin, Moved(App, {g}),
           SendFragment, OutboundInv
    PROVE  OutboundInv'
<1>1. /\ stack[App] = <<>> /\ state = "open"
      /\ UNCHANGED <<state, transport, link, server, lapses>>
  BY DEF SendFragment, Idle, linkVars, history
<1>2. SUFFICES ASSUME Sound' PROVE ~server'.malformed /\ SendingInv' /\ FreshInv' /\ FragmentInv'
  BY DEF OutboundInv
<1>3. ~server.malformed /\ SendingInv /\ FreshInv /\ FragmentInv /\ ~Astray
  BY <1>1, <1>2 DEF OutboundInv, Sound, Astray
<1>4. OpeningInv /\ StateInv /\ transport # 0 /\ transport \in Transports
  BY <1>1, <1>3 DEF PhaseInv, StateInv, BaseInv, TypeInv, ClientType, MaybeTransport
<1>5. \A H : ~Has(stack[App], H)
  BY <1>1, Empty DEF Has
<1>6. \A H : H \subseteq Noted /\ Has(stack'[App], H) => g \in H
  BY <1>5 DEF Moved, Became
<1>7. g \in Sending(transport) /\ Has(stack'[App], Sending(transport))
  <2>1. g \in Sending(transport)
    BY DEF Sending
  <2> QED  BY <2>1, SendSets DEF Moved, Became
<1>8. \A t : /\ Anywhere(stack', Dialing(t)) => Anywhere(stack, Dialing(t))
             /\ Anywhere(stack', Upgrading(t)) => Anywhere(stack, Upgrading(t))
  <2>1. \A t : {g} \cap Dialing(t) = {} /\ {g} \cap Upgrading(t) = {}
    BY DEF Dialing, Upgrading
  <2> QED  BY <2>1, ActorFacts, DialSets, Somewhere
<1>9. ~Anywhere(stack', Opening)
  <2>1. {g} \cap Opening = {}
    BY DEF Opening
  <2>2. ~Anywhere(stack, Opening)
    BY <1>1, <1>4 DEF OpeningInv
  <2> QED  BY <2>1, <2>2, ActorFacts, FrameSets, Somewhere
<1>10. ~Anywhere(stack, Upgrading(transport))
  BY <1>1, <1>3, <1>4 DEF FreshInv
<1>11. FreshInv'
  BY <1>1, <1>8, <1>9, <1>10 DEF FreshInv
<1>12. ~Anywhere(stack, Dialing(transport))
  <2>1. ASSUME NEW y \in Actors, Has(stack[y], Dialing(transport))
        PROVE  FALSE
    <3>1. stack[y] # <<>> /\ Top(y) \in SetupFrames /\ Top(y) \in Bottom
      <4>1. Has(stack[y], SetupFrames)
        BY <2>1, HasMore, DialSets
      <4>2. stack[y] # <<>>
        BY <2>1, Empty DEF Has
      <4> QED  BY <4>1, <4>2, SetupOnTop DEF BaseInv, TypeInv
    <3>2. Top(y) \in Dialing(transport)
      <4>1. Depths(stack[y], Dialing(transport)) = IF Top(y) \in Dialing(transport) THEN {0} ELSE {}
        BY <3>1, AloneOnTop DEF BaseInv, TypeInv
      <4> QED  BY <2>1, <4>1 DEF Has
    <3>3. Top(y) \in Upgrading(transport) \/ Top(y) \in Opening
      BY <3>2 DEF Dialing, Upgrading, Opening
    <3>4. Anywhere(stack, Upgrading(transport)) \/ Anywhere(stack, Opening)
      BY <3>1, <3>3, TopHas DEF Anywhere, BaseInv, TypeInv
    <3> QED  BY <1>1, <1>4, <1>10, <3>4 DEF OpeningInv
  <2> QED  BY <2>1 DEF Anywhere
<1>13. link[transport] # "none"
  BY <1>4 DEF BaseInv, OwnerInv, OneOwner
<1>14. \A t : g \in Sending(t) => t = transport
  BY DEF Sending
<1>15. SendingInv'
  BY <1>1, <1>6, <1>8, <1>12, <1>13, <1>14, SendSets DEF SendingInv
<1>16. ASSUME NEW b \in BOOLEAN, Has(stack'[App], Ends(transport, b))
       PROVE  sendFrag' = ~b
  <2>1. g \in Ends(transport, b)
    BY <1>6, <1>16, SendSets
  <2>2. g.p.fin = b
    BY <2>1 DEF Ends
  <2> QED  BY <2>2
<1>17. ASSUME NEW b \in BOOLEAN, Has(stack'[App], Starts(transport, b)),
              server.on = transport, link[transport] = "open"
       PROVE  server.receiving = ~b
  <2>1. g \in Starts(transport, b)
    BY <1>6, <1>17, SendSets
  <2>2. g.p.start = b
    BY <2>1 DEF Starts
  <2>3. server.receiving = sendFrag
    BY <1>3, <1>4, <1>5, <1>17 DEF FragmentInv
  <2>4. sendFrag \in BOOLEAN
    BY DEF BaseInv, TypeInv, ClientType
  <2> QED  BY <2>2, <2>3, <2>4
<1>18. FragmentInv'
  BY <1>1, <1>7, <1>16, <1>17 DEF FragmentInv
<1> QED  BY <1>1, <1>3, <1>11, <1>15, <1>18

\* The frame goes out: the server is where send_fragment_open_ has been since.
LEMMA SendDataKeepsOutbound ==
    ASSUME BaseInv, SendData, OutboundInv
    PROVE  OutboundInv'
<1> DEFINE p == Top(App).p
<1>1. /\ stack[App] # <<>> /\ Top(App).pc = "send_data" /\ Moved(App, {}) /\ Top(App) \in Frame
      /\ p \in Items /\ p.type = "data"
  BY SendDataKeeps
<1>2. /\ UNCHANGED <<state, transport, sendFrag, link>>
      /\ Transmit(transport, p) \/ (~Live(transport) /\ UNCHANGED server)
      /\ lapses' = (IF transport \in {0, Top(App).own} THEN lapses ELSE lapses \cup {"fragment"})
  BY DEF SendData, Sends, SendFails, clientVars
<1>3. SUFFICES ASSUME Sound' PROVE ~server'.malformed /\ SendingInv' /\ FreshInv' /\ FragmentInv'
  BY DEF OutboundInv
<1>4. /\ ~server.malformed /\ SendingInv /\ FreshInv /\ FragmentInv
      /\ transport \in {0, Top(App).own}
  BY <1>2, <1>3 DEF OutboundInv, Sound
<1>5. \A H : H \subseteq Noted => ~Has(stack'[App], H)
  <2>1. Top(App) \in Bottom
    BY <1>1 DEF Bottom, AppPcs
  <2> QED  BY <1>1, <2>1, ActorFacts, Somewhere
<1>6. /\ \A t : Anywhere(stack', Dialing(t)) => Anywhere(stack, Dialing(t))
      /\ \A t : Anywhere(stack', Upgrading(t)) => Anywhere(stack, Upgrading(t))
      /\ Anywhere(stack', Opening) => Anywhere(stack, Opening)
  BY <1>1, ActorFacts, DialSets, FrameSets, Somewhere
<1>7. SendingInv'
  BY <1>5, SendSets DEF SendingInv
<1>8. FreshInv'
  BY <1>2, <1>4, <1>6 DEF FreshInv
<1>9. CASE transport = 0 \/ link[transport] # "open" \/ server.on # transport
  <2>1. UNCHANGED server
    BY <1>1, <1>2, <1>9 DEF Transmit
  <2>2. FragmentInv'
    BY <1>2, <1>5, <1>9, <2>1, SendSets DEF FragmentInv
  <2> QED  BY <1>4, <1>7, <1>8, <2>1, <2>2
<1>10. CASE transport # 0 /\ link[transport] = "open" /\ server.on = transport
  <2>1. server' = [server EXCEPT !.receiving = ~p.fin,
                                 !.malformed = @ \/ server.receiving = p.start]
    BY <1>1, <1>2, <1>10 DEF Transmit, ServerTakes, Live
  <2>2. p.start \in BOOLEAN /\ p.fin \in BOOLEAN
    BY <1>1 DEF Items
  <2>3. Top(App) \in Starts(transport, p.start) /\ Top(App) \in Ends(transport, p.fin)
    BY <1>1, <1>4, <1>10 DEF Starts, Ends, Sending
  <2>4. Has(stack[App], Starts(transport, p.start)) /\ Has(stack[App], Ends(transport, p.fin))
    BY <1>1, <2>3, TopHas, ActorFacts DEF BaseInv, TypeInv
  <2>5. sendFrag = ~p.fin /\ server.receiving = ~p.start
    BY <1>4, <1>10, <2>2, <2>4 DEF FragmentInv
  <2>6. server'.receiving = ~p.fin /\ server'.malformed = (server.malformed \/ server.receiving = p.start)
    BY <2>1 DEF BaseInv, TypeInv, LinkType
  <2>7. ~server'.malformed
    BY <1>4, <2>2, <2>5, <2>6
  <2>8. server'.receiving = sendFrag'
    BY <1>2, <2>5, <2>6
  <2>9. FragmentInv'
    BY <1>5, <2>8, SendSets DEF FragmentInv
  <2> QED  BY <1>7, <1>8, <2>7, <2>9
<1> QED  BY <1>9, <1>10

LEMMA OutboundSteps ==
    ASSUME BaseInv, PhaseInv, DialInv, OutboundInv, Next \/ UNCHANGED vars
    PROVE  DialInv' /\ OutboundInv'
<1>1. ASSUME Unsent, SendSteady, UNCHANGED state
      PROVE  DialInv' /\ OutboundInv'
  BY <1>1, CalmKeepsDial, CalmKeepsOutbound DEF Unsent, SendSteady
<1>2. CASE MildNext
  BY <1>1, <1>2, MildUnsent
<1>3. CASE SideNext /\ ~SendFragment /\ ~SendData /\ ~SendDataFails
  BY <1>1, <1>3, SideUnsent
<1>4. CASE SendFragment
  <2>1. PICK g \in Frame : /\ g.pc = "send_data" /\ g.own = transport
                           /\ g.p.start = ~sendFrag /\ sendFrag' = ~g.p.fin
                           /\ Moved(App, {g})
    BY <1>4, SendFragmentKeeps
  <2>2. OutboundInv'
    BY <1>4, <2>1, SendFragmentKeepsOutbound
  <2>3. Calm(DialPcs, {})
    <3>1. "close" \notin DialPcs /\ "close" \notin {} /\ \A f \in {g} : f.pc \notin DialPcs
      BY <2>1 DEF DialPcs
    <3>2. stack[App] = <<>> \/ Top(App).pc \notin {}
      OBVIOUS
    <3> QED  BY <2>1, <3>1, <3>2, MovedCalm, ActorFacts
  <2>4. UNCHANGED <<link, server>>
    BY <1>4 DEF SendFragment, linkVars
  <2> QED  BY <2>2, <2>3, <2>4, CalmKeepsDial, LinkSame
<1>5. CASE SendData \/ SendDataFails
  <2>1. OutboundInv'
    <3>1. CASE SendDataFails
      BY <3>1 DEF SendDataFails, OutboundInv, Sound
    <3> QED  BY <1>5, <3>1, SendDataKeepsOutbound
  <2>2. Calm(DialPcs, {})
    <3>1. "close" \notin DialPcs /\ "close" \notin {} /\ \A f \in {} : f.pc \notin DialPcs
      BY DEF DialPcs
    <3>2. stack[App] = <<>> \/ Top(App).pc \notin {}
      OBVIOUS
    <3> QED  BY <1>5, <3>1, <3>2, SendDataKeeps, MovedCalm, ActorFacts
  <2>3. UNCHANGED link /\ server'.on = server.on
    <3>1. CASE SendDataFails
      BY <3>1 DEF SendDataFails, linkVars
    <3>2. CASE SendData
      <4>1. /\ Top(App).p.type = "data" /\ UNCHANGED link
            /\ Transmit(transport, Top(App).p) \/ UNCHANGED server
        BY <3>2, SendDataKeeps DEF SendData, Sends, SendFails
      <4>2. \/ UNCHANGED server
            \/ server' = [server EXCEPT !.receiving = ~Top(App).p.fin,
                                        !.malformed = @ \/ server.receiving = Top(App).p.start]
        BY <4>1 DEF Transmit, ServerTakes
      <4> QED  BY <4>1, <4>2 DEF BaseInv, TypeInv, LinkType
    <3> QED  BY <1>5, <3>1, <3>2
  <2> QED  BY <2>1, <2>2, <2>3, CalmKeepsDial, LinkSame
<1>6. CASE \E x \in Actors : GiveUp(x)
  <2>1. DialInv'
    BY <1>6, GiveUpUnsent, CalmKeepsDial, LinkSame DEF Unsent
  <2> QED  BY <1>6, <2>1, GiveUpKeepsOutbound
<1>7. CASE \E x \in Actors : Drop(x) \/ Tell(x)
  BY <1>1, <1>7, TeardownUnsent
<1>8. ASSUME NEW x \in {App, Mt}, Establishing(x)
      PROVE  DialInv' /\ OutboundInv'
  <2>1. CASE (Establish(x) /\ state # "down") \/ WaitFails(x)
    <3>1. Unsent /\ SendSteady /\ (~CreateFails(x) => UNCHANGED state)
      BY <2>1, FailureUnsent
    <3>2. UNCHANGED state
      BY <2>1 DEF Establish, WaitFails, clientVars
    <3> QED  BY <1>1, <3>1, <3>2
  <2>2. CASE CreateFails(x)
    <3>1. Unsent /\ SendSteady
      BY <2>2, FailureUnsent
    <3>2. DialInv'
      BY <3>1, CalmKeepsDial DEF Unsent, SendSteady
    <3>3. CASE Astray
      BY <3>1, <3>2, <3>3 DEF OutboundInv, Sound, Astray, SendSteady
    <3>4. CASE ~Astray
      <4>1. stack[x] # <<>> /\ Top(x) \in Opening
        BY <2>2, CreateFailsKeeps DEF Opening
      <4>2. transport = 0
        BY <3>4, <4>1, OpeningAlone DEF PhaseInv
      <4> QED  BY <3>1, <3>2, <4>2, CalmKeepsOutbound
    <3> QED  BY <3>2, <3>3, <3>4
  <2>3. CASE Establish(x) /\ state = "down"
    <3>1. PICK g \in Frame : g.pc = "create" /\ Moved(x, {g})
      BY <2>3, EstablishKeeps
    <3>2. /\ x \in Actors /\ UNCHANGED <<link, server>> /\ stack[x] # <<>>
      BY <2>3, ActorFacts, EstablishKeeps DEF Establish, linkVars
    <3>3. \A t : {g} \cap Trying(t) = {} /\ {g} \cap Dialing(t) = {}
      BY <3>1 DEF Trying, Dialing
    <3>4. \A y \in Actors : \A t \in Transports :
              /\ Has(stack'[y], Trying(t)) => Has(stack[y], Trying(t))
              /\ Has(stack'[y], Dialing(t)) => Has(stack[y], Dialing(t))
      BY <3>1, <3>2, <3>3, DialSets, StaysTrying
    <3>5. DialInv'
      BY <3>2, <3>4, DialKeeps, LinkSame
    <3> QED  BY <2>3, <3>5, EstablishKeepsOutbound
  <2>4. CASE Create(x)
    BY <2>4, CreateKeepsDial, CreateKeepsOutbound
  <2>5. CASE Assign(x)
    BY <2>5, AssignKeepsDial, AssignKeepsOutbound
  <2>6. CASE SendUpgrade(x)
    BY <2>6, SendUpgradeKeepsDial, SendUpgradeKeepsOutbound
  <2>7. CASE WaitOpen(x)
    BY <2>7, WaitOpenUnsent, CalmKeepsDial, WaitOpenKeepsOutbound DEF Unsent, SendSteady
  <2> QED  BY <1>8, <2>1, <2>2, <2>3, <2>4, <2>5, <2>6, <2>7 DEF Establishing
<1> QED  BY <1>2, <1>3, <1>4, <1>5, <1>6, <1>7, <1>8, StepKinds DEF PhaseNext

LEMMA OutboundAlways == Spec => [](DialInv /\ OutboundInv)
<1>1. Init => DialInv /\ OutboundInv
  <2> SUFFICES ASSUME Init PROVE DialInv /\ OutboundInv
    OBVIOUS
  <2>1. \A H : ~Anywhere(stack, H) /\ ~Has(stack[App], H)
    BY NoCallsAtFirst, ActorFacts
  <2>2. server.on = 0 /\ server.malformed = FALSE /\ transport = 0
    BY DEF Init
  <2>3. DialInv
    BY <2>1, <2>2, NotZero DEF DialInv
  <2> QED  BY <2>1, <2>2, <2>3 DEF OutboundInv, SendingInv, FreshInv, FragmentInv
<1>2. BaseInv /\ (PhaseInv /\ ConnectedInv) /\ (DialInv /\ OutboundInv) /\ [Next]_vars
          => (DialInv /\ OutboundInv)'
  BY OutboundSteps
<1> QED  BY <1>1, <1>2, BaseAlways, PhaseAlways, PTL DEF Spec

\* SoftwareWsClient::SendFragment, which moves send_fragment_open_ on under the lock and
\* sends the frame once it has let go of it: what the server gets on a connection is whole
\* messages, a start, continuations and a fin, unless a frame failed to go out or
\* connections were taken for one another.
THEOREM WsOutboundWhole == Spec => []OutboundWhole
<1>1. OutboundInv => OutboundWhole
  BY DEF OutboundInv, OutboundWhole, Sound
<1> QED  BY <1>1, OutboundAlways, PTL
=============================================================================
