-------------------------- MODULE MqttClientProofs --------------------------
(***************************************************************************)
(* Proofs about the MQTT client of MqttClient: its types; that a           *)
(* connection has one owner at every moment, which makes the report of its *)
(* end come once; that a session has its transport and its keep-alive      *)
(* task; and that a QoS 2 message is delivered at most once.               *)
(***************************************************************************)
EXTENDS MqttClient, StackTheorems, SequenceTheorems, WellFoundedInduction

-----------------------------------------------------------------------------
(* The inductive invariant: types. *)

MaybeTransport == {0} \cup Transports

Ids == (0 .. MaxPacketId) \cup BrokerIds

\* A packet; the ids of the two kinds of request are kept apart.
Packet ==
    {p \in [type : PacketTypes, id : Ids, m : Msgs \cup {0}, n : Nat] :
        /\ p.type \in {"subscribe", "unsubscribe", "suback", "subnack", "unsuback"}
               => p.id \in 1 .. MaxPacketId
        /\ p.type = "pubrel" => p.id \in BrokerIds}

\* The calls that any thread can be in, and those that only one is in.
SharedPcs == {"give_up", "hush", "drop", "tell", "stop", "join"}
AppPcs == {"create", "assign", "send_connect", "wait", "start", "up", "send"}
RxPcs == {"overflow", "take", "handle", "pubrec", "pubcomp", "deliver", "refused"}
KaPcs == {"loop", "store", "tick"}

OwnPcs(x) == IF x = App THEN AppPcs ELSE IF x = Rx THEN RxPcs ELSE KaPcs

Frame ==
    [pc : SharedPcs \cup AppPcs \cup RxPcs \cup KaPcs, p : Packet, m : Msgs \cup (0 .. MaxEvents),
     own : MaybeTransport, t : MaybeTransport, bye : BOOLEAN, then : {"none", "start", "give_up"}]

\* The frames on the stack of x when the links are l.  What is told of has been closed,
\* and a packet is handled for the transport that it came from.
FramesOf(x, l) ==
    {f \in Frame :
        /\ f.pc \in SharedPcs \cup OwnPcs(x)
        /\ f.pc \in {"stop", "join"} => f.then = "give_up" \/ (x = App /\ f.then = "start")
        /\ f.pc \in {"drop", "tell"} => f.t \in Transports
        /\ f.pc = "tell" => l[f.t] = "closed"
        /\ f.pc \in {"assign"} \cup RxPcs => f.own \in Transports}

\* The frames that are called by nobody.
Bottom ==
    {f \in Frame : f.pc \in AppPcs \cup RxPcs \cup KaPcs
                   \/ (f.pc \in {"stop", "join"} /\ f.then = "start")}

StackInv ==
    /\ DOMAIN stack = Actors
    /\ \A x \in Actors : stack[x] \in Seq(FramesOf(x, link)) /\ Depths(stack[x], Bottom) \subseteq {0}

ClientType ==
    /\ transport \in MaybeTransport
    /\ connected \in BOOLEAN /\ connecting \in BOOLEAN
    /\ connack \in {"none", "ok", "refused"}
    /\ rxBuf \in Seq(Packet) /\ Len(rxBuf) <= MaxBuffer
    /\ held \in [BrokerIds -> Msgs \cup {0}]
    /\ topics \in [1 .. MaxPacketId -> 0 .. MaxEvents]
    /\ lastId \in 0 .. MaxPacketId

KaType ==
    /\ keepAlive \in BOOLEAN /\ kaTask \in BOOLEAN /\ kaRunning \in BOOLEAN /\ ping \in BOOLEAN

BrokerStates == {"new", "sent", "released", "resend", "rerelease", "done", "gone"}

\* A message that the broker is sending has an id.
LinkType ==
    /\ link \in [Transports -> {"none", "open", "silent", "closed"}]
    /\ wire \in [Transports -> Seq(Packet)]
    /\ broker \in [st : [Msgs -> BrokerStates], id : [Msgs -> BrokerIds \cup {0}], on : MaybeTransport]
    /\ \A m \in Msgs : broker.st[m] \in {"sent", "released", "resend", "rerelease"}
                           => broker.id[m] \in BrokerIds

HistoryType ==
    /\ budget \in 0 .. MaxEvents
    /\ delivered \in [Msgs -> Nat]
    /\ told \in [Transports -> {0, 1}]
    /\ answered \in BOOLEAN
    /\ cut \subseteq Msgs
    /\ lapses \subseteq {"strayed", "stale", "raced", "late"}

-----------------------------------------------------------------------------
(* The inductive invariant: the owner of a connection. *)

\* The frames that own transport t: Connect until it is transport_, and the Teardown
\* that took it until it has been reported.
Holding(t) ==
    {f \in Frame : (f.pc = "assign" /\ f.own = t) \/ (f.pc \in {"hush", "drop", "tell"} /\ f.t = t)}

Creating == {f \in Frame : f.pc = "create"}
Opening == {f \in Frame : f.pc \in {"create", "assign"}}
Starting == {f \in Frame : f.pc = "start"}

\* A transport that exists is owned by one frame, by transport_ or by nobody any more;
\* by nobody only after it was closed and its end reported.
OneOwner(t) ==
    /\ \A x, y \in Actors : \A d \in Depths(stack[x], Holding(t)), e \in Depths(stack[y], Holding(t)) :
           x = y /\ d = e
    /\ \A x \in Actors :
           Depths(stack[x], Holding(t)) # {} => transport # t /\ told[t] = 0 /\ link[t] # "none"
    /\ transport = t => told[t] = 0 /\ link[t] # "none"
    /\ told[t] = 1 => link[t] = "closed"
    /\ link[t] # "none" =>
           told[t] = 1 \/ transport = t \/ \E x \in Actors : Depths(stack[x], Holding(t)) # {}

OwnerInv == \A t \in Transports : OneOwner(t)

\* While Connect makes a transport there is none, and one is left to make; the task
\* that Connect is about to start is not there, nor has it a stack without being there.
ConnectInv ==
    /\ Depths(stack[App], Opening) # {} => transport = 0
    /\ Depths(stack[App], Creating) # {} => \E t \in Transports : link[t] = "none"
    /\ Depths(stack[App], Starting) # {} => ~kaTask
    /\ stack[Ka] # <<>> => kaTask

TypeInv == StackInv /\ ClientType /\ KaType /\ LinkType /\ HistoryType

MqttInv == TypeInv /\ OwnerInv /\ ConnectInv


-----------------------------------------------------------------------------
(* What a step leaves alone. *)

\* The frames that neither own a transport nor are about to make one or the task.
Quiet == {f \in Frame : f.pc \notin {"create", "assign", "start", "hush", "drop", "tell"}}

\* A connection that is closed stays closed; none comes into being.
ClosedStays == \A t \in Transports : link[t] = "closed" => link'[t] = "closed"
NoneStays == \A t \in Transports : link'[t] = "none" <=> link[t] = "none"

\* The calls on stack s of thread x are in order.
GoodStack(x, s, l) == s \in Seq(FramesOf(x, l)) /\ Depths(s, Bottom) \subseteq {0}

\* s and r have the frames that are not quiet at the same depths.
SameOwners(s, r) == \A H : (\A h \in H : h \notin Quiet) => Depths(s, H) = Depths(r, H)

\* The stacks change in nothing that ownership depends on.
Quietly ==
    /\ StackInv'
    /\ \A x \in Actors : SameOwners(stack'[x], stack[x])
    /\ stack'[Ka] # <<>> => stack[Ka] # <<>>

LEMMA ActorFacts ==
    /\ App \in Actors /\ Rx \in Actors /\ Ka \in Actors
    /\ App # Rx /\ App # Ka /\ Rx # Ka
    /\ \A x \in Actors : x = App \/ x = Rx \/ x = Ka
  BY ActorsAssumption DEF Actors

LEMMA FramesGrow ==
    ASSUME ClosedStays, NEW x
    PROVE  FramesOf(x, link) \subseteq FramesOf(x, link')
  BY DEF ClosedStays, FramesOf

LEMMA GoodGrows ==
    ASSUME ClosedStays, NEW x, NEW s, GoodStack(x, s, link)
    PROVE  GoodStack(x, s, link')
  BY FramesGrow, StackGrows DEF GoodStack

LEMMA StackSet ==
    ASSUME StackInv, ClosedStays, NEW x \in Actors, NEW s, SetStack(x, s),
           GoodStack(x, s, link')
    PROVE  /\ StackInv'
           /\ stack'[x] = s
           /\ \A y \in Actors \ {x} : stack'[y] = stack[y]
<1>1. /\ DOMAIN stack' = Actors /\ stack'[x] = s
      /\ \A y \in Actors \ {x} : stack'[y] = stack[y]
  BY DEF StackInv, SetStack
<1>2. ASSUME NEW y \in Actors
      PROVE  GoodStack(y, stack'[y], link')
  <2>1. CASE y = x
    BY <1>1, <2>1
  <2>2. CASE y # x
    <3>1. GoodStack(y, stack[y], link)
      BY DEF StackInv, GoodStack
    <3> QED  BY <1>1, <2>2, <3>1, GoodGrows
  <2> QED  BY <2>1, <2>2
<1> QED  BY <1>1, <1>2 DEF StackInv, GoodStack

LEMMA StacksStay ==
    ASSUME StackInv, ClosedStays, UNCHANGED stack
    PROVE  Quietly
<1>1. ASSUME NEW y \in Actors
      PROVE  GoodStack(y, stack'[y], link')
  <2>1. GoodStack(y, stack[y], link)
    BY DEF StackInv, GoodStack
  <2> QED  BY <2>1, GoodGrows
<1> QED  BY <1>1 DEF Quietly, StackInv, GoodStack, SameOwners

\* The innermost call of a thread that is in one.
LEMMA OnTop ==
    ASSUME StackInv, NEW x \in Actors, stack[x] # <<>>
    PROVE  /\ Top(x) \in FramesOf(x, link) /\ Top(x) \in Frame
           /\ Tail(stack[x]) \in Seq(FramesOf(x, link))
           /\ stack[x] \in Seq(FramesOf(x, link))
           /\ Len(stack[x]) \in Nat /\ Len(stack[x]) > 0
           /\ \A H : Len(stack[x]) - 1 \in Depths(stack[x], H) <=> Top(x) \in H
           /\ Depths(stack[x], Bottom) \subseteq {0}
<1>1. stack[x] \in Seq(FramesOf(x, link)) /\ Depths(stack[x], Bottom) \subseteq {0}
  BY DEF StackInv
<1>2. /\ Head(stack[x]) \in FramesOf(x, link)
      /\ Tail(stack[x]) \in Seq(FramesOf(x, link))
      /\ Len(stack[x]) \in Nat /\ Len(stack[x]) > 0
      /\ \A H : Len(stack[x]) - 1 \in Depths(stack[x], H) <=> Head(stack[x]) \in H
  BY <1>1, StackType
<1> QED  BY <1>1, <1>2 DEF Top, FramesOf

\* The innermost call goes on as g.
LEMMA Continues ==
    ASSUME StackInv, ClosedStays, NEW x \in Actors, stack[x] # <<>>, NEW g, Continue(x, g),
           g \in FramesOf(x, link'), g \in Bottom => Top(x) \in Bottom
    PROVE  /\ StackInv'
           /\ \A y \in Actors \ {x} : stack'[y] = stack[y]
           /\ stack'[x] # <<>> /\ Head(stack'[x]) = g /\ Len(stack'[x]) = Len(stack[x])
           /\ Len(stack[x]) \in Nat
           /\ \A H : Depths(stack'[x], H) =
                         (Depths(stack[x], H) \ {Len(stack[x]) - 1})
                             \cup (IF g \in H THEN {Len(stack[x]) - 1} ELSE {})
<1> DEFINE s == <<g>> \o Tail(stack[x])
<1>1. stack[x] \in Seq(FramesOf(x, link')) /\ Len(stack[x]) \in Nat /\ Len(stack[x]) > 0
  BY OnTop, FramesGrow, StackGrows
<1>2. /\ s \in Seq(FramesOf(x, link'))
      /\ s # <<>> /\ Head(s) = g /\ Len(s) = Len(stack[x])
      /\ \A H : Depths(s, H) = (Depths(stack[x], H) \ {Len(stack[x]) - 1})
                                   \cup (IF g \in H THEN {Len(stack[x]) - 1} ELSE {})
  BY <1>1, Replaced
<1>3. SetStack(x, s)
  BY DEF Continue
<1> HIDE DEF s
<1>4. GoodStack(x, s, link')
  <2>1. Depths(stack[x], Bottom) \subseteq {0}
    BY OnTop
  <2>2. Top(x) \in Bottom => Len(stack[x]) - 1 \in Depths(stack[x], Bottom)
    BY OnTop
  <2>3. Depths(s, Bottom) \subseteq {0}
    BY <1>2, <2>1, <2>2
  <2> QED  BY <1>2, <2>3 DEF GoodStack
<1>5. StackInv' /\ stack'[x] = s /\ \A y \in Actors \ {x} : stack'[y] = stack[y]
  BY <1>3, <1>4, StackSet
<1> QED  BY <1>1, <1>2, <1>5

LEMMA ContinuesQuietly ==
    ASSUME StackInv, ClosedStays, NEW x \in Actors, stack[x] # <<>>, NEW g, Continue(x, g),
           g \in FramesOf(x, link'), g \in Bottom => Top(x) \in Bottom,
           Top(x) \in Quiet, g \in Quiet
    PROVE  Quietly
<1>1. /\ StackInv' /\ \A y \in Actors \ {x} : stack'[y] = stack[y]
      /\ \A H : Depths(stack'[x], H) =
                    (Depths(stack[x], H) \ {Len(stack[x]) - 1})
                        \cup (IF g \in H THEN {Len(stack[x]) - 1} ELSE {})
  BY Continues
<1>2. \A H : Len(stack[x]) - 1 \in Depths(stack[x], H) <=> Top(x) \in H
  BY OnTop
<1>3. SameOwners(stack'[x], stack[x])
  <2> SUFFICES ASSUME NEW H, \A h \in H : h \notin Quiet
               PROVE  Depths(stack'[x], H) = Depths(stack[x], H)
    BY DEF SameOwners
  <2>1. g \notin H /\ Top(x) \notin H
    OBVIOUS
  <2>2. Len(stack[x]) - 1 \notin Depths(stack[x], H)
    BY <1>2, <2>1
  <2>3. Depths(stack'[x], H) = Depths(stack[x], H) \ {Len(stack[x]) - 1}
    BY <1>1, <2>1
  <2> QED  BY <2>2, <2>3
<1>4. \A y \in Actors : SameOwners(stack'[y], stack[y])
  BY <1>1, <1>3 DEF SameOwners
<1>5. stack'[Ka] # <<>> => stack[Ka] # <<>>
  BY <1>1, ActorFacts
<1> QED  BY <1>1, <1>4, <1>5 DEF Quietly

\* The innermost call returns.
LEMMA Returns ==
    ASSUME StackInv, NEW x \in Actors, stack[x] # <<>>
    PROVE  /\ GoodStack(x, Tail(stack[x]), link)
           /\ \A H : Depths(Tail(stack[x]), H) = Depths(stack[x], H) \ {Len(stack[x]) - 1}
<1>1. stack[x] \in Seq(FramesOf(x, link)) /\ Depths(stack[x], Bottom) \subseteq {0}
  BY OnTop
<1>2. /\ Tail(stack[x]) \in Seq(FramesOf(x, link))
      /\ \A H : Depths(Tail(stack[x]), H) = Depths(stack[x], H) \ {Len(stack[x]) - 1}
  BY <1>1, Popped
<1> QED  BY <1>1, <1>2 DEF GoodStack

LEMMA QuietSet ==
    ASSUME StackInv, ClosedStays, NEW x \in Actors, NEW s, SetStack(x, s),
           GoodStack(x, s, link'), SameOwners(s, stack[x]),
           x = Ka /\ s # <<>> => stack[x] # <<>>
    PROVE  Quietly
<1>1. StackInv' /\ stack'[x] = s /\ \A y \in Actors \ {x} : stack'[y] = stack[y]
  BY StackSet
<1>2. \A y \in Actors : SameOwners(stack'[y], stack[y])
  BY <1>1 DEF SameOwners
<1>3. stack'[Ka] # <<>> => stack[Ka] # <<>>
  BY <1>1, ActorFacts
<1> QED  BY <1>1, <1>2, <1>3 DEF Quietly

\* A quiet innermost call returns; one that nobody called was alone.
LEMMA QuietTail ==
    ASSUME StackInv, NEW x \in Actors, stack[x] # <<>>, Top(x) \in Quiet
    PROVE  SameOwners(Tail(stack[x]), stack[x])
<1>1. \A H : Depths(Tail(stack[x]), H) = Depths(stack[x], H) \ {Len(stack[x]) - 1}
  BY Returns
<1>2. \A H : Len(stack[x]) - 1 \in Depths(stack[x], H) <=> Top(x) \in H
  BY OnTop
<1> QED  BY <1>1, <1>2 DEF SameOwners

LEMMA QuietAlone ==
    ASSUME StackInv, NEW x \in Actors, stack[x] # <<>>, Top(x) \in Quiet, Top(x) \in Bottom
    PROVE  /\ Tail(stack[x]) = <<>>
           /\ \A H : (\A h \in H : h \notin Quiet) => Depths(stack[x], H) = {}
<1>1. Tail(stack[x]) = <<>>
  BY OnTop, BottomOnTop DEF Top
<1>2. SameOwners(Tail(stack[x]), stack[x])
  BY QuietTail
<1>3. \A H : Depths(<<>>, H) = {}
  BY Empty
<1> QED  BY <1>1, <1>2, <1>3 DEF SameOwners

LEMMA ReturnsQuietly ==
    ASSUME StackInv, ClosedStays, NEW x \in Actors, stack[x] # <<>>, Top(x) \in Quiet, Return(x)
    PROVE  Quietly
<1>1. GoodStack(x, Tail(stack[x]), link')
  BY Returns, GoodGrows
<1>2. SameOwners(Tail(stack[x]), stack[x])
  BY QuietTail
<1> QED  BY <1>1, <1>2, QuietSet DEF Return

\* An idle thread makes a call.
LEMMA CallsQuietly ==
    ASSUME StackInv, ClosedStays, NEW x \in {App, Rx}, stack[x] = <<>>, NEW g,
           SetStack(x, <<g>>), g \in FramesOf(x, link'), g \in Quiet
    PROVE  Quietly
<1>1. /\ <<g>> \in Seq(FramesOf(x, link'))
      /\ \A H : Depths(<<g>>, H) = IF g \in H THEN {0} ELSE {}
  BY Single
<1>2. GoodStack(x, <<g>>, link')
  BY <1>1 DEF GoodStack
<1>3. \A H : Depths(stack[x], H) = {}
  BY Empty
<1>4. SameOwners(<<g>>, stack[x])
  BY <1>1, <1>3 DEF SameOwners
<1> QED  BY <1>2, <1>4, QuietSet, ActorFacts

\* The frames that are made: none is in hand of a packet, a message or a transport.
LEMMA FrameZero ==
    /\ NoPkt \in Packet
    /\ DOMAIN Frame0 = {"pc", "p", "m", "own", "t", "bye", "then"}
    /\ Frame0.p = NoPkt /\ Frame0.m = 0 /\ Frame0.own = 0 /\ Frame0.t = 0
    /\ Frame0.bye = FALSE /\ Frame0.then = "none"
    /\ 0 \in Msgs \cup (0 .. MaxEvents) /\ 0 \in MaybeTransport
<1>1. NoPkt \in Packet
  BY BoundsAssumption DEF NoPkt, Pkt, Packet, PacketTypes, Ids
<1> QED  BY <1>1, BoundsAssumption DEF Frame0, MaybeTransport

LEMMA DisconnectFacts ==
    ASSUME ClientType, NEW x \in Actors, NEW l
    PROVE  /\ DisconnectFrame \in FramesOf(x, l)
           /\ DisconnectFrame \in Quiet /\ DisconnectFrame \notin Bottom
<1>1. /\ DisconnectFrame \in Frame /\ DisconnectFrame.pc = "stop"
      /\ DisconnectFrame.then = "give_up"
  BY FrameZero DEF ClientType, DisconnectFrame, Frame0, Frame, SharedPcs
<1> QED  BY <1>1 DEF FramesOf, SharedPcs, Quiet, Bottom, AppPcs, RxPcs, KaPcs

LEMMA FrameFacts ==
    ASSUME NEW x \in Actors, NEW l, NEW own \in MaybeTransport, NEW bye \in BOOLEAN
    PROVE  /\ TeardownFrame(own, bye) \in FramesOf(x, l)
           /\ TeardownFrame(own, bye) \in Quiet /\ TeardownFrame(own, bye) \notin Bottom
<1>1. TeardownFrame(own, bye) \in Frame /\ TeardownFrame(own, bye).pc = "give_up"
  BY FrameZero DEF TeardownFrame, Frame0, Frame, SharedPcs
<1> QED  BY <1>1 DEF FramesOf, SharedPcs, Quiet, Bottom, AppPcs, RxPcs, KaPcs

\* A callback: what it adds to the calls s is quiet.
LEMMA CallsBack ==
    ASSUME StackInv, ClosedStays, ClientType, budget \in 0 .. MaxEvents,
           NEW x \in Actors, stack[x] # <<>>, NEW s, Callback(x, s), GoodStack(x, s, link')
    PROVE  /\ StackInv' /\ budget' \in 0 .. MaxEvents
           /\ SameOwners(stack'[x], s)
           /\ \A y \in Actors \ {x} : stack'[y] = stack[y]
<1>1. CASE SetStack(x, s) /\ UNCHANGED budget
  BY <1>1, StackSet DEF SameOwners
<1>2. CASE budget > 0 /\ budget' = budget - 1 /\ SetStack(x, <<DisconnectFrame>> \o s)
  <2> DEFINE g == DisconnectFrame
  <2>1. g \in FramesOf(x, link') /\ g \in Quiet /\ g \notin Bottom
    BY DisconnectFacts
  <2>2. budget' \in 0 .. MaxEvents
    BY <1>2, BoundsAssumption
  <2>3. SetStack(x, <<g>> \o s)
    BY <1>2
  <2> HIDE DEF g
  <2>4. /\ <<g>> \o s \in Seq(FramesOf(x, link'))
        /\ \A H : Depths(<<g>> \o s, H) = Depths(s, H) \cup (IF g \in H THEN {Len(s)} ELSE {})
    BY <2>1, Pushed DEF GoodStack
  <2>5. GoodStack(x, <<g>> \o s, link')
    BY <2>1, <2>4 DEF GoodStack
  <2>6. SameOwners(<<g>> \o s, s)
    BY <2>1, <2>4 DEF SameOwners
  <2>7. /\ StackInv' /\ stack'[x] = <<g>> \o s
        /\ \A y \in Actors \ {x} : stack'[y] = stack[y]
    BY <2>3, <2>5, StackSet
  <2> QED  BY <2>2, <2>6, <2>7
<1> QED  BY <1>1, <1>2 DEF Callback

LEMMA CallsBackQuietly ==
    ASSUME StackInv, ClosedStays, ClientType, budget \in 0 .. MaxEvents,
           NEW x \in Actors, stack[x] # <<>>, NEW s, Callback(x, s), GoodStack(x, s, link'),
           SameOwners(s, stack[x])
    PROVE  Quietly /\ budget' \in 0 .. MaxEvents
<1>1. /\ StackInv' /\ budget' \in 0 .. MaxEvents
      /\ SameOwners(stack'[x], s)
      /\ \A y \in Actors \ {x} : stack'[y] = stack[y]
  BY CallsBack
<1>2. \A y \in Actors : SameOwners(stack'[y], stack[y])
  BY <1>1 DEF SameOwners
<1>3. stack'[Ka] # <<>> => stack[Ka] # <<>>
  BY <1>1, ActorFacts
<1> QED  BY <1>1, <1>2, <1>3 DEF Quietly

\* A callback of a call that nobody called, which goes on as g.
LEMMA CallsBackAlone ==
    ASSUME StackInv, ClosedStays, ClientType, budget \in 0 .. MaxEvents,
           NEW x \in Actors, stack[x] # <<>>, Top(x) \in Quiet, Top(x) \in Bottom,
           NEW g, g \in FramesOf(x, link'), g \in Quiet, Callback(x, <<g>>)
    PROVE  Quietly /\ budget' \in 0 .. MaxEvents
<1>1. /\ <<g>> \in Seq(FramesOf(x, link'))
      /\ \A H : Depths(<<g>>, H) = IF g \in H THEN {0} ELSE {}
  BY Single
<1>2. GoodStack(x, <<g>>, link')
  BY <1>1 DEF GoodStack
<1>3. SameOwners(<<g>>, stack[x])
  BY <1>1, QuietAlone DEF SameOwners
<1> QED  BY <1>2, <1>3, CallsBackQuietly

\* The owners, and the calls that make a transport or the task, stay where they are.
OwnersStay ==
    /\ \A x \in Actors, t \in Transports :
           Depths(stack'[x], Holding(t)) = Depths(stack[x], Holding(t))
    /\ Depths(stack'[App], Opening) = Depths(stack[App], Opening)
    /\ Depths(stack'[App], Creating) = Depths(stack[App], Creating)
    /\ Depths(stack'[App], Starting) = Depths(stack[App], Starting)
    /\ stack'[Ka] # <<>> => stack[Ka] # <<>>

LEMMA NotQuiet ==
    /\ \A t \in Transports : \A h \in Holding(t) : h \notin Quiet
    /\ \A h \in Opening : h \notin Quiet
    /\ \A h \in Creating : h \notin Quiet
    /\ \A h \in Starting : h \notin Quiet
  BY DEF Holding, Opening, Creating, Starting, Quiet

LEMMA QuietOwners ==
    ASSUME Quietly
    PROVE  OwnersStay
<1>1. \A x \in Actors, t \in Transports :
          Depths(stack'[x], Holding(t)) = Depths(stack[x], Holding(t))
  BY NotQuiet DEF Quietly, SameOwners
<1>2. /\ Depths(stack'[App], Opening) = Depths(stack[App], Opening)
      /\ Depths(stack'[App], Creating) = Depths(stack[App], Creating)
      /\ Depths(stack'[App], Starting) = Depths(stack[App], Starting)
  BY NotQuiet, ActorFacts DEF Quietly, SameOwners
<1> QED  BY <1>1, <1>2 DEF OwnersStay, Quietly

\* Who owns which transport stays, if transport_ and the reports do.
LEMMA OwnersKeep ==
    ASSUME OwnerInv, ClosedStays, NoneStays, UNCHANGED <<transport, told>>,
           \A x \in Actors, t \in Transports :
               Depths(stack'[x], Holding(t)) = Depths(stack[x], Holding(t))
    PROVE  OwnerInv'
<1> SUFFICES ASSUME NEW t \in Transports PROVE OneOwner(t)'
  BY DEF OwnerInv
<1>1. OneOwner(t)
  BY DEF OwnerInv
<1> QED  BY <1>1 DEF OneOwner, ClosedStays, NoneStays

LEMMA ConnectKeeps ==
    ASSUME ConnectInv, OwnersStay, NoneStays, UNCHANGED <<transport, kaTask>>
    PROVE  ConnectInv'
  BY DEF ConnectInv, OwnersStay, NoneStays

-----------------------------------------------------------------------------
(* The steps of the link and the broker, and what is sent. *)

\* What the client sends; a request has an id of its own.
Outgoing ==
    {p \in [type : PacketTypes, id : Ids, m : Msgs \cup {0}, n : Nat] :
        p.type \in {"subscribe", "unsubscribe"} => p.id \in 1 .. MaxPacketId}

LEMMA LinkSame ==
    ASSUME UNCHANGED link
    PROVE  ClosedStays /\ NoneStays
  BY DEF ClosedStays, NoneStays

LEMMA AnswerKeeps ==
    ASSUME wire \in [Transports -> Seq(Packet)], NEW t \in Transports, NEW p \in Packet, Answer(t, p)
    PROVE  wire' \in [Transports -> Seq(Packet)]
<1>1. Append(wire[t], p) \in Seq(Packet)
  OBVIOUS
<1> QED  BY <1>1 DEF Answer

\* A packet the broker answers with: the ids of requests and of its own releases.
LEMMA PktFacts ==
    ASSUME NEW type \in PacketTypes, NEW id \in Ids, NEW m \in Msgs \cup {0}, NEW n \in Nat,
           type \in {"subscribe", "unsubscribe", "suback", "subnack", "unsuback"}
               => id \in 1 .. MaxPacketId,
           type = "pubrel" => id \in BrokerIds
    PROVE  Pkt(type, id, m, n) \in Packet
  BY DEF Pkt, Packet

LEMMA BrokerAnswers ==
    ASSUME LinkType, NEW t \in Transports, NEW p \in Outgoing, BrokerTakes(t, p), UNCHANGED link
    PROVE  LinkType'
<1> USE DEF LinkType
<1> DEFINE answers == UNCHANGED broker /\ \E q \in Packet : Answer(t, q)
           releases == /\ p.type = "pubrec"
                       /\ \E m \in Msgs : broker.id[m] = p.id /\ broker.st[m] = "sent"
<1>p. p.id \in Ids /\ p.n \in Nat /\ p.type \in PacketTypes /\ 0 \in Ids
  BY BoundsAssumption DEF Outgoing, Ids
<1>1. CASE p.type = "connect"
  <2>1. PICK n \in {0, 1} :
            /\ Answer(t, Pkt("connack", 0, 0, n))
            /\ broker' = IF n = 0 THEN [broker EXCEPT !.on = 0]
                         ELSE [broker EXCEPT !.st = Resumed(p.n = 1), !.on = t]
    BY <1>1 DEF BrokerTakes
  <2>2. wire' \in [Transports -> Seq(Packet)]
    <3>1. Pkt("connack", 0, 0, n) \in Packet
      BY <1>p, PktFacts DEF PacketTypes
    <3> QED  BY <2>1, <3>1, AnswerKeeps
  <2>3. ASSUME NEW m \in Msgs
        PROVE  /\ Resumed(p.n = 1)[m] \in BrokerStates
               /\ Resumed(p.n = 1)[m] \in {"sent", "released", "resend", "rerelease"}
                      => broker.id[m] \in BrokerIds
    BY DEF Resumed, BrokerStates, InFlight
  <2>4. Resumed(p.n = 1) \in [Msgs -> BrokerStates]
    <3>1. DOMAIN Resumed(p.n = 1) = Msgs
          /\ Resumed(p.n = 1) = [m \in Msgs |-> Resumed(p.n = 1)[m]]
      BY DEF Resumed
    <3> HIDE DEF Resumed
    <3> QED  BY <2>3, <3>1
  <2> QED  BY <2>1, <2>2, <2>3, <2>4 DEF MaybeTransport
<1>2. CASE releases
  <2>1. PICK m \in Msgs :
            /\ broker.id[m] = p.id /\ broker.st[m] = "sent"
            /\ broker' = [broker EXCEPT !.st[m] = "released"]
            /\ Answer(t, Pkt("pubrel", p.id, m, 0))
    BY <1>2 DEF BrokerTakes
  <2>2. Pkt("pubrel", p.id, m, 0) \in Packet
    BY <1>p, <2>1, PktFacts DEF PacketTypes
  <2>3. wire' \in [Transports -> Seq(Packet)]
    BY <2>1, <2>2, AnswerKeeps
  <2> QED  BY <2>1, <2>3 DEF BrokerStates
<1>3. CASE p.type = "pubcomp"
  <2> DEFINE st == [m \in Msgs |-> IF broker.id[m] = p.id /\ broker.st[m] = "released"
                                   THEN "done" ELSE broker.st[m]]
             id == [m \in Msgs |-> IF broker.id[m] = p.id /\ broker.st[m] = "released"
                                   THEN 0 ELSE broker.id[m]]
  <2>1. broker' = [broker EXCEPT !.st = st, !.id = id] /\ UNCHANGED wire
    BY <1>3 DEF BrokerTakes
  <2>2. /\ st \in [Msgs -> BrokerStates] /\ id \in [Msgs -> BrokerIds \cup {0}]
        /\ \A m \in Msgs : st[m] \in {"sent", "released", "resend", "rerelease"}
                               => id[m] \in BrokerIds
    BY DEF BrokerStates
  <2> HIDE DEF st, id
  <2>3. broker'.st = st /\ broker'.id = id /\ broker'.on = broker.on
        /\ broker' \in [st : [Msgs -> BrokerStates], id : [Msgs -> BrokerIds \cup {0}],
                        on : MaybeTransport]
    BY <2>1, <2>2
  <2> QED  BY <2>1, <2>2, <2>3
<1>4. CASE answers
  BY <1>4, AnswerKeeps
<1>5. CASE UNCHANGED <<wire, broker>>
  BY <1>5
<1>6. ASSUME p.type = "pingreq" PROVE answers
  BY <1>6, <1>p, PktFacts DEF BrokerTakes, PacketTypes
<1>7. ASSUME p.type = "subscribe" PROVE answers
  <2>1. PICK type \in {"suback", "subnack"} : Answer(t, Pkt(type, p.id, 0, p.n)) /\ UNCHANGED broker
    BY <1>7 DEF BrokerTakes
  <2>2. p.id \in 1 .. MaxPacketId
    BY <1>7 DEF Outgoing
  <2>3. Pkt(type, p.id, 0, p.n) \in Packet
    BY <1>p, <2>2, PktFacts DEF PacketTypes
  <2> QED  BY <1>7, <2>1, <2>3
<1>8. ASSUME p.type = "unsubscribe" PROVE answers
  <2>1. Answer(t, Pkt("unsuback", p.id, 0, 0)) /\ UNCHANGED broker
    BY <1>8 DEF BrokerTakes
  <2>2. p.id \in 1 .. MaxPacketId
    BY <1>8 DEF Outgoing
  <2>3. Pkt("unsuback", p.id, 0, 0) \in Packet
    BY <1>p, <2>2, PktFacts DEF PacketTypes
  <2> QED  BY <1>8, <2>1, <2>3
<1>9. ASSUME p.type = "publish", p.n > 0 PROVE answers
  <2>1. Answer(t, Pkt(IF p.n = 1 THEN "puback" ELSE "pubrec", p.id, 0, 0)) /\ UNCHANGED broker
    BY <1>9 DEF BrokerTakes
  <2>2. Pkt("puback", p.id, 0, 0) \in Packet /\ Pkt("pubrec", p.id, 0, 0) \in Packet
    BY <1>p, PktFacts DEF PacketTypes
  <2> QED  BY <1>9, <2>1, <2>2
<1>10. ASSUME p.type = "pubrel" PROVE answers
  BY <1>10, <1>p, PktFacts DEF BrokerTakes, PacketTypes
<1>11. ASSUME p.type \notin {"connect", "pubcomp", "pingreq", "subscribe", "unsubscribe", "pubrel"},
              ~(p.type = "publish" /\ p.n > 0), ~releases
       PROVE  UNCHANGED <<wire, broker>>
  BY <1>11 DEF BrokerTakes
<1> QED  BY <1>1, <1>2, <1>3, <1>4, <1>5, <1>6, <1>7, <1>8, <1>9, <1>10, <1>11

LEMMA SendKeeps ==
    ASSUME LinkType, transport \in MaybeTransport, NEW p \in Outgoing, SendPacket(p), UNCHANGED link
    PROVE  LinkType'
<1>1. CASE UNCHANGED <<wire, broker>>
  BY <1>1 DEF LinkType
<1>2. CASE transport # 0 /\ BrokerTakes(transport, p)
  BY <1>2, BrokerAnswers DEF MaybeTransport
<1> QED  BY <1>1, <1>2 DEF SendPacket, Sends, SendFails, CanSend

\* A step that keeps the types and the owners.
LEMMA QuietAction ==
    ASSUME MqttInv, Quietly, ClosedStays, NoneStays, UNCHANGED <<transport, told, kaTask>>,
           ClientType', KaType', LinkType', HistoryType'
    PROVE  MqttInv'
<1>1. OwnersStay
  BY QuietOwners
<1>2. StackInv'
  BY DEF Quietly
<1>3. OwnerInv'
  BY <1>1, OwnersKeep DEF OwnersStay, MqttInv
<1>4. ConnectInv'
  BY <1>1, ConnectKeeps DEF MqttInv
<1> QED  BY <1>2, <1>3, <1>4 DEF MqttInv, TypeInv

LEMMA BrokerPublishesKeeps ==
    ASSUME MqttInv, NEW m \in Msgs, BrokerPublishes(m)
    PROVE  MqttInv'
<1> USE DEF MqttInv, TypeInv
<1>1. PICK id \in BrokerIds :
          /\ broker' = [broker EXCEPT !.st[m] = "sent", !.id[m] = id]
          /\ Answer(broker.on, Pkt("publish", id, m, 2))
  BY DEF BrokerPublishes
<1>2. broker.on \in Transports
  BY DEF BrokerPublishes, BrokerUp, LinkType, MaybeTransport
<1>3. Pkt("publish", id, m, 2) \in Packet
  BY PktFacts DEF PacketTypes, Ids
<1>4. wire' \in [Transports -> Seq(Packet)]
  BY <1>1, <1>2, <1>3, AnswerKeeps DEF LinkType
<1>5. UNCHANGED <<stack, clientVars, kaVars, link, budget, history>>
  BY DEF BrokerPublishes
<1>6. LinkType'
  BY <1>1, <1>4, <1>5 DEF LinkType, BrokerStates
<1>7. ClientType' /\ KaType' /\ HistoryType' /\ UNCHANGED <<transport, told, kaTask>>
  BY <1>5 DEF ClientType, KaType, HistoryType, clientVars, kaVars, history
<1>8. ClosedStays /\ NoneStays
  BY <1>5, LinkSame
<1>9. Quietly
  BY <1>5, <1>8, StacksStay
<1> QED  BY <1>6, <1>7, <1>8, <1>9, QuietAction

LEMMA BrokerReleasesAgainKeeps ==
    ASSUME MqttInv, NEW m \in Msgs, BrokerReleasesAgain(m)
    PROVE  MqttInv'
<1> USE DEF MqttInv, TypeInv
<1>1. /\ broker' = [broker EXCEPT !.st[m] = "released"]
      /\ Answer(broker.on, Pkt("pubrel", broker.id[m], m, 0))
      /\ broker.st[m] = "rerelease"
  BY DEF BrokerReleasesAgain
<1>2. broker.on \in Transports
  BY DEF BrokerReleasesAgain, BrokerUp, LinkType, MaybeTransport
<1>3. Pkt("pubrel", broker.id[m], m, 0) \in Packet
  BY <1>1, PktFacts DEF PacketTypes, Ids, LinkType
<1>4. wire' \in [Transports -> Seq(Packet)]
  BY <1>1, <1>2, <1>3, AnswerKeeps DEF LinkType
<1>5. UNCHANGED <<stack, clientVars, kaVars, link, budget, history>>
  BY DEF BrokerReleasesAgain
<1>6. LinkType'
  BY <1>1, <1>4, <1>5 DEF LinkType, BrokerStates
<1>7. ClientType' /\ KaType' /\ HistoryType' /\ UNCHANGED <<transport, told, kaTask>>
  BY <1>5 DEF ClientType, KaType, HistoryType, clientVars, kaVars, history
<1>8. ClosedStays /\ NoneStays
  BY <1>5, LinkSame
<1>9. Quietly
  BY <1>5, <1>8, StacksStay
<1> QED  BY <1>6, <1>7, <1>8, <1>9, QuietAction

LEMMA BrokerSendsKeeps ==
    ASSUME MqttInv, NEW p \in StrayPackets, BrokerSends(p)
    PROVE  MqttInv'
<1> USE DEF MqttInv, TypeInv
<1>1. budget > 0 /\ budget' = budget - 1 /\ Answer(broker.on, p)
  BY DEF BrokerSends
<1>2. broker.on \in Transports
  BY DEF BrokerSends, BrokerUp, LinkType, MaybeTransport
<1>3. p \in Packet
  BY BoundsAssumption DEF StrayPackets, Pkt, Packet, PacketTypes, Ids
<1>4. wire' \in [Transports -> Seq(Packet)]
  BY <1>1, <1>2, <1>3, AnswerKeeps DEF LinkType
<1>5. UNCHANGED <<stack, clientVars, kaVars, link, broker, history>>
  BY DEF BrokerSends
<1>6. LinkType'
  BY <1>4, <1>5 DEF LinkType
<1>7. ClientType' /\ KaType' /\ HistoryType' /\ UNCHANGED <<transport, told, kaTask>>
  BY <1>1, <1>5, BoundsAssumption DEF ClientType, KaType, HistoryType, clientVars, kaVars, history
<1>8. ClosedStays /\ NoneStays
  BY <1>5, LinkSame
<1>9. Quietly
  BY <1>5, <1>8, StacksStay
<1> QED  BY <1>6, <1>7, <1>8, <1>9, QuietAction

LEMMA LinkGoesSilentKeeps ==
    ASSUME MqttInv, NEW t \in Transports, LinkGoesSilent(t)
    PROVE  MqttInv'
<1> USE DEF MqttInv, TypeInv
<1>1. /\ link[t] = "open" /\ link' = [link EXCEPT ![t] = "silent"]
      /\ wire' = [wire EXCEPT ![t] = <<>>]
      /\ UNCHANGED <<stack, clientVars, kaVars, broker, budget, history>>
  BY DEF LinkGoesSilent
<1>2. ClosedStays /\ NoneStays
  BY <1>1 DEF ClosedStays, NoneStays, LinkType
<1>3. LinkType'
  BY <1>1 DEF LinkType
<1>4. ClientType' /\ KaType' /\ HistoryType' /\ UNCHANGED <<transport, told, kaTask>>
  BY <1>1 DEF ClientType, KaType, HistoryType, clientVars, kaVars, history
<1>5. Quietly
  BY <1>1, <1>2, StacksStay
<1> QED  BY <1>2, <1>3, <1>4, <1>5, QuietAction

LEMMA CloseKeeps ==
    ASSUME LinkType, NEW t \in Transports, link[t] \in {"open", "silent"}, CloseLink(t)
    PROVE  LinkType' /\ ClosedStays /\ NoneStays /\ link'[t] = "closed"
<1>1. /\ link' = [link EXCEPT ![t] = "closed"]
      /\ wire' = [wire EXCEPT ![t] = <<>>]
      /\ broker' = [broker EXCEPT !.on = IF @ = t THEN 0 ELSE @]
  BY DEF CloseLink
<1>2. ClosedStays /\ NoneStays /\ link'[t] = "closed"
  BY <1>1 DEF LinkType, ClosedStays, NoneStays
<1>3. LinkType'
  <2>1. broker.on \in MaybeTransport /\ (IF broker.on = t THEN 0 ELSE broker.on) \in MaybeTransport
    BY DEF LinkType, MaybeTransport
  <2>2. broker' = [broker EXCEPT !.on = IF broker.on = t THEN 0 ELSE broker.on]
    BY <1>1
  <2>3. <<>> \in Seq(Packet)
    OBVIOUS
  <2> QED  BY <1>1, <2>1, <2>2, <2>3 DEF LinkType
<1> QED  BY <1>2, <1>3

LEMMA OnTransportClosedKeeps ==
    ASSUME MqttInv, NEW t \in Transports, OnTransportClosed(t)
    PROVE  MqttInv'
<1> USE DEF MqttInv, TypeInv
<1>1. /\ stack[Rx] = <<>> /\ link[t] \in {"open", "silent"} /\ CloseLink(t)
      /\ SetStack(Rx, <<TeardownFrame(t, FALSE)>>)
      /\ UNCHANGED <<clientVars, kaVars, budget, history>>
  BY DEF OnTransportClosed, Idle
<1>2. LinkType' /\ ClosedStays /\ NoneStays
  BY <1>1, CloseKeeps
<1>3. ClientType' /\ KaType' /\ HistoryType' /\ UNCHANGED <<transport, told, kaTask>>
  BY <1>1 DEF ClientType, KaType, HistoryType, clientVars, kaVars, history
<1>4. TeardownFrame(t, FALSE) \in FramesOf(Rx, link') /\ TeardownFrame(t, FALSE) \in Quiet
  BY FrameFacts, ActorFacts DEF MaybeTransport
<1>5. Quietly
  BY <1>1, <1>2, <1>4, CallsQuietly
<1> QED  BY <1>2, <1>3, <1>5, QuietAction

-----------------------------------------------------------------------------
(* The steps of the calls that own no transport. *)

\* The calls of x that nobody called and that own nothing.
Plain(x) == OwnPcs(x) \ {"create", "assign", "start"}

LEMMA PlainTop ==
    ASSUME StackInv, NEW x \in Actors, NEW l \in Plain(x), At(x, l)
    PROVE  /\ stack[x] # <<>> /\ Top(x) \in Frame /\ Top(x).pc = l
           /\ Top(x) \in Quiet /\ Top(x) \in Bottom
<1>1. stack[x] # <<>> /\ Top(x).pc = l
  BY DEF At
<1>2. Top(x) \in Frame
  BY <1>1, OnTop
<1>3. l \in AppPcs \cup RxPcs \cup KaPcs /\ l \notin {"create", "assign", "start"}
  BY DEF Plain, OwnPcs
<1>4. l \notin SharedPcs
  BY <1>3 DEF AppPcs, RxPcs, KaPcs, SharedPcs
<1> QED  BY <1>1, <1>2, <1>3, <1>4 DEF Quiet, Bottom, SharedPcs

LEMMA PlainFrame ==
    ASSUME NEW x \in Actors, NEW g \in Frame, g.pc \in Plain(x), x = Rx => g.own \in Transports,
           NEW l
    PROVE  g \in FramesOf(x, l) /\ g \in Quiet
<1>1. g.pc \in OwnPcs(x) /\ g.pc \notin {"create", "assign", "start"}
  BY DEF Plain
<1>2. g.pc \notin SharedPcs /\ (x # Rx => g.pc \notin RxPcs)
  BY <1>1 DEF OwnPcs, AppPcs, RxPcs, KaPcs, SharedPcs
<1> QED  BY <1>1, <1>2 DEF Quiet, FramesOf, SharedPcs

LEMMA PlainContinues ==
    ASSUME StackInv, ClosedStays, NEW x \in Actors, NEW l \in Plain(x), At(x, l),
           NEW g \in Frame, g.pc \in Plain(x), x = Rx => g.own \in Transports, Continue(x, g)
    PROVE  Quietly
<1>1. stack[x] # <<>> /\ Top(x) \in Quiet /\ Top(x) \in Bottom
  BY PlainTop
<1>2. g \in FramesOf(x, link') /\ g \in Quiet
  BY PlainFrame
<1> QED  BY <1>1, <1>2, ContinuesQuietly

LEMMA PlainReturns ==
    ASSUME StackInv, ClosedStays, NEW x \in Actors, NEW l \in Plain(x), At(x, l), Return(x)
    PROVE  Quietly
<1>1. stack[x] # <<>> /\ Top(x) \in Quiet
  BY PlainTop
<1> QED  BY <1>1, ReturnsQuietly

LEMMA PlainTearsDown ==
    ASSUME StackInv, ClosedStays, NEW x \in Actors, NEW l \in Plain(x), At(x, l),
           NEW own \in MaybeTransport, NEW bye \in BOOLEAN,
           Continue(x, TeardownFrame(own, bye))
    PROVE  Quietly
<1> DEFINE g == TeardownFrame(own, bye)
<1>1. stack[x] # <<>> /\ Top(x) \in Quiet
  BY PlainTop
<1>2. g \in FramesOf(x, link') /\ g \in Quiet /\ g \notin Bottom
  BY FrameFacts
<1>3. Continue(x, g)
  OBVIOUS
<1> HIDE DEF g
<1> QED  BY <1>1, <1>2, <1>3, ContinuesQuietly

LEMMA PlainCallsBack ==
    ASSUME StackInv, ClosedStays, ClientType, HistoryType, NEW x \in Actors, NEW l \in Plain(x),
           At(x, l), NEW g \in Frame, g.pc \in Plain(x) \/ g.pc = "give_up",
           x = Rx => g.own \in Transports, Callback(x, <<g>>)
    PROVE  Quietly /\ budget' \in 0 .. MaxEvents
<1>1. stack[x] # <<>> /\ Top(x) \in Quiet /\ Top(x) \in Bottom
  BY PlainTop
<1>2. g \in FramesOf(x, link') /\ g \in Quiet
  <2>1. CASE g.pc \in Plain(x)
    BY <2>1, PlainFrame
  <2>2. CASE g.pc = "give_up"
    BY <2>2 DEF FramesOf, SharedPcs, RxPcs, Quiet
  <2> QED  BY <2>1, <2>2
<1>3. budget \in 0 .. MaxEvents
  BY DEF HistoryType
<1> QED  BY <1>1, <1>2, <1>3, CallsBackAlone

LEMMA TeardownIsFrame ==
    ASSUME NEW own \in MaybeTransport, NEW bye \in BOOLEAN
    PROVE  /\ TeardownFrame(own, bye) \in Frame /\ TeardownFrame(own, bye).pc = "give_up"
           /\ TeardownFrame(own, bye).own = own
  BY FrameZero DEF TeardownFrame, Frame0, Frame, SharedPcs

LEMMA TakeNextIsFrame ==
    ASSUME Top(Rx) \in Frame
    PROVE  TakeNext \in Frame /\ TakeNext.pc = "take" /\ TakeNext.own = Top(Rx).own
  BY FrameZero DEF TakeNext, Frame0, Frame, RxPcs

LEMMA PlainPcs ==
    /\ {"loop", "store", "tick"} \subseteq Plain(Ka)
    /\ {"send_connect", "wait", "up", "send"} \subseteq Plain(App)
    /\ RxPcs \subseteq Plain(Rx)
  BY ActorFacts DEF Plain, OwnPcs, AppPcs, RxPcs, KaPcs

LEMMA KaExitKeeps ==
    ASSUME MqttInv, KaExit
    PROVE  MqttInv'
<1> USE DEF MqttInv, TypeInv
<1>1. At(Ka, "loop") /\ Return(Ka) /\ UNCHANGED <<clientVars, kaVars, linkVars, budget, history>>
  BY DEF KaExit
<1>2. /\ ClientType' /\ KaType' /\ LinkType' /\ HistoryType'
      /\ UNCHANGED <<transport, told, kaTask, link>>
  BY <1>1 DEF ClientType, KaType, LinkType, HistoryType, clientVars, kaVars, linkVars, history
<1>3. ClosedStays /\ NoneStays
  BY <1>2, LinkSame
<1>4. Quietly
  BY <1>1, <1>3, PlainReturns, PlainPcs, ActorFacts
<1> QED  BY <1>2, <1>3, <1>4, QuietAction

LEMMA KaPingKeeps ==
    ASSUME MqttInv, KaPing
    PROVE  MqttInv'
<1> USE DEF MqttInv, TypeInv
<1> DEFINE g == [Top(Ka) EXCEPT !.pc = "store", !.t = transport]
<1>1. /\ At(Ka, "loop") /\ SendPacket(Pkt("pingreq", 0, 0, 0)) /\ Continue(Ka, g)
      /\ UNCHANGED <<clientVars, kaVars, link, budget, history>>
  BY DEF KaPing, SendPacket
<1>2. ClientType' /\ KaType' /\ HistoryType' /\ UNCHANGED <<transport, told, kaTask, link>>
  BY <1>1 DEF ClientType, KaType, HistoryType, clientVars, kaVars, history
<1>3. ClosedStays /\ NoneStays
  BY <1>2, LinkSame
<1>4. LinkType'
  <2>1. Pkt("pingreq", 0, 0, 0) \in Outgoing
    BY BoundsAssumption DEF Pkt, Outgoing, PacketTypes, Ids
  <2> QED  BY <1>1, <1>2, <2>1, SendKeeps DEF ClientType
<1>5. Quietly
  <2>1. Top(Ka) \in Frame
    BY <1>1, PlainTop, PlainPcs, ActorFacts
  <2>2. g \in Frame /\ g.pc = "store"
    BY <2>1 DEF Frame, KaPcs, ClientType
  <2> HIDE DEF g
  <2> QED  BY <1>1, <1>3, <2>2, PlainContinues, PlainPcs, ActorFacts
<1> QED  BY <1>2, <1>3, <1>4, <1>5, QuietAction

LEMMA KaTickKeeps ==
    ASSUME MqttInv, KaPingFails \/ KaTick
    PROVE  MqttInv'
<1> USE DEF MqttInv, TypeInv
<1>1. PICK l \in {"loop", "tick"} : At(Ka, l)
  BY DEF KaPingFails, KaTick
<1>2. /\ ClientType' /\ KaType' /\ LinkType' /\ HistoryType'
      /\ UNCHANGED <<transport, told, kaTask, link>>
  <2>1. UNCHANGED <<clientVars, kaVars, link, wire, broker, budget, history>>
    BY DEF KaPingFails, KaTick, SendFails, linkVars
  <2> QED  BY <2>1 DEF ClientType, KaType, LinkType, HistoryType, clientVars, kaVars, history
<1>3. ClosedStays /\ NoneStays
  BY <1>2, LinkSame
<1>4. PICK h \in {"loop", "tick"} : Continue(Ka, [Top(Ka) EXCEPT !.pc = h])
  BY DEF KaPingFails, KaTick, GoTo
<1> DEFINE g == [Top(Ka) EXCEPT !.pc = h]
<1>5. Quietly
  <2>1. Top(Ka) \in Frame
    BY <1>1, PlainTop, PlainPcs, ActorFacts
  <2>2. g \in Frame /\ g.pc = h
    BY <2>1 DEF Frame, KaPcs
  <2>3. Continue(Ka, g)
    BY <1>4
  <2> HIDE DEF g
  <2> QED  BY <1>1, <1>3, <2>2, <2>3, PlainContinues, PlainPcs, ActorFacts
<1> QED  BY <1>2, <1>3, <1>5, QuietAction

LEMMA TimePassesKeeps ==
    ASSUME MqttInv, TimePasses
    PROVE  MqttInv'
<1> USE DEF MqttInv, TypeInv
<1>1. UNCHANGED <<stack, clientVars, kaVars, link, wire, broker, budget, history>>
  BY DEF TimePasses
<1>2. /\ ClientType' /\ KaType' /\ LinkType' /\ HistoryType'
      /\ UNCHANGED <<transport, told, kaTask, link>>
  BY <1>1 DEF ClientType, KaType, LinkType, HistoryType, clientVars, kaVars, history
<1>3. ClosedStays /\ NoneStays
  BY <1>2, LinkSame
<1>4. Quietly
  BY <1>1, <1>3, StacksStay
<1> QED  BY <1>2, <1>3, <1>4, QuietAction

LEMMA KaStoreKeeps ==
    ASSUME MqttInv, KaStore
    PROVE  MqttInv'
<1> USE DEF MqttInv, TypeInv
<1> DEFINE g == [Top(Ka) EXCEPT !.pc = "loop"]
<1>1. /\ At(Ka, "store") /\ Continue(Ka, g) /\ ping' = TRUE /\ answered' = FALSE
      /\ lapses' = IF answered THEN lapses \cup {"late"} ELSE lapses
      /\ UNCHANGED <<clientVars, keepAlive, kaTask, kaRunning, linkVars, budget, delivered, told,
                     cut>>
  BY DEF KaStore, GoTo
<1>2. /\ ClientType' /\ LinkType' /\ HistoryType' /\ KaType'
      /\ UNCHANGED <<transport, told, kaTask, link>>
  <2>1. lapses' \subseteq {"strayed", "stale", "raced", "late"}
    BY <1>1 DEF HistoryType
  <2> QED  BY <1>1, <2>1 DEF ClientType, LinkType, HistoryType, KaType, clientVars, linkVars
<1>3. ClosedStays /\ NoneStays
  BY <1>2, LinkSame
<1>4. Quietly
  <2>1. Top(Ka) \in Frame
    BY <1>1, PlainTop, PlainPcs, ActorFacts
  <2>2. g \in Frame /\ g.pc = "loop"
    BY <2>1 DEF Frame, KaPcs
  <2> HIDE DEF g
  <2> QED  BY <1>1, <1>3, <2>2, PlainContinues, PlainPcs, ActorFacts
<1> QED  BY <1>2, <1>3, <1>4, QuietAction

LEMMA KaTimeoutKeeps ==
    ASSUME MqttInv, KaTimeout
    PROVE  MqttInv'
<1> USE DEF MqttInv, TypeInv
<1> DEFINE g == TeardownFrame(Top(Ka).t, FALSE)
<1>1. At(Ka, "loop") /\ Callback(Ka, <<g>>) /\ UNCHANGED <<clientVars, kaVars, linkVars, history>>
  BY DEF KaTimeout
<1>2. /\ ClientType' /\ KaType' /\ LinkType' /\ UNCHANGED <<transport, told, kaTask, link>>
  BY <1>1 DEF ClientType, KaType, LinkType, clientVars, kaVars, linkVars, history
<1>3. ClosedStays /\ NoneStays
  BY <1>2, LinkSame
<1>4. Quietly /\ budget' \in 0 .. MaxEvents
  <2>1. Top(Ka) \in Frame
    BY <1>1, PlainTop, PlainPcs, ActorFacts
  <2>2. g \in Frame /\ g.pc = "give_up"
    <3>1. Top(Ka).t \in MaybeTransport
      BY <2>1 DEF Frame
    <3> QED  BY <3>1, TeardownIsFrame
  <2> HIDE DEF g
  <2> QED  BY <1>1, <1>3, <2>2, PlainCallsBack, PlainPcs, ActorFacts
<1>5. HistoryType'
  BY <1>1, <1>4 DEF HistoryType, history
<1> QED  BY <1>2, <1>3, <1>4, <1>5, QuietAction

LEMMA SendConnectKeeps ==
    ASSUME MqttInv, SendConnect
    PROVE  MqttInv'
<1> USE DEF MqttInv, TypeInv
<1>1. At(App, "send_connect") /\ UNCHANGED <<clientVars, kaVars, link, budget, history>>
  BY DEF SendConnect
<1>2. ClientType' /\ KaType' /\ HistoryType' /\ UNCHANGED <<transport, told, kaTask, link>>
  BY <1>1 DEF ClientType, KaType, HistoryType, clientVars, kaVars, history
<1>3. ClosedStays /\ NoneStays
  BY <1>2, LinkSame
<1>4. Top(App) \in Frame
  BY <1>1, PlainTop, PlainPcs, ActorFacts
<1>5. Top(App).own \in MaybeTransport /\ Top(App).p \in Outgoing
  BY <1>4 DEF Frame, Packet, Outgoing
<1>6. CASE SendPacket(Top(App).p) /\ GoTo(App, "wait")
  <2> DEFINE g == [Top(App) EXCEPT !.pc = "wait"]
  <2>1. LinkType'
    BY <1>2, <1>5, <1>6, SendKeeps DEF ClientType
  <2>2. g \in Frame /\ g.pc = "wait" /\ Continue(App, g)
    BY <1>4, <1>6 DEF Frame, AppPcs, GoTo
  <2> HIDE DEF g
  <2>3. Quietly
    BY <1>1, <1>3, <2>2, PlainContinues, PlainPcs, ActorFacts
  <2> QED  BY <1>2, <1>3, <2>1, <2>3, QuietAction
<1>7. CASE Continue(App, TeardownFrame(Top(App).own, FALSE)) /\ UNCHANGED <<wire, broker>>
  <2>1. LinkType'
    BY <1>2, <1>7 DEF LinkType
  <2>2. Quietly
    BY <1>1, <1>3, <1>5, <1>7, PlainTearsDown, PlainPcs, ActorFacts
  <2> QED  BY <1>2, <1>3, <2>1, <2>2, QuietAction
<1> QED  BY <1>6, <1>7 DEF SendConnect, SendPacket, SendFails

LEMMA WaitKeeps ==
    ASSUME MqttInv, WaitAccepted \/ WaitRefused \/ WaitTimeout
    PROVE  MqttInv'
<1> USE DEF MqttInv, TypeInv
<1>1. At(App, "wait") /\ UNCHANGED <<clientVars, kaVars, linkVars, budget, history>>
  BY DEF WaitAccepted, WaitRefused, WaitTimeout
<1>2. /\ ClientType' /\ KaType' /\ LinkType' /\ HistoryType'
      /\ UNCHANGED <<transport, told, kaTask, link>>
  BY <1>1 DEF ClientType, KaType, LinkType, HistoryType, clientVars, kaVars, linkVars, history
<1>3. ClosedStays /\ NoneStays
  BY <1>2, LinkSame
<1>4. Top(App) \in Frame /\ stack[App] # <<>> /\ Top(App) \in Quiet /\ Top(App) \in Bottom
  BY <1>1, PlainTop, PlainPcs, ActorFacts
<1>5. Top(App).own \in MaybeTransport
  BY <1>4 DEF Frame
<1>6. CASE WaitAccepted
  <2> DEFINE g == IF keepAlive THEN [Top(App) EXCEPT !.pc = "stop", !.then = "start"]
                               ELSE [Top(App) EXCEPT !.pc = "up"]
  <2>1. g \in FramesOf(App, link') /\ g \in Quiet
    <3>1. CASE keepAlive
      BY <1>4, <3>1 DEF Frame, FramesOf, SharedPcs, RxPcs, Quiet
    <3>2. CASE ~keepAlive
      <4>1. [Top(App) EXCEPT !.pc = "up"] \in Frame /\ [Top(App) EXCEPT !.pc = "up"].pc = "up"
        BY <1>4 DEF Frame, AppPcs
      <4> QED  BY <3>2, <4>1, PlainFrame, PlainPcs, ActorFacts
    <3> QED  BY <3>1, <3>2
  <2>2. Continue(App, g)
    BY <1>6 DEF WaitAccepted, GoTo
  <2> HIDE DEF g
  <2>3. Quietly
    BY <1>3, <1>4, <2>1, <2>2, ContinuesQuietly, ActorFacts
  <2> QED  BY <1>2, <1>3, <2>3, QuietAction
<1>7. CASE WaitRefused \/ WaitTimeout
  <2>1. PICK bye \in BOOLEAN : Continue(App, TeardownFrame(Top(App).own, bye))
    BY <1>7 DEF WaitRefused, WaitTimeout
  <2>2. Quietly
    BY <1>1, <1>3, <1>5, <2>1, PlainTearsDown, PlainPcs, ActorFacts
  <2> QED  BY <1>2, <1>3, <2>2, QuietAction
<1> QED  BY <1>6, <1>7

LEMMA ConnectReturnsKeeps ==
    ASSUME MqttInv, ConnectReturns
    PROVE  MqttInv'
<1> USE DEF MqttInv, TypeInv
<1>1. /\ At(App, "up") /\ Callback(App, Tail(stack[App]))
      /\ UNCHANGED <<clientVars, kaVars, linkVars, history>>
  BY DEF ConnectReturns
<1>2. ClientType' /\ KaType' /\ LinkType' /\ UNCHANGED <<transport, told, kaTask, link>>
  BY <1>1 DEF ClientType, KaType, LinkType, clientVars, kaVars, linkVars, history
<1>3. ClosedStays /\ NoneStays
  BY <1>2, LinkSame
<1>4. stack[App] # <<>> /\ Top(App) \in Quiet
  BY <1>1, PlainTop, PlainPcs, ActorFacts
<1>5. GoodStack(App, Tail(stack[App]), link') /\ SameOwners(Tail(stack[App]), stack[App])
  BY <1>3, <1>4, Returns, GoodGrows, QuietTail, ActorFacts
<1>6. Quietly /\ budget' \in 0 .. MaxEvents
  BY <1>1, <1>3, <1>4, <1>5, CallsBackQuietly, ActorFacts DEF HistoryType
<1>7. HistoryType'
  BY <1>1, <1>6 DEF HistoryType, history
<1> QED  BY <1>2, <1>3, <1>6, <1>7, QuietAction

LEMMA DisconnectKeeps ==
    ASSUME MqttInv, Disconnect
    PROVE  MqttInv'
<1> USE DEF MqttInv, TypeInv
<1>1. /\ stack[App] = <<>> /\ SetStack(App, <<DisconnectFrame>>)
      /\ UNCHANGED <<clientVars, kaVars, linkVars, budget, history>>
  BY DEF Disconnect, Idle
<1>2. /\ ClientType' /\ KaType' /\ LinkType' /\ HistoryType'
      /\ UNCHANGED <<transport, told, kaTask, link>>
  BY <1>1 DEF ClientType, KaType, LinkType, HistoryType, clientVars, kaVars, linkVars, history
<1>3. ClosedStays /\ NoneStays
  BY <1>2, LinkSame
<1>4. Quietly
  BY <1>1, <1>3, CallsQuietly, DisconnectFacts, ActorFacts
<1> QED  BY <1>2, <1>3, <1>4, QuietAction

LEMMA PrepareKeeps ==
    ASSUME MqttInv, NEW type \in {"publish", "subscribe", "unsubscribe"}, NEW qos \in 0 .. 2,
           Prepare(type, qos)
    PROVE  MqttInv'
<1> USE DEF MqttInv, TypeInv
<1> DEFINE id == IF type = "publish" /\ qos = 0 THEN 0 ELSE NextPacketId
           n == IF type = "publish" THEN qos ELSE budget
           g == [Frame0 EXCEPT !.pc = "send", !.p = Pkt(type, id, 0, n)]
<1>0. budget' = budget \/ (budget > 0 /\ budget' = budget - 1)
  <2>1. CASE type = "publish" /\ qos = 0
    BY <2>1 DEF Prepare
  <2>2. CASE ~(type = "publish" /\ qos = 0)
    BY <2>2 DEF Prepare
  <2> QED  BY <2>1, <2>2
<1>1. /\ stack[App] = <<>>
      /\ lastId' = IF id = 0 THEN lastId ELSE id
      /\ topics' = IF type = "publish" THEN topics ELSE [topics EXCEPT ![id] = n]
      /\ SetStack(App, <<g>>)
      /\ UNCHANGED <<transport, connected, connecting, connack, rxBuf, held, kaVars, linkVars,
                     history>>
  BY DEF Prepare, Idle
<1>2. NextPacketId \in 1 .. MaxPacketId
  BY BoundsAssumption DEF NextPacketId, ClientType
<1>3. /\ id \in 0 .. MaxPacketId /\ n \in Nat
      /\ type # "publish" => id \in 1 .. MaxPacketId
      /\ type # "publish" => n \in 0 .. MaxEvents
  BY <1>2, BoundsAssumption DEF HistoryType
<1>4. g \in Frame /\ g.pc = "send"
  <2> HIDE DEF id, n
  <2>0. type \in PacketTypes /\ id \in Ids /\ type # "pubrel"
    BY <1>3 DEF PacketTypes, Ids
  <2>1. Pkt(type, id, 0, n) \in Packet
    BY <1>3, <2>0, PktFacts
  <2> QED  BY <2>1, FrameZero DEF Frame, Frame0, AppPcs
<1> HIDE DEF g, id, n
<1>5. ClientType'
  <2>1. topics' \in [1 .. MaxPacketId -> 0 .. MaxEvents]
    BY <1>1, <1>3 DEF ClientType
  <2>2. lastId' \in 0 .. MaxPacketId
    BY <1>1, <1>3 DEF ClientType
  <2> QED  BY <1>1, <2>1, <2>2 DEF ClientType
<1>6. KaType' /\ LinkType' /\ HistoryType' /\ UNCHANGED <<transport, told, kaTask, link>>
  BY <1>0, <1>1, BoundsAssumption DEF KaType, LinkType, HistoryType, kaVars, linkVars, history
<1>7. ClosedStays /\ NoneStays
  BY <1>6, LinkSame
<1>8. g \in FramesOf(App, link') /\ g \in Quiet
  BY <1>4, PlainFrame, PlainPcs, ActorFacts
<1>9. Quietly
  BY <1>1, <1>7, <1>8, CallsQuietly, ActorFacts
<1> QED  BY <1>5, <1>6, <1>7, <1>9, QuietAction

LEMMA FilterGone ==
    ASSUME topics \in [1 .. MaxPacketId -> 0 .. MaxEvents], NEW i
    PROVE  [topics EXCEPT ![i] = 0] \in [1 .. MaxPacketId -> 0 .. MaxEvents]
<1>1. 0 \in 0 .. MaxEvents
  BY BoundsAssumption
<1> QED  BY <1>1

LEMMA SendRequestKeeps ==
    ASSUME MqttInv, SendRequest
    PROVE  MqttInv'
<1> USE DEF MqttInv, TypeInv
<1>1. /\ At(App, "send") /\ SendPacket(Top(App).p) /\ Return(App)
      /\ topics' = topics
         \/ (Top(App).p.type # "publish" /\ topics' = [topics EXCEPT ![Top(App).p.id] = 0])
      /\ UNCHANGED <<transport, connected, connecting, connack, rxBuf, held, lastId, kaVars, link,
                     budget, history>>
  BY DEF SendRequest, SendPacket
<1>2. Top(App) \in Frame
  BY <1>1, PlainTop, PlainPcs, ActorFacts
<1>3. Top(App).p \in Outgoing
  BY <1>2 DEF Frame, Packet, Outgoing
<1>4. LinkType'
  BY <1>1, <1>3, SendKeeps DEF ClientType
<1>5. ClientType'
  <2>1. topics' \in [1 .. MaxPacketId -> 0 .. MaxEvents]
    BY <1>1, FilterGone DEF ClientType
  <2> QED  BY <1>1, <2>1 DEF ClientType
<1>6. KaType' /\ HistoryType' /\ UNCHANGED <<transport, told, kaTask, link>>
  BY <1>1 DEF KaType, HistoryType, kaVars, history
<1>7. ClosedStays /\ NoneStays
  BY <1>6, LinkSame
<1>8. Quietly
  BY <1>1, <1>7, PlainReturns, PlainPcs, ActorFacts
<1> QED  BY <1>4, <1>5, <1>6, <1>7, <1>8, QuietAction

-----------------------------------------------------------------------------
(* The steps of the receive thread. *)

LEMMA OnTransportDataKeeps ==
    ASSUME MqttInv, NEW t \in Transports, NEW n \in 1 .. Len(wire[t]), OnTransportData(t, n)
    PROVE  MqttInv'
<1> USE DEF MqttInv, TypeInv
<1> DEFINE buffer == rxBuf \o SubSeq(wire[t], 1, n)
           f == [Frame0 EXCEPT !.own = t]
<1>1. /\ stack[Rx] = <<>>
      /\ wire' = [wire EXCEPT ![t] = SubSeq(@, n + 1, Len(@))]
      /\ \/ rxBuf' = <<>> /\ SetStack(Rx, <<[f EXCEPT !.pc = "overflow"]>>)
         \/ /\ Len(buffer) <= MaxBuffer /\ rxBuf' = buffer
            /\ SetStack(Rx, <<[f EXCEPT !.pc = "take"]>>)
      /\ UNCHANGED <<transport, connected, connecting, connack, held, topics, lastId, kaVars, link,
                     broker, budget, history>>
  <2>1. Len(buffer) \in Nat
    <3>1. wire[t] \in Seq(Packet) /\ rxBuf \in Seq(Packet)
      BY DEF LinkType, ClientType
    <3>2. SubSeq(wire[t], 1, n) \in Seq(Packet)
      BY <3>1
    <3> QED  BY <3>1, <3>2
  <2> HIDE DEF buffer
  <2>2. Len(buffer) > MaxBuffer \/ Len(buffer) <= MaxBuffer
    BY <2>1, BoundsAssumption
  <2> QED  BY <2>2 DEF OnTransportData, Idle, buffer
<1>2. wire[t] \in Seq(Packet) /\ rxBuf \in Seq(Packet)
  BY DEF LinkType, ClientType
<1>3. buffer \in Seq(Packet) /\ SubSeq(wire[t], n + 1, Len(wire[t])) \in Seq(Packet)
  BY <1>2
<1>4. wire' \in [Transports -> Seq(Packet)]
  BY <1>1, <1>3 DEF LinkType
<1>5. LinkType'
  BY <1>1, <1>4 DEF LinkType
<1>6. rxBuf' \in Seq(Packet) /\ Len(rxBuf') <= MaxBuffer
  <2>1. <<>> \in Seq(Packet) /\ Len(<<>>) = 0
    OBVIOUS
  <2> HIDE DEF buffer
  <2>2. MaxBuffer \in Nat
    BY BoundsAssumption
  <2>3. CASE rxBuf' = <<>>
    BY <2>1, <2>2, <2>3
  <2>4. CASE Len(buffer) <= MaxBuffer /\ rxBuf' = buffer
    BY <1>3, <2>4
  <2> QED  BY <1>1, <2>3, <2>4
<1> HIDE DEF buffer
<1>7. ClientType'
  BY <1>1, <1>6 DEF ClientType
<1>8. KaType' /\ HistoryType' /\ UNCHANGED <<transport, told, kaTask, link>>
  BY <1>1 DEF KaType, HistoryType, kaVars, history
<1>9. ClosedStays /\ NoneStays
  BY <1>8, LinkSame
<1>10. Quietly
  <2>1. PICK l \in {"overflow", "take"} : SetStack(Rx, <<[f EXCEPT !.pc = l]>>)
    BY <1>1
  <2> DEFINE g == [f EXCEPT !.pc = l]
  <2>2. g \in Frame /\ g.pc \in RxPcs /\ g.own = t
    BY FrameZero DEF Frame, Frame0, RxPcs, MaybeTransport
  <2>3. SetStack(Rx, <<g>>)
    BY <2>1
  <2> HIDE DEF g, f
  <2>4. g \in FramesOf(Rx, link') /\ g \in Quiet
    BY <2>2, PlainFrame, PlainPcs, ActorFacts
  <2> QED  BY <1>1, <1>9, <2>3, <2>4, CallsQuietly, ActorFacts
<1> QED  BY <1>5, <1>7, <1>8, <1>9, <1>10, QuietAction

\* The packet in hand.
LEMMA InHand ==
    ASSUME StackInv, NEW l \in RxPcs, At(Rx, l)
    PROVE  /\ Top(Rx) \in Frame /\ Top(Rx).p \in Packet /\ Top(Rx).own \in MaybeTransport
           /\ Top(Rx).own \in Transports
           /\ Top(Rx).p.id \in Ids /\ Top(Rx).p.n \in Nat /\ Top(Rx).p.m \in Msgs \cup {0}
<1>1. Top(Rx) \in Frame
  BY PlainTop, PlainPcs, ActorFacts
<1>2. Top(Rx).own \in Transports
  BY OnTop, ActorFacts DEF FramesOf, At
<1> QED  BY <1>1, <1>2 DEF Frame, Packet

LEMMA OverflowKeeps ==
    ASSUME MqttInv, Overflow
    PROVE  MqttInv'
<1> USE DEF MqttInv, TypeInv
<1> DEFINE g == TeardownFrame(Top(Rx).own, FALSE)
<1>1. At(Rx, "overflow") /\ Callback(Rx, <<g>>)
      /\ UNCHANGED <<clientVars, kaVars, linkVars, history>>
  BY DEF Overflow
<1>2. ClientType' /\ KaType' /\ LinkType' /\ UNCHANGED <<transport, told, kaTask, link>>
  BY <1>1 DEF ClientType, KaType, LinkType, clientVars, kaVars, linkVars, history
<1>3. ClosedStays /\ NoneStays
  BY <1>2, LinkSame
<1>4. Quietly /\ budget' \in 0 .. MaxEvents
  <2>1. /\ Top(Rx).own \in MaybeTransport /\ Top(Rx).own \in Transports
        /\ "overflow" \in Plain(Rx)
    BY <1>1, InHand, PlainPcs DEF RxPcs
  <2>2. g \in Frame /\ g.pc = "give_up" /\ g.own \in Transports
    BY <2>1, TeardownIsFrame
  <2> HIDE DEF g
  <2> QED  BY <1>1, <1>3, <2>1, <2>2, PlainCallsBack, ActorFacts
<1>5. HistoryType'
  BY <1>1, <1>4 DEF HistoryType, history
<1> QED  BY <1>2, <1>3, <1>4, <1>5, QuietAction

LEMMA TakePacketKeeps ==
    ASSUME MqttInv, TakePacket
    PROVE  MqttInv'
<1> USE DEF MqttInv, TypeInv
<1>1. /\ At(Rx, "take")
      /\ UNCHANGED <<transport, connected, connecting, connack, held, topics, lastId, kaVars,
                     linkVars, budget, history>>
  BY DEF TakePacket
<1>2. KaType' /\ LinkType' /\ HistoryType' /\ UNCHANGED <<transport, told, kaTask, link>>
  BY <1>1 DEF KaType, LinkType, HistoryType, kaVars, linkVars, history
<1>3. ClosedStays /\ NoneStays
  BY <1>2, LinkSame
<1>4. /\ "take" \in Plain(Rx) /\ "handle" \in Plain(Rx) /\ Top(Rx) \in Frame
      /\ Top(Rx).own \in Transports
  BY <1>1, InHand, PlainPcs DEF RxPcs
<1>5. CASE Return(Rx) /\ UNCHANGED rxBuf
  <2>1. ClientType'
    BY <1>1, <1>5 DEF ClientType
  <2>2. Quietly
    BY <1>1, <1>3, <1>4, <1>5, PlainReturns, ActorFacts
  <2> QED  BY <1>2, <1>3, <2>1, <2>2, QuietAction
<1>6. CASE /\ rxBuf # <<>> /\ rxBuf' = Tail(rxBuf)
           /\ Continue(Rx, [Top(Rx) EXCEPT !.pc = "handle", !.p = Head(rxBuf)])
  <2> DEFINE g == [Top(Rx) EXCEPT !.pc = "handle", !.p = Head(rxBuf)]
  <2>1. Head(rxBuf) \in Packet /\ Tail(rxBuf) \in Seq(Packet) /\ Len(Tail(rxBuf)) <= MaxBuffer
    BY <1>6, BoundsAssumption DEF ClientType
  <2>2. ClientType'
    BY <1>1, <1>6, <2>1 DEF ClientType
  <2>3. g \in Frame /\ g.pc = "handle" /\ g.own \in Transports /\ Continue(Rx, g)
    BY <1>4, <1>6, <2>1 DEF Frame, RxPcs
  <2> HIDE DEF g
  <2>4. Quietly
    BY <1>1, <1>3, <1>4, <2>3, PlainContinues, ActorFacts
  <2> QED  BY <1>2, <1>3, <2>2, <2>4, QuietAction
<1> QED  BY <1>5, <1>6 DEF TakePacket

\* Handlers that change state under the lock and take the next packet, or go on.
LEMMA HandlerGoesOn ==
    ASSUME MqttInv, NEW l \in RxPcs, At(Rx, l), NEW g \in Frame, g.pc \in RxPcs,
           g.own = Top(Rx).own, Continue(Rx, g),
           UNCHANGED <<transport, told, kaTask, link>>,
           ClientType', KaType', LinkType', HistoryType'
    PROVE  MqttInv'
<1>1. ClosedStays /\ NoneStays
  BY LinkSame
<1>2. Quietly
  BY <1>1, InHand, PlainContinues, PlainPcs, ActorFacts DEF MqttInv, TypeInv
<1> QED  BY <1>1, <1>2, QuietAction

LEMMA HandleConnackKeeps ==
    ASSUME MqttInv, HandleConnack
    PROVE  MqttInv'
<1> USE DEF MqttInv, TypeInv
<1>1. At(Rx, "handle") /\ "handle" \in RxPcs /\ Continue(Rx, TakeNext)
  BY DEF HandleConnack, Handling, RxPcs
<1>2. TakeNext \in Frame /\ TakeNext.pc \in RxPcs /\ TakeNext.own = Top(Rx).own
  BY <1>1, InHand, TakeNextIsFrame DEF RxPcs
<1>3. lapses' \subseteq {"strayed", "stale", "raced", "late"}
  BY DEF HandleConnack, HistoryType, Stale
<1>4. /\ connecting' \in BOOLEAN /\ connected' \in BOOLEAN
      /\ connack' \in {"none", "ok", "refused"}
  BY DEF HandleConnack, ClientType
<1>5. /\ ClientType' /\ KaType' /\ LinkType' /\ HistoryType'
      /\ UNCHANGED <<transport, told, kaTask, link>>
  BY <1>3, <1>4 DEF HandleConnack, ClientType, KaType, LinkType, HistoryType, kaVars, linkVars
<1> QED  BY <1>1, <1>2, <1>5, HandlerGoesOn

LEMMA HandlePublishKeeps ==
    ASSUME MqttInv, HandlePublish
    PROVE  MqttInv'
<1> USE DEF MqttInv, TypeInv
<1>1. /\ At(Rx, "handle") /\ UNCHANGED <<clientVars, kaVars, link, history>>
  BY DEF HandlePublish, Handling
<1>2. ClientType' /\ KaType' /\ UNCHANGED <<transport, told, kaTask, link>>
  BY <1>1 DEF ClientType, KaType, clientVars, kaVars, history
<1>3. ClosedStays /\ NoneStays
  BY <1>2, LinkSame
<1>4. /\ Top(Rx) \in Frame /\ Top(Rx).own \in MaybeTransport /\ Top(Rx).p.id \in Ids
      /\ Top(Rx).own \in Transports
      /\ "handle" \in RxPcs /\ "deliver" \in RxPcs
  BY <1>1, InHand DEF RxPcs
<1>5. TakeNext \in Frame /\ TakeNext.pc = "take" /\ TakeNext.own \in Transports
  BY <1>4, TakeNextIsFrame
<1>6. CASE /\ Callback(Rx, <<TeardownFrame(Top(Rx).own, FALSE), TakeNext>>)
           /\ UNCHANGED <<wire, broker>>
  <2> DEFINE g == TeardownFrame(Top(Rx).own, FALSE)
             n == TakeNext
             s == <<g>> \o <<n>>
  <2>1. g \in FramesOf(Rx, link') /\ g \in Quiet /\ g \notin Bottom
    BY <1>4, FrameFacts, ActorFacts
  <2>2. n \in FramesOf(Rx, link') /\ n \in Quiet
    BY <1>5, PlainFrame, PlainPcs, ActorFacts DEF RxPcs
  <2>p. Callback(Rx, <<g, n>>)
    BY <1>6
  <2> HIDE DEF g, n
  <2>3. Callback(Rx, s)
    <3>1. <<g, n>> = <<g>> \o <<n>>
      BY <2>1, <2>2, Two
    <3> QED  BY <2>p, <3>1
  <2>4. /\ <<n>> \in Seq(FramesOf(Rx, link'))
        /\ \A H : Depths(<<n>>, H) = IF n \in H THEN {0} ELSE {}
    BY <2>2, Single
  <2>5. /\ s \in Seq(FramesOf(Rx, link'))
        /\ \A H : Depths(s, H) = Depths(<<n>>, H) \cup (IF g \in H THEN {Len(<<n>>)} ELSE {})
    BY <2>1, <2>4, Pushed
  <2> HIDE DEF s
  <2>6. GoodStack(Rx, s, link')
    BY <2>1, <2>4, <2>5 DEF GoodStack
  <2>7. \A H : (\A h \in H : h \notin Quiet) => Depths(stack[Rx], H) = {}
    BY <1>1, <1>4, PlainTop, PlainPcs, QuietAlone, ActorFacts
  <2>8. SameOwners(s, stack[Rx])
    BY <2>1, <2>2, <2>4, <2>5, <2>7 DEF SameOwners
  <2>9. Quietly /\ budget' \in 0 .. MaxEvents
    <3>1. stack[Rx] # <<>>
      BY <1>1 DEF At
    <3> QED  BY <1>3, <2>3, <2>6, <2>8, <3>1, CallsBackQuietly, ActorFacts DEF HistoryType
  <2>10. HistoryType' /\ LinkType'
    BY <1>1, <1>6, <2>9 DEF HistoryType, history, LinkType
  <2> QED  BY <1>2, <1>3, <2>9, <2>10, QuietAction
<1>7. CASE /\ \/ SendPacket(Pkt("puback", Top(Rx).p.id, 0, 0))
              \/ UNCHANGED <<wire, broker>>
           /\ Continue(Rx, [Top(Rx) EXCEPT !.pc = "deliver", !.m = 0])
           /\ UNCHANGED budget
  <2> DEFINE g == [Top(Rx) EXCEPT !.pc = "deliver", !.m = 0]
  <2>1. LinkType'
    <3>1. Pkt("puback", Top(Rx).p.id, 0, 0) \in Outgoing
      BY <1>4 DEF Pkt, Outgoing, PacketTypes
    <3>2. CASE UNCHANGED <<wire, broker>>
      BY <1>2, <3>2 DEF LinkType
    <3> QED  BY <1>2, <1>7, <3>1, <3>2, SendKeeps DEF ClientType
  <2>2. g \in Frame /\ g.pc \in RxPcs /\ g.own = Top(Rx).own /\ Continue(Rx, g)
    BY <1>4, <1>7, FrameZero DEF Frame, RxPcs
  <2> HIDE DEF g
  <2>3. HistoryType'
    BY <1>1, <1>7 DEF HistoryType, history
  <2> QED  BY <1>1, <1>2, <1>4, <2>1, <2>2, <2>3, HandlerGoesOn
<1> QED  BY <1>6, <1>7 DEF HandlePublish

LEMMA HoldPublishKeeps ==
    ASSUME MqttInv, HoldPublish
    PROVE  MqttInv'
<1> USE DEF MqttInv, TypeInv
<1> DEFINE g == [Top(Rx) EXCEPT !.pc = "pubrec"]
<1>1. At(Rx, "handle") /\ "handle" \in RxPcs /\ Continue(Rx, g)
  BY DEF HoldPublish, Handling, RxPcs, GoTo
<1>2. Top(Rx) \in Frame /\ Top(Rx).p.m \in Msgs \cup {0}
  BY <1>1, InHand
<1>3. g \in Frame /\ g.pc \in RxPcs /\ g.own = Top(Rx).own
  BY <1>2 DEF Frame, RxPcs
<1> HIDE DEF g
<1>4. lapses' \subseteq {"strayed", "stale", "raced", "late"}
  BY DEF HoldPublish, HistoryType, Stale
<1>5. held' \in [BrokerIds -> Msgs \cup {0}]
  BY <1>2 DEF HoldPublish, ClientType
<1>6. /\ ClientType' /\ KaType' /\ LinkType' /\ HistoryType'
      /\ UNCHANGED <<transport, told, kaTask, link>>
  BY <1>4, <1>5 DEF HoldPublish, ClientType, KaType, LinkType, HistoryType, kaVars, linkVars
<1> QED  BY <1>1, <1>3, <1>6, HandlerGoesOn

\* A handler that sends a packet about the id in hand.
LEMMA SendsAboutId ==
    ASSUME MqttInv, NEW l \in RxPcs, At(Rx, l), NEW type \in {"pubrec", "pubcomp", "pubrel"},
           SendPacket(Pkt(type, Top(Rx).p.id, 0, 0)), UNCHANGED link
    PROVE  LinkType'
<1>1. Top(Rx).p.id \in Ids
  BY InHand DEF MqttInv, TypeInv
<1>2. Pkt(type, Top(Rx).p.id, 0, 0) \in Outgoing
  BY <1>1 DEF Pkt, Outgoing, PacketTypes
<1> QED  BY <1>2, SendKeeps DEF MqttInv, TypeInv, ClientType

LEMMA SendPubrecKeeps ==
    ASSUME MqttInv, SendPubrec \/ HandlePubrec
    PROVE  MqttInv'
<1> USE DEF MqttInv, TypeInv
<1>1. PICK l \in {"pubrec", "handle"}, type \in {"pubrec", "pubrel"} :
          /\ At(Rx, l) /\ SendPacket(Pkt(type, Top(Rx).p.id, 0, 0)) /\ Continue(Rx, TakeNext)
          /\ UNCHANGED <<clientVars, kaVars, link, budget, history>>
  BY DEF SendPubrec, HandlePubrec, Handling
<1>2. l \in RxPcs
  BY DEF RxPcs
<1>3. TakeNext \in Frame /\ TakeNext.pc \in RxPcs /\ TakeNext.own = Top(Rx).own
  BY <1>1, <1>2, InHand, TakeNextIsFrame DEF RxPcs
<1>4. ClientType' /\ KaType' /\ HistoryType' /\ UNCHANGED <<transport, told, kaTask, link>>
  BY <1>1 DEF ClientType, KaType, HistoryType, clientVars, kaVars, history
<1>5. LinkType'
  BY <1>1, <1>2, SendsAboutId
<1> QED  BY <1>1, <1>2, <1>3, <1>4, <1>5, HandlerGoesOn

LEMMA HandlePubrelKeeps ==
    ASSUME MqttInv, HandlePubrel
    PROVE  MqttInv'
<1> USE DEF MqttInv, TypeInv
<1> DEFINE g == [Top(Rx) EXCEPT !.pc = "pubcomp", !.m = held[Top(Rx).p.id]]
<1>1. At(Rx, "handle") /\ "handle" \in RxPcs /\ Continue(Rx, g) /\ Top(Rx).p.type = "pubrel"
  BY DEF HandlePubrel, Handling, RxPcs
<1>2. Top(Rx) \in Frame /\ Top(Rx).p \in Packet
  BY <1>1, InHand
<1>3. Top(Rx).p.id \in BrokerIds
  BY <1>1, <1>2 DEF Packet
<1>4. held[Top(Rx).p.id] \in Msgs \cup (0 .. MaxEvents)
  BY <1>3, BoundsAssumption DEF ClientType
<1>5. g \in Frame /\ g.pc \in RxPcs /\ g.own = Top(Rx).own
  BY <1>2, <1>4 DEF Frame, RxPcs
<1> HIDE DEF g
<1>6. held' \in [BrokerIds -> Msgs \cup {0}]
  BY DEF HandlePubrel, ClientType
<1>7. lapses' \subseteq {"strayed", "stale", "raced", "late"}
  BY DEF HandlePubrel, HistoryType, Stale
<1>8. /\ ClientType' /\ KaType' /\ LinkType' /\ HistoryType'
      /\ UNCHANGED <<transport, told, kaTask, link>>
  BY <1>6, <1>7 DEF HandlePubrel, ClientType, KaType, LinkType, HistoryType, kaVars, linkVars
<1> QED  BY <1>1, <1>5, <1>8, HandlerGoesOn

LEMMA SendPubcompKeeps ==
    ASSUME MqttInv, SendPubcomp
    PROVE  MqttInv'
<1> USE DEF MqttInv, TypeInv
<1> DEFINE g == IF Top(Rx).m = 0 THEN TakeNext ELSE [Top(Rx) EXCEPT !.pc = "deliver"]
<1>1. /\ At(Rx, "pubcomp") /\ "pubcomp" \in RxPcs
      /\ SendPacket(Pkt("pubcomp", Top(Rx).p.id, 0, 0)) /\ Continue(Rx, g)
      /\ UNCHANGED <<clientVars, kaVars, link, budget, history>>
  BY DEF SendPubcomp, RxPcs
<1>2. Top(Rx) \in Frame
  BY <1>1, InHand
<1>3. g \in Frame /\ g.pc \in RxPcs /\ g.own = Top(Rx).own
  <2>1. TakeNext \in Frame /\ TakeNext.pc \in RxPcs /\ TakeNext.own = Top(Rx).own
    BY <1>2, TakeNextIsFrame DEF RxPcs
  <2>2. [Top(Rx) EXCEPT !.pc = "deliver"] \in Frame
        /\ [Top(Rx) EXCEPT !.pc = "deliver"].pc \in RxPcs
        /\ [Top(Rx) EXCEPT !.pc = "deliver"].own = Top(Rx).own
    BY <1>2 DEF Frame, RxPcs
  <2> QED  BY <2>1, <2>2
<1> HIDE DEF g
<1>4. ClientType' /\ KaType' /\ HistoryType' /\ UNCHANGED <<transport, told, kaTask, link>>
  BY <1>1 DEF ClientType, KaType, HistoryType, clientVars, kaVars, history
<1>5. LinkType'
  BY <1>1, <1>4, SendsAboutId
<1> QED  BY <1>1, <1>3, <1>4, <1>5, HandlerGoesOn

\* A handler that ends with a callback.
LEMMA HandlerCallsBack ==
    ASSUME MqttInv, NEW l \in RxPcs, At(Rx, l), Callback(Rx, <<TakeNext>>),
           UNCHANGED <<clientVars, kaVars, linkVars, told, answered, cut, lapses>>,
           delivered' \in [Msgs -> Nat]
    PROVE  MqttInv'
<1> USE DEF MqttInv, TypeInv
<1>1. ClientType' /\ KaType' /\ LinkType' /\ UNCHANGED <<transport, told, kaTask, link>>
  BY DEF ClientType, KaType, LinkType, clientVars, kaVars, linkVars
<1>2. ClosedStays /\ NoneStays
  BY <1>1, LinkSame
<1>3. /\ TakeNext \in Frame /\ TakeNext.pc \in Plain(Rx) /\ TakeNext.own \in Transports
      /\ l \in Plain(Rx)
  BY InHand, TakeNextIsFrame, PlainPcs DEF RxPcs
<1>4. Quietly /\ budget' \in 0 .. MaxEvents
  BY <1>2, <1>3, PlainCallsBack, ActorFacts
<1>5. HistoryType'
  BY <1>4 DEF HistoryType
<1> QED  BY <1>1, <1>2, <1>4, <1>5, QuietAction

LEMMA DeliverKeeps ==
    ASSUME MqttInv, Deliver \/ HandlePublishComplete \/ ReportRefused
    PROVE  MqttInv'
<1>1. delivered \in [Msgs -> Nat]
  BY DEF MqttInv, TypeInv, HistoryType
<1>2. CASE Deliver
  <2>1. delivered' \in [Msgs -> Nat]
    BY <1>1, <1>2 DEF Deliver
  <2>2. At(Rx, "deliver") /\ "deliver" \in RxPcs
    BY <1>2 DEF Deliver, RxPcs
  <2> QED  BY <1>2, <2>1, <2>2, HandlerCallsBack DEF Deliver
<1>3. CASE HandlePublishComplete \/ ReportRefused
  <2>1. PICK l \in RxPcs : At(Rx, l)
    BY <1>3 DEF HandlePublishComplete, ReportRefused, Handling, RxPcs
  <2>2. /\ Callback(Rx, <<TakeNext>>)
        /\ UNCHANGED <<clientVars, kaVars, linkVars, told, answered, cut, lapses, delivered>>
    BY <1>3 DEF HandlePublishComplete, ReportRefused, history
  <2>3. delivered' \in [Msgs -> Nat]
    BY <1>1, <2>2
  <2> QED  BY <2>1, <2>2, <2>3, HandlerCallsBack
<1> QED  BY <1>2, <1>3

LEMMA HandleSubackKeeps ==
    ASSUME MqttInv, HandleSuback
    PROVE  MqttInv'
<1> USE DEF MqttInv, TypeInv
<1> DEFINE g == IF Handling("subnack")
                THEN [Top(Rx) EXCEPT !.pc = "refused", !.m = topics[Top(Rx).p.id]]
                ELSE TakeNext
<1>1. /\ At(Rx, "handle") /\ "handle" \in RxPcs /\ Continue(Rx, g)
      /\ topics' = [topics EXCEPT ![Top(Rx).p.id] = 0]
      /\ UNCHANGED <<transport, connected, connecting, connack, rxBuf, held, lastId, kaVars,
                     linkVars, budget, history>>
      /\ Top(Rx).p.type \in {"suback", "subnack", "unsuback"}
  BY DEF HandleSuback, RxPcs, Handling
<1>2. Top(Rx) \in Frame /\ Top(Rx).p \in Packet
  BY <1>1, InHand
<1>3. g \in Frame /\ g.pc \in RxPcs /\ g.own = Top(Rx).own
  <2>1. TakeNext \in Frame /\ TakeNext.pc \in RxPcs /\ TakeNext.own = Top(Rx).own
    BY <1>2, TakeNextIsFrame DEF RxPcs
  <2>2. Top(Rx).p.id \in 1 .. MaxPacketId
    BY <1>1, <1>2 DEF Packet
  <2>3. topics[Top(Rx).p.id] \in Msgs \cup (0 .. MaxEvents)
    BY <2>2 DEF ClientType
  <2>4. /\ [Top(Rx) EXCEPT !.pc = "refused", !.m = topics[Top(Rx).p.id]] \in Frame
        /\ [Top(Rx) EXCEPT !.pc = "refused", !.m = topics[Top(Rx).p.id]].pc \in RxPcs
        /\ [Top(Rx) EXCEPT !.pc = "refused", !.m = topics[Top(Rx).p.id]].own = Top(Rx).own
    BY <1>2, <2>3 DEF Frame, RxPcs
  <2> QED  BY <2>1, <2>4
<1> HIDE DEF g
<1>4. topics' \in [1 .. MaxPacketId -> 0 .. MaxEvents]
  BY <1>1, FilterGone DEF ClientType
<1>5. /\ ClientType' /\ KaType' /\ LinkType' /\ HistoryType'
      /\ UNCHANGED <<transport, told, kaTask, link>>
  BY <1>1, <1>4 DEF ClientType, KaType, LinkType, HistoryType, kaVars, linkVars, history
<1> QED  BY <1>1, <1>3, <1>5, HandlerGoesOn

LEMMA HandlePingrespKeeps ==
    ASSUME MqttInv, HandlePingresp
    PROVE  MqttInv'
<1> USE DEF MqttInv, TypeInv
<1>1. /\ At(Rx, "handle") /\ "handle" \in RxPcs /\ ping' = FALSE /\ answered' = At(Ka, "store")
      /\ Continue(Rx, TakeNext)
      /\ UNCHANGED <<clientVars, keepAlive, kaTask, kaRunning, linkVars, budget, delivered, told,
                     cut, lapses>>
  BY DEF HandlePingresp, Handling, RxPcs
<1>2. TakeNext \in Frame /\ TakeNext.pc \in RxPcs /\ TakeNext.own = Top(Rx).own
  BY <1>1, InHand, TakeNextIsFrame DEF RxPcs
<1>3. answered' \in BOOLEAN
  BY <1>1 DEF At
<1>4. /\ ClientType' /\ KaType' /\ LinkType' /\ HistoryType'
      /\ UNCHANGED <<transport, told, kaTask, link>>
  BY <1>1, <1>3 DEF ClientType, KaType, LinkType, HistoryType, clientVars, linkVars
<1> QED  BY <1>1, <1>2, <1>4, HandlerGoesOn

-----------------------------------------------------------------------------
(* The steps that make, pass on and give up a transport, and the keep-alive task's. *)

LEMMA NotZero == 0 \notin Transports
  BY BoundsAssumption DEF Transports

\* The innermost call of x goes on as g.
LEMMA HoldersAfter ==
    ASSUME StackInv, ClosedStays, NEW x \in Actors, stack[x] # <<>>, NEW g, Continue(x, g),
           g \in FramesOf(x, link'), g \in Bottom => Top(x) \in Bottom
    PROVE  /\ StackInv' /\ (stack'[Ka] # <<>> => stack[Ka] # <<>>)
           /\ \A y \in Actors \ {x} : stack'[y] = stack[y]
           /\ \A H : (g \in H <=> Top(x) \in H) => Depths(stack'[x], H) = Depths(stack[x], H)
           /\ \A H : g \notin H =>
                  Depths(stack'[x], H) = Depths(stack[x], H) \ {Len(stack[x]) - 1}
           /\ \A H : Depths(stack[x], H) = {} /\ g \in H =>
                  Depths(stack'[x], H) = {Len(stack[x]) - 1}
<1>1. /\ StackInv' /\ \A y \in Actors \ {x} : stack'[y] = stack[y]
      /\ \A H : Depths(stack'[x], H) =
                    (Depths(stack[x], H) \ {Len(stack[x]) - 1})
                        \cup (IF g \in H THEN {Len(stack[x]) - 1} ELSE {})
  BY Continues
<1>2. \A H : Len(stack[x]) - 1 \in Depths(stack[x], H) <=> Top(x) \in H
  BY OnTop
<1>3. ASSUME NEW H, g \in H <=> Top(x) \in H
      PROVE  Depths(stack'[x], H) = Depths(stack[x], H)
  <2>1. CASE g \in H
    <3>1. Len(stack[x]) - 1 \in Depths(stack[x], H)
      BY <1>2, <1>3, <2>1
    <3>2. Depths(stack'[x], H) = (Depths(stack[x], H) \ {Len(stack[x]) - 1}) \cup {Len(stack[x]) - 1}
      BY <1>1, <2>1
    <3> QED  BY <3>1, <3>2
  <2>2. CASE g \notin H
    <3>1. Len(stack[x]) - 1 \notin Depths(stack[x], H)
      BY <1>2, <1>3, <2>2
    <3>2. Depths(stack'[x], H) = Depths(stack[x], H) \ {Len(stack[x]) - 1}
      BY <1>1, <2>2
    <3> QED  BY <3>1, <3>2
  <2> QED  BY <2>1, <2>2
<1>4. stack'[Ka] # <<>> => stack[Ka] # <<>>
  BY <1>1, ActorFacts
<1> QED  BY <1>1, <1>3, <1>4

LEMMA GiveUpKeeps ==
    ASSUME MqttInv, NEW x \in Actors, GiveUp(x)
    PROVE  MqttInv'
<1> USE DEF MqttInv, TypeInv
<1> DEFINE g == [Top(x) EXCEPT !.pc = "hush", !.t = transport]
<1>1. At(x, "give_up") /\ Continue(x, g) /\ transport' = 0
      /\ UNCHANGED <<lastId, kaVars, linkVars, budget, delivered, told, answered>>
  BY DEF GiveUp
<1>2. stack[x] # <<>> /\ Top(x).pc = "give_up" /\ Top(x) \in Frame
  BY <1>1, OnTop DEF At
<1>3. ClosedStays /\ NoneStays
  BY <1>1, LinkSame DEF linkVars
<1>4. g \in FramesOf(x, link') /\ g.pc = "hush" /\ g.t = transport /\ g \in Frame /\ g \notin Bottom
  BY <1>2 DEF Frame, FramesOf, SharedPcs, ClientType, Bottom, AppPcs, RxPcs, KaPcs
<1>5. /\ Top(x) \notin Opening /\ Top(x) \notin Creating /\ Top(x) \notin Starting
      /\ \A t \in Transports : Top(x) \notin Holding(t)
  BY <1>2 DEF Opening, Creating, Starting, Holding
<1>6. /\ g \notin Opening /\ g \notin Creating /\ g \notin Starting
      /\ \A t \in Transports : g \in Holding(t) <=> t = transport
  BY <1>4 DEF Opening, Creating, Starting, Holding
<1> HIDE DEF g
<1>7. ClientType'
  <2>1. [i \in BrokerIds |-> 0] \in [BrokerIds -> Msgs \cup {0}] /\ <<>> \in Seq(Packet) /\ Len(<<>>) = 0
    OBVIOUS
  <2>2. [i \in 1 .. MaxPacketId |-> 0] \in [1 .. MaxPacketId -> 0 .. MaxEvents]
    BY BoundsAssumption
  <2>3. /\ rxBuf' = <<>> /\ held' = [i \in BrokerIds |-> 0] /\ topics' = [i \in 1 .. MaxPacketId |-> 0]
        /\ connected' = FALSE /\ connecting' = FALSE /\ connack' = "none"
    BY DEF GiveUp
  <2>4. Len(<<>>) <= MaxBuffer
    BY <2>1, BoundsAssumption
  <2> QED  BY <1>1, <2>1, <2>2, <2>3, <2>4 DEF ClientType, MaybeTransport
<1>8. HistoryType'
  <2>1. cut' \subseteq Msgs
    BY DEF GiveUp, HistoryType, InFlight
  <2>2. lapses' \subseteq {"strayed", "stale", "raced", "late"}
    BY DEF GiveUp, HistoryType
  <2> QED  BY <1>1, <2>1, <2>2 DEF HistoryType
<1>9. KaType' /\ LinkType' /\ UNCHANGED <<told, kaTask, link>>
  BY <1>1 DEF KaType, LinkType, kaVars, linkVars
<1>10. /\ StackInv' /\ (stack'[Ka] # <<>> => stack[Ka] # <<>>)
       /\ \A y \in Actors \ {x} : stack'[y] = stack[y]
       /\ \A H : (g \in H <=> Top(x) \in H) => Depths(stack'[x], H) = Depths(stack[x], H)
       /\ \A H : Depths(stack[x], H) = {} /\ g \in H =>
              Depths(stack'[x], H) = {Len(stack[x]) - 1}
  BY <1>1, <1>2, <1>3, <1>4, HoldersAfter
<1>11. OwnerInv'
  <2> SUFFICES ASSUME NEW t \in Transports PROVE OneOwner(t)'
    BY DEF OwnerInv
  <2>1. OneOwner(t) /\ t # 0
    BY NotZero DEF OwnerInv
  <2>2. CASE t = transport
    <3>1. \A y \in Actors : Depths(stack[y], Holding(t)) = {}
      BY <2>1, <2>2 DEF OneOwner
    <3>2. Depths(stack'[x], Holding(t)) = {Len(stack[x]) - 1}
      BY <1>6, <1>10, <2>2, <3>1
    <3>3. \A y \in Actors \ {x} : Depths(stack'[y], Holding(t)) = {}
      BY <1>10, <3>1
    <3>4. \A y \in Actors : \A d \in Depths(stack'[y], Holding(t)) : y = x /\ d = Len(stack[x]) - 1
      BY <3>2, <3>3
    <3>5. \E y \in Actors : Depths(stack'[y], Holding(t)) # {}
      BY <3>2
    <3>6. transport' # t /\ told'[t] = 0 /\ link'[t] # "none"
      BY <1>1, <1>9, <2>1, <2>2 DEF OneOwner
    <3>7. ASSUME NEW y \in Actors, NEW z \in Actors, NEW d \in Depths(stack'[y], Holding(t)),
                 NEW e \in Depths(stack'[z], Holding(t))
          PROVE  y = z /\ d = e
      BY <3>4
    <3> QED  BY <3>5, <3>6, <3>7 DEF OneOwner
  <2>3. CASE t # transport
    <3>1. \A y \in Actors : Depths(stack'[y], Holding(t)) = Depths(stack[y], Holding(t))
      BY <1>5, <1>6, <1>10, <2>3
    <3> QED  BY <1>1, <1>9, <2>1, <2>3, <3>1 DEF OneOwner
  <2> QED  BY <2>2, <2>3
<1>12. ConnectInv'
  <2>1. /\ Depths(stack'[App], Opening) = Depths(stack[App], Opening)
        /\ Depths(stack'[App], Creating) = Depths(stack[App], Creating)
        /\ Depths(stack'[App], Starting) = Depths(stack[App], Starting)
    BY <1>5, <1>6, <1>10, ActorFacts
  <2> QED  BY <1>1, <1>9, <1>10, <2>1 DEF ConnectInv
<1> QED  BY <1>7, <1>8, <1>9, <1>10, <1>11, <1>12

LEMMA HushKeeps ==
    ASSUME MqttInv, NEW x \in Actors, Hush(x)
    PROVE  MqttInv'
<1> USE DEF MqttInv, TypeInv
<1>1. At(x, "hush") /\ kaRunning' = FALSE /\ ping' = FALSE
      /\ UNCHANGED <<clientVars, keepAlive, kaTask, linkVars, budget, history>>
  BY DEF Hush
<1>2. stack[x] # <<>> /\ Top(x).pc = "hush" /\ Top(x) \in Frame /\ Top(x) \in FramesOf(x, link)
  BY <1>1, OnTop DEF At
<1>3. ClosedStays /\ NoneStays
  BY <1>1, LinkSame DEF linkVars
<1>4. /\ ClientType' /\ KaType' /\ LinkType' /\ HistoryType'
      /\ UNCHANGED <<transport, told, kaTask, link>>
  BY <1>1 DEF ClientType, KaType, LinkType, HistoryType, clientVars, linkVars, history
<1>5. /\ Top(x) \notin Opening /\ Top(x) \notin Creating /\ Top(x) \notin Starting
      /\ \A t \in Transports : Top(x) \in Holding(t) <=> t = Top(x).t
  BY <1>2 DEF Opening, Creating, Starting, Holding
<1>6. StackInv' /\ OwnersStay
  <2>1. CASE Top(x).t = 0 /\ Return(x)
    <3>1. GoodStack(x, Tail(stack[x]), link')
      BY <1>2, <1>3, Returns, GoodGrows
    <3>2. /\ StackInv' /\ stack'[x] = Tail(stack[x])
          /\ \A y \in Actors \ {x} : stack'[y] = stack[y]
      BY <1>3, <2>1, <3>1, StackSet DEF Return
    <3>3. \A H : Depths(stack'[x], H) = Depths(stack[x], H) \ {Len(stack[x]) - 1}
      BY <1>2, <3>2, Returns
    <3>4. \A H : Top(x) \notin H => Depths(stack'[x], H) = Depths(stack[x], H)
      BY <1>2, <3>3, OnTop
    <3>5. \A t \in Transports : Top(x) \notin Holding(t)
      BY <1>5, <2>1, NotZero
    <3>6. \A y \in Actors, t \in Transports :
              Depths(stack'[y], Holding(t)) = Depths(stack[y], Holding(t))
      BY <3>2, <3>4, <3>5
    <3> QED  BY <1>2, <1>5, <3>2, <3>4, <3>6, ActorFacts DEF OwnersStay
  <2>2. CASE Top(x).t # 0 /\ GoTo(x, "drop")
    <3> DEFINE g == [Top(x) EXCEPT !.pc = "drop"]
    <3>1. g \in FramesOf(x, link') /\ g.pc = "drop" /\ g.t = Top(x).t /\ g \in Frame /\ g \notin Bottom
      BY <1>2, <2>2 DEF Frame, FramesOf, SharedPcs, MaybeTransport, Bottom, AppPcs, RxPcs, KaPcs
    <3>2. /\ g \notin Opening /\ g \notin Creating /\ g \notin Starting
          /\ \A t \in Transports : g \in Holding(t) <=> t = Top(x).t
      BY <3>1 DEF Opening, Creating, Starting, Holding
    <3>3. Continue(x, g)
      BY <2>2 DEF GoTo
    <3> HIDE DEF g
    <3>4. /\ StackInv' /\ (stack'[Ka] # <<>> => stack[Ka] # <<>>)
          /\ \A y \in Actors \ {x} : stack'[y] = stack[y]
          /\ \A H : (g \in H <=> Top(x) \in H) => Depths(stack'[x], H) = Depths(stack[x], H)
      BY <1>2, <1>3, <3>1, <3>3, HoldersAfter
    <3>5. \A y \in Actors, t \in Transports :
              Depths(stack'[y], Holding(t)) = Depths(stack[y], Holding(t))
      BY <1>5, <3>2, <3>4
    <3> QED  BY <1>5, <3>2, <3>4, <3>5, ActorFacts DEF OwnersStay
  <2> QED  BY <2>1, <2>2 DEF Hush
<1> QED  BY <1>3, <1>4, <1>6, OwnersKeep, ConnectKeeps DEF OwnersStay

LEMMA DropKeeps ==
    ASSUME MqttInv, NEW x \in Actors, Drop(x)
    PROVE  MqttInv'
<1> USE DEF MqttInv, TypeInv
<1> DEFINE f == [Top(x) EXCEPT !.pc = "tell"]
<1>1. At(x, "drop") /\ UNCHANGED <<clientVars, kaVars, budget, history>>
  BY DEF Drop
<1>2. stack[x] # <<>> /\ Top(x).pc = "drop" /\ Top(x) \in Frame /\ Top(x) \in FramesOf(x, link)
  BY <1>1, OnTop DEF At
<1>3. f \in Frame /\ f.pc = "tell" /\ f.t = Top(x).t /\ f.t \in Transports /\ f \notin Bottom
  BY <1>2 DEF Frame, FramesOf, Bottom, SharedPcs, AppPcs, RxPcs, KaPcs
<1>4. /\ Top(x) \notin Opening /\ Top(x) \notin Creating /\ Top(x) \notin Starting
      /\ \A t \in Transports : Top(x) \in Holding(t) <=> t = Top(x).t
  BY <1>2 DEF Opening, Creating, Starting, Holding
<1>5. /\ f \notin Opening /\ f \notin Creating /\ f \notin Starting
      /\ \A t \in Transports : f \in Holding(t) <=> t = Top(x).t
  BY <1>3 DEF Opening, Creating, Starting, Holding
<1>6. ClientType' /\ KaType' /\ HistoryType' /\ UNCHANGED <<transport, told, kaTask>>
  BY <1>1 DEF ClientType, KaType, HistoryType, clientVars, kaVars, history
<1>7. link[f.t] # "none"
  <2>1. Depths(stack[x], Holding(f.t)) # {}
    BY <1>2, <1>3, <1>4, OnTop
  <2>2. OneOwner(f.t)
    BY <1>3 DEF OwnerInv
  <2> QED  BY <2>1, <2>2 DEF OneOwner
<1>8. f.pc = "tell" /\ link'[f.t] = "closed" => f \in FramesOf(x, link')
  BY <1>3 DEF FramesOf, SharedPcs, RxPcs
<1>9. CASE /\ link[f.t] \in {"open", "silent"} /\ CloseLink(f.t)
           /\ SetStack(x, <<TeardownFrame(f.t, FALSE), f>> \o Tail(stack[x]))
  <2> DEFINE h == TeardownFrame(f.t, FALSE)
             s == <<h, f>> \o Tail(stack[x])
  <2>1. LinkType' /\ ClosedStays /\ NoneStays /\ link'[f.t] = "closed"
    BY <1>3, <1>9, CloseKeeps
  <2>2. h \in FramesOf(x, link') /\ h \in Quiet /\ h \notin Bottom
    BY <1>3, FrameFacts DEF MaybeTransport
  <2>3. f \in FramesOf(x, link')
    BY <1>3, <1>8, <2>1
  <2>4. SetStack(x, s)
    BY <1>9
  <2> HIDE DEF h, f
  <2>5. stack[x] \in Seq(FramesOf(x, link')) /\ Depths(stack[x], Bottom) \subseteq {0}
    BY <1>2, <2>1, OnTop, FramesGrow, StackGrows
  <2>6. /\ s \in Seq(FramesOf(x, link'))
        /\ \A H : Depths(s, H) =
                      (Depths(stack[x], H) \ {Len(stack[x]) - 1})
                          \cup (IF f \in H THEN {Len(stack[x]) - 1} ELSE {})
                          \cup (IF h \in H THEN {Len(stack[x])} ELSE {})
    BY <1>2, <2>2, <2>3, <2>5, ReplacedPushed
  <2> HIDE DEF s
  <2>7. GoodStack(x, s, link')
    BY <1>3, <2>2, <2>5, <2>6 DEF GoodStack
  <2>8. /\ StackInv' /\ stack'[x] = s
        /\ \A y \in Actors \ {x} : stack'[y] = stack[y]
    BY <2>1, <2>4, <2>7, StackSet
  <2>9. ASSUME NEW H, h \notin H, f \in H <=> Top(x) \in H
        PROVE  Depths(stack'[x], H) = Depths(stack[x], H)
    <3>1. Len(stack[x]) - 1 \in Depths(stack[x], H) <=> Top(x) \in H
      BY <1>2, OnTop
    <3>0. Depths(stack'[x], H) = (Depths(stack[x], H) \ {Len(stack[x]) - 1})
                                     \cup (IF f \in H THEN {Len(stack[x]) - 1} ELSE {})
      BY <2>6, <2>8, <2>9
    <3>2. CASE f \in H
      <4>1. Len(stack[x]) - 1 \in Depths(stack[x], H)
        BY <2>9, <3>1, <3>2
      <4> QED  BY <3>0, <3>2, <4>1
    <3>3. CASE f \notin H
      <4>1. Len(stack[x]) - 1 \notin Depths(stack[x], H)
        BY <2>9, <3>1, <3>3
      <4> QED  BY <3>0, <3>3, <4>1
    <3> QED  BY <3>2, <3>3
  <2>10. /\ h \notin Opening /\ h \notin Creating /\ h \notin Starting
         /\ \A t \in Transports : h \notin Holding(t)
    BY <2>2, NotQuiet
  <2>11. \A y \in Actors, t \in Transports :
             Depths(stack'[y], Holding(t)) = Depths(stack[y], Holding(t))
    BY <1>4, <1>5, <2>8, <2>9, <2>10
  <2>12. OwnersStay
    BY <1>2, <1>4, <1>5, <2>8, <2>9, <2>10, <2>11, ActorFacts DEF OwnersStay
  <2> QED  BY <1>6, <2>1, <2>8, <2>11, <2>12, OwnersKeep, ConnectKeeps
<1>10. CASE link[f.t] \notin {"open", "silent"} /\ Continue(x, f) /\ UNCHANGED linkVars
  <2>1. LinkType' /\ ClosedStays /\ NoneStays /\ UNCHANGED link
    BY <1>10, LinkSame DEF LinkType, linkVars
  <2>2. link'[f.t] = "closed"
    BY <1>3, <1>7, <1>10, <2>1 DEF LinkType
  <2>3. f \in FramesOf(x, link')
    BY <1>3, <1>8, <2>2
  <2> HIDE DEF f
  <2>4. /\ StackInv' /\ (stack'[Ka] # <<>> => stack[Ka] # <<>>)
        /\ \A y \in Actors \ {x} : stack'[y] = stack[y]
        /\ \A H : (f \in H <=> Top(x) \in H) => Depths(stack'[x], H) = Depths(stack[x], H)
    BY <1>2, <1>3, <1>10, <2>1, <2>3, HoldersAfter
  <2>5. \A y \in Actors, t \in Transports :
            Depths(stack'[y], Holding(t)) = Depths(stack[y], Holding(t))
    BY <1>4, <1>5, <2>4
  <2>6. OwnersStay
    BY <1>4, <1>5, <2>4, <2>5, ActorFacts DEF OwnersStay
  <2> QED  BY <1>6, <2>1, <2>4, <2>5, <2>6, OwnersKeep, ConnectKeeps
<1> QED  BY <1>9, <1>10 DEF Drop

LEMMA TellKeeps ==
    ASSUME MqttInv, NEW x \in Actors, Tell(x)
    PROVE  MqttInv'
<1> USE DEF MqttInv, TypeInv
<1> DEFINE u == Top(x).t
<1>1. /\ At(x, "tell") /\ told' = [told EXCEPT ![u] = @ + 1] /\ Callback(x, Tail(stack[x]))
      /\ UNCHANGED <<clientVars, kaVars, linkVars, delivered, answered, cut, lapses>>
  BY DEF Tell
<1>2. stack[x] # <<>> /\ Top(x).pc = "tell" /\ Top(x) \in Frame /\ Top(x) \in FramesOf(x, link)
  BY <1>1, OnTop DEF At
<1>3. u \in Transports /\ link[u] = "closed"
  BY <1>2 DEF FramesOf
<1>4. /\ Top(x) \notin Opening /\ Top(x) \notin Creating /\ Top(x) \notin Starting
      /\ \A t \in Transports : Top(x) \in Holding(t) <=> t = u
  BY <1>2 DEF Opening, Creating, Starting, Holding
<1> HIDE DEF u
<1>5. ClosedStays /\ NoneStays
  BY <1>1, LinkSame DEF linkVars
<1>6. /\ ClientType' /\ KaType' /\ LinkType' /\ UNCHANGED <<transport, kaTask, link>>
  BY <1>1 DEF ClientType, KaType, LinkType, clientVars, kaVars, linkVars
<1>7. GoodStack(x, Tail(stack[x]), link')
  BY <1>2, <1>5, Returns, GoodGrows
<1>8. /\ StackInv' /\ budget' \in 0 .. MaxEvents
      /\ SameOwners(stack'[x], Tail(stack[x]))
      /\ \A y \in Actors \ {x} : stack'[y] = stack[y]
  BY <1>1, <1>2, <1>5, <1>7, CallsBack DEF HistoryType
<1>9. \A H : (\A h \in H : h \notin Quiet) =>
                 Depths(stack'[x], H) = Depths(stack[x], H) \ {Len(stack[x]) - 1}
  BY <1>2, <1>8, Returns DEF SameOwners
<1>10. \A H : (\A h \in H : h \notin Quiet) /\ Top(x) \notin H =>
                 Depths(stack'[x], H) = Depths(stack[x], H)
  <2> SUFFICES ASSUME NEW H, \A h \in H : h \notin Quiet, Top(x) \notin H
               PROVE  Depths(stack'[x], H) = Depths(stack[x], H)
    OBVIOUS
  <2>1. Len(stack[x]) - 1 \notin Depths(stack[x], H)
    BY <1>2, OnTop
  <2> QED  BY <1>9, <2>1
<1>11. Len(stack[x]) - 1 \in Depths(stack[x], Holding(u))
  BY <1>2, <1>3, <1>4, OnTop
<1>12. OneOwner(u) /\ told[u] = 0
  BY <1>3, <1>11 DEF OwnerInv, OneOwner
<1>13. told' = [told EXCEPT ![u] = 1]
  BY <1>1, <1>12
<1>14. HistoryType'
  BY <1>1, <1>8, <1>13 DEF HistoryType
<1>15. OwnerInv'
  <2> SUFFICES ASSUME NEW t \in Transports PROVE OneOwner(t)'
    BY DEF OwnerInv
  <2>1. CASE t = u
    <3>1. told'[u] = 1
      BY <1>3, <1>13 DEF HistoryType
    <3>2. /\ \A d \in Depths(stack[x], Holding(u)) : d = Len(stack[x]) - 1
          /\ \A y \in Actors \ {x} : Depths(stack[y], Holding(u)) = {}
          /\ transport # u
      <4>1. /\ \A y, z \in Actors : \A d \in Depths(stack[y], Holding(u)),
                                     e \in Depths(stack[z], Holding(u)) : y = z /\ d = e
            /\ \A y \in Actors : Depths(stack[y], Holding(u)) # {} => transport # u
        BY <1>12 DEF OneOwner
      <4> DEFINE e == Len(stack[x]) - 1
      <4>2. e \in Depths(stack[x], Holding(u))
        BY <1>11
      <4> HIDE DEF e
      <4>3. ASSUME NEW y \in Actors, NEW d \in Depths(stack[y], Holding(u))
            PROVE  y = x /\ d = e
        BY <4>1, <4>2
      <4> QED  BY <4>1, <4>2, <4>3 DEF e
    <3>3. Depths(stack'[x], Holding(u)) = {}
      BY <1>3, <1>9, <3>2, NotQuiet
    <3>4. \A y \in Actors : Depths(stack'[y], Holding(u)) = {}
      BY <1>8, <3>2, <3>3
    <3> QED  BY <1>3, <1>6, <2>1, <3>1, <3>2, <3>4 DEF OneOwner
  <2>2. CASE t # u
    <3>1. told'[t] = told[t]
      BY <1>13, <2>2 DEF HistoryType
    <3>2. Depths(stack'[x], Holding(t)) = Depths(stack[x], Holding(t))
      BY <1>4, <1>10, <2>2, NotQuiet
    <3>3. \A y \in Actors : Depths(stack'[y], Holding(t)) = Depths(stack[y], Holding(t))
      BY <1>8, <3>2
    <3>4. OneOwner(t)
      BY DEF OwnerInv
    <3> QED  BY <1>6, <3>1, <3>3, <3>4 DEF OneOwner
  <2> QED  BY <2>1, <2>2
<1>16. ConnectInv'
  <2>1. /\ Depths(stack'[App], Opening) = Depths(stack[App], Opening)
        /\ Depths(stack'[App], Creating) = Depths(stack[App], Creating)
        /\ Depths(stack'[App], Starting) = Depths(stack[App], Starting)
    BY <1>4, <1>8, <1>10, NotQuiet, ActorFacts
  <2>2. stack'[Ka] # <<>> => stack[Ka] # <<>>
    BY <1>2, <1>8, ActorFacts
  <2> QED  BY <1>6, <2>1, <2>2 DEF ConnectInv
<1> QED  BY <1>6, <1>8, <1>14, <1>15, <1>16

LEMMA ThenFacts ==
    ASSUME MqttInv, NEW x \in Actors, NEW l \in {"stop", "join"}, At(x, l)
    PROVE  /\ stack[x] # <<>> /\ Top(x) \in Frame /\ Top(x).pc = l
           /\ Top(x).then = "give_up" \/ (x = App /\ Top(x).then = "start")
           /\ Top(x).then = "start" => Top(x) \in Bottom
           /\ Top(x) \notin Opening /\ Top(x) \notin Creating /\ Top(x) \notin Starting
           /\ \A t \in Transports : Top(x) \notin Holding(t)
<1>1. stack[x] # <<>> /\ Top(x).pc = l /\ Top(x) \in Frame /\ Top(x) \in FramesOf(x, link)
  BY OnTop DEF At, MqttInv, TypeInv
<1> QED  BY <1>1 DEF FramesOf, Bottom, Opening, Creating, Starting, Holding

\* StopKeepAlive goes on at l.
LEMMA StopGoesOn ==
    ASSUME MqttInv, NEW x \in Actors, NEW j \in {"stop", "join"}, At(x, j),
           NEW l \in {"join", Top(x).then}, GoTo(x, l), UNCHANGED link
    PROVE  /\ StackInv'
           /\ \A y \in Actors \ {x} : stack'[y] = stack[y]
           /\ \A y \in Actors, t \in Transports :
                  Depths(stack'[y], Holding(t)) = Depths(stack[y], Holding(t))
           /\ Depths(stack'[App], Opening) = Depths(stack[App], Opening)
           /\ Depths(stack'[App], Creating) = Depths(stack[App], Creating)
           /\ l # "start" => Depths(stack'[App], Starting) = Depths(stack[App], Starting)
<1> DEFINE g == [Top(x) EXCEPT !.pc = l]
<1>1. /\ stack[x] # <<>> /\ Top(x) \in Frame /\ Top(x).pc = j
      /\ Top(x).then = "give_up" \/ (x = App /\ Top(x).then = "start")
      /\ Top(x).then = "start" => Top(x) \in Bottom
      /\ Top(x) \notin Opening /\ Top(x) \notin Creating /\ Top(x) \notin Starting
      /\ \A t \in Transports : Top(x) \notin Holding(t)
  BY ThenFacts
<1>2. l \in {"join", "give_up", "start"} /\ (l = "start" => x = App /\ Top(x).then = "start")
  BY <1>1
<1>3. g \in Frame /\ g.pc = l /\ g.then = Top(x).then
  BY <1>1, <1>2 DEF Frame, SharedPcs, AppPcs
<1>4. Continue(x, g)
  BY DEF GoTo
<1> HIDE DEF g
<1>5. g \in FramesOf(x, link')
  BY <1>1, <1>2, <1>3 DEF FramesOf, SharedPcs, OwnPcs, AppPcs, RxPcs
<1>6. g \in Bottom => Top(x) \in Bottom
  BY <1>1, <1>2, <1>3 DEF Bottom, AppPcs, RxPcs, KaPcs
<1>7. /\ g \notin Opening /\ g \notin Creating /\ (l # "start" => g \notin Starting)
      /\ \A t \in Transports : g \notin Holding(t)
  BY <1>2, <1>3 DEF Opening, Creating, Starting, Holding
<1>8. ClosedStays
  BY LinkSame
<1>9. /\ StackInv' /\ \A y \in Actors \ {x} : stack'[y] = stack[y]
      /\ \A H : (g \in H <=> Top(x) \in H) => Depths(stack'[x], H) = Depths(stack[x], H)
  BY <1>1, <1>4, <1>5, <1>6, <1>8, HoldersAfter DEF MqttInv, TypeInv
<1>10. \A y \in Actors, t \in Transports :
           Depths(stack'[y], Holding(t)) = Depths(stack[y], Holding(t))
  BY <1>1, <1>7, <1>9
<1> QED  BY <1>1, <1>7, <1>9, <1>10, ActorFacts

LEMMA StopKeepAliveKeeps ==
    ASSUME MqttInv, NEW x \in Actors, StopKeepAlive(x)
    PROVE  MqttInv'
<1> USE DEF MqttInv, TypeInv
<1> DEFINE l == IF kaTask THEN "join" ELSE Top(x).then
<1>1. /\ At(x, "stop") /\ kaRunning' = FALSE /\ GoTo(x, l)
      /\ UNCHANGED <<clientVars, keepAlive, kaTask, ping, linkVars, budget, delivered, told, answered,
                     cut>>
  BY DEF StopKeepAlive
<1>2. l \in {"join", Top(x).then} /\ (l = "start" => ~kaTask)
  OBVIOUS
<1> HIDE DEF l
<1>3. lapses' \subseteq {"strayed", "stale", "raced", "late"}
  BY DEF StopKeepAlive, HistoryType
<1>4. /\ ClientType' /\ KaType' /\ LinkType' /\ HistoryType'
      /\ UNCHANGED <<transport, told, kaTask, link>>
  BY <1>1, <1>3 DEF ClientType, KaType, LinkType, HistoryType, clientVars, linkVars
<1>5. /\ StackInv'
      /\ \A y \in Actors \ {x} : stack'[y] = stack[y]
      /\ \A y \in Actors, t \in Transports :
             Depths(stack'[y], Holding(t)) = Depths(stack[y], Holding(t))
      /\ Depths(stack'[App], Opening) = Depths(stack[App], Opening)
      /\ Depths(stack'[App], Creating) = Depths(stack[App], Creating)
      /\ l # "start" => Depths(stack'[App], Starting) = Depths(stack[App], Starting)
  BY <1>1, <1>2, <1>4, StopGoesOn
<1>6. ClosedStays /\ NoneStays
  BY <1>4, LinkSame
<1>7. OwnerInv'
  BY <1>4, <1>5, <1>6, OwnersKeep
<1>8. stack'[Ka] # <<>> => stack[Ka] # <<>>
  BY <1>1, <1>5, ActorFacts DEF At
<1>9. ConnectInv'
  BY <1>2, <1>4, <1>5, <1>8 DEF ConnectInv
<1> QED  BY <1>4, <1>5, <1>7, <1>9

LEMMA JoinKeepAliveKeeps ==
    ASSUME MqttInv, NEW x \in Actors, JoinKeepAlive(x)
    PROVE  MqttInv'
<1> USE DEF MqttInv, TypeInv
<1>1. /\ At(x, "join") /\ stack[Ka] = <<>> /\ kaTask' = FALSE /\ GoTo(x, Top(x).then)
      /\ UNCHANGED <<clientVars, keepAlive, kaRunning, ping, linkVars, budget, history>>
  BY DEF JoinKeepAlive, Idle
<1>2. /\ ClientType' /\ KaType' /\ LinkType' /\ HistoryType' /\ UNCHANGED <<transport, told, link>>
  BY <1>1 DEF ClientType, KaType, LinkType, HistoryType, clientVars, linkVars, history
<1>3. /\ StackInv'
      /\ \A y \in Actors \ {x} : stack'[y] = stack[y]
      /\ \A y \in Actors, t \in Transports :
             Depths(stack'[y], Holding(t)) = Depths(stack[y], Holding(t))
      /\ Depths(stack'[App], Opening) = Depths(stack[App], Opening)
      /\ Depths(stack'[App], Creating) = Depths(stack[App], Creating)
  BY <1>1, <1>2, StopGoesOn
<1>4. ClosedStays /\ NoneStays
  BY <1>2, LinkSame
<1>5. OwnerInv'
  BY <1>2, <1>3, <1>4, OwnersKeep
<1>6. stack'[Ka] = <<>>
  BY <1>1, <1>3, ActorFacts DEF At
<1>7. ConnectInv'
  BY <1>1, <1>2, <1>3, <1>6 DEF ConnectInv
<1> QED  BY <1>2, <1>3, <1>5, <1>7

\* A call that nobody called, with all its stack.
LEMMA AloneOnTop ==
    ASSUME StackInv, NEW x \in Actors, stack[x] # <<>>, Top(x) \in Bottom
    PROVE  /\ Tail(stack[x]) = <<>> /\ Len(stack[x]) = 1
           /\ \A H : Depths(stack[x], H) = IF Top(x) \in H THEN {0} ELSE {}
<1>1. Tail(stack[x]) = <<>> /\ Len(stack[x]) = 1 /\ stack[x] = <<Top(x)>> /\ Top(x) \in Frame
  BY OnTop, BottomOnTop DEF Top
<1> DEFINE g == Top(x)
<1> HIDE DEF g
<1>2. \A H : Depths(<<g>>, H) = IF g \in H THEN {0} ELSE {}
  BY <1>1, Single DEF g
<1> QED  BY <1>1, <1>2 DEF g

\* The application's call at l, which nobody called.
LEMMA AppAt ==
    ASSUME MqttInv, NEW x \in Actors, NEW l \in {"create", "assign", "start"}, At(x, l)
    PROVE  /\ x = App /\ stack[App] # <<>> /\ Top(App) \in Frame /\ Top(App).pc = l
           /\ Top(App) \in FramesOf(App, link) /\ Top(App) \in Bottom
           /\ Tail(stack[App]) = <<>> /\ Len(stack[App]) = 1
           /\ \A H : Depths(stack[App], H) = IF Top(App) \in H THEN {0} ELSE {}
<1>1. stack[x] # <<>> /\ Top(x).pc = l /\ Top(x) \in Frame /\ Top(x) \in FramesOf(x, link)
  BY OnTop DEF At, MqttInv, TypeInv
<1>2. x = App
  BY <1>1, ActorFacts DEF FramesOf, SharedPcs, OwnPcs, RxPcs, KaPcs
<1>3. Top(x) \in Bottom
  BY <1>1 DEF Bottom, AppPcs
<1> QED  BY <1>1, <1>2, <1>3, AloneOnTop DEF MqttInv, TypeInv

LEMMA StartKeepAliveKeeps ==
    ASSUME MqttInv, NEW x \in Actors, StartKeepAlive(x)
    PROVE  MqttInv'
<1> USE DEF MqttInv, TypeInv
<1> DEFINE g == [Top(App) EXCEPT !.pc = "up"]
           k == [Frame0 EXCEPT !.pc = "loop"]
<1>1. At(x, "start")
  BY DEF StartKeepAlive
<1>2. /\ x = App /\ Top(App) \in Frame /\ Top(App).pc = "start" /\ Tail(stack[App]) = <<>>
      /\ \A H : Depths(stack[App], H) = IF Top(App) \in H THEN {0} ELSE {}
  BY <1>1, AppAt
<1>3. g \in Frame /\ g.pc = "up"
  BY <1>2 DEF Frame, AppPcs
<1>4. k \in Frame /\ k.pc = "loop"
  BY FrameZero DEF Frame, Frame0, KaPcs
<1>5. /\ stack' = [stack EXCEPT ![Ka] = <<k>>, ![App] = <<g>> \o Tail(@)]
      /\ ping' = FALSE /\ kaRunning' = TRUE /\ kaTask' = TRUE
      /\ UNCHANGED <<clientVars, keepAlive, link, wire, broker, budget, history>>
  BY <1>2 DEF StartKeepAlive
<1> HIDE DEF g, k
<1>6. /\ ClientType' /\ KaType' /\ LinkType' /\ HistoryType' /\ UNCHANGED <<transport, told, link>>
  BY <1>5 DEF ClientType, KaType, LinkType, HistoryType, clientVars, history
<1>7. ClosedStays /\ NoneStays
  BY <1>6, LinkSame
<1>8. stack[Ka] = <<>>
  <2>0. Top(App) \in Starting
    BY <1>2 DEF Starting
  <2>1. Depths(stack[App], Starting) # {}
    BY <1>2, <2>0
  <2> QED  BY <2>1 DEF ConnectInv
<1>9. /\ stack'[App] = <<g>> /\ stack'[Ka] = <<k>> /\ stack'[Rx] = stack[Rx]
      /\ DOMAIN stack' = Actors
  <2>1. <<g>> \o Tail(stack[App]) = <<g>>
    <3>1. <<g>> \o <<>> = <<g>>
      BY <1>3, Alone
    <3> QED  BY <1>2, <3>1
  <2> QED  BY <1>5, <2>1, ActorFacts DEF StackInv
<1>10. g \in FramesOf(App, link') /\ g \in Quiet /\ k \in FramesOf(Ka, link') /\ k \in Quiet
  BY <1>3, <1>4, PlainFrame, PlainPcs, ActorFacts
<1>11. /\ <<g>> \in Seq(FramesOf(App, link')) /\ <<k>> \in Seq(FramesOf(Ka, link'))
       /\ \A H : Depths(<<g>>, H) = IF g \in H THEN {0} ELSE {}
       /\ \A H : Depths(<<k>>, H) = IF k \in H THEN {0} ELSE {}
  BY <1>10, Single
<1>12. StackInv'
  <2>1. GoodStack(App, stack'[App], link') /\ GoodStack(Ka, stack'[Ka], link')
    BY <1>9, <1>11 DEF GoodStack
  <2>2. GoodStack(Rx, stack'[Rx], link')
    <3>1. GoodStack(Rx, stack[Rx], link)
      BY ActorFacts DEF StackInv, GoodStack
    <3> QED  BY <1>7, <1>9, <3>1, GoodGrows
  <2>3. \A y \in Actors : GoodStack(y, stack'[y], link')
    BY <2>1, <2>2, ActorFacts
  <2> QED  BY <1>9, <2>3 DEF StackInv, GoodStack
<1>13. \A H : (\A h \in H : h \notin Quiet) => Depths(stack'[App], H) = {} /\ Depths(stack'[Ka], H) = {}
  BY <1>9, <1>10, <1>11
<1>14. \A y \in Actors, t \in Transports :
           Depths(stack'[y], Holding(t)) = Depths(stack[y], Holding(t))
  <2> SUFFICES ASSUME NEW y \in Actors, NEW t \in Transports
               PROVE  Depths(stack'[y], Holding(t)) = Depths(stack[y], Holding(t))
    OBVIOUS
  <2>1. Depths(stack'[App], Holding(t)) = {} /\ Depths(stack'[Ka], Holding(t)) = {}
    BY <1>13, NotQuiet
  <2>2. Depths(stack[App], Holding(t)) = {}
    <3>1. Top(App) \notin Holding(t)
      BY <1>2 DEF Holding
    <3> QED  BY <1>2, <3>1
  <2>3. Depths(stack[Ka], Holding(t)) = {}
    BY <1>8, Empty
  <2> QED  BY <1>9, <2>1, <2>2, <2>3, ActorFacts
<1>15. OwnerInv'
  BY <1>6, <1>7, <1>14, OwnersKeep
<1>16. ConnectInv'
  <2>1. /\ Depths(stack'[App], Opening) = {} /\ Depths(stack'[App], Creating) = {}
        /\ Depths(stack'[App], Starting) = {}
    BY <1>13, NotQuiet
  <2> QED  BY <1>5, <2>1 DEF ConnectInv
<1> QED  BY <1>6, <1>12, <1>15, <1>16

LEMMA ConnectStepKeeps ==
    ASSUME MqttInv, NEW clean \in {0, 1}, NEW period \in BOOLEAN, Connect(clean, period)
    PROVE  MqttInv'
<1> USE DEF MqttInv, TypeInv
<1> DEFINE g == [Frame0 EXCEPT !.pc = "create", !.p = Pkt("connect", 0, 0, clean)]
<1>1. /\ stack[App] = <<>> /\ transport = 0 /\ (\E t \in Transports : link[t] = "none")
      /\ connecting' = TRUE /\ connack' = "none" /\ rxBuf' = <<>> /\ SetStack(App, <<g>>)
      /\ keepAlive' = period
      /\ UNCHANGED <<transport, connected, held, topics, lastId, kaTask, kaRunning, ping, linkVars,
                     budget, history>>
  BY DEF Connect, Idle
<1>2. g \in Frame /\ g.pc = "create"
  <2>1. Pkt("connect", 0, 0, clean) \in Packet
    BY BoundsAssumption DEF Pkt, Packet, PacketTypes, Ids
  <2> QED  BY <2>1, FrameZero DEF Frame, Frame0, AppPcs
<1> HIDE DEF g
<1>3. g \in FramesOf(App, link') /\ g \notin Starting /\ \A t \in Transports : g \notin Holding(t)
  BY <1>2 DEF FramesOf, OwnPcs, AppPcs, RxPcs, Starting, Holding
<1>4. ClientType'
  <2>1. <<>> \in Seq(Packet) /\ Len(<<>>) <= MaxBuffer
    BY BoundsAssumption
  <2> QED  BY <1>1, <2>1 DEF ClientType
<1>5. /\ KaType' /\ LinkType' /\ HistoryType' /\ UNCHANGED <<transport, told, link, kaTask>>
  BY <1>1 DEF KaType, LinkType, HistoryType, linkVars, history
<1>6. ClosedStays /\ NoneStays
  BY <1>5, LinkSame
<1>7. /\ <<g>> \in Seq(FramesOf(App, link'))
      /\ \A H : Depths(<<g>>, H) = IF g \in H THEN {0} ELSE {}
  BY <1>3, Single
<1>8. GoodStack(App, <<g>>, link')
  BY <1>7 DEF GoodStack
<1>9. /\ StackInv' /\ stack'[App] = <<g>>
      /\ \A y \in Actors \ {App} : stack'[y] = stack[y]
  BY <1>1, <1>6, <1>8, StackSet, ActorFacts
<1>10. \A H : Depths(stack[App], H) = {}
  BY <1>1, Empty
<1>11. \A y \in Actors, t \in Transports :
           Depths(stack'[y], Holding(t)) = Depths(stack[y], Holding(t))
  BY <1>3, <1>7, <1>9, <1>10
<1>12. OwnerInv'
  BY <1>5, <1>6, <1>11, OwnersKeep
<1>13. ConnectInv'
  <2>1. Depths(stack'[App], Starting) = {}
    BY <1>3, <1>7, <1>9
  <2>2. stack'[Ka] = stack[Ka]
    BY <1>9, ActorFacts
  <2> QED  BY <1>1, <1>5, <2>1, <2>2 DEF ConnectInv
<1> QED  BY <1>4, <1>5, <1>9, <1>12, <1>13

LEMMA CreateFailsKeeps ==
    ASSUME MqttInv, CreateFails
    PROVE  MqttInv'
<1> USE DEF MqttInv, TypeInv
<1>1. At(App, "create") /\ Return(App) /\ UNCHANGED <<clientVars, kaVars, linkVars, budget, history>>
  BY DEF CreateFails
<1>2. /\ stack[App] # <<>> /\ Top(App).pc = "create" /\ Tail(stack[App]) = <<>>
      /\ \A H : Depths(stack[App], H) = IF Top(App) \in H THEN {0} ELSE {}
  BY <1>1, AppAt, ActorFacts
<1>3. /\ ClientType' /\ KaType' /\ LinkType' /\ HistoryType'
      /\ UNCHANGED <<transport, told, link, kaTask>>
  BY <1>1 DEF ClientType, KaType, LinkType, HistoryType, clientVars, kaVars, linkVars, history
<1>4. ClosedStays /\ NoneStays
  BY <1>3, LinkSame
<1>5. GoodStack(App, Tail(stack[App]), link')
  BY <1>2, <1>4, Returns, GoodGrows, ActorFacts
<1>6. /\ StackInv' /\ stack'[App] = <<>>
      /\ \A y \in Actors \ {App} : stack'[y] = stack[y]
  BY <1>1, <1>2, <1>4, <1>5, StackSet, ActorFacts DEF Return
<1>7. \A H : Depths(stack'[App], H) = {}
  BY <1>6, Empty
<1>8. \A t \in Transports : Depths(stack[App], Holding(t)) = {}
  BY <1>2 DEF Holding
<1>9. OwnerInv'
  <2>1. \A y \in Actors, t \in Transports :
            Depths(stack'[y], Holding(t)) = Depths(stack[y], Holding(t))
    BY <1>6, <1>7, <1>8
  <2> QED  BY <1>3, <1>4, <2>1, OwnersKeep
<1>10. ConnectInv'
  BY <1>3, <1>6, <1>7, ActorFacts DEF ConnectInv
<1> QED  BY <1>3, <1>6, <1>9, <1>10

\* Transports are made in order.
LEMMA LeastTransport ==
    ASSUME NEW S, S \subseteq Transports, S # {}
    PROVE  \E t \in S : \A u \in S : ~(u < t)
<1>1. S \subseteq Nat
  BY BoundsAssumption DEF Transports
<1>2. PICK t \in S : \A u \in S : ~(<<u, t>> \in OpToRel(<, Nat))
  BY <1>1, NatLessThanWellFounded, WFMin, Zenon
<1> QED  BY <1>1, <1>2, Zenon DEF OpToRel

\* Connect has a transport to make, and the least of them.
LEMMA NewTransport ==
    ASSUME MqttInv, At(App, "create")
    PROVE  \E t \in Transports :
               link[t] = "none" /\ \A u \in Transports : u < t => link[u] # "none"
<1> DEFINE S == {t \in Transports : link[t] = "none"}
<1>1. /\ stack[App] # <<>> /\ Top(App).pc = "create" /\ Top(App) \in Frame
      /\ \A H : Depths(stack[App], H) = IF Top(App) \in H THEN {0} ELSE {}
  BY AppAt, ActorFacts
<1>2. \E t \in Transports : link[t] = "none"
  <2>1. Top(App) \in Creating
    BY <1>1 DEF Creating
  <2> QED  BY <1>1, <2>1 DEF ConnectInv, MqttInv
<1>3. S \subseteq Transports /\ S # {}
  BY <1>2
<1> HIDE DEF S
<1>4. PICK t \in S : \A u \in S : ~(u < t)
  BY <1>3, LeastTransport
<1> QED  BY <1>4 DEF S

LEMMA CreateKeeps ==
    ASSUME MqttInv, Create
    PROVE  MqttInv'
<1> USE DEF MqttInv, TypeInv
<1> DEFINE c == CHOOSE t \in Transports :
                    link[t] = "none" /\ \A u \in Transports : u < t => link[u] # "none"
           g == [Top(App) EXCEPT !.pc = "assign", !.own = c]
<1>1. /\ At(App, "create") /\ link' = [link EXCEPT ![c] = "open"] /\ Continue(App, g)
      /\ UNCHANGED <<clientVars, kaVars, wire, broker, budget, history>>
  BY DEF Create
<1>2. /\ stack[App] # <<>> /\ Top(App).pc = "create" /\ Top(App) \in Frame /\ Top(App) \in Bottom
      /\ Len(stack[App]) = 1
      /\ \A H : Depths(stack[App], H) = IF Top(App) \in H THEN {0} ELSE {}
  BY <1>1, AppAt, ActorFacts
<1>3. transport = 0 /\ \E t \in Transports : link[t] = "none"
  <2>1. Top(App) \in Opening /\ Top(App) \in Creating
    BY <1>2 DEF Opening, Creating
  <2> QED  BY <1>2, <2>1 DEF ConnectInv
<1>4. c \in Transports /\ link[c] = "none"
  BY <1>1, NewTransport
<1> HIDE DEF c
<1>5. g \in Frame /\ g.pc = "assign" /\ g.own = c
  BY <1>2, <1>4 DEF Frame, AppPcs, MaybeTransport
<1> HIDE DEF g
<1>6. /\ g \in FramesOf(App, link') /\ g \notin Creating /\ g \notin Starting
      /\ \A t \in Transports : g \in Holding(t) <=> t = c
  BY <1>4, <1>5 DEF FramesOf, OwnPcs, AppPcs, Creating, Starting, Holding
<1>7. /\ ClosedStays /\ link'[c] = "open" /\ \A t \in Transports \ {c} : link'[t] = link[t]
  BY <1>1, <1>4 DEF ClosedStays, LinkType
<1>8. /\ ClientType' /\ KaType' /\ LinkType' /\ HistoryType' /\ UNCHANGED <<transport, told, kaTask>>
  BY <1>1 DEF ClientType, KaType, LinkType, HistoryType, clientVars, kaVars, history
<1>9. /\ StackInv' /\ (stack'[Ka] # <<>> => stack[Ka] # <<>>)
      /\ \A y \in Actors \ {App} : stack'[y] = stack[y]
      /\ \A H : (g \in H <=> Top(App) \in H) => Depths(stack'[App], H) = Depths(stack[App], H)
      /\ \A H : g \notin H =>
             Depths(stack'[App], H) = Depths(stack[App], H) \ {Len(stack[App]) - 1}
      /\ \A H : Depths(stack[App], H) = {} /\ g \in H =>
             Depths(stack'[App], H) = {Len(stack[App]) - 1}
  BY <1>1, <1>2, <1>6, <1>7, HoldersAfter, ActorFacts
<1>10. \A t \in Transports : Top(App) \notin Holding(t)
  BY <1>2 DEF Holding
<1>11. OwnerInv'
  <2> SUFFICES ASSUME NEW t \in Transports PROVE OneOwner(t)'
    BY DEF OwnerInv
  <2>1. OneOwner(t) /\ t # 0
    BY NotZero DEF OwnerInv
  <2>2. CASE t = c
    <3>1. \A y \in Actors : Depths(stack[y], Holding(t)) = {}
      BY <1>4, <2>1, <2>2 DEF OneOwner
    <3>2. Depths(stack'[App], Holding(t)) = {0}
      <4>1. Len(stack[App]) - 1 = 0
        BY <1>2
      <4> QED  BY <1>6, <1>9, <2>2, <3>1, <4>1, ActorFacts
    <3>3. \A y \in Actors \ {App} : Depths(stack'[y], Holding(t)) = {}
      BY <1>9, <3>1
    <3>4. \A y \in Actors : \A d \in Depths(stack'[y], Holding(t)) : y = App /\ d = 0
      BY <3>2, <3>3
    <3>5. \E y \in Actors : Depths(stack'[y], Holding(t)) # {}
      BY <3>2, ActorFacts
    <3>6. told[t] = 0
      BY <1>4, <2>1, <2>2 DEF OneOwner, HistoryType
    <3>7. ASSUME NEW y \in Actors, NEW z \in Actors, NEW d \in Depths(stack'[y], Holding(t)),
                 NEW e \in Depths(stack'[z], Holding(t))
          PROVE  y = z /\ d = e
      BY <3>4
    <3>8. transport' # t /\ told'[t] = 0 /\ link'[t] # "none"
      BY <1>3, <1>7, <1>8, <2>1, <2>2, <3>6
    <3> QED  BY <3>5, <3>7, <3>8 DEF OneOwner
  <2>3. CASE t # c
    <3>1. \A y \in Actors : Depths(stack'[y], Holding(t)) = Depths(stack[y], Holding(t))
      BY <1>6, <1>9, <1>10, <2>3
    <3>2. link'[t] = link[t]
      BY <1>7, <2>3
    <3> QED  BY <1>8, <2>1, <3>1, <3>2 DEF OneOwner
  <2> QED  BY <2>2, <2>3
<1>12. ConnectInv'
  <2>1. Depths(stack'[App], Creating) = {} /\ Depths(stack'[App], Starting) = {}
    <3>1. Len(stack[App]) - 1 = 0
      BY <1>2
    <3> QED  BY <1>2, <1>6, <1>9, <3>1
  <2> QED  BY <1>3, <1>8, <1>9, <2>1 DEF ConnectInv
<1> QED  BY <1>8, <1>9, <1>11, <1>12

LEMMA AssignKeeps ==
    ASSUME MqttInv, Assign
    PROVE  MqttInv'
<1> USE DEF MqttInv, TypeInv
<1> DEFINE c == Top(App).own
           g == [Top(App) EXCEPT !.pc = "send_connect"]
<1>1. /\ At(App, "assign") /\ transport' = c /\ Continue(App, g)
      /\ UNCHANGED <<connected, connecting, connack, rxBuf, held, topics, lastId, kaVars, linkVars,
                     budget, history>>
  BY DEF Assign, GoTo
<1>2. /\ stack[App] # <<>> /\ Top(App).pc = "assign" /\ Top(App) \in Frame /\ Top(App) \in Bottom
      /\ Top(App) \in FramesOf(App, link) /\ Len(stack[App]) = 1
      /\ \A H : Depths(stack[App], H) = IF Top(App) \in H THEN {0} ELSE {}
  BY <1>1, AppAt, ActorFacts
<1>3. transport = 0 /\ c \in Transports
  <2>1. Top(App) \in Opening
    BY <1>2 DEF Opening
  <2> QED  BY <1>2, <2>1 DEF ConnectInv, FramesOf
<1>4. g \in Frame /\ g.pc = "send_connect"
  BY <1>2 DEF Frame, AppPcs
<1>5. \A t \in Transports : Top(App) \in Holding(t) <=> t = c
  BY <1>2 DEF Holding
<1> HIDE DEF g, c
<1>6. g \in FramesOf(App, link') /\ g \in Quiet
  BY <1>4, PlainFrame, PlainPcs, ActorFacts
<1>7. ClosedStays /\ NoneStays
  BY <1>1, LinkSame DEF linkVars
<1>8. ClientType' /\ KaType' /\ LinkType' /\ HistoryType' /\ UNCHANGED <<told, link, kaTask>>
  BY <1>1, <1>3 DEF ClientType, KaType, LinkType, HistoryType, kaVars, linkVars, history,
     MaybeTransport
<1>9. /\ StackInv' /\ (stack'[Ka] # <<>> => stack[Ka] # <<>>)
      /\ \A y \in Actors \ {App} : stack'[y] = stack[y]
      /\ \A H : g \notin H =>
             Depths(stack'[App], H) = Depths(stack[App], H) \ {Len(stack[App]) - 1}
  BY <1>1, <1>2, <1>6, <1>7, HoldersAfter, ActorFacts
<1>10. \A H : (\A h \in H : h \notin Quiet) => Depths(stack'[App], H) = {}
  <2>1. Len(stack[App]) - 1 = 0
    BY <1>2
  <2> QED  BY <1>2, <1>6, <1>9, <2>1
<1>11. OwnerInv'
  <2> SUFFICES ASSUME NEW t \in Transports PROVE OneOwner(t)'
    BY DEF OwnerInv
  <2>1. OneOwner(t)
    BY DEF OwnerInv
  <2>2. Depths(stack'[App], Holding(t)) = {}
    BY <1>10, NotQuiet
  <2>3. CASE t = c
    <3>1. Depths(stack[App], Holding(t)) = {0}
      BY <1>2, <1>5, <2>3
    <3>2. \A y \in Actors \ {App} : Depths(stack[y], Holding(t)) = {}
      <4>1. \A y, z \in Actors : \A d \in Depths(stack[y], Holding(t)),
                                    e \in Depths(stack[z], Holding(t)) : y = z
        BY <2>1 DEF OneOwner
      <4> QED  BY <3>1, <4>1, ActorFacts
    <3>3. \A y \in Actors : Depths(stack'[y], Holding(t)) = {}
      BY <1>9, <2>2, <3>2
    <3>4. told[t] = 0 /\ link[t] # "none"
      BY <2>1, <3>1, ActorFacts DEF OneOwner
    <3> QED  BY <1>1, <1>8, <2>3, <3>3, <3>4 DEF OneOwner
  <2>4. CASE t # c
    <3>1. Depths(stack[App], Holding(t)) = {}
      BY <1>2, <1>5, <2>4
    <3>2. \A y \in Actors : Depths(stack'[y], Holding(t)) = Depths(stack[y], Holding(t))
      BY <1>9, <2>2, <3>1
    <3>3. transport # t
      BY <1>3, NotZero
    <3> QED  BY <1>1, <1>8, <2>1, <2>4, <3>2, <3>3, SMTT(30) DEF OneOwner
  <2> QED  BY <2>3, <2>4
<1>12. ConnectInv'
  <2>1. /\ Depths(stack'[App], Opening) = {} /\ Depths(stack'[App], Creating) = {}
        /\ Depths(stack'[App], Starting) = {}
    BY <1>10, NotQuiet
  <2> QED  BY <1>8, <1>9, <2>1 DEF ConnectInv
<1> QED  BY <1>8, <1>9, <1>11, <1>12

-----------------------------------------------------------------------------
(* The invariant, and what follows from it. *)

LEMMA InitInv ==
    ASSUME Init
    PROVE  MqttInv
<1> USE DEF Init
<1>1. \A H : Depths(<<>>, H) = {}
  BY Empty
<1>2. \A x \in Actors : stack[x] = <<>>
  OBVIOUS
<1>3. \A x \in Actors : \A H : Depths(stack[x], H) = {}
  BY <1>1, <1>2
<1>4. StackInv
  <2>1. \A x \in Actors : stack[x] \in Seq(FramesOf(x, link))
    BY <1>2, Empty
  <2> QED  BY <1>3, <2>1 DEF StackInv
<1>5. ClientType
  <2>1. <<>> \in Seq(Packet) /\ Len(<<>>) <= MaxBuffer
    BY BoundsAssumption
  <2>2. topics \in [1 .. MaxPacketId -> 0 .. MaxEvents] /\ lastId \in 0 .. MaxPacketId
    BY BoundsAssumption
  <2>3. held \in [BrokerIds -> Msgs \cup {0}]
    OBVIOUS
  <2> QED  BY <2>1, <2>2, <2>3 DEF ClientType, MaybeTransport
<1>6. KaType /\ LinkType /\ HistoryType
  <2>1. <<>> \in Seq(Packet)
    OBVIOUS
  <2>2. LinkType
    BY <2>1 DEF LinkType, BrokerStates, MaybeTransport
  <2>3. /\ budget \in 0 .. MaxEvents /\ delivered \in [Msgs -> Nat]
        /\ told \in [Transports -> {0, 1}]
    BY BoundsAssumption
  <2> QED  BY <2>2, <2>3 DEF KaType, HistoryType
<1>7. OwnerInv
  BY <1>3, NotZero DEF OwnerInv, OneOwner
<1>8. ConnectInv
  BY <1>2, <1>3, ActorFacts DEF ConnectInv
<1> QED  BY <1>4, <1>5, <1>6, <1>7, <1>8 DEF MqttInv, TypeInv

LEMMA StutterInv ==
    ASSUME MqttInv, UNCHANGED vars
    PROVE  MqttInv'
<1>1. UNCHANGED <<stack, clientVars, kaVars, linkVars, budget, history>>
  BY DEF vars
<1>2. /\ ClientType' /\ KaType' /\ LinkType' /\ HistoryType'
      /\ UNCHANGED <<transport, told, kaTask, link>>
  BY <1>1 DEF MqttInv, TypeInv, ClientType, KaType, LinkType, HistoryType, clientVars, kaVars,
     linkVars, history
<1>3. ClosedStays /\ NoneStays
  BY <1>2, LinkSame
<1>4. Quietly
  BY <1>1, <1>3, StacksStay DEF MqttInv, TypeInv
<1> QED  BY <1>2, <1>3, <1>4, QuietAction

LEMMA NextInv ==
    ASSUME MqttInv, Next
    PROVE  MqttInv'
<1>1. ASSUME NEW x \in Actors, Calls(x)
      PROVE  MqttInv'
  BY <1>1, GiveUpKeeps, HushKeeps, DropKeeps, TellKeeps, StopKeepAliveKeeps, JoinKeepAliveKeeps,
     StartKeepAliveKeeps DEF Calls, Teardown
<1>2. ASSUME KeepAlive
      PROVE  MqttInv'
  BY <1>2, KaExitKeeps, KaPingKeeps, KaTickKeeps, KaStoreKeeps, KaTimeoutKeeps DEF KeepAlive
<1>3. ASSUME Application
      PROVE  MqttInv'
  <2>1. 0 \in 0 .. 2
    OBVIOUS
  <2>2. ASSUME Publish \/ Subscribe \/ Unsubscribe
        PROVE  MqttInv'
    BY <2>1, <2>2, PrepareKeeps DEF Publish, Subscribe, Unsubscribe
  <2> QED
    BY <1>3, <2>2, ConnectStepKeeps, CreateFailsKeeps, CreateKeeps, AssignKeeps, SendConnectKeeps,
       WaitKeeps, ConnectReturnsKeeps, DisconnectKeeps, SendRequestKeeps DEF Application
<1>4. ASSUME Receive
      PROVE  MqttInv'
  BY <1>4, OnTransportDataKeeps, OverflowKeeps, TakePacketKeeps, HandleConnackKeeps,
     HandlePublishKeeps, HoldPublishKeeps, SendPubrecKeeps, HandlePubrelKeeps, SendPubcompKeeps,
     DeliverKeeps, HandleSubackKeeps, HandlePingrespKeeps DEF Receive, Handlers
<1>5. ASSUME Broker
      PROVE  MqttInv'
  BY <1>5, BrokerPublishesKeeps, BrokerReleasesAgainKeeps, BrokerSendsKeeps DEF Broker
<1>6. ASSUME NEW t \in Transports, LinkGoesSilent(t) \/ OnTransportClosed(t)
      PROVE  MqttInv'
  BY <1>6, LinkGoesSilentKeeps, OnTransportClosedKeeps
<1> QED  BY <1>1, <1>2, <1>3, <1>4, <1>5, <1>6, TimePassesKeeps DEF Next

\* The period since the last packet has run out or has not.
RecentType == recent \in BOOLEAN

LEMMA SendRecent ==
    ASSUME RecentType, NEW p, SendPacket(p)
    PROVE  RecentType'
  BY DEF RecentType, SendPacket, Sends, SendFails

LEMMA NextRecent ==
    ASSUME RecentType, [Next]_vars
    PROVE  RecentType'
<1> USE DEF RecentType
<1>1. ASSUME NEW x \in Actors, Calls(x)
      PROVE  RecentType'
  BY <1>1 DEF Calls, Teardown, GiveUp, Hush, Drop, CloseLink, Tell, StopKeepAlive, JoinKeepAlive,
     StartKeepAlive, linkVars
<1>2. ASSUME KeepAlive \/ TimePasses
      PROVE  RecentType'
  BY <1>2 DEF KeepAlive, KaExit, KaPing, KaPingFails, KaTick, KaStore, KaTimeout, TimePasses,
     Sends, SendFails, linkVars
<1>3. ASSUME Application
      PROVE  RecentType'
  <2>1. ASSUME SendConnect \/ SendRequest
        PROVE  RecentType'
    BY <2>1 DEF SendConnect, SendRequest, Sends, SendFails
  <2>2. ASSUME \/ \E clean \in {0, 1}, period \in BOOLEAN : Connect(clean, period)
               \/ CreateFails \/ Create \/ Assign \/ WaitAccepted \/ WaitRefused \/ WaitTimeout
               \/ ConnectReturns \/ Disconnect \/ Publish \/ Subscribe \/ Unsubscribe
        PROVE  UNCHANGED recent
    BY <2>2 DEF Connect, CreateFails, Create, Assign, WaitAccepted, WaitRefused, WaitTimeout,
       ConnectReturns, Disconnect, Publish, Subscribe, Unsubscribe, Prepare, linkVars
  <2> QED  BY <1>3, <2>1, <2>2 DEF Application
<1>4. ASSUME Receive
      PROVE  RecentType'
  <2>1. ASSUME HandlePublish \/ SendPubrec \/ SendPubcomp \/ HandlePubrec
        PROVE  RecentType'
    BY <2>1, SendRecent DEF HandlePublish, SendPubrec, SendPubcomp, HandlePubrec
  <2>2. ASSUME \/ \E t \in Transports : \E n \in 1 .. Len(wire[t]) : OnTransportData(t, n)
               \/ Overflow \/ TakePacket \/ HandleConnack \/ HoldPublish \/ HandlePubrel \/ Deliver
               \/ HandlePublishComplete \/ HandleSuback \/ ReportRefused \/ HandlePingresp
        PROVE  UNCHANGED recent
    BY <2>2 DEF OnTransportData, Overflow, TakePacket, HandleConnack, HoldPublish, HandlePubrel,
       Deliver, HandlePublishComplete, HandleSuback, ReportRefused, HandlePingresp, linkVars
  <2> QED  BY <1>4, <2>1, <2>2 DEF Receive, Handlers
<1>5. ASSUME Broker \/ \E t \in Transports : LinkGoesSilent(t) \/ OnTransportClosed(t)
      PROVE  RecentType'
  BY <1>5 DEF Broker, BrokerPublishes, BrokerReleasesAgain, BrokerSends, LinkGoesSilent,
     OnTransportClosed, CloseLink
<1>6. ASSUME UNCHANGED vars
      PROVE  RecentType'
  BY <1>6 DEF vars, linkVars
<1> QED  BY <1>1, <1>2, <1>3, <1>4, <1>5, <1>6 DEF Next

LEMMA InvTypes ==
    ASSUME MqttInv, RecentType
    PROVE  TypeOK
<1> USE DEF MqttInv, TypeInv
<1>1. ASSUME NEW p \in Packet
      PROVE  IsPacket(p)
  BY DEF Packet, IsPacket, Ids
<1>2. ASSUME NEW x \in Actors, NEW i \in 1 .. Len(stack[x])
      PROVE  /\ IsPacket(stack[x][i].p)
             /\ {stack[x][i].own, stack[x][i].t} \subseteq {0} \cup Transports
  <2>1. stack[x] \in Seq(FramesOf(x, link))
    BY DEF StackInv
  <2>2. stack[x][i] \in FramesOf(x, link)
    BY <2>1
  <2>3. stack[x][i] \in Frame
    BY <2>2 DEF FramesOf
  <2>4. /\ stack[x][i].p \in Packet
        /\ stack[x][i].own \in MaybeTransport /\ stack[x][i].t \in MaybeTransport
    BY <2>3 DEF Frame
  <2> QED  BY <1>1, <2>4 DEF MaybeTransport
<1>3. \A i \in DOMAIN rxBuf : IsPacket(rxBuf[i])
  BY <1>1 DEF ClientType
<1>4. ASSUME NEW t \in Transports, NEW i \in DOMAIN wire[t]
      PROVE  IsPacket(wire[t][i])
  <2>1. wire[t] \in Seq(Packet)
    BY DEF LinkType
  <2> QED  BY <1>1, <2>1
<1>5. {connected, connecting, keepAlive, kaTask, kaRunning, ping, recent, answered} \subseteq BOOLEAN
  BY DEF ClientType, KaType, HistoryType, RecentType
<1>6. told \in [Transports -> Nat] /\ broker.on \in MaybeTransport
  BY DEF HistoryType, LinkType
<1> QED  BY <1>2, <1>3, <1>4, <1>5, <1>6 DEF TypeOK, ClientType, LinkType, HistoryType, MaybeTransport

LEMMA InvToldOnce ==
    ASSUME MqttInv
    PROVE  ToldOnce
<1> USE DEF MqttInv, TypeInv
<1>1. \A t \in Transports : told[t] <= 1
  <2>1. \A t \in Transports : told[t] = 0 \/ told[t] = 1
    BY DEF HistoryType
  <2> QED  BY <2>1
<1>2. ASSUME AtRest, Idle(Ka), transport = 0, NEW t \in Transports, link[t] # "none"
      PROVE  told[t] = 1
  <2>1. \A x \in Actors : Depths(stack[x], Holding(t)) = {}
    BY <1>2, ActorFacts, Empty DEF AtRest, Idle
  <2>2. OneOwner(t)
    BY DEF OwnerInv
  <2> QED  BY <1>2, <2>1, <2>2, NotZero DEF OneOwner
<1> QED  BY <1>1, <1>2 DEF ToldOnce

\* The calls, the buffers and the maps of the client stay well formed, and at every
\* moment a connection has one owner: Connect before it is transport_, transport_,
\* the Teardown that moved it out, or nobody once on_disconnected_ has run for it.
THEOREM MqttInvariant == Spec => []MqttInv
<1>1. Init => MqttInv
  BY InitInv
<1>2. MqttInv /\ [Next]_vars => MqttInv'
  BY NextInv, StutterInv
<1> QED  BY <1>1, <1>2, PTL DEF Spec

\* The state of the client keeps its types: a packet in hand names an id that
\* pending_qos2_ or pending_topics_ can have, rx_buffer_ stays within its bound.
THEOREM TypeCorrect == Spec => []TypeOK
<1>1. Init => RecentType
  BY DEF Init, RecentType
<1>2. RecentType /\ [Next]_vars => RecentType'
  BY NextRecent
<1>3. MqttInv /\ RecentType => TypeOK
  BY InvTypes
<1> QED  BY <1>1, <1>2, <1>3, MqttInvariant, PTL DEF Spec

\* on_disconnected_ runs at most once for a connection, whichever of the three threads
\* and the transport's own report tear it down; once no call is under way and there is
\* no transport_, it has run for every connection there was (Teardown moves transport_
\* out under the lock, and only who moved it reports).
THEOREM MqttToldOnce == Spec => []ToldOnce
  BY InvToldOnce, MqttInvariant, PTL

-----------------------------------------------------------------------------
(* The client implements ConnectionLife, but for its fairness. *)

LEMMA LifeStutters ==
    ASSUME UNCHANGED <<link, told>>
    PROVE  UNCHANGED Life!vars
  BY DEF Life!vars

\* Connections that close, one at most, and nobody is told.
LEMMA LifeCloses ==
    ASSUME LinkType, NEW t \in Transports, link[t] \in {"open", "silent"},
           link' = [link EXCEPT ![t] = "closed"], UNCHANGED told
    PROVE  Life!Next
<1>1. Life!Close(t)
  BY DEF Life!Close, LinkType
<1> QED  BY <1>1 DEF Life!Next

LEMMA LifeOpens ==
    ASSUME LinkType, NEW t \in Transports, link[t] = "none",
           link' = [link EXCEPT ![t] = "open"], UNCHANGED told
    PROVE  Life!Next
<1>1. Life!Open(t)
  BY DEF Life!Open, LinkType
<1> QED  BY <1>1 DEF Life!Next

LEMMA LifeTells ==
    ASSUME MqttInv, NEW x \in Actors, Tell(x)
    PROVE  Life!Next
<1> USE DEF MqttInv, TypeInv
<1>1. stack[x] # <<>> /\ Top(x).pc = "tell" /\ Top(x) \in Frame /\ Top(x) \in FramesOf(x, link)
  BY OnTop DEF Tell, At
<1>2. Top(x).t \in Transports /\ link[Top(x).t] = "closed"
  BY <1>1 DEF FramesOf
<1>3. Top(x) \in Holding(Top(x).t)
  BY <1>1 DEF Holding
<1>4. told[Top(x).t] = 0
  <2>1. Depths(stack[x], Holding(Top(x).t)) # {}
    BY <1>1, <1>3, OnTop
  <2>2. OneOwner(Top(x).t)
    BY <1>2 DEF OwnerInv
  <2> QED  BY <2>1, <2>2 DEF OneOwner
<1> DEFINE u == Top(x).t
<1>5. told' = [told EXCEPT ![u] = 1] /\ UNCHANGED link
  BY <1>4 DEF Tell, linkVars
<1>6. u \in Transports /\ link[u] = "closed" /\ told[u] = 0
  BY <1>2, <1>4
<1> HIDE DEF u
<1>7. Life!Tell(u)
  BY <1>5, <1>6 DEF Life!Tell
<1> QED  BY <1>6, <1>7 DEF Life!Next

LEMMA LifeDrops ==
    ASSUME MqttInv, NEW x \in Actors, Drop(x)
    PROVE  Life!Next \/ UNCHANGED Life!vars
<1> USE DEF MqttInv, TypeInv
<1>1. stack[x] # <<>> /\ Top(x).pc = "drop" /\ Top(x) \in Frame /\ Top(x) \in FramesOf(x, link)
  BY OnTop DEF Drop, At
<1>2. Top(x).t \in Transports /\ [Top(x) EXCEPT !.pc = "tell"].t = Top(x).t
  BY <1>1 DEF FramesOf, Frame
<1>3. UNCHANGED told
  BY DEF Drop, history
<1>4. CASE link[Top(x).t] \in {"open", "silent"} /\ link' = [link EXCEPT ![Top(x).t] = "closed"]
  BY <1>2, <1>3, <1>4, LifeCloses
<1>5. CASE UNCHANGED link
  BY <1>3, <1>5, LifeStutters
<1> QED  BY <1>2, <1>4, <1>5 DEF Drop, CloseLink, linkVars

LEMMA LifeCreates ==
    ASSUME MqttInv, Create
    PROVE  Life!Next
<1> USE DEF MqttInv, TypeInv
<1> DEFINE c == CHOOSE t \in Transports :
                    link[t] = "none" /\ \A u \in Transports : u < t => link[u] # "none"
<1>1. At(App, "create") /\ link' = [link EXCEPT ![c] = "open"] /\ UNCHANGED told
  BY DEF Create, history
<1>2. c \in Transports /\ link[c] = "none"
  <2>1. Top(App) \in Creating /\ stack[App] # <<>>
    BY <1>1, AppAt, ActorFacts DEF Creating
  <2>2. \E t \in Transports : link[t] = "none"
    <3>1. Depths(stack[App], Creating) # {}
      BY <2>1, OnTop, ActorFacts
    <3> QED  BY <3>1 DEF ConnectInv
  <2> DEFINE S == {t \in Transports : link[t] = "none"}
  <2>3. S \subseteq Transports /\ S # {}
    BY <2>2
  <2> HIDE DEF S
  <2>4. PICK t \in S : \A u \in S : ~(u < t)
    BY <2>3, LeastTransport
  <2>5. /\ t \in Transports /\ link[t] = "none"
        /\ \A u \in Transports : u < t => link[u] # "none"
    BY <2>4 DEF S
  <2> QED  BY <2>5
<1> HIDE DEF c
<1> QED  BY <1>1, <1>2, LifeOpens

LEMMA LifeGoesSilent ==
    ASSUME MqttInv, NEW t \in Transports, LinkGoesSilent(t)
    PROVE  UNCHANGED Life!vars
<1>1. /\ link \in [Transports -> {"none", "open", "silent", "closed"}] /\ link[t] = "open"
      /\ link' = [link EXCEPT ![t] = "silent"] /\ UNCHANGED told
  BY DEF MqttInv, TypeInv, LinkType, LinkGoesSilent, history
<1>2. \A u \in Transports : (IF link'[u] = "silent" THEN "open" ELSE link'[u])
                          = (IF link[u] = "silent" THEN "open" ELSE link[u])
  BY <1>1
<1> QED  BY <1>1, <1>2 DEF Life!vars

LEMMA LifeStep ==
    ASSUME MqttInv, Next
    PROVE  Life!Next \/ UNCHANGED Life!vars
<1>1. ASSUME NEW x \in Actors, Calls(x)
      PROVE  Life!Next \/ UNCHANGED Life!vars
  <2>1. ASSUME GiveUp(x) \/ Hush(x) \/ StopKeepAlive(x) \/ JoinKeepAlive(x) \/ StartKeepAlive(x)
        PROVE  UNCHANGED <<link, told>>
    BY <2>1 DEF GiveUp, Hush, StopKeepAlive, JoinKeepAlive, StartKeepAlive, linkVars, history
  <2> QED  BY <1>1, <2>1, LifeDrops, LifeTells, LifeStutters DEF Calls, Teardown
<1>2. ASSUME KeepAlive \/ TimePasses
      PROVE  UNCHANGED <<link, told>>
  BY <1>2 DEF KeepAlive, KaExit, KaPing, KaPingFails, KaTick, KaStore, KaTimeout, TimePasses,
     linkVars, history
<1>3. ASSUME Application
      PROVE  Life!Next \/ UNCHANGED Life!vars
  <2>1. ASSUME \/ \E clean \in {0, 1}, period \in BOOLEAN : Connect(clean, period)
               \/ CreateFails \/ Assign \/ SendConnect \/ WaitAccepted \/ WaitRefused \/ WaitTimeout
               \/ ConnectReturns \/ Disconnect \/ Publish \/ Subscribe \/ Unsubscribe \/ SendRequest
        PROVE  UNCHANGED <<link, told>>
    BY <2>1 DEF Connect, CreateFails, Assign, SendConnect, WaitAccepted, WaitRefused, WaitTimeout,
       ConnectReturns, Disconnect, Publish, Subscribe, Unsubscribe, Prepare, SendRequest, linkVars,
       history
  <2> QED  BY <1>3, <2>1, LifeCreates, LifeStutters DEF Application
<1>4. ASSUME Receive
      PROVE  UNCHANGED <<link, told>>
  BY <1>4 DEF Receive, Handlers, OnTransportData, Overflow, TakePacket, HandleConnack,
     HandlePublish, HoldPublish, SendPubrec, HandlePubrel, SendPubcomp, Deliver, HandlePubrec,
     HandlePublishComplete, HandleSuback, ReportRefused, HandlePingresp, linkVars, history
<1>5. ASSUME Broker
      PROVE  UNCHANGED <<link, told>>
  BY <1>5 DEF Broker, BrokerPublishes, BrokerReleasesAgain, BrokerSends, linkVars, history
<1>6. ASSUME NEW t \in Transports, OnTransportClosed(t)
      PROVE  Life!Next
  <2>1. /\ link[t] \in {"open", "silent"} /\ link' = [link EXCEPT ![t] = "closed"]
        /\ UNCHANGED told /\ LinkType
    BY <1>6 DEF OnTransportClosed, CloseLink, history, MqttInv, TypeInv
  <2> QED  BY <2>1, LifeCloses
<1> QED
  BY <1>1, <1>2, <1>3, <1>4, <1>5, <1>6, LifeGoesSilent, LifeStutters DEF Next

\* Every connection of the client goes through its life in order: it opens once,
\* closes for good, whoever closes it, and only then is its end reported to
\* on_disconnected_, once (the safety part of LifeSpec).
THEOREM LifeSafety == Spec => Life!Init /\ [][Life!Next]_(Life!vars)
<1>1. Init => Life!Init
  BY DEF Init, Life!Init
<1>2. MqttInv /\ [Next]_vars => [Life!Next]_(Life!vars)
  <2>1. ASSUME UNCHANGED vars PROVE UNCHANGED Life!vars
    <3>1. UNCHANGED <<link, told>>
      BY <2>1 DEF vars, linkVars, history
    <3> QED  BY <3>1, LifeStutters
  <2> QED  BY <2>1, LifeStep
<1> QED  BY <1>1, <1>2, MqttInvariant, PTL DEF Spec

-----------------------------------------------------------------------------
(* A connected client is usable. *)

\* Thread x is in a call with a pc in S.
TopIn(x, S) == stack[x] # <<>> /\ Top(x).pc \in S

\* Connect after it has made transport_ and before it has started the keep-alive task.
InConnect ==
    \/ TopIn(App, {"send_connect", "wait", "start"})
    \/ TopIn(App, {"stop", "join"}) /\ Top(App).then = "start"

\* Thread x is about to give transport_ up.
EndingAt(x) ==
    \/ TopIn(x, {"give_up"})
    \/ TopIn(x, {"stop", "join"}) /\ Top(x).then = "give_up"

Ending == \E x \in Actors : EndingAt(x)

\* Teardown after it has given transport_ up.
Dropping == {"hush", "drop", "tell"}

\* connected_, the CONNACK and transport_ go together; a transport that is not
\* connected is Connect's.
FlagsInv ==
    /\ connected => transport # 0 /\ connack = "ok" /\ ~connecting
    /\ connack = "ok" => connected
    /\ transport # 0 /\ ~connected => TopIn(App, {"send_connect", "wait", "give_up"})

\* Who has given transport_ up meets no session but one that the application's thread
\* is making or one without a keep-alive period, and that only on the keep-alive task,
\* which Connect joins when there is a period.
DroppedInv ==
    /\ TopIn(App, Dropping) => ~connected /\ ~connecting
    /\ TopIn(Rx, Dropping) => ~connected
    /\ TopIn(Ka, Dropping) =>
           ~connected \/ ~keepAlive \/ InConnect \/ TopIn(App, {"give_up"})

\* A session has its task, will have it, or is about to end.
TaskInv ==
    connected /\ keepAlive /\ ~InConnect => Ending \/ (kaTask /\ kaRunning /\ stack[Ka] # <<>>)

UsableInv == "stale" \notin lapses => FlagsInv /\ DroppedInv /\ TaskInv

-----------------------------------------------------------------------------
(* The call on top after a step. *)

LEMMA StackIs ==
    ASSUME StackInv, NEW x \in Actors, NEW s, SetStack(x, s)
    PROVE  stack'[x] = s /\ \A y \in Actors \ {x} : stack'[y] = stack[y]
  BY DEF StackInv, SetStack

LEMMA StackFrames ==
    ASSUME StackInv, NEW x \in Actors
    PROVE  /\ stack[x] \in Seq(Frame)
           /\ stack[x] # <<>> => Tail(stack[x]) \in Seq(Frame) /\ Top(x) \in Frame
<1>1. stack[x] \in Seq(FramesOf(x, link)) /\ FramesOf(x, link) \subseteq Frame
  BY DEF StackInv, FramesOf
<1>2. stack[x] \in Seq(Frame)
  BY <1>1, StackGrows
<1> QED  BY <1>2, StackType DEF Top

LEMMA TopIs ==
    ASSUME StackInv, NEW x \in Actors, stack[x] # <<>>, NEW g \in Frame, Continue(x, g)
    PROVE  /\ stack'[x] # <<>> /\ Head(stack'[x]) = g
           /\ \A y \in Actors \ {x} : stack'[y] = stack[y]
<1> DEFINE s == <<g>> \o Tail(stack[x])
<1>1. s # <<>> /\ Head(s) = g
  BY StackFrames, Replaced
<1>2. SetStack(x, s)
  BY DEF Continue
<1> HIDE DEF s
<1> QED  BY <1>1, <1>2, StackIs

LEMMA HangupFacts ==
    ASSUME ClientType
    PROVE  /\ DisconnectFrame \in Frame /\ DisconnectFrame.pc = "stop"
           /\ DisconnectFrame.then = "give_up"
  BY FrameZero DEF ClientType, DisconnectFrame, Frame0, Frame, SharedPcs

\* A callback returns, or its Disconnect is the call on top.
LEMMA CallbackTop ==
    ASSUME StackInv, ClientType, NEW x \in Actors, NEW s \in Seq(Frame), Callback(x, s)
    PROVE  /\ \A y \in Actors \ {x} : stack'[y] = stack[y]
           /\ \/ stack'[x] = s
              \/ /\ stack'[x] # <<>> /\ Head(stack'[x]).pc = "stop"
                 /\ Head(stack'[x]).then = "give_up"
<1>1. CASE SetStack(x, s)
  BY <1>1, StackIs
<1>2. CASE SetStack(x, <<DisconnectFrame>> \o s)
  <2> DEFINE g == DisconnectFrame
             r == <<g>> \o s
  <2>1. g \in Frame /\ g.pc = "stop" /\ g.then = "give_up"
    BY HangupFacts
  <2>2. SetStack(x, r)
    BY <1>2
  <2> HIDE DEF g
  <2>3. r # <<>> /\ Head(r) = g
    BY <2>1, Pushed
  <2> HIDE DEF r
  <2> QED  BY <2>1, <2>2, <2>3, StackIs
<1> QED  BY <1>1, <1>2 DEF Callback

-----------------------------------------------------------------------------
(* The steps of one thread that leave the session as it is. *)

SessionStays ==
    /\ lapses \subseteq lapses'
    /\ UNCHANGED <<transport, connected, connecting, connack, keepAlive>>

LEMMA StandStill ==
    ASSUME UsableInv, SessionStays, UNCHANGED <<stack, kaTask, kaRunning>>
    PROVE  UsableInv'
<1> SUFFICES ASSUME ("stale" \notin lapses)'
             PROVE  (FlagsInv /\ DroppedInv /\ TaskInv)'
  BY DEF UsableInv
<1>1. FlagsInv /\ DroppedInv /\ TaskInv
  BY DEF UsableInv, SessionStays
<1> QED  BY <1>1 DEF SessionStays, FlagsInv, DroppedInv, TaskInv, InConnect, Ending, EndingAt, TopIn, Top

LEMMA RxMoves ==
    ASSUME UsableInv, SessionStays, UNCHANGED <<kaTask, kaRunning>>,
           stack'[App] = stack[App], stack'[Ka] = stack[Ka],
           EndingAt(Rx) => EndingAt(Rx)',
           TopIn(Rx, Dropping)' => ~connected
    PROVE  UsableInv'
<1> SUFFICES ASSUME ("stale" \notin lapses)'
             PROVE  (FlagsInv /\ DroppedInv /\ TaskInv)'
  BY DEF UsableInv
<1>1. FlagsInv /\ DroppedInv /\ TaskInv
  BY DEF UsableInv, SessionStays
<1>2. /\ \A S : TopIn(App, S)' <=> TopIn(App, S)
      /\ \A S : TopIn(Ka, S)' <=> TopIn(Ka, S)
      /\ InConnect' <=> InConnect
      /\ EndingAt(App)' <=> EndingAt(App)
      /\ EndingAt(Ka)' <=> EndingAt(Ka)
  BY DEF TopIn, Top, InConnect, EndingAt
<1>3. Ending => Ending'
  BY <1>2, ActorFacts DEF Ending
<1>4. FlagsInv'
  BY <1>1, <1>2 DEF FlagsInv, SessionStays
<1>5. DroppedInv'
  BY <1>1, <1>2 DEF DroppedInv, SessionStays
<1>6. TaskInv'
  BY <1>1, <1>2, <1>3 DEF TaskInv, SessionStays
<1> QED  BY <1>4, <1>5, <1>6

LEMMA KaMoves ==
    ASSUME UsableInv, SessionStays, UNCHANGED kaTask, kaRunning' => kaRunning,
           stack'[App] = stack[App], stack'[Rx] = stack[Rx],
           EndingAt(Ka) => EndingAt(Ka)',
           TopIn(Ka, Dropping)' => TopIn(Ka, Dropping) \/ ~connected,
           stack[Ka] # <<>> /\ kaRunning /\ connected /\ ~InConnect
               => (stack'[Ka] # <<>> /\ kaRunning') \/ Ending'
    PROVE  UsableInv'
<1> SUFFICES ASSUME ("stale" \notin lapses)'
             PROVE  (FlagsInv /\ DroppedInv /\ TaskInv)'
  BY DEF UsableInv
<1>1. FlagsInv /\ DroppedInv /\ TaskInv
  BY DEF UsableInv, SessionStays
<1>2. /\ \A S : TopIn(App, S)' <=> TopIn(App, S)
      /\ \A S : TopIn(Rx, S)' <=> TopIn(Rx, S)
      /\ InConnect' <=> InConnect
      /\ EndingAt(App)' <=> EndingAt(App)
      /\ EndingAt(Rx)' <=> EndingAt(Rx)
  BY DEF TopIn, Top, InConnect, EndingAt
<1>3. Ending => Ending'
  BY <1>2, ActorFacts DEF Ending
<1>4. FlagsInv'
  BY <1>1, <1>2 DEF FlagsInv, SessionStays
<1>5. DroppedInv'
  BY <1>1, <1>2 DEF DroppedInv, SessionStays
<1>6. TaskInv'
  BY <1>1, <1>2, <1>3 DEF TaskInv, SessionStays
<1> QED  BY <1>4, <1>5, <1>6

LEMMA AppMoves ==
    ASSUME UsableInv, SessionStays, UNCHANGED <<kaTask, kaRunning>>,
           stack'[Rx] = stack[Rx], stack'[Ka] = stack[Ka],
           ~TopIn(App, Dropping)',
           EndingAt(App) => EndingAt(App)',
           InConnect \/ TopIn(App, {"give_up"})
               => InConnect' \/ TopIn(App, {"give_up"})' \/ ~keepAlive,
           transport # 0 /\ ~connected => TopIn(App, {"send_connect", "wait", "give_up"})'
    PROVE  UsableInv'
<1> SUFFICES ASSUME ("stale" \notin lapses)'
             PROVE  (FlagsInv /\ DroppedInv /\ TaskInv)'
  BY DEF UsableInv
<1>1. FlagsInv /\ DroppedInv /\ TaskInv
  BY DEF UsableInv, SessionStays
<1>2. /\ \A S : TopIn(Rx, S)' <=> TopIn(Rx, S)
      /\ \A S : TopIn(Ka, S)' <=> TopIn(Ka, S)
      /\ EndingAt(Rx)' <=> EndingAt(Rx)
      /\ EndingAt(Ka)' <=> EndingAt(Ka)
  BY DEF TopIn, Top, EndingAt
<1>3. (Ending => Ending') /\ (TopIn(App, {"give_up"})' => Ending')
  BY <1>2, ActorFacts DEF Ending, EndingAt
<1>4. FlagsInv'
  BY <1>1 DEF FlagsInv, SessionStays
<1>5. DroppedInv'
  BY <1>1, <1>2 DEF DroppedInv, SessionStays
<1>6. TaskInv'
  BY <1>1, <1>2, <1>3 DEF TaskInv, SessionStays
<1> QED  BY <1>4, <1>5, <1>6

-----------------------------------------------------------------------------
(* The broker, the link and the receive thread. *)

LEMMA StaysUnchanged ==
    ASSUME UNCHANGED clientVars, UNCHANGED keepAlive, UNCHANGED lapses
    PROVE  SessionStays
  BY DEF SessionStays, clientVars

LEMMA LinkUsable ==
    ASSUME UsableInv,
           \/ \E m \in Msgs : BrokerPublishes(m) \/ BrokerReleasesAgain(m)
           \/ \E p \in StrayPackets : BrokerSends(p)
           \/ \E t \in Transports : LinkGoesSilent(t)
           \/ TimePasses
    PROVE  UsableInv'
<1>1. UNCHANGED <<stack, clientVars, kaVars, history>>
  BY DEF BrokerPublishes, BrokerReleasesAgain, BrokerSends, LinkGoesSilent, TimePasses
<1>2. SessionStays /\ UNCHANGED <<stack, kaTask, kaRunning>>
  BY <1>1, StaysUnchanged DEF kaVars, history
<1> QED  BY <1>2, StandStill

\* The receive thread is in no call of Teardown before, nor in one that has given
\* transport_ up after.
LEMMA RxUsable ==
    ASSUME UsableInv, SessionStays, UNCHANGED <<kaTask, kaRunning>>,
           stack[Rx] = <<>> \/ Top(Rx).pc \in RxPcs,
           \A y \in Actors \ {Rx} : stack'[y] = stack[y],
           stack'[Rx] = <<>> \/ Head(stack'[Rx]).pc \in RxPcs \cup {"give_up", "stop"}
    PROVE  UsableInv'
<1>1. stack'[App] = stack[App] /\ stack'[Ka] = stack[Ka]
  BY ActorFacts
<1>2. ~EndingAt(Rx) /\ ~TopIn(Rx, Dropping)'
  BY DEF EndingAt, TopIn, Top, RxPcs, Dropping
<1> QED  BY <1>1, <1>2, RxMoves

LEMMA RxContinues ==
    ASSUME MqttInv, UsableInv, SessionStays, UNCHANGED <<kaTask, kaRunning>>, NEW l \in RxPcs,
           At(Rx, l), NEW g \in Frame, g.pc \in RxPcs, Continue(Rx, g)
    PROVE  UsableInv'
<1>1. stack[Rx] # <<>> /\ Top(Rx).pc \in RxPcs
  BY DEF At
<1>2. /\ stack'[Rx] # <<>> /\ Head(stack'[Rx]) = g
      /\ \A y \in Actors \ {Rx} : stack'[y] = stack[y]
  BY <1>1, TopIs, ActorFacts DEF MqttInv, TypeInv
<1> QED  BY <1>1, <1>2, RxUsable

LEMMA RxCallsBack ==
    ASSUME MqttInv, UsableInv, SessionStays, UNCHANGED <<kaTask, kaRunning>>, NEW l \in RxPcs,
           At(Rx, l), NEW s \in Seq(Frame), s # <<>>, Head(s).pc \in {"take", "give_up"},
           Callback(Rx, s)
    PROVE  UsableInv'
<1>1. stack[Rx] # <<>> /\ Top(Rx).pc \in RxPcs
  BY DEF At
<1>2. /\ \A y \in Actors \ {Rx} : stack'[y] = stack[y]
      /\ \/ stack'[Rx] = s
         \/ stack'[Rx] # <<>> /\ Head(stack'[Rx]).pc = "stop"
  BY CallbackTop, ActorFacts DEF MqttInv, TypeInv
<1>3. stack'[Rx] = <<>> \/ Head(stack'[Rx]).pc \in RxPcs \cup {"give_up", "stop"}
  BY <1>2 DEF RxPcs
<1> QED  BY <1>1, <1>2, <1>3, RxUsable

LEMMA OnTransportClosedUsable ==
    ASSUME MqttInv, UsableInv, NEW t \in Transports, OnTransportClosed(t)
    PROVE  UsableInv'
<1> DEFINE g == TeardownFrame(t, FALSE)
<1>1. /\ stack[Rx] = <<>> /\ SetStack(Rx, <<g>>) /\ UNCHANGED <<clientVars, kaVars, history>>
  BY DEF OnTransportClosed, Idle
<1>2. g.pc = "give_up"
  BY TeardownIsFrame DEF MaybeTransport
<1> HIDE DEF g
<1>3. stack'[Rx] = <<g>> /\ \A y \in Actors \ {Rx} : stack'[y] = stack[y]
  BY <1>1, StackIs, ActorFacts DEF MqttInv, TypeInv
<1>4. SessionStays /\ UNCHANGED <<kaTask, kaRunning>>
  BY <1>1, StaysUnchanged DEF kaVars, history
<1> QED  BY <1>1, <1>2, <1>3, <1>4, RxUsable

LEMMA OnTransportDataUsable ==
    ASSUME MqttInv, UsableInv, NEW t \in Transports, NEW n \in 1 .. Len(wire[t]),
           OnTransportData(t, n)
    PROVE  UsableInv'
<1> DEFINE f == [Frame0 EXCEPT !.own = t]
<1>1. PICK l \in {"overflow", "take"} : SetStack(Rx, <<[f EXCEPT !.pc = l]>>)
  BY DEF OnTransportData
<1> DEFINE g == [f EXCEPT !.pc = l]
<1>2. g.pc \in RxPcs
  BY DEF Frame0, RxPcs
<1>3. SetStack(Rx, <<g>>)
  BY <1>1
<1> HIDE DEF g
<1>4. /\ stack[Rx] = <<>> /\ UNCHANGED <<transport, connected, connecting, connack, kaVars, history>>
  BY DEF OnTransportData, Idle
<1>5. stack'[Rx] = <<g>> /\ \A y \in Actors \ {Rx} : stack'[y] = stack[y]
  BY <1>3, StackIs, ActorFacts DEF MqttInv, TypeInv
<1>6. SessionStays /\ UNCHANGED <<kaTask, kaRunning>>
  BY <1>4 DEF SessionStays, kaVars, history
<1> QED  BY <1>2, <1>4, <1>5, <1>6, RxUsable

LEMMA TakePacketUsable ==
    ASSUME MqttInv, UsableInv, TakePacket
    PROVE  UsableInv'
<1> USE DEF MqttInv, TypeInv
<1>1. /\ At(Rx, "take") /\ "take" \in RxPcs
      /\ UNCHANGED <<transport, connected, connecting, connack, kaVars, history>>
  BY DEF TakePacket, RxPcs
<1>2. SessionStays /\ UNCHANGED <<kaTask, kaRunning>>
  BY <1>1 DEF SessionStays, kaVars, history
<1>3. Top(Rx) \in Frame /\ stack[Rx] # <<>> /\ Top(Rx).pc \in RxPcs
  BY <1>1, InHand DEF At
<1>4. CASE Return(Rx)
  <2>1. Tail(stack[Rx]) = <<>>
    BY <1>1, PlainTop, PlainPcs, QuietAlone, ActorFacts
  <2>2. stack'[Rx] = <<>> /\ \A y \in Actors \ {Rx} : stack'[y] = stack[y]
    BY <1>4, <2>1, StackIs, ActorFacts DEF Return
  <2> QED  BY <1>2, <1>3, <2>2, RxUsable
<1>5. CASE rxBuf # <<>> /\ Continue(Rx, [Top(Rx) EXCEPT !.pc = "handle", !.p = Head(rxBuf)])
  <2> DEFINE g == [Top(Rx) EXCEPT !.pc = "handle", !.p = Head(rxBuf)]
  <2>1. Head(rxBuf) \in Packet
    BY <1>5 DEF ClientType
  <2>2. g \in Frame /\ g.pc \in RxPcs /\ Continue(Rx, g)
    BY <1>3, <1>5, <2>1 DEF Frame, RxPcs
  <2> HIDE DEF g
  <2> QED  BY <1>1, <1>2, <2>2, RxContinues
<1> QED  BY <1>4, <1>5 DEF TakePacket

LEMMA CallbackUsable ==
    ASSUME MqttInv, UsableInv, Overflow \/ Deliver \/ HandlePublishComplete \/ ReportRefused
    PROVE  UsableInv'
<1> USE DEF MqttInv, TypeInv
<1>1. PICK l \in RxPcs : At(Rx, l)
  BY DEF Overflow, Deliver, HandlePublishComplete, ReportRefused, Handling, RxPcs
<1>2. UNCHANGED <<clientVars, kaVars, lapses>>
  BY DEF Overflow, Deliver, HandlePublishComplete, ReportRefused, history
<1>3. SessionStays /\ UNCHANGED <<kaTask, kaRunning>>
  BY <1>2, StaysUnchanged DEF kaVars
<1>4. /\ TakeNext \in Frame /\ TakeNext.pc = "take"
      /\ TeardownFrame(Top(Rx).own, FALSE) \in Frame
      /\ TeardownFrame(Top(Rx).own, FALSE).pc = "give_up"
  BY <1>1, InHand, TakeNextIsFrame, TeardownIsFrame
<1>5. PICK g \in Frame : g.pc \in {"take", "give_up"} /\ Callback(Rx, <<g>>)
  BY <1>4 DEF Overflow, Deliver, HandlePublishComplete, ReportRefused
<1>6. <<g>> \in Seq(Frame) /\ <<g>> # <<>> /\ Head(<<g>>) = g
  BY Single
<1> QED  BY <1>1, <1>3, <1>5, <1>6, RxCallsBack

LEMMA HandlePublishUsable ==
    ASSUME MqttInv, UsableInv, HandlePublish
    PROVE  UsableInv'
<1> USE DEF MqttInv, TypeInv
<1>1. /\ At(Rx, "handle") /\ "handle" \in RxPcs /\ UNCHANGED <<clientVars, kaVars, history>>
  BY DEF HandlePublish, Handling, RxPcs
<1>2. SessionStays /\ UNCHANGED <<kaTask, kaRunning>>
  BY <1>1, StaysUnchanged DEF kaVars, history
<1>3. Top(Rx) \in Frame /\ Top(Rx).own \in MaybeTransport
  BY <1>1, InHand
<1>4. CASE Callback(Rx, <<TeardownFrame(Top(Rx).own, FALSE), TakeNext>>)
  <2> DEFINE g == TeardownFrame(Top(Rx).own, FALSE)
             n == TakeNext
             s == <<g, n>>
  <2>1. g \in Frame /\ g.pc = "give_up" /\ n \in Frame
    BY <1>3, TeardownIsFrame, TakeNextIsFrame
  <2>2. Callback(Rx, s)
    BY <1>4
  <2> HIDE DEF g, n
  <2>3. s \in Seq(Frame) /\ s # <<>> /\ Head(s) = g
    BY <2>1
  <2> HIDE DEF s
  <2> QED  BY <1>1, <1>2, <2>1, <2>2, <2>3, RxCallsBack
<1>5. CASE Continue(Rx, [Top(Rx) EXCEPT !.pc = "deliver", !.m = 0])
  <2> DEFINE g == [Top(Rx) EXCEPT !.pc = "deliver", !.m = 0]
  <2>1. g \in Frame /\ g.pc \in RxPcs /\ Continue(Rx, g)
    BY <1>3, <1>5, FrameZero DEF Frame, RxPcs
  <2> HIDE DEF g
  <2> QED  BY <1>1, <1>2, <2>1, RxContinues
<1> QED  BY <1>4, <1>5 DEF HandlePublish

LEMMA HandlerUsable ==
    ASSUME MqttInv, UsableInv,
           \/ HoldPublish \/ SendPubrec \/ HandlePubrec \/ HandlePubrel \/ SendPubcomp
           \/ HandleSuback \/ HandlePingresp
    PROVE  UsableInv'
<1> USE DEF MqttInv, TypeInv
<1>1. PICK l \in RxPcs : At(Rx, l)
  BY DEF HoldPublish, SendPubrec, HandlePubrec, HandlePubrel, SendPubcomp, HandleSuback,
         HandlePingresp, Handling, RxPcs
<1>2. /\ Top(Rx) \in Frame /\ Top(Rx).p \in Packet /\ TakeNext \in Frame /\ TakeNext.pc \in RxPcs
  BY <1>1, InHand, TakeNextIsFrame DEF RxPcs
<1>3. SessionStays /\ UNCHANGED <<kaTask, kaRunning>>
  <2>1. CASE HoldPublish \/ HandlePubrel
    BY <2>1 DEF HoldPublish, HandlePubrel, SessionStays, Stale, kaVars
  <2>2. CASE SendPubrec \/ HandlePubrec \/ SendPubcomp
    BY <2>2 DEF SendPubrec, HandlePubrec, SendPubcomp, SessionStays, clientVars, kaVars, history
  <2>3. CASE HandleSuback
    BY <2>3 DEF HandleSuback, SessionStays, kaVars, history
  <2>4. CASE HandlePingresp
    BY <2>4 DEF HandlePingresp, SessionStays, clientVars
  <2> QED  BY <2>1, <2>2, <2>3, <2>4
<1>4. PICK g \in Frame : g.pc \in RxPcs /\ Continue(Rx, g)
  <2>1. CASE SendPubrec \/ HandlePubrec \/ HandlePingresp
    BY <1>2, <2>1 DEF SendPubrec, HandlePubrec, HandlePingresp
  <2>2. CASE HoldPublish
    <3>1. /\ [Top(Rx) EXCEPT !.pc = "pubrec"] \in Frame
          /\ [Top(Rx) EXCEPT !.pc = "pubrec"].pc \in RxPcs
      BY <1>2 DEF Frame, RxPcs
    <3> QED  BY <2>2, <3>1 DEF HoldPublish, GoTo
  <2>3. CASE HandlePubrel
    <3> DEFINE h == [Top(Rx) EXCEPT !.pc = "pubcomp", !.m = held[Top(Rx).p.id]]
    <3>1. Top(Rx).p.id \in BrokerIds
      BY <1>2, <2>3 DEF Packet, HandlePubrel, Handling
    <3>2. held[Top(Rx).p.id] \in Msgs \cup (0 .. MaxEvents)
      BY <3>1, BoundsAssumption DEF ClientType
    <3>3. h \in Frame /\ h.pc \in RxPcs
      BY <1>2, <3>2 DEF Frame, RxPcs
    <3> QED  BY <2>3, <3>3 DEF HandlePubrel
  <2>4. CASE SendPubcomp
    <3>1. /\ [Top(Rx) EXCEPT !.pc = "deliver"] \in Frame
          /\ [Top(Rx) EXCEPT !.pc = "deliver"].pc \in RxPcs
      BY <1>2 DEF Frame, RxPcs
    <3>2. \/ Continue(Rx, TakeNext)
          \/ Continue(Rx, [Top(Rx) EXCEPT !.pc = "deliver"])
      BY <2>4 DEF SendPubcomp
    <3> QED  BY <1>2, <3>1, <3>2
  <2>5. CASE HandleSuback
    <3> DEFINE h == [Top(Rx) EXCEPT !.pc = "refused", !.m = topics[Top(Rx).p.id]]
    <3>1. Top(Rx).p.id \in 1 .. MaxPacketId
      BY <1>2, <2>5 DEF Packet, HandleSuback, Handling
    <3>2. topics[Top(Rx).p.id] \in Msgs \cup (0 .. MaxEvents)
      BY <3>1 DEF ClientType
    <3>3. h \in Frame /\ h.pc \in RxPcs
      BY <1>2, <3>2 DEF Frame, RxPcs
    <3>4. Continue(Rx, TakeNext) \/ Continue(Rx, h)
      BY <2>5 DEF HandleSuback
    <3> QED  BY <1>2, <3>3, <3>4
  <2> QED  BY <2>1, <2>2, <2>3, <2>4, <2>5
<1> QED  BY <1>1, <1>3, <1>4, RxContinues

\* A CONNACK of the connection at hand is awaited by Connect, or by a Connect that has
\* just stopped waiting and gives the connection up.
LEMMA HandleConnackUsable ==
    ASSUME MqttInv, UsableInv, HandleConnack
    PROVE  UsableInv'
<1> USE DEF MqttInv, TypeInv
<1>1. At(Rx, "handle") /\ "handle" \in RxPcs /\ Continue(Rx, TakeNext)
      /\ UNCHANGED <<transport, keepAlive, kaTask, kaRunning>>
  BY DEF HandleConnack, Handling, RxPcs, kaVars
<1>2. /\ Top(Rx).own \in Transports /\ TakeNext \in Frame /\ TakeNext.pc = "take"
      /\ stack[Rx] # <<>>
  BY <1>1, InHand, TakeNextIsFrame DEF At
<1>3. CASE ~connecting
  <2>1. SessionStays
    BY <1>1, <1>3 DEF HandleConnack, SessionStays
  <2>2. TakeNext.pc \in RxPcs
    BY <1>2 DEF RxPcs
  <2> QED  BY <1>1, <1>2, <2>1, <2>2, RxContinues
<1>4. CASE connecting
  <2>1. /\ connecting' = FALSE /\ lapses' = Stale
        /\ \/ connected' = TRUE /\ connack' = "ok"
           \/ connected' = FALSE /\ connack' = "refused"
    <3>1. /\ connecting' = FALSE /\ connected' = (Top(Rx).p.n = 1) /\ lapses' = Stale
          /\ connack' = IF Top(Rx).p.n = 1 THEN "ok" ELSE "refused"
      BY <1>4 DEF HandleConnack
    <3> QED  BY <3>1
  <2> SUFFICES ASSUME ("stale" \notin lapses)'
               PROVE  (FlagsInv /\ DroppedInv /\ TaskInv)'
    BY DEF UsableInv
  <2>2. FlagsInv /\ DroppedInv /\ TaskInv /\ transport = Top(Rx).own
    BY <2>1 DEF UsableInv, Stale
  <2>3. transport \in Transports /\ transport # 0
    BY <1>2, <2>2, NotZero
  <2>4. TopIn(App, {"send_connect", "wait", "give_up"}) /\ ~connected
    BY <1>4, <2>2, <2>3 DEF FlagsInv
  <2>5. /\ stack'[Rx] # <<>> /\ Head(stack'[Rx]) = TakeNext
        /\ stack'[App] = stack[App] /\ stack'[Ka] = stack[Ka]
    BY <1>1, <1>2, TopIs, ActorFacts
  <2>6. TopIn(App, {"send_connect", "wait", "give_up"})' /\ ~TopIn(App, Dropping)'
    BY <2>4, <2>5 DEF TopIn, Top, Dropping
  <2>7. InConnect' \/ TopIn(App, {"give_up"})'
    BY <2>6 DEF InConnect, TopIn
  <2>8. FlagsInv'
    BY <1>1, <2>1, <2>3, <2>6 DEF FlagsInv
  <2>9. ~TopIn(Rx, Dropping)'
    BY <1>2, <2>5 DEF TopIn, Top, Dropping
  <2>10. DroppedInv'
    BY <2>6, <2>7, <2>9 DEF DroppedInv
  <2>11. TaskInv'
    BY <2>7, ActorFacts DEF TaskInv, Ending, EndingAt
  <2> QED  BY <2>8, <2>10, <2>11
<1> QED  BY <1>3, <1>4

-----------------------------------------------------------------------------
(* Teardown. *)

LEMMA GiveUpUsable ==
    ASSUME MqttInv, UsableInv, NEW x \in Actors, GiveUp(x)
    PROVE  UsableInv'
<1>1. transport' = 0 /\ connected' = FALSE /\ connecting' = FALSE /\ connack' = "none"
  BY DEF GiveUp
<1>2. FlagsInv'
  BY <1>1 DEF FlagsInv
<1>3. DroppedInv'
  BY <1>1 DEF DroppedInv
<1>4. TaskInv'
  BY <1>1 DEF TaskInv
<1> QED  BY <1>2, <1>3, <1>4 DEF UsableInv

\* A Teardown that has given transport_ up goes on, as itself or as the Teardown that
\* the transport's own close calls, or returns to whatever call it was made in.
LEMMA DroppingUsable ==
    ASSUME UsableInv, SessionStays, NEW x \in Actors, TopIn(x, Dropping),
           \A y \in Actors \ {x} : stack'[y] = stack[y]
    PROVE  UsableInv'
<1> SUFFICES ASSUME ("stale" \notin lapses)'
             PROVE  (FlagsInv /\ DroppedInv /\ TaskInv)'
  BY DEF UsableInv
<1>1. FlagsInv /\ DroppedInv /\ TaskInv
  BY DEF UsableInv, SessionStays
<1>2. CASE x = App
  <2>1. ~connected /\ ~connecting /\ transport = 0
    BY <1>1, <1>2 DEF FlagsInv, DroppedInv, TopIn, Dropping
  <2>2. FlagsInv'
    BY <1>1, <2>1 DEF FlagsInv, SessionStays
  <2>3. DroppedInv' /\ TaskInv'
    BY <2>1 DEF DroppedInv, TaskInv, SessionStays
  <2> QED  BY <2>2, <2>3
<1>3. CASE x = Rx
  <2>1. ~connected /\ stack'[App] = stack[App]
    BY <1>1, <1>3, ActorFacts DEF DroppedInv
  <2>2. \A S : TopIn(App, S)' <=> TopIn(App, S)
    BY <2>1 DEF TopIn, Top
  <2>3. FlagsInv'
    BY <1>1, <2>1, <2>2 DEF FlagsInv, SessionStays
  <2>4. TopIn(App, Dropping) => ~connecting
    BY <1>1 DEF DroppedInv
  <2>5. DroppedInv' /\ TaskInv'
    BY <2>1, <2>2, <2>4 DEF DroppedInv, TaskInv, SessionStays
  <2> QED  BY <2>3, <2>5
<1>4. CASE x = Ka
  <2>1. ~connected \/ ~keepAlive \/ InConnect \/ TopIn(App, {"give_up"})
    BY <1>1, <1>4 DEF DroppedInv
  <2>2. stack'[App] = stack[App] /\ stack'[Rx] = stack[Rx]
    BY <1>4, ActorFacts
  <2>3. /\ \A S : TopIn(App, S)' <=> TopIn(App, S)
        /\ \A S : TopIn(Rx, S)' <=> TopIn(Rx, S)
        /\ InConnect' <=> InConnect
    BY <2>2 DEF TopIn, Top, InConnect
  <2>4. FlagsInv'
    BY <1>1, <2>3 DEF FlagsInv, SessionStays
  <2>5. DroppedInv'
    BY <1>1, <2>1, <2>3 DEF DroppedInv, SessionStays
  <2>6. TopIn(App, {"give_up"})' => Ending'
    BY ActorFacts DEF Ending, EndingAt
  <2>7. TaskInv'
    BY <2>1, <2>3, <2>6 DEF TaskInv, SessionStays
  <2> QED  BY <2>4, <2>5, <2>7
<1> QED  BY <1>2, <1>3, <1>4, ActorFacts

LEMMA DropUsable ==
    ASSUME MqttInv, UsableInv, NEW x \in Actors, Hush(x) \/ Drop(x) \/ Tell(x)
    PROVE  UsableInv'
<1> USE DEF MqttInv, TypeInv
<1>1. TopIn(x, Dropping)
  BY DEF Hush, Drop, Tell, At, TopIn, Dropping
<1>2. SessionStays
  <2>1. UNCHANGED <<clientVars, keepAlive, lapses>>
    BY DEF Hush, Drop, Tell, kaVars, history
  <2> QED  BY <2>1, StaysUnchanged
<1>3. \A y \in Actors \ {x} : stack'[y] = stack[y]
  <2>1. CASE Hush(x) \/ Drop(x)
    <3>1. PICK s : SetStack(x, s)
      BY <2>1 DEF Hush, Drop, Return, GoTo, Continue
    <3> QED  BY <3>1, StackIs
  <2>2. CASE Tell(x)
    <3>1. PICK s : SetStack(x, s)
      BY <2>2 DEF Tell, Callback
    <3> QED  BY <3>1, StackIs
  <2> QED  BY <2>1, <2>2
<1> QED  BY <1>1, <1>2, <1>3, DroppingUsable

-----------------------------------------------------------------------------
(* The keep-alive task. *)

\* StopKeepAlive and the join: who is in them starts the task again or ends the session.
LEMMA StopUsable ==
    ASSUME MqttInv, UsableInv, NEW x \in Actors, StopKeepAlive(x) \/ JoinKeepAlive(x)
    PROVE  UsableInv'
<1> USE DEF MqttInv, TypeInv
<1>1. PICK j \in {"stop", "join"} : At(x, j)
  BY DEF StopKeepAlive, JoinKeepAlive
<1>2. /\ stack[x] # <<>> /\ Top(x) \in Frame /\ Top(x).pc = j
      /\ Top(x).then = "give_up" \/ (x = App /\ Top(x).then = "start")
  BY <1>1, ThenFacts
<1>3. SessionStays
  BY DEF StopKeepAlive, JoinKeepAlive, SessionStays, clientVars, history
<1>4. PICK l \in {"join", Top(x).then} : GoTo(x, l)
  BY DEF StopKeepAlive, JoinKeepAlive
<1> DEFINE g == [Top(x) EXCEPT !.pc = l]
<1>5. g \in Frame /\ g.pc = l /\ g.then = Top(x).then /\ Continue(x, g)
  BY <1>2, <1>4 DEF Frame, SharedPcs, AppPcs, GoTo
<1> HIDE DEF g
<1>6. /\ stack'[x] # <<>> /\ Head(stack'[x]) = g
      /\ \A y \in Actors \ {x} : stack'[y] = stack[y]
  BY <1>2, <1>5, TopIs
<1>7. /\ Top(x).then = "give_up" => EndingAt(x)'
      /\ Top(x).then = "start" => x = App /\ InConnect /\ InConnect'
      /\ ~TopIn(x, Dropping)'
  BY <1>2, <1>4, <1>5, <1>6 DEF EndingAt, InConnect, TopIn, Top, Dropping
<1> SUFFICES ASSUME ("stale" \notin lapses)'
             PROVE  (FlagsInv /\ DroppedInv /\ TaskInv)'
  BY DEF UsableInv
<1>8. FlagsInv /\ DroppedInv /\ TaskInv
  BY <1>3 DEF UsableInv, SessionStays
<1>9. TaskInv'
  BY <1>2, <1>7 DEF TaskInv, Ending
<1>10. CASE x = App
  <2>1. stack'[Rx] = stack[Rx] /\ stack'[Ka] = stack[Ka]
    BY <1>6, <1>10, ActorFacts
  <2>2. /\ \A S : TopIn(Rx, S)' <=> TopIn(Rx, S)
        /\ \A S : TopIn(Ka, S)' <=> TopIn(Ka, S)
    BY <2>1 DEF TopIn, Top
  <2>3. FlagsInv'
    BY <1>2, <1>3, <1>8, <1>10 DEF FlagsInv, SessionStays, TopIn
  <2>4. InConnect \/ TopIn(App, {"give_up"}) => InConnect'
    BY <1>2, <1>7, <1>10 DEF InConnect, TopIn
  <2>5. DroppedInv'
    BY <1>3, <1>7, <1>8, <1>10, <2>2, <2>4 DEF DroppedInv, SessionStays
  <2> QED  BY <1>9, <2>3, <2>5
<1>11. CASE x # App
  <2>1. stack'[App] = stack[App]
    BY <1>6, <1>11, ActorFacts
  <2>2. (\A S : TopIn(App, S)' <=> TopIn(App, S)) /\ (InConnect' <=> InConnect)
    BY <2>1 DEF TopIn, Top, InConnect
  <2>3. FlagsInv'
    BY <1>3, <1>8, <2>2 DEF FlagsInv, SessionStays
  <2>4. \A y \in Actors : TopIn(y, Dropping)' => TopIn(y, Dropping)
    BY <1>6, <1>7 DEF TopIn, Top
  <2>5. DroppedInv'
    BY <1>3, <1>8, <2>2, <2>4, ActorFacts DEF DroppedInv, SessionStays
  <2> QED  BY <1>9, <2>3, <2>5
<1> QED  BY <1>10, <1>11

\* StartKeepAlive: the session has its task.
LEMMA StartUsable ==
    ASSUME MqttInv, UsableInv, NEW x \in Actors, StartKeepAlive(x)
    PROVE  UsableInv'
<1> USE DEF MqttInv, TypeInv
<1> DEFINE g == [Top(App) EXCEPT !.pc = "up"]
           k == [Frame0 EXCEPT !.pc = "loop"]
<1>1. At(x, "start")
  BY DEF StartKeepAlive
<1>2. /\ x = App /\ stack[App] # <<>> /\ Top(App) \in Frame /\ Top(App).pc = "start"
      /\ Tail(stack[App]) = <<>>
  BY <1>1, AppAt
<1>3. g \in Frame /\ g.pc = "up" /\ k.pc = "loop" /\ <<g>> \o <<>> = <<g>>
  <2>1. g \in Frame /\ g.pc = "up"
    BY <1>2 DEF Frame, AppPcs
  <2>2. k.pc = "loop"
    BY DEF Frame0
  <2> HIDE DEF g, k
  <2> QED  BY <2>1, <2>2, Alone
<1>4. /\ stack' = [stack EXCEPT ![Ka] = <<k>>, ![App] = <<g>> \o Tail(stack[App])]
      /\ kaTask' = TRUE /\ kaRunning' = TRUE /\ UNCHANGED <<clientVars, keepAlive, history>>
  BY <1>2, ActorFacts DEF StartKeepAlive
<1> HIDE DEF g, k
<1>5. stack'[App] = <<g>> /\ stack'[Ka] = <<k>> /\ stack'[Rx] = stack[Rx]
  BY <1>2, <1>3, <1>4, ActorFacts DEF StackInv
<1>6. SessionStays
  BY <1>4, StaysUnchanged DEF history
<1> SUFFICES ASSUME ("stale" \notin lapses)'
             PROVE  (FlagsInv /\ DroppedInv /\ TaskInv)'
  BY DEF UsableInv
<1>7. FlagsInv /\ DroppedInv /\ TaskInv
  BY <1>6 DEF UsableInv, SessionStays
<1>8. FlagsInv'
  BY <1>2, <1>6, <1>7 DEF FlagsInv, SessionStays, TopIn
<1>9. /\ ~TopIn(App, Dropping)' /\ ~TopIn(Ka, Dropping)'
      /\ TopIn(Rx, Dropping)' => TopIn(Rx, Dropping)
  BY <1>3, <1>5 DEF TopIn, Top, Dropping
<1>10. DroppedInv'
  BY <1>6, <1>7, <1>9 DEF DroppedInv, SessionStays
<1>11. TaskInv'
  <2>1. stack'[Ka] # <<>>
    BY <1>5
  <2> QED  BY <1>4, <2>1 DEF TaskInv
<1> QED  BY <1>8, <1>10, <1>11

LEMMA KeepAliveUsable ==
    ASSUME MqttInv, UsableInv, KeepAlive
    PROVE  UsableInv'
<1> USE DEF MqttInv, TypeInv
<1>1. PICK l \in {"loop", "store", "tick"} : At(Ka, l)
  BY DEF KeepAlive, KaExit, KaPing, KaPingFails, KaTick, KaStore, KaTimeout
<1>2. /\ SessionStays /\ UNCHANGED <<kaTask, kaRunning>>
  BY DEF KeepAlive, KaExit, KaPing, KaPingFails, KaTick, KaStore, KaTimeout, SessionStays,
         clientVars, kaVars, history
<1>3. stack[Ka] # <<>> /\ Top(Ka) \in Frame /\ Top(Ka).pc = l
  BY <1>1, StackFrames, ActorFacts DEF At
<1>4. ~EndingAt(Ka)
  BY <1>3 DEF EndingAt, TopIn
<1>5. CASE KaExit
  <2>1. Tail(stack[Ka]) = <<>>
    BY <1>1, PlainTop, PlainPcs, QuietAlone, ActorFacts
  <2>2. stack'[Ka] = <<>> /\ stack'[App] = stack[App] /\ stack'[Rx] = stack[Rx] /\ ~kaRunning
    BY <1>5, <2>1, StackIs, ActorFacts DEF KaExit, Return
  <2>3. ~TopIn(Ka, Dropping)'
    BY <2>2 DEF TopIn
  <2> QED  BY <1>2, <1>4, <2>2, <2>3, KaMoves
<1>6. CASE KaPing \/ KaPingFails \/ KaTick \/ KaStore
  <2>1. PICK g \in Frame : g.pc \in {"loop", "store", "tick"} /\ Continue(Ka, g)
    <3>1. CASE KaPing
      <4> DEFINE h == [Top(Ka) EXCEPT !.pc = "store", !.t = transport]
      <4>1. h \in Frame /\ h.pc = "store"
        BY <1>3 DEF Frame, KaPcs, ClientType
      <4> QED  BY <3>1, <4>1 DEF KaPing
    <3>2. CASE KaPingFails \/ KaTick \/ KaStore
      <4>1. ASSUME NEW h \in {"loop", "tick"}
            PROVE  [Top(Ka) EXCEPT !.pc = h] \in Frame /\ [Top(Ka) EXCEPT !.pc = h].pc = h
        BY <1>3 DEF Frame, KaPcs
      <4>2. PICK h \in {"loop", "tick"} : Continue(Ka, [Top(Ka) EXCEPT !.pc = h])
        BY <3>2 DEF KaPingFails, KaTick, KaStore, GoTo
      <4> QED  BY <4>1, <4>2
    <3> QED  BY <1>6, <3>1, <3>2
  <2>2. /\ stack'[Ka] # <<>> /\ Head(stack'[Ka]) = g
        /\ stack'[App] = stack[App] /\ stack'[Rx] = stack[Rx]
    BY <1>3, <2>1, TopIs, ActorFacts
  <2>3. ~TopIn(Ka, Dropping)'
    BY <2>1, <2>2 DEF TopIn, Top, Dropping
  <2> QED  BY <1>2, <1>4, <2>2, <2>3, KaMoves
<1>7. CASE KaTimeout
  <2> DEFINE g == TeardownFrame(Top(Ka).t, FALSE)
  <2>1. g \in Frame /\ g.pc = "give_up"
    <3>1. Top(Ka).t \in MaybeTransport
      BY <1>3 DEF Frame
    <3> QED  BY <3>1, TeardownIsFrame
  <2>2. Callback(Ka, <<g>>)
    BY <1>7 DEF KaTimeout
  <2> HIDE DEF g
  <2>3. <<g>> \in Seq(Frame) /\ <<g>> # <<>> /\ Head(<<g>>) = g
    BY <2>1, Single
  <2>4. /\ \A y \in Actors \ {Ka} : stack'[y] = stack[y]
        /\ \/ stack'[Ka] = <<g>>
           \/ /\ stack'[Ka] # <<>> /\ Head(stack'[Ka]).pc = "stop"
              /\ Head(stack'[Ka]).then = "give_up"
    BY <2>2, <2>3, CallbackTop, ActorFacts
  <2>5. /\ stack'[App] = stack[App] /\ stack'[Rx] = stack[Rx]
        /\ EndingAt(Ka)' /\ ~TopIn(Ka, Dropping)'
    BY <2>1, <2>3, <2>4, ActorFacts DEF EndingAt, TopIn, Top, Dropping
  <2>6. Ending'
    BY <2>5, ActorFacts DEF Ending
  <2> QED  BY <1>2, <2>5, <2>6, KaMoves
<1> QED  BY <1>5, <1>6, <1>7 DEF KeepAlive

-----------------------------------------------------------------------------
(* The application. *)

\* An idle application makes a call that is not about a session of its own making.
LEMMA AppCalls ==
    ASSUME MqttInv, UsableInv, SessionStays, UNCHANGED <<kaTask, kaRunning>>,
           stack[App] = <<>>, NEW g, g.pc \in {"stop", "send"}, SetStack(App, <<g>>)
    PROVE  UsableInv'
<1>1. stack'[App] = <<g>> /\ stack'[Rx] = stack[Rx] /\ stack'[Ka] = stack[Ka]
  BY StackIs, ActorFacts DEF MqttInv, TypeInv
<1>2. /\ ~TopIn(App, Dropping)' /\ ~EndingAt(App) /\ ~InConnect /\ ~TopIn(App, {"give_up"})
      /\ \A S : ~TopIn(App, S)
  BY <1>1 DEF TopIn, Top, EndingAt, InConnect, Dropping
<1>3. ASSUME "stale" \notin lapses
      PROVE  ~(transport # 0 /\ ~connected)
  BY <1>2, <1>3 DEF UsableInv, FlagsInv
<1>4. CASE "stale" \in lapses
  BY <1>4 DEF UsableInv, SessionStays
<1>5. CASE "stale" \notin lapses
  BY <1>1, <1>2, <1>3, <1>5, AppMoves
<1> QED  BY <1>4, <1>5

LEMMA RequestUsable ==
    ASSUME MqttInv, UsableInv, Disconnect \/ Publish \/ Subscribe \/ Unsubscribe
    PROVE  UsableInv'
<1>1. CASE Disconnect
  <2> DEFINE g == DisconnectFrame
  <2>1. g.pc = "stop" /\ SetStack(App, <<g>>) /\ stack[App] = <<>>
    BY <1>1, HangupFacts DEF Disconnect, Idle, MqttInv, TypeInv
  <2>2. SessionStays /\ UNCHANGED <<kaTask, kaRunning>>
    BY <1>1, StaysUnchanged DEF Disconnect, kaVars, history
  <2> HIDE DEF g
  <2> QED  BY <2>1, <2>2, AppCalls
<1>2. ASSUME NEW type, NEW qos, Prepare(type, qos)
      PROVE  UsableInv'
  <2> DEFINE id == IF type = "publish" /\ qos = 0 THEN 0 ELSE NextPacketId
             n == IF type = "publish" THEN qos ELSE budget
             g == [Frame0 EXCEPT !.pc = "send", !.p = Pkt(type, id, 0, n)]
  <2>1. SetStack(App, <<g>>) /\ stack[App] = <<>>
    BY <1>2 DEF Prepare, Idle
  <2>2. SessionStays /\ UNCHANGED <<kaTask, kaRunning>>
    BY <1>2 DEF Prepare, SessionStays, kaVars, history
  <2>3. g.pc = "send"
    BY DEF Frame0
  <2> HIDE DEF g
  <2> QED  BY <2>1, <2>2, <2>3, AppCalls
<1> QED  BY <1>1, <1>2 DEF Publish, Subscribe, Unsubscribe

\* A call that nobody called and that is not about a session returns, or its callback
\* disconnects first.
LEMMA AppReturns ==
    ASSUME MqttInv, UsableInv, SessionStays, UNCHANGED <<kaTask, kaRunning>>,
           stack[App] # <<>>, Top(App).pc \in {"create", "up", "send"},
           \A y \in Actors \ {App} : stack'[y] = stack[y],
           Top(App).pc = "create" => transport = 0,
           \/ stack'[App] = <<>>
           \/ /\ stack'[App] # <<>> /\ Head(stack'[App]).pc = "stop"
              /\ Head(stack'[App]).then = "give_up"
    PROVE  UsableInv'
<1>1. stack'[Rx] = stack[Rx] /\ stack'[Ka] = stack[Ka]
  BY ActorFacts
<1>2. /\ ~TopIn(App, Dropping)' /\ ~EndingAt(App) /\ ~InConnect /\ ~TopIn(App, {"give_up"})
      /\ ~TopIn(App, {"send_connect", "wait", "give_up"})
  BY DEF TopIn, Top, EndingAt, InConnect, Dropping
<1>3. ASSUME "stale" \notin lapses
      PROVE  ~(transport # 0 /\ ~connected)
  BY <1>2, <1>3 DEF UsableInv, FlagsInv
<1>4. CASE "stale" \in lapses
  BY <1>4 DEF UsableInv, SessionStays
<1>5. CASE "stale" \notin lapses
  BY <1>1, <1>2, <1>3, <1>5, AppMoves
<1> QED  BY <1>4, <1>5

LEMMA ReturnUsable ==
    ASSUME MqttInv, UsableInv, CreateFails \/ SendRequest \/ ConnectReturns
    PROVE  UsableInv'
<1> USE DEF MqttInv, TypeInv
<1>1. SessionStays /\ UNCHANGED <<kaTask, kaRunning>>
  BY DEF CreateFails, SendRequest, ConnectReturns, SessionStays, clientVars, kaVars, history
<1>2. CASE CreateFails
  <2>1. At(App, "create") /\ Return(App)
    BY <1>2 DEF CreateFails
  <2>2. stack[App] # <<>> /\ Top(App).pc = "create" /\ Tail(stack[App]) = <<>>
    BY <2>1, AppAt, ActorFacts
  <2>3. stack'[App] = <<>> /\ \A y \in Actors \ {App} : stack'[y] = stack[y]
    BY <2>1, <2>2, StackIs, ActorFacts DEF Return
  <2>4. transport = 0
    <3>1. Top(App) \in Opening
      BY <2>1, <2>2, AppAt, ActorFacts DEF Opening
    <3>2. Depths(stack[App], Opening) # {}
      BY <2>2, <3>1, OnTop, ActorFacts
    <3> QED  BY <3>2 DEF ConnectInv
  <2> QED  BY <1>1, <2>2, <2>3, <2>4, AppReturns
<1>3. CASE SendRequest \/ ConnectReturns
  <2>1. PICK l \in {"send", "up"} : At(App, l)
    BY <1>3 DEF SendRequest, ConnectReturns
  <2>2. /\ stack[App] # <<>> /\ Top(App).pc = l /\ Tail(stack[App]) = <<>>
    BY <2>1, PlainTop, PlainPcs, QuietAlone, ActorFacts
  <2>3. Return(App) \/ Callback(App, Tail(stack[App]))
    BY <1>3 DEF SendRequest, ConnectReturns
  <2>4. <<>> \in Seq(Frame)
    OBVIOUS
  <2>5. /\ \A y \in Actors \ {App} : stack'[y] = stack[y]
        /\ \/ stack'[App] = <<>>
           \/ /\ stack'[App] # <<>> /\ Head(stack'[App]).pc = "stop"
              /\ Head(stack'[App]).then = "give_up"
    BY <2>2, <2>3, <2>4, StackIs, CallbackTop, ActorFacts DEF Return
  <2> QED  BY <1>1, <2>2, <2>5, AppReturns
<1> QED  BY <1>2, <1>3

\* Connect from its CONNECT to the outcome: it goes on, or tears down.
LEMMA WaitUsable ==
    ASSUME MqttInv, UsableInv, SendConnect \/ WaitAccepted \/ WaitRefused \/ WaitTimeout
    PROVE  UsableInv'
<1> USE DEF MqttInv, TypeInv
<1>1. SessionStays /\ UNCHANGED <<kaTask, kaRunning>>
  BY DEF SendConnect, WaitAccepted, WaitRefused, WaitTimeout, SessionStays, clientVars, kaVars,
         history
<1>2. PICK l \in {"send_connect", "wait"} : At(App, l)
  BY DEF SendConnect, WaitAccepted, WaitRefused, WaitTimeout
<1>3. stack[App] # <<>> /\ Top(App) \in Frame /\ Top(App).pc = l
  BY <1>2, StackFrames, ActorFacts DEF At
<1>4. ~EndingAt(App)
  BY <1>3 DEF EndingAt, TopIn
<1>5. CASE WaitAccepted
  <2>1. PICK g \in Frame : /\ Continue(App, g)
                           /\ \/ g.pc = "stop" /\ g.then = "start"
                              \/ g.pc = "up" /\ ~keepAlive
    <3>1. /\ [Top(App) EXCEPT !.pc = "stop", !.then = "start"] \in Frame
          /\ [Top(App) EXCEPT !.pc = "stop", !.then = "start"].pc = "stop"
          /\ [Top(App) EXCEPT !.pc = "stop", !.then = "start"].then = "start"
          /\ [Top(App) EXCEPT !.pc = "up"] \in Frame
          /\ [Top(App) EXCEPT !.pc = "up"].pc = "up"
      BY <1>3 DEF Frame, SharedPcs, AppPcs
    <3> QED  BY <1>5, <3>1 DEF WaitAccepted, GoTo
  <2>2. /\ stack'[App] # <<>> /\ Head(stack'[App]) = g
        /\ stack'[Rx] = stack[Rx] /\ stack'[Ka] = stack[Ka]
    BY <1>3, <2>1, TopIs, ActorFacts
  <2>3. ~TopIn(App, Dropping)' /\ (InConnect' \/ ~keepAlive)
    BY <2>1, <2>2 DEF TopIn, Top, Dropping, InConnect
  <2>4. CASE "stale" \in lapses
    BY <1>1, <2>4 DEF UsableInv, SessionStays
  <2>5. CASE "stale" \notin lapses
    <3>1. connected
      BY <1>5, <2>5 DEF UsableInv, FlagsInv, WaitAccepted
    <3> QED  BY <1>1, <1>4, <2>2, <2>3, <3>1, AppMoves
  <2> QED  BY <2>4, <2>5
<1>6. CASE SendConnect \/ WaitRefused \/ WaitTimeout
  <2>1. PICK g \in Frame : g.pc \in {"wait", "give_up"} /\ Continue(App, g)
    <3>1. Top(App).own \in MaybeTransport
      BY <1>3 DEF Frame
    <3>2. /\ [Top(App) EXCEPT !.pc = "wait"] \in Frame
          /\ [Top(App) EXCEPT !.pc = "wait"].pc = "wait"
      BY <1>3 DEF Frame, AppPcs
    <3>3. \A bye \in BOOLEAN : /\ TeardownFrame(Top(App).own, bye) \in Frame
                               /\ TeardownFrame(Top(App).own, bye).pc = "give_up"
      BY <3>1, TeardownIsFrame
    <3>4. \/ Continue(App, [Top(App) EXCEPT !.pc = "wait"])
          \/ \E bye \in BOOLEAN : Continue(App, TeardownFrame(Top(App).own, bye))
      BY <1>6 DEF SendConnect, WaitRefused, WaitTimeout, GoTo
    <3> QED  BY <3>2, <3>3, <3>4
  <2>2. /\ stack'[App] # <<>> /\ Head(stack'[App]) = g
        /\ stack'[Rx] = stack[Rx] /\ stack'[Ka] = stack[Ka]
    BY <1>3, <2>1, TopIs, ActorFacts
  <2>3. /\ ~TopIn(App, Dropping)' /\ (InConnect' \/ TopIn(App, {"give_up"})')
        /\ TopIn(App, {"send_connect", "wait", "give_up"})'
    BY <2>1, <2>2 DEF TopIn, Top, Dropping, InConnect
  <2> QED  BY <1>1, <1>4, <2>2, <2>3, AppMoves
<1> QED  BY <1>5, <1>6

\* Connect makes a transport.
LEMMA OpenUsable ==
    ASSUME MqttInv, UsableInv, Create \/ Assign
    PROVE  UsableInv'
<1> USE DEF MqttInv, TypeInv
<1>1. PICK l \in {"create", "assign"} : At(App, l)
  BY DEF Create, Assign
<1>2. /\ stack[App] # <<>> /\ Top(App) \in Frame /\ Top(App).pc = l
      /\ Top(App) \in FramesOf(App, link)
  BY <1>1, AppAt, ActorFacts
<1>3. transport = 0
  <2>1. Top(App) \in Opening
    BY <1>2 DEF Opening
  <2>2. Depths(stack[App], Opening) # {}
    BY <1>2, <2>1, OnTop, ActorFacts
  <2> QED  BY <2>2 DEF ConnectInv
<1>4. PICK g : Continue(App, g) /\ g \in Frame /\ g.pc \in {"assign", "send_connect"}
                                /\ (Assign => g.pc = "send_connect")
  <2>1. CASE Create /\ ~Assign
    <3>1. PICK t \in Transports : Continue(App, [Top(App) EXCEPT !.pc = "assign", !.own = t])
      <4> DEFINE c == CHOOSE t \in Transports :
                          link[t] = "none" /\ \A u \in Transports : u < t => link[u] # "none"
      <4>1. \E t \in Transports :
                link[t] = "none" /\ \A u \in Transports : u < t => link[u] # "none"
        BY <2>1, NewTransport DEF Create
      <4>2. c \in Transports
        BY <4>1
      <4>3. Continue(App, [Top(App) EXCEPT !.pc = "assign", !.own = c])
        BY <2>1 DEF Create
      <4> HIDE DEF c
      <4> QED  BY <4>2, <4>3
    <3>2. /\ [Top(App) EXCEPT !.pc = "assign", !.own = t] \in Frame
          /\ [Top(App) EXCEPT !.pc = "assign", !.own = t].pc = "assign"
      BY <1>2 DEF Frame, AppPcs, MaybeTransport
    <3> QED  BY <2>1, <3>1, <3>2
  <2>2. CASE Assign
    <3>1. /\ [Top(App) EXCEPT !.pc = "send_connect"] \in Frame
          /\ [Top(App) EXCEPT !.pc = "send_connect"].pc = "send_connect"
      BY <1>2 DEF Frame, AppPcs
    <3> QED  BY <2>2, <3>1 DEF Assign, GoTo
  <2> QED  BY <2>1, <2>2
<1>5. /\ stack'[App] # <<>> /\ Head(stack'[App]) = g
      /\ stack'[Rx] = stack[Rx] /\ stack'[Ka] = stack[Ka]
  BY <1>2, <1>4, TopIs, ActorFacts
<1>6. /\ UNCHANGED <<connected, connecting, connack, kaTask, kaRunning, lapses>>
      /\ Assign \/ transport' = 0
  BY <1>3 DEF Create, Assign, clientVars, kaVars, history
<1> SUFFICES ASSUME ("stale" \notin lapses)'
             PROVE  (FlagsInv /\ DroppedInv /\ TaskInv)'
  BY DEF UsableInv
<1>7. FlagsInv /\ DroppedInv /\ TaskInv
  BY <1>6 DEF UsableInv
<1>8. ~connected /\ ~connected'
  BY <1>3, <1>6, <1>7 DEF FlagsInv
<1>9. /\ Assign => TopIn(App, {"send_connect", "wait", "give_up"})'
      /\ ~TopIn(App, Dropping)'
  BY <1>4, <1>5 DEF TopIn, Top, Dropping
<1>10. FlagsInv'
  BY <1>6, <1>7, <1>8, <1>9 DEF FlagsInv
<1>11. DroppedInv' /\ TaskInv'
  BY <1>8, <1>9 DEF DroppedInv, TaskInv
<1> QED  BY <1>10, <1>11

LEMMA ConnectUsable ==
    ASSUME MqttInv, UsableInv, NEW clean \in {0, 1}, NEW period \in BOOLEAN, Connect(clean, period)
    PROVE  UsableInv'
<1> DEFINE g == [Frame0 EXCEPT !.pc = "create", !.p = Pkt("connect", 0, 0, clean)]
<1>1. /\ ~connected /\ transport = 0 /\ connack' = "none" /\ SetStack(App, <<g>>)
      /\ UNCHANGED <<transport, connected>>
  BY DEF Connect
<1>2. g.pc = "create"
  BY DEF Frame0
<1> HIDE DEF g
<1>3. stack'[App] = <<g>>
  BY <1>1, StackIs, ActorFacts DEF MqttInv, TypeInv
<1>4. ~TopIn(App, Dropping)'
  BY <1>2, <1>3 DEF TopIn, Top, Dropping
<1>5. FlagsInv'
  BY <1>1 DEF FlagsInv
<1>6. DroppedInv' /\ TaskInv'
  BY <1>1, <1>4 DEF DroppedInv, TaskInv
<1> QED  BY <1>5, <1>6 DEF UsableInv

-----------------------------------------------------------------------------

LEMMA InitUsable ==
    ASSUME Init
    PROVE  UsableInv
<1>1. /\ ~connected /\ transport = 0 /\ connack = "none"
      /\ \A x \in Actors : stack[x] = <<>>
  BY DEF Init
<1>2. FlagsInv /\ DroppedInv /\ TaskInv
  BY <1>1, ActorFacts DEF FlagsInv, DroppedInv, TaskInv, TopIn
<1> QED  BY <1>2 DEF UsableInv

LEMMA NextUsable ==
    ASSUME MqttInv, UsableInv, [Next]_vars
    PROVE  UsableInv'
<1>1. ASSUME NEW x \in Actors, Calls(x)
      PROVE  UsableInv'
  BY <1>1, GiveUpUsable, DropUsable, StopUsable, StartUsable DEF Calls, Teardown
<1>2. ASSUME Application
      PROVE  UsableInv'
  BY <1>2, ConnectUsable, OpenUsable, WaitUsable, ReturnUsable, RequestUsable DEF Application
<1>3. ASSUME Receive
      PROVE  UsableInv'
  BY <1>3, OnTransportDataUsable, CallbackUsable, TakePacketUsable, HandleConnackUsable,
     HandlePublishUsable, HandlerUsable DEF Receive, Handlers
<1>4. ASSUME NEW t \in Transports, LinkGoesSilent(t) \/ OnTransportClosed(t)
      PROVE  UsableInv'
  BY <1>4, LinkUsable, OnTransportClosedUsable
<1>5. ASSUME Broker
      PROVE  UsableInv'
  BY <1>5, LinkUsable DEF Broker
<1>6. ASSUME UNCHANGED vars
      PROVE  UsableInv'
  <2>1. UNCHANGED <<stack, clientVars, kaVars, history>>
    BY <1>6 DEF vars
  <2>2. SessionStays /\ UNCHANGED <<stack, kaTask, kaRunning>>
    BY <2>1, StaysUnchanged DEF kaVars, history
  <2> QED  BY <2>2, StandStill
<1> QED  BY <1>1, <1>2, <1>3, <1>4, <1>5, <1>6, KeepAliveUsable, LinkUsable DEF Next

LEMMA UsableNow ==
    ASSUME MqttInv, UsableInv
    PROVE  ConnectedIsUsable
<1> SUFFICES ASSUME AtRest, Idle(Ka) \/ Top(Ka).pc \in {"loop", "store", "tick"},
                    lapses \cap {"stale", "raced"} = {}
             PROVE  /\ connected <=> transport # 0
                    /\ connected /\ keepAlive => kaTask /\ kaRunning /\ ~Idle(Ka)
  BY DEF ConnectedIsUsable
<1>1. FlagsInv /\ TaskInv
  BY DEF UsableInv
<1>2. /\ \A S : ~TopIn(App, S) /\ ~TopIn(Rx, S)
      /\ ~InConnect
  BY DEF AtRest, Idle, TopIn, InConnect
<1>3. ~Ending
  BY <1>2, ActorFacts DEF Ending, EndingAt, TopIn, Idle
<1>4. connected \in BOOLEAN
  BY DEF MqttInv, TypeInv, ClientType
<1>5. connected <=> transport # 0
  BY <1>1, <1>2, <1>4 DEF FlagsInv
<1>6. connected /\ keepAlive => kaTask /\ kaRunning /\ ~Idle(Ka)
  BY <1>1, <1>2, <1>3 DEF TaskInv, Idle
<1> QED  BY <1>5, <1>6

\* When no call is under way, the client has a transport_ exactly when it is connected_,
\* and then, unless the keep-alive period is zero, its task is there and running: however Connect, Teardown,
\* StopKeepAlive and the handlers of packets interleave, as long as no packet of a
\* connection that was given up is taken for one of the next and no two threads race on
\* keepalive_task_.
THEOREM MqttConnectedIsUsable == Spec => []ConnectedIsUsable
<1>1. Init => UsableInv
  BY InitUsable
<1>2. MqttInv /\ UsableInv /\ [Next]_vars => UsableInv'
  BY NextUsable
<1>3. MqttInv /\ UsableInv => ConnectedIsUsable
  BY UsableNow
<1> QED  BY <1>1, <1>2, <1>3, MqttInvariant, PTL DEF Spec
-----------------------------------------------------------------------------
(***************************************************************************)
(* A QoS 2 message is delivered at most once.                              *)
(*                                                                         *)
(* What decides it is the order of the packets that the client has not     *)
(* handled yet: in hand, in rx_buffer_ and on the wire of transport_.  A   *)
(* message may be delivered when its PUBREL comes, so by then it must be   *)
(* settled: the broker must be past the point where it could send it       *)
(* again.                                                                  *)
(***************************************************************************)

\* Packet p brings message m; p releases what is held under id i.
Carries(p, m) == p.type = "publish" /\ p.m = m
Frees(p, i) == p.type = "pubrel" /\ p.id = i

\* The broker will not send m any more; it has sent it under id i and waits.
Settled(b, m) == b.st[m] \in {"released", "rerelease", "done", "gone"}
Awaited(b, m, i) == b.st[m] = "sent" /\ b.id[m] = i

\* A message in the queue q was sent in this session, once, and is settled if a release
\* of its id follows it.
QueuedOnce(q, b) ==
    /\ \A j \in DOMAIN q, m \in Msgs :
           Carries(q[j], m) => Settled(b, m) \/ Awaited(b, m, q[j].id)
    /\ \A j, k \in DOMAIN q, m \in Msgs :
           j < k /\ Carries(q[j], m) /\ Frees(q[k], q[j].id) => Settled(b, m)
    /\ \A j, k \in DOMAIN q, m \in Msgs : Carries(q[j], m) /\ Carries(q[k], m) => j = k

\* So it is with a message that is held, and it is not in the queue as well.
HeldOnce(q, h, b) ==
    /\ \A i \in BrokerIds, m \in Msgs : h[i] = m => Settled(b, m) \/ Awaited(b, m, i)
    /\ \A i \in BrokerIds, m \in Msgs, j \in DOMAIN q :
           h[i] = m /\ Frees(q[j], i) => Settled(b, m)
    /\ \A i, k \in BrokerIds, m \in Msgs : h[i] = m /\ h[k] = m => i = k
    /\ \A i \in BrokerIds, m \in Msgs, j \in DOMAIN q : h[i] = m => ~Carries(q[j], m)

\* A message that was taken out, o[m] times, was taken out once and comes no more.
OutOnce(q, h, b, o) ==
    \A m \in Msgs : o[m] # 0 =>
        /\ o[m] = 1 /\ Settled(b, m)
        /\ \A i \in BrokerIds : h[i] # m
        /\ \A j \in DOMAIN q : ~Carries(q[j], m)

Once(q, h, b, o) == QueuedOnce(q, b) /\ HeldOnce(q, h, b) /\ OutOnce(q, h, b, o)

\* The broker uses an id for one message at a time.
Unfinished == {"sent", "released", "resend", "rerelease"}

UniqueIds(b) ==
    \A m, k \in Msgs :
        b.st[m] \in Unfinished /\ b.st[k] \in Unfinished /\ b.id[m] = b.id[k] => m = k

Helds == [BrokerIds -> Msgs \cup {0}]
Brokers == [st : [Msgs -> BrokerStates], id : [Msgs -> BrokerIds \cup {0}], on : MaybeTransport]
Counts == [Msgs -> Nat]

\* r is q without some of its packets; r is the stretch of q that comes d packets later.
Within(r, q) ==
    \E f \in [DOMAIN r -> DOMAIN q] :
        /\ \A j, k \in DOMAIN r : j < k => f[j] < f[k]
        /\ \A j \in DOMAIN r : r[j] = q[f[j]]

Shifted(r, q, d) == \A j \in DOMAIN r : j + d \in DOMAIN q /\ r[j] = q[j + d]

-----------------------------------------------------------------------------
(* What happens to the queue, and to what was said of it. *)

LEMMA Stretch ==
    ASSUME NEW q \in Seq(Packet), NEW r \in Seq(Packet), NEW d \in Nat, Shifted(r, q, d)
    PROVE  Within(r, q)
<1> DEFINE f == [j \in DOMAIN r |-> j + d]
<1>1. DOMAIN r \subseteq Nat
  OBVIOUS
<1>2. f \in [DOMAIN r -> DOMAIN q] /\ \A j \in DOMAIN r : f[j] = j + d /\ r[j] = q[f[j]]
  BY DEF Shifted
<1> HIDE DEF f
<1>3. \A j, k \in DOMAIN r : j < k => f[j] < f[k]
  BY <1>1, <1>2
<1> QED  BY <1>2, <1>3 DEF Within

\* Packets are lost.
LEMMA OnceShorter ==
    ASSUME NEW q \in Seq(Packet), NEW r \in Seq(Packet), Within(r, q), NEW h, NEW b, NEW o,
           Once(q, h, b, o)
    PROVE  Once(r, h, b, o)
<1>1. PICK f \in [DOMAIN r -> DOMAIN q] :
          /\ \A j, k \in DOMAIN r : j < k => f[j] < f[k]
          /\ \A j \in DOMAIN r : r[j] = q[f[j]]
  BY DEF Within
<1>2. DOMAIN r \subseteq Nat /\ DOMAIN q \subseteq Nat
  OBVIOUS
<1>3. \A j \in DOMAIN r : f[j] \in DOMAIN q /\ r[j] = q[f[j]]
  BY <1>1
<1>4. QueuedOnce(r, b)
  <2>1. ASSUME NEW j \in DOMAIN r, NEW m \in Msgs, Carries(r[j], m)
        PROVE  Settled(b, m) \/ Awaited(b, m, r[j].id)
    BY <1>3, <2>1 DEF Once, QueuedOnce
  <2>2. ASSUME NEW j \in DOMAIN r, NEW k \in DOMAIN r, NEW m \in Msgs, j < k, Carries(r[j], m),
               Frees(r[k], r[j].id)
        PROVE  Settled(b, m)
    <3>1. f[j] < f[k]
      BY <1>1, <2>2
    <3> QED  BY <1>3, <2>2, <3>1 DEF Once, QueuedOnce
  <2>3. ASSUME NEW j \in DOMAIN r, NEW k \in DOMAIN r, NEW m \in Msgs, Carries(r[j], m),
               Carries(r[k], m)
        PROVE  j = k
    <3>1. f[j] = f[k]
      BY <1>3, <2>3 DEF Once, QueuedOnce
    <3>2. ~(f[j] < f[k]) /\ ~(f[k] < f[j])
      BY <1>2, <1>3, <3>1
    <3>3. ~(j < k) /\ ~(k < j)
      BY <1>1, <3>2
    <3> QED  BY <1>2, <3>3
  <2> QED  BY <2>1, <2>2, <2>3 DEF QueuedOnce
<1>5. HeldOnce(r, h, b)
  BY <1>3 DEF Once, HeldOnce
<1>6. OutOnce(r, h, b, o)
  BY <1>3 DEF Once, OutOnce
<1> QED  BY <1>4, <1>5, <1>6 DEF Once

\* A packet arrives at the end of the queue.
LEMMA Appended ==
    ASSUME NEW q \in Seq(Packet), NEW p \in Packet
    PROVE  /\ Append(q, p) \in Seq(Packet)
           /\ \A j \in DOMAIN Append(q, p) :
                  \/ j \in DOMAIN q /\ Append(q, p)[j] = q[j]
                  \/ j \notin DOMAIN q /\ Append(q, p)[j] = p
           /\ \A j, k \in DOMAIN Append(q, p) :
                  /\ j \notin DOMAIN q /\ k \notin DOMAIN q => j = k
                  /\ j < k => j \in DOMAIN q
  OBVIOUS

\* One that neither brings nor releases a message changes nothing.
LEMMA OnceHarmless ==
    ASSUME NEW q \in Seq(Packet), NEW p \in Packet, NEW h, NEW b, NEW o, Once(q, h, b, o),
           p.type # "pubrel", \A m \in Msgs : ~Carries(p, m)
    PROVE  Once(Append(q, p), h, b, o)
<1> DEFINE r == Append(q, p)
<1>1. /\ \A j \in DOMAIN r : \/ j \in DOMAIN q /\ r[j] = q[j]
                             \/ j \notin DOMAIN q /\ r[j] = p
  BY Appended
<1> HIDE DEF r
<1>2. QueuedOnce(r, b)
  BY <1>1 DEF Once, QueuedOnce, Frees
<1>3. HeldOnce(r, h, b)
  BY <1>1 DEF Once, HeldOnce, Frees
<1>4. OutOnce(r, h, b, o)
  BY <1>1 DEF Once, OutOnce
<1> QED  BY <1>2, <1>3, <1>4 DEF Once, r

\* The broker sends message m, for the first time or again.
LEMMA OncePublished ==
    ASSUME NEW q \in Seq(Packet), NEW h, NEW b \in Brokers, NEW o, Once(q, h, b, o), UniqueIds(b),
           NEW m \in Msgs, NEW i \in BrokerIds, NEW p \in Packet, p.type = "publish", p.id = i,
           p.m = m, b.st[m] \in {"new", "resend"},
           IF b.st[m] = "new" THEN \A k \in Msgs : b.id[k] # i ELSE i = b.id[m],
           NEW c \in Brokers, c = [b EXCEPT !.st[m] = "sent", !.id[m] = i]
    PROVE  Once(Append(q, p), h, c, o) /\ UniqueIds(c)
<1> DEFINE r == Append(q, p)
<1>1. /\ \A j \in DOMAIN r : \/ j \in DOMAIN q /\ r[j] = q[j]
                             \/ j \notin DOMAIN q /\ r[j] = p
      /\ \A j, k \in DOMAIN r : /\ j \notin DOMAIN q /\ k \notin DOMAIN q => j = k
                                /\ j < k => j \in DOMAIN q
  BY Appended
<1> HIDE DEF r
<1>2. /\ c.st[m] = "sent" /\ c.id[m] = i
      /\ \A k \in Msgs : k # m => c.st[k] = b.st[k] /\ c.id[k] = b.id[k]
  BY DEF Brokers
<1>3. /\ \A k \in Msgs : k # m /\ Settled(b, k) => Settled(c, k)
      /\ \A k \in Msgs : \A l : k # m /\ Awaited(b, k, l) => Awaited(c, k, l)
  BY <1>2 DEF Settled, Awaited
<1>4. ~Settled(b, m) /\ \A l : ~Awaited(b, m, l)
  BY DEF Settled, Awaited
<1>5. /\ \A j \in DOMAIN q : ~Carries(q[j], m)
      /\ \A l \in BrokerIds : h[l] # m
  BY <1>4 DEF Once, QueuedOnce, HeldOnce
<1>6. \A k \in Msgs : Carries(p, k) => k = m
  BY DEF Carries
<1>7. Awaited(c, m, i) /\ ~Frees(p, i) /\ \A l : ~Frees(p, l)
  BY <1>2 DEF Awaited, Frees
<1>8. QueuedOnce(r, c)
  <2>1. ASSUME NEW j \in DOMAIN r, NEW k \in Msgs, Carries(r[j], k)
        PROVE  Settled(c, k) \/ Awaited(c, k, r[j].id)
    BY <1>1, <1>3, <1>5, <1>6, <1>7, <2>1 DEF Once, QueuedOnce
  <2>2. ASSUME NEW j \in DOMAIN r, NEW l \in DOMAIN r, NEW k \in Msgs, j < l, Carries(r[j], k),
               Frees(r[l], r[j].id)
        PROVE  Settled(c, k)
    <3>1. j \in DOMAIN q /\ r[j] = q[j] /\ l \in DOMAIN q /\ r[l] = q[l]
      BY <1>1, <1>7, <2>2
    <3> QED  BY <1>3, <1>5, <2>2, <3>1 DEF Once, QueuedOnce
  <2>3. ASSUME NEW j \in DOMAIN r, NEW l \in DOMAIN r, NEW k \in Msgs, Carries(r[j], k),
               Carries(r[l], k)
        PROVE  j = l
    BY <1>1, <1>5, <1>6, <2>3 DEF Once, QueuedOnce
  <2> QED  BY <2>1, <2>2, <2>3 DEF QueuedOnce
<1>9. HeldOnce(r, h, c)
  BY <1>1, <1>3, <1>5, <1>6, <1>7 DEF Once, HeldOnce
<1>10. OutOnce(r, h, c, o)
  BY <1>1, <1>3, <1>4, <1>6 DEF Once, OutOnce
<1>11. UniqueIds(c)
  BY <1>2 DEF UniqueIds, Unfinished, Brokers
<1> QED  BY <1>8, <1>9, <1>10, <1>11 DEF Once, r

\* The broker releases message m, for the first time or again.
LEMMA OnceReleased ==
    ASSUME NEW q \in Seq(Packet), NEW h, NEW b \in Brokers, NEW o, Once(q, h, b, o), UniqueIds(b),
           NEW m \in Msgs, NEW p \in Packet, p.type = "pubrel", p.id = b.id[m],
           b.st[m] \in {"sent", "rerelease"},
           NEW c \in Brokers, c = [b EXCEPT !.st[m] = "released"]
    PROVE  Once(Append(q, p), h, c, o) /\ UniqueIds(c)
<1> DEFINE r == Append(q, p)
<1>1. /\ \A j \in DOMAIN r : \/ j \in DOMAIN q /\ r[j] = q[j]
                             \/ j \notin DOMAIN q /\ r[j] = p
      /\ \A j, k \in DOMAIN r : /\ j \notin DOMAIN q /\ k \notin DOMAIN q => j = k
                                /\ j < k => j \in DOMAIN q
  BY Appended
<1> HIDE DEF r
<1>2. /\ c.st[m] = "released" /\ c.id = b.id
      /\ \A k \in Msgs : k # m => c.st[k] = b.st[k]
  BY DEF Brokers
<1>3. /\ \A k \in Msgs : Settled(b, k) => Settled(c, k)
      /\ \A k \in Msgs : \A l : Awaited(b, k, l) => Settled(c, k) \/ Awaited(c, k, l)
  BY <1>2 DEF Settled, Awaited
<1>4. \A k \in Msgs : Awaited(b, k, p.id) => Settled(c, k)
  BY <1>2 DEF UniqueIds, Awaited, Settled, Unfinished
<1>5. \A k \in Msgs : ~Carries(p, k)
  BY DEF Carries
<1>6. \A l : Frees(p, l) => l = p.id
  BY DEF Frees
<1>7. QueuedOnce(r, c)
  <2>1. ASSUME NEW j \in DOMAIN r, NEW k \in Msgs, Carries(r[j], k)
        PROVE  Settled(c, k) \/ Awaited(c, k, r[j].id)
    BY <1>1, <1>3, <1>5, <2>1 DEF Once, QueuedOnce
  <2>2. ASSUME NEW j \in DOMAIN r, NEW l \in DOMAIN r, NEW k \in Msgs, j < l, Carries(r[j], k),
               Frees(r[l], r[j].id)
        PROVE  Settled(c, k)
    <3>1. j \in DOMAIN q /\ r[j] = q[j]
      BY <1>1, <2>2
    <3>2. Settled(b, k) \/ Awaited(b, k, q[j].id)
      BY <2>2, <3>1 DEF Once, QueuedOnce
    <3>3. CASE l \in DOMAIN q /\ r[l] = q[l]
      BY <1>3, <2>2, <3>1, <3>3 DEF Once, QueuedOnce
    <3>4. CASE r[l] = p
      BY <1>3, <1>4, <1>6, <2>2, <3>1, <3>2, <3>4
    <3> QED  BY <1>1, <3>3, <3>4
  <2>3. ASSUME NEW j \in DOMAIN r, NEW l \in DOMAIN r, NEW k \in Msgs, Carries(r[j], k),
               Carries(r[l], k)
        PROVE  j = l
    BY <1>1, <1>5, <2>3 DEF Once, QueuedOnce
  <2> QED  BY <2>1, <2>2, <2>3 DEF QueuedOnce
<1>8. HeldOnce(r, h, c)
  <2>1. ASSUME NEW i \in BrokerIds, NEW k \in Msgs, NEW j \in DOMAIN r, h[i] = k, Frees(r[j], i)
        PROVE  Settled(c, k)
    BY <1>1, <1>3, <1>4, <1>6, <2>1 DEF Once, HeldOnce
  <2> QED  BY <1>1, <1>3, <1>5, <2>1 DEF Once, HeldOnce
<1>9. OutOnce(r, h, c, o)
  BY <1>1, <1>3, <1>5 DEF Once, OutOnce
<1>10. UniqueIds(c)
  BY <1>2 DEF UniqueIds, Unfinished, Brokers
<1> QED  BY <1>7, <1>8, <1>9, <1>10 DEF Once, r

\* The broker completes what it has released under id i.
Completed(b, c, i) ==
    \A m \in Msgs : IF b.id[m] = i /\ b.st[m] = "released" THEN c.st[m] = "done"
                    ELSE c.st[m] = b.st[m] /\ c.id[m] = b.id[m]

LEMMA OnceCompleted ==
    ASSUME NEW q, NEW h, NEW b \in Brokers, NEW o, Once(q, h, b, o), UniqueIds(b), NEW i,
           NEW c \in Brokers, Completed(b, c, i)
    PROVE  Once(q, h, c, o) /\ UniqueIds(c)
<1> USE DEF Completed
<1>1. /\ \A k \in Msgs : Settled(b, k) => Settled(c, k)
      /\ \A k \in Msgs : \A l : Awaited(b, k, l) => Awaited(c, k, l)
  BY DEF Settled, Awaited
<1>2. QueuedOnce(q, c)
  BY <1>1 DEF Once, QueuedOnce
<1>3. HeldOnce(q, h, c)
  BY <1>1 DEF Once, HeldOnce
<1>4. OutOnce(q, h, c, o)
  BY <1>1 DEF Once, OutOnce
<1>5. UniqueIds(c)
  BY DEF UniqueIds, Unfinished
<1> QED  BY <1>2, <1>3, <1>4, <1>5 DEF Once

\* A session begins: nothing is held or under way, and what is settled stays so.
LEMMA OnceBegins ==
    ASSUME NEW q, NEW h, NEW b, NEW o, Once(q, h, b, o), NEW g, \A i \in BrokerIds : g[i] = 0,
           NEW c, \A m \in Msgs : Settled(b, m) => Settled(c, m)
    PROVE  Once(<<>>, g, c, o)
<1>1. DOMAIN <<>> = {}
  OBVIOUS
<1>2. \A i \in BrokerIds, m \in Msgs : g[i] # m
  BY BoundsAssumption
<1>3. QueuedOnce(<<>>, c)
  BY <1>1 DEF QueuedOnce
<1>4. HeldOnce(<<>>, g, c)
  BY <1>1, <1>2 DEF HeldOnce
<1>5. OutOnce(<<>>, g, c, o)
  BY <1>1, <1>2 DEF Once, OutOnce
<1> QED  BY <1>3, <1>4, <1>5 DEF Once

\* The first packet is handled, whatever it is.
LEMMA TailWithin ==
    ASSUME NEW q \in Seq(Packet), q # <<>>
    PROVE  /\ Tail(q) \in Seq(Packet) /\ Within(Tail(q), q) /\ 1 \in DOMAIN q /\ Head(q) = q[1]
           /\ \A j \in DOMAIN Tail(q) : j + 1 \in DOMAIN q /\ 1 < j + 1 /\ Tail(q)[j] = q[j + 1]
<1>1. /\ Tail(q) \in Seq(Packet) /\ 1 \in DOMAIN q /\ Head(q) = q[1]
      /\ \A j \in DOMAIN Tail(q) : j + 1 \in DOMAIN q /\ 1 < j + 1 /\ Tail(q)[j] = q[j + 1]
  OBVIOUS
<1>2. Shifted(Tail(q), q, 1)
  BY <1>1 DEF Shifted
<1> QED  BY <1>1, <1>2, Stretch

\* It is a PUBLISH of QoS 2, and held unless something is held under its id.
LEMMA OnceHeld ==
    ASSUME NEW q \in Seq(Packet), q # <<>>, NEW h \in Helds, NEW b, NEW o, Once(q, h, b, o),
           NEW p, p = Head(q), p.type = "publish", NEW g \in Helds,
           g = [h EXCEPT ![p.id] = IF @ = 0 THEN p.m ELSE @]
    PROVE  Once(Tail(q), g, b, o)
<1> DEFINE r == Tail(q)
<1>1. /\ r \in Seq(Packet) /\ Within(r, q) /\ 1 \in DOMAIN q /\ p = q[1]
      /\ \A j \in DOMAIN r : j + 1 \in DOMAIN q /\ 1 < j + 1 /\ r[j] = q[j + 1]
  BY TailWithin
<1> HIDE DEF r
<1>2. Once(r, h, b, o)
  BY <1>1, OnceShorter
<1>3. ASSUME NEW i \in BrokerIds, g[i] # h[i]
      PROVE  i = p.id /\ h[i] = 0 /\ g[i] = p.m
  BY <1>3 DEF Helds
<1>4. ASSUME NEW m \in Msgs, p.m = m
      PROVE  /\ Carries(q[1], m)
             /\ Settled(b, m) \/ Awaited(b, m, p.id)
             /\ \A j \in DOMAIN r : ~Carries(r[j], m) /\ (Frees(r[j], p.id) => Settled(b, m))
             /\ \A i \in BrokerIds : h[i] # m
             /\ o[m] = 0
  <2>1. Carries(q[1], m)
    BY <1>1, <1>4 DEF Carries
  <2>2. Settled(b, m) \/ Awaited(b, m, p.id)
    BY <1>1, <2>1 DEF Once, QueuedOnce
  <2>3. ASSUME NEW j \in DOMAIN r
        PROVE  ~Carries(r[j], m) /\ (Frees(r[j], p.id) => Settled(b, m))
    <3>1. j + 1 \in DOMAIN q /\ 1 < j + 1 /\ r[j] = q[j + 1] /\ j + 1 # 1
      BY <1>1
    <3> QED  BY <1>1, <2>1, <3>1 DEF Once, QueuedOnce
  <2>4. \A i \in BrokerIds : h[i] # m
    BY <1>1, <2>1 DEF Once, HeldOnce
  <2>5. o[m] = 0
    BY <1>1, <2>1 DEF Once, OutOnce
  <2> QED  BY <2>1, <2>2, <2>3, <2>4, <2>5
<1>5. HeldOnce(r, g, b)
  <2>1. ASSUME NEW i \in BrokerIds, NEW m \in Msgs, g[i] = m
        PROVE  /\ Settled(b, m) \/ Awaited(b, m, i)
               /\ \A j \in DOMAIN r : Frees(r[j], i) => Settled(b, m)
               /\ \A j \in DOMAIN r : ~Carries(r[j], m)
               /\ \A k \in BrokerIds : g[k] = m => i = k
    <3>1. CASE g[i] = h[i]
      <4>1. p.m # m
        BY <1>4, <2>1, <3>1
      <4> QED  BY <1>2, <1>3, <2>1, <3>1, <4>1 DEF Once, HeldOnce
    <3>2. CASE g[i] # h[i]
      <4>1. i = p.id /\ p.m = m
        BY <1>3, <2>1, <3>2
      <4>2. \A k \in BrokerIds : g[k] = m => i = k
        BY <1>3, <1>4, <4>1
      <4> QED  BY <1>4, <4>1, <4>2
    <3> QED  BY <3>1, <3>2
  <2> QED  BY <2>1 DEF HeldOnce
<1>6. OutOnce(r, g, b, o)
  <2>1. ASSUME NEW m \in Msgs, o[m] # 0, NEW i \in BrokerIds
        PROVE  g[i] # m
    BY <1>2, <1>3, <1>4, <2>1 DEF Once, OutOnce
  <2> QED  BY <1>2, <2>1 DEF Once, OutOnce
<1> QED  BY <1>2, <1>5, <1>6 DEF Once, r

\* It is a PUBREL, and what is held under its id is taken out.
TakenOut(o, u, x) == \A m \in Msgs : u[m] = IF m = x THEN o[m] + 1 ELSE o[m]

LEMMA OnceFreed ==
    ASSUME NEW q \in Seq(Packet), q # <<>>, NEW h \in Helds, NEW b, NEW o \in Counts,
           Once(q, h, b, o), NEW i \in BrokerIds, Frees(Head(q), i), NEW g \in Helds,
           g = [h EXCEPT ![i] = 0], NEW u \in Counts, TakenOut(o, u, h[i])
    PROVE  Once(Tail(q), g, b, u)
<1> USE DEF TakenOut
<1> DEFINE r == Tail(q)
<1>1. /\ r \in Seq(Packet) /\ Within(r, q) /\ 1 \in DOMAIN q /\ Head(q) = q[1]
  BY TailWithin
<1> HIDE DEF r
<1>2. Once(r, h, b, o)
  BY <1>1, OnceShorter
<1>3. /\ g[i] = 0 /\ \A k \in BrokerIds : k # i => g[k] = h[k]
      /\ 0 \notin Msgs
  BY BoundsAssumption DEF Helds
<1>4. HeldOnce(r, g, b)
  BY <1>2, <1>3 DEF Once, HeldOnce
<1>5. OutOnce(r, g, b, u)
  <2>1. ASSUME NEW m \in Msgs, m = h[i]
        PROVE  /\ u[m] = 1 /\ Settled(b, m)
               /\ \A k \in BrokerIds : g[k] # m
               /\ \A j \in DOMAIN r : ~Carries(r[j], m)
    <3>1. Settled(b, m)
      BY <1>1, <2>1 DEF Once, HeldOnce
    <3>2. o[m] = 0
      BY <2>1 DEF Once, OutOnce
    <3>3. \A k \in BrokerIds : g[k] # m
      BY <1>3, <2>1 DEF Once, HeldOnce
    <3>4. \A j \in DOMAIN r : ~Carries(r[j], m)
      BY <1>2, <2>1 DEF Once, HeldOnce
    <3> QED  BY <2>1, <3>1, <3>2, <3>3, <3>4
  <2>2. ASSUME NEW m \in Msgs, m # h[i], u[m] # 0
        PROVE  /\ u[m] = 1 /\ Settled(b, m)
               /\ \A k \in BrokerIds : g[k] # m
               /\ \A j \in DOMAIN r : ~Carries(r[j], m)
    <3>1. o[m] # 0 /\ u[m] = o[m]
      BY <2>2
    <3> QED  BY <1>2, <1>3, <3>1 DEF Once, OutOnce
  <2> QED  BY <2>1, <2>2 DEF OutOnce
<1> QED  BY <1>2, <1>4, <1>5 DEF Once, r
-----------------------------------------------------------------------------
(* The queue of the session, and what else has to be known. *)

\* The call that nobody called, if it is at one of S.
View(s, S) == IF s # <<>> /\ s[Len(s)].pc \in S THEN s[Len(s)] ELSE Frame0

\* OnTransportData, until it has handled what it was called with; the application's
\* call while it makes a connection or a request.
Reading == RxPcs \ {"overflow"}
Reader == View(stack[Rx], Reading)
Asking == {"assign", "send_connect", "send"}
Caller == View(stack[App], Asking)

\* A packet that never becomes complete keeps what follows it from being handled.
Stuck(b) == b # <<>> /\ Head(b).type = "endless"

\* What is in hand of transport t, in the buffer b and on the wires w, when v reads.
Hand(v, t) == IF t # 0 /\ v.own = t /\ v.pc = "handle" THEN <<v.p>> ELSE <<>>
Buffered(v, t, b) == IF t # 0 /\ v.own = t /\ ~Stuck(b) THEN b ELSE <<>>
Behind(t, w) == IF t = 0 THEN <<>> ELSE w[t]
QueueOf(v, t, b, w) == Hand(v, t) \o (Buffered(v, t, b) \o Behind(t, w))

Queue == QueueOf(Reader, transport, rxBuf, wire)

\* Message m has been taken out and is about to be delivered.
Bears(v, m) == v.pc \in {"pubcomp", "deliver"} /\ v.m = m
OutOf(v, d) == [m \in Msgs |-> d[m] + IF Bears(v, m) THEN 1 ELSE 0]

\* Nothing has passed over a transport whose CONNECT has not been sent.
Fresh(t) == link[t] = "none" \/ (Caller.pc \in {"assign", "send_connect"} /\ Caller.own = t)

FreshInv ==
    \A t \in Transports : Fresh(t) => wire[t] = <<>> /\ broker.on # t /\ Reader.own # t

AskingInv ==
    /\ Caller.pc = "send_connect" => transport \in {0, Caller.own}
    /\ Caller.pc = "send" => Caller.p.type \in {"publish", "subscribe", "unsubscribe"}

\* Between two calls of OnTransportData there is nothing in the buffer to be handled.
BufferInv == Reader.own = 0 => rxBuf = <<>> \/ Stuck(rxBuf)

\* Messages are held in a session only.
HoldInv == transport = 0 \/ Caller.pc = "send_connect" => \A i \in BrokerIds : held[i] = 0

OnceInv == "stale" \notin lapses => Once(Queue, held, broker, OutOf(Reader, delivered)) /\ HoldInv

QosInv == UniqueIds(broker) /\ FreshInv /\ AskingInv /\ BufferInv /\ OnceInv

-----------------------------------------------------------------------------
(* The outermost call. *)

LEMMA ViewEmpty ==
    ASSUME NEW S
    PROVE  View(<<>>, S) = Frame0
  BY DEF View

LEMMA ViewSingle ==
    ASSUME NEW S, NEW g \in Frame
    PROVE  View(<<g>>, S) = IF g.pc \in S THEN g ELSE Frame0
<1>1. <<g>> # <<>> /\ Len(<<g>>) = 1 /\ <<g>>[1] = g
  OBVIOUS
<1> QED  BY <1>1 DEF View

\* A call that is not of the kind comes or goes on top.
LEMMA ViewPushed ==
    ASSUME NEW S, NEW s \in Seq(Frame), NEW g \in Frame, g.pc \notin S
    PROVE  View(<<g>> \o s, S) = View(s, S)
<1> DEFINE u == <<g>> \o s
<1>1. /\ u # <<>> /\ Len(u) = Len(s) + 1 /\ Len(s) \in Nat /\ u[1] = g
      /\ \A i \in 1 .. Len(s) : u[i + 1] = s[i]
  BY Pushed
<1> HIDE DEF u
<1>2. CASE s = <<>>
  <2>1. Len(u) = 1
    BY <1>1, <1>2
  <2> QED  BY <1>1, <1>2, <2>1 DEF View, u
<1>3. CASE s # <<>>
  <2>1. Len(s) \in 1 .. Len(s)
    BY <1>3, StackType
  <2>2. u[Len(u)] = s[Len(s)]
    BY <1>1, <2>1
  <2> QED  BY <1>1, <1>3, <2>2 DEF View, u
<1> QED  BY <1>2, <1>3

LEMMA ViewTail ==
    ASSUME NEW S, NEW s \in Seq(Frame), s # <<>>, Head(s).pc \notin S
    PROVE  View(Tail(s), S) = View(s, S)
<1> DEFINE r == Tail(s)
<1>1. /\ r \in Seq(Frame) /\ Len(r) = Len(s) - 1
      /\ \A i \in 1 .. Len(r) : r[i] = s[i + 1]
  BY Popped
<1>2. Len(s) \in Nat /\ Len(s) > 0 /\ Head(s) = s[1]
  BY StackType
<1> HIDE DEF r
<1>3. CASE r = <<>>
  <2>1. Len(r) = 0
    BY <1>3
  <2>2. Len(s) = 1
    BY <1>1, <1>2, <2>1
  <2> QED  BY <1>2, <1>3, <2>2 DEF View, r
<1>4. CASE r # <<>>
  <2>1. Len(r) \in 1 .. Len(r)
    BY <1>1, <1>4, StackType
  <2>2. r[Len(r)] = s[Len(s)]
    BY <1>1, <1>2, <2>1
  <2>3. View(r, S) = View(s, S)
    BY <1>4, <2>2 DEF View
  <2> QED  BY <2>3 DEF r
<1> QED  BY <1>3, <1>4

\* A call of the kind that nobody called is the outermost one.
LEMMA ViewTop ==
    ASSUME NEW S, NEW s \in Seq(Frame), s # <<>>, Tail(s) = <<>>, Head(s).pc \in S
    PROVE  View(s, S) = Head(s)
<1> DEFINE r == Tail(s)
<1>1. Len(s) \in Nat /\ Head(s) = s[1] /\ Len(r) = Len(s) - 1 /\ r = <<>>
  BY StackType, Popped
<1> HIDE DEF r
<1>2. Len(r) = 0
  BY <1>1
<1>3. Len(s) = 1
  BY <1>1, <1>2
<1> QED  BY <1>1, <1>3 DEF View

\* The innermost call goes on, returns or makes another; none of these is of the kind.
LEMMA ViewContinues ==
    ASSUME StackInv, NEW x \in Actors, stack[x] # <<>>, NEW S, Top(x).pc \notin S,
           NEW g \in Frame, g.pc \notin S, Continue(x, g)
    PROVE  View(stack'[x], S) = View(stack[x], S)
<1>1. stack[x] \in Seq(Frame) /\ Tail(stack[x]) \in Seq(Frame)
  BY StackFrames
<1>2. stack'[x] = <<g>> \o Tail(stack[x])
  BY StackIs DEF Continue
<1>3. View(<<g>> \o Tail(stack[x]), S) = View(Tail(stack[x]), S)
  BY <1>1, ViewPushed
<1>4. View(Tail(stack[x]), S) = View(stack[x], S)
  BY <1>1, ViewTail DEF Top
<1> QED  BY <1>2, <1>3, <1>4

LEMMA ViewCallback ==
    ASSUME StackInv, ClientType, NEW x \in Actors, NEW s \in Seq(Frame), Callback(x, s), NEW S,
           "stop" \notin S
    PROVE  View(stack'[x], S) = View(s, S)
<1>1. CASE SetStack(x, s)
  BY <1>1, StackIs
<1>2. CASE SetStack(x, <<DisconnectFrame>> \o s)
  <2> DEFINE g == DisconnectFrame
             r == <<g>> \o s
  <2>1. g \in Frame /\ g.pc = "stop"
    BY HangupFacts
  <2>2. SetStack(x, r)
    BY <1>2
  <2> HIDE DEF g
  <2>3. View(r, S) = View(s, S)
    BY <2>1, ViewPushed
  <2>4. stack'[x] = r
    <3> HIDE DEF r
    <3> QED  BY <2>2, StackIs
  <2> QED  BY <2>3, <2>4
<1> QED  BY <1>1, <1>2 DEF Callback

\* The calls that any thread can be in change no view.
Views == {Reading, Asking}

LEMMA ViewsApart ==
    ASSUME NEW S \in Views
    PROVE  S \cap (SharedPcs \cup KaPcs \cup {"create", "wait", "start", "up", "none", "overflow"}) = {}
  BY DEF Views, Reading, Asking, RxPcs, SharedPcs, KaPcs

SameViews == Reader' = Reader /\ Caller' = Caller

LEMMA ViewsStay ==
    ASSUME NEW x \in Actors, \A y \in Actors \ {x} : stack'[y] = stack[y],
           \A S \in Views : View(stack'[x], S) = View(stack[x], S)
    PROVE  SameViews
<1>1. Reading \in Views /\ Asking \in Views
  BY DEF Views
<1>2. ASSUME NEW y \in Actors, NEW S \in Views
      PROVE  View(stack'[y], S) = View(stack[y], S)
  BY <1>2
<1> QED  BY <1>1, <1>2, ActorFacts DEF SameViews, Reader, Caller

\* Shared calls go on.
LEMMA ThenIs ==
    ASSUME StackInv, NEW x \in Actors, TopIn(x, {"stop", "join"})
    PROVE  Top(x) \in Frame /\ Top(x).then \in {"give_up", "start"}
<1>1. Top(x) \in FramesOf(x, link)
  BY OnTop DEF TopIn
<1> QED  BY <1>1 DEF FramesOf, TopIn

LEMMA CallsViews ==
    ASSUME MqttInv, NEW x \in Actors, Calls(x)
    PROVE  SameViews
<1> USE DEF MqttInv, TypeInv
<1>1. /\ stack[x] # <<>>
      /\ Top(x).pc \in {"give_up", "hush", "drop", "tell", "stop", "join", "start"}
  BY DEF Calls, Teardown, GiveUp, Hush, Drop, Tell, StopKeepAlive, JoinKeepAlive,
     StartKeepAlive, At
<1>2. /\ Top(x) \in Frame /\ stack[x] \in Seq(Frame) /\ Tail(stack[x]) \in Seq(Frame)
      /\ \A S \in Views : Top(x).pc \notin S
  BY <1>1, StackFrames, ViewsApart DEF SharedPcs
<1>3. \A S \in Views : View(Tail(stack[x]), S) = View(stack[x], S)
  BY <1>1, <1>2, ViewTail DEF Top
<1>4. ASSUME NEW g \in Frame, g.pc \in SharedPcs \cup {"start", "up"}, Continue(x, g)
      PROVE  SameViews
  <2>1. \A y \in Actors \ {x} : stack'[y] = stack[y]
    BY <1>1, <1>4, TopIs
  <2>2. ASSUME NEW S \in Views
        PROVE  View(stack'[x], S) = View(stack[x], S)
    <3>1. g.pc \notin S
      BY <1>4, ViewsApart
    <3> QED  BY <1>1, <1>2, <1>4, <3>1, ViewContinues
  <2> QED  BY <2>1, <2>2, ViewsStay
<1>5. ASSUME SetStack(x, Tail(stack[x]))
      PROVE  SameViews
  <2>1. stack'[x] = Tail(stack[x]) /\ \A y \in Actors \ {x} : stack'[y] = stack[y]
    BY <1>5, StackIs
  <2> QED  BY <1>3, <2>1, ViewsStay
<1>6. CASE GiveUp(x)
  <2> DEFINE g == [Top(x) EXCEPT !.pc = "hush", !.t = transport]
  <2>1. g \in Frame /\ g.pc \in SharedPcs /\ Continue(x, g)
    BY <1>2, <1>6 DEF GiveUp, Frame, SharedPcs, ClientType
  <2> HIDE DEF g
  <2> QED  BY <2>1, <1>4
<1>7. CASE Hush(x)
  <2> DEFINE g == [Top(x) EXCEPT !.pc = "drop"]
  <2>1. g \in Frame /\ g.pc \in SharedPcs
    BY <1>2 DEF Frame, SharedPcs
  <2>2. Continue(x, g) \/ SetStack(x, Tail(stack[x]))
    BY <1>7 DEF Hush, GoTo, Return
  <2> HIDE DEF g
  <2> QED  BY <2>1, <2>2, <1>4, <1>5
<1>8. CASE Drop(x)
  <2> DEFINE g == [Top(x) EXCEPT !.pc = "tell"]
             h == TeardownFrame(Top(x).t, FALSE)
  <2>1. g \in Frame /\ g.pc \in SharedPcs /\ g.t = Top(x).t
    BY <1>2 DEF Frame, SharedPcs
  <2>2. h \in Frame /\ h.pc \in SharedPcs
    <3>1. Top(x).t \in MaybeTransport
      BY <1>2 DEF Frame
    <3> QED  BY <3>1, TeardownIsFrame DEF SharedPcs
  <2>3. Continue(x, g) \/ SetStack(x, <<h, g>> \o Tail(stack[x]))
    BY <1>8 DEF Drop
  <2> HIDE DEF g, h
  <2>4. CASE SetStack(x, <<h, g>> \o Tail(stack[x]))
    <3> DEFINE r == <<g>> \o Tail(stack[x])
    <3>1. <<h, g>> \o Tail(stack[x]) = <<h>> \o r
      <4>1. <<h, g>> = <<h>> \o <<g>>
        BY <2>1, <2>2, Two
      <4>2. <<h>> \in Seq(Frame) /\ <<g>> \in Seq(Frame)
        BY <2>1, <2>2
      <4> DEFINE a == <<h>>
                 b == <<g>>
                 c == Tail(stack[x])
      <4>3. a \in Seq(Frame) /\ b \in Seq(Frame) /\ c \in Seq(Frame)
        BY <1>2, <4>2
      <4> HIDE DEF a, b, c
      <4>4. (a \o b) \o c = a \o (b \o c)
        BY <4>3, ConcatAssociative
      <4> QED  BY <4>1, <4>4, Zenon DEF a, b, c
    <3>2. r \in Seq(Frame)
      BY <1>2, <2>1, Pushed
    <3>3. \A S \in Views : View(r, S) = View(stack[x], S)
      BY <1>2, <1>3, <2>1, ViewPushed, ViewsApart
    <3>4. SetStack(x, <<h>> \o r)
      BY <2>4, <3>1
    <3> HIDE DEF r
    <3>5. stack'[x] = <<h>> \o r /\ \A y \in Actors \ {x} : stack'[y] = stack[y]
      BY <3>4, StackIs
    <3>6. \A S \in Views : View(<<h>> \o r, S) = View(stack[x], S)
      BY <2>2, <3>2, <3>3, ViewPushed, ViewsApart
    <3> QED  BY <3>5, <3>6, ViewsStay
  <2> QED  BY <1>4, <2>1, <2>3, <2>4
<1>9. CASE Tell(x)
  <2>1. Callback(x, Tail(stack[x]))
    BY <1>9 DEF Tell
  <2>2. \A S \in Views : View(stack'[x], S) = View(stack[x], S)
    BY <1>2, <1>3, <2>1, ViewCallback, ViewsApart DEF SharedPcs
  <2>3. \A y \in Actors \ {x} : stack'[y] = stack[y]
    BY <1>2, <2>1, CallbackTop
  <2> QED  BY <2>2, <2>3, ViewsStay
<1>10. CASE StopKeepAlive(x)
  <2>1. TopIn(x, {"stop", "join"})
    BY <1>10 DEF StopKeepAlive, At, TopIn
  <2>2. Top(x).then \in {"give_up", "start"}
    BY <2>1, ThenIs
  <2>3. PICK l \in SharedPcs \cup {"start"} : GoTo(x, l)
    BY <1>10, <2>2 DEF StopKeepAlive, SharedPcs
  <2> DEFINE g == [Top(x) EXCEPT !.pc = l]
  <2>4. g \in Frame /\ g.pc \in SharedPcs \cup {"start"} /\ Continue(x, g)
    BY <1>2, <2>3 DEF Frame, SharedPcs, AppPcs, GoTo
  <2> HIDE DEF g
  <2> QED  BY <1>4, <2>4
<1>11. CASE JoinKeepAlive(x)
  <2>1. TopIn(x, {"stop", "join"})
    BY <1>11 DEF JoinKeepAlive, At, TopIn
  <2>2. Top(x).then \in {"give_up", "start"}
    BY <2>1, ThenIs
  <2>3. PICK l \in SharedPcs \cup {"start"} : GoTo(x, l)
    BY <1>11, <2>2 DEF JoinKeepAlive, SharedPcs
  <2> DEFINE g == [Top(x) EXCEPT !.pc = l]
  <2>4. g \in Frame /\ g.pc \in SharedPcs \cup {"start"} /\ Continue(x, g)
    BY <1>2, <2>3 DEF Frame, SharedPcs, AppPcs, GoTo
  <2> HIDE DEF g
  <2> QED  BY <1>4, <2>4
<1>12. CASE StartKeepAlive(x)
  <2> DEFINE g == [Top(x) EXCEPT !.pc = "up"]
  <2>1. x = App
    <3>1. Top(x) \in FramesOf(x, link) /\ Top(x).pc = "start"
      BY <1>1, <1>12, OnTop DEF StartKeepAlive, At
    <3> QED  BY <3>1, ActorFacts DEF FramesOf, OwnPcs, SharedPcs, RxPcs, KaPcs
  <2>2. g \in Frame /\ g.pc = "up"
    BY <1>2 DEF Frame, AppPcs
  <2> DEFINE s == Tail(stack[App])
  <2>3. stack'[App] = <<g>> \o s /\ stack'[Rx] = stack[Rx]
    BY <1>12, <2>1, ActorFacts DEF StartKeepAlive, StackInv
  <2>4. "up" \notin Asking /\ Asking \in Views
    BY DEF Asking, Views
  <2>5. s \in Seq(Frame) /\ View(s, Asking) = View(stack[App], Asking)
    BY <1>2, <1>3, <2>1, <2>4
  <2> HIDE DEF g, s
  <2>6. View(<<g>> \o s, Asking) = View(s, Asking)
    BY <2>2, <2>4, <2>5, ViewPushed
  <2>7. View(stack'[App], Asking) = View(stack[App], Asking)
    BY <2>3, <2>5, <2>6
  <2> QED  BY <2>3, <2>7 DEF SameViews, Reader, Caller
<1> QED  BY <1>6, <1>7, <1>8, <1>9, <1>10, <1>11, <1>12 DEF Calls, Teardown
-----------------------------------------------------------------------------
(* The queue as a sequence. *)

LEMMA ReaderType ==
    ASSUME StackInv
    PROVE  /\ \/ Reader = Frame0
              \/ Reader \in Frame /\ Reader.pc \in Reading /\ Reader.own \in Transports
           /\ Reader.p \in Packet /\ Reader.own \in MaybeTransport
           /\ Reader.own = 0 => Reader = Frame0
<1>1. CASE Reader = Frame0
  BY <1>1, FrameZero
<1>2. CASE Reader # Frame0
  <2> DEFINE s == stack[Rx]
  <2>1. s # <<>> /\ Reader = s[Len(s)] /\ Reader.pc \in Reading
    BY <1>2 DEF Reader, View
  <2>2. s \in Seq(FramesOf(Rx, link))
    BY ActorFacts DEF StackInv
  <2> HIDE DEF s
  <2>3. s[Len(s)] \in FramesOf(Rx, link)
    BY <2>1, <2>2
  <2>4. Reader \in Frame /\ Reader.own \in Transports
    BY <2>1, <2>3 DEF FramesOf, Reading
  <2> QED  BY <2>1, <2>4, NotZero DEF Frame, MaybeTransport
<1> QED  BY <1>1, <1>2

LEMMA QueueType ==
    ASSUME NEW v, v.p \in Packet, NEW t \in MaybeTransport, NEW b \in Seq(Packet),
           NEW w \in [Transports -> Seq(Packet)]
    PROVE  /\ Hand(v, t) \in Seq(Packet) /\ Buffered(v, t, b) \in Seq(Packet)
           /\ Behind(t, w) \in Seq(Packet) /\ QueueOf(v, t, b, w) \in Seq(Packet)
<1>1. <<v.p>> \in Seq(Packet) /\ <<>> \in Seq(Packet)
  OBVIOUS
<1>2. Hand(v, t) \in Seq(Packet) /\ Buffered(v, t, b) \in Seq(Packet) /\ Behind(t, w) \in Seq(Packet)
  BY <1>1 DEF Hand, Buffered, Behind, MaybeTransport
<1>3. \A a, c \in Seq(Packet) : a \o c \in Seq(Packet)
  OBVIOUS
<1> QED  BY <1>2, <1>3 DEF QueueOf

LEMMA PacketsAssociative ==
    ASSUME NEW a \in Seq(Packet), NEW c \in Seq(Packet), NEW e \in Seq(Packet)
    PROVE  (a \o c) \o e = a \o (c \o e)
  BY ConcatAssociative

LEMMA QueueAppended ==
    ASSUME NEW h \in Seq(Packet), NEW b \in Seq(Packet), NEW e \in Seq(Packet), NEW p \in Packet
    PROVE  h \o (b \o Append(e, p)) = Append(h \o (b \o e), p)
<1>1. ASSUME NEW a \in Seq(Packet), NEW c \in Seq(Packet)
      PROVE  a \o Append(c, p) = Append(a \o c, p) /\ a \o c \in Seq(Packet)
  <2>1. /\ <<p>> \in Seq(Packet) /\ a \o c \in Seq(Packet)
        /\ Append(c, p) = c \o <<p>> /\ Append(a \o c, p) = (a \o c) \o <<p>>
    BY AppendIsConcat
  <2>2. (a \o c) \o <<p>> = a \o (c \o <<p>>)
    BY <2>1, PacketsAssociative, ZenonT(40)
  <2> QED  BY <2>1, <2>2, Zenon
<1> DEFINE x == b \o e
<1>2. b \o Append(e, p) = Append(x, p) /\ x \in Seq(Packet)
  BY <1>1, Zenon
<1> HIDE DEF x
<1>3. h \o Append(x, p) = Append(h \o x, p)
  BY <1>1, <1>2, Zenon
<1> QED  BY <1>2, <1>3, Zenon DEF x

\* What is on the wire is lost.
LEMMA QueueCut ==
    ASSUME NEW v, v.p \in Packet, NEW t \in Transports, NEW b \in Seq(Packet),
           NEW w \in [Transports -> Seq(Packet)], NEW z \in [Transports -> Seq(Packet)],
           z[t] = <<>>
    PROVE  Within(QueueOf(v, t, b, z), QueueOf(v, t, b, w))
<1>1. t # 0 /\ t \in MaybeTransport
  BY NotZero DEF MaybeTransport
<1> DEFINE h == Hand(v, t)
           c == Buffered(v, t, b)
           e == w[t]
<1>2. h \in Seq(Packet) /\ c \in Seq(Packet) /\ e \in Seq(Packet)
  BY <1>1, QueueType
<1>3. Behind(t, z) = <<>> /\ Behind(t, w) = e
  BY <1>1 DEF Behind
<1>4. QueueOf(v, t, b, z) = h \o (c \o <<>>) /\ QueueOf(v, t, b, w) = h \o (c \o e)
  BY <1>3, Zenon DEF QueueOf
<1> HIDE DEF h, c, e
<1>5. c \o <<>> = c
  BY <1>2, ConcatEmptySeq
<1> DEFINE r == h \o c
<1>6. h \o (c \o e) = r \o e /\ r \in Seq(Packet)
  <2>1. r \in Seq(Packet)
    BY <1>2
  <2>2. (h \o c) \o e = h \o (c \o e)
    BY <1>2, PacketsAssociative, ZenonT(40)
  <2> QED  BY <2>1, <2>2, Zenon
<1>7. h \o (c \o <<>>) = r
  BY <1>5, Zenon
<1> HIDE DEF r
<1>8. \A j \in DOMAIN r : j + 0 \in DOMAIN (r \o e) /\ r[j] = (r \o e)[j + 0]
  BY <1>2, <1>6
<1>9. Within(r, r \o e)
  <2>1. Shifted(r, r \o e, 0) /\ r \o e \in Seq(Packet)
    BY <1>2, <1>6, <1>8 DEF Shifted
  <2> QED  BY <1>6, <2>1, Stretch
<1> QED  BY <1>4, <1>6, <1>7, <1>9, Zenon

LEMMA WithinItself ==
    ASSUME NEW q \in Seq(Packet)
    PROVE  Within(q, q)
<1>1. \A j \in DOMAIN q : j + 0 \in DOMAIN q /\ q[j] = q[j + 0]
  OBVIOUS
<1>2. Shifted(q, q, 0)
  BY <1>1 DEF Shifted
<1> QED  BY <1>2, Stretch

LEMMA WithinAppended ==
    ASSUME NEW q \in Seq(Packet), NEW p \in Packet
    PROVE  Within(q, Append(q, p))
<1>1. \A j \in DOMAIN q : j + 0 \in DOMAIN Append(q, p) /\ q[j] = Append(q, p)[j + 0]
  OBVIOUS
<1>2. Shifted(q, Append(q, p), 0) /\ Append(q, p) \in Seq(Packet)
  BY <1>1 DEF Shifted
<1> QED  BY <1>2, Stretch

LEMMA QueueNone ==
    ASSUME NEW v, NEW t \in MaybeTransport, NEW b, NEW w, t = 0 \/ (v.own # t /\ w[t] = <<>>)
    PROVE  QueueOf(v, t, b, w) = <<>>
<1>1. Hand(v, t) = <<>> /\ Buffered(v, t, b) = <<>> /\ Behind(t, w) = <<>>
  BY DEF Hand, Buffered, Behind
<1>2. <<>> \o <<>> = <<>>
  OBVIOUS
<1> QED  BY <1>1, <1>2, Zenon DEF QueueOf

\* The packet in hand has been handled; g reads on.
LEMMA QueueHandled ==
    ASSUME NEW v, v.p \in Packet, v.pc = "handle", NEW g, g.p \in Packet, g.own = v.own,
           g.pc # "handle", NEW t \in MaybeTransport, NEW b \in Seq(Packet),
           NEW w \in [Transports -> Seq(Packet)], NEW q, q = QueueOf(v, t, b, w)
    PROVE  /\ v.own = t /\ t # 0 => /\ q # <<>> /\ Head(q) = v.p
                                    /\ QueueOf(g, t, b, w) = Tail(q)
           /\ ~(v.own = t /\ t # 0) => QueueOf(g, t, b, w) = q
<1> DEFINE x == Buffered(v, t, b) \o Behind(t, w)
<1>1. Buffered(v, t, b) \in Seq(Packet) /\ Behind(t, w) \in Seq(Packet)
  BY QueueType
<1>2. x \in Seq(Packet)
  BY <1>1
<1>3. Buffered(g, t, b) = Buffered(v, t, b) /\ Hand(g, t) = <<>>
  BY DEF Buffered, Hand
<1>4. QueueOf(g, t, b, w) = <<>> \o x /\ q = Hand(v, t) \o x
  BY <1>3, Zenon DEF QueueOf
<1> HIDE DEF x
<1>5. <<>> \o x = x
  BY <1>2, ConcatEmptySeq
<1>6. CASE v.own = t /\ t # 0
  <2>1. Hand(v, t) = <<v.p>>
    BY <1>6 DEF Hand
  <2>2. ASSUME NEW p \in Packet
        PROVE  /\ <<p>> \o x # <<>> /\ Head(<<p>> \o x) = p /\ Tail(<<p>> \o x) = x
    BY <1>2
  <2>3. q = <<v.p>> \o x
    BY <1>4, <2>1, Zenon
  <2>4. q # <<>> /\ Head(q) = v.p /\ Tail(q) = x
    BY <2>2, <2>3, Zenon
  <2> QED  BY <1>4, <1>5, <1>6, <2>4, Zenon
<1>7. CASE ~(v.own = t /\ t # 0)
  <2>1. Hand(v, t) = <<>>
    BY <1>7 DEF Hand
  <2> QED  BY <1>4, <1>7, <2>1, Zenon
<1> QED  BY <1>6, <1>7

\* A call that reads goes on without a packet in hand before or after.
LEMMA QueueSame ==
    ASSUME NEW v, NEW g, g.own = v.own, v.pc # "handle", g.pc # "handle", NEW t, NEW b, NEW w
    PROVE  QueueOf(g, t, b, w) = QueueOf(v, t, b, w)
<1>1. Hand(g, t) = Hand(v, t) /\ Buffered(g, t, b) = Buffered(v, t, b)
  BY DEF Hand, Buffered
<1> QED  BY <1>1, Zenon DEF QueueOf
-----------------------------------------------------------------------------
(* What a step has to keep. *)

LEMMA QosTypes ==
    ASSUME MqttInv
    PROVE  /\ Reader.p \in Packet /\ Reader.own \in MaybeTransport
           /\ transport \in MaybeTransport /\ rxBuf \in Seq(Packet)
           /\ wire \in [Transports -> Seq(Packet)] /\ broker \in Brokers /\ held \in Helds
           /\ delivered \in Counts /\ Queue \in Seq(Packet)
<1>1. Reader.p \in Packet /\ Reader.own \in MaybeTransport
  BY ReaderType DEF MqttInv, TypeInv
<1>2. /\ transport \in MaybeTransport /\ rxBuf \in Seq(Packet)
      /\ wire \in [Transports -> Seq(Packet)] /\ broker \in Brokers /\ held \in Helds
      /\ delivered \in Counts
  BY DEF MqttInv, TypeInv, ClientType, LinkType, HistoryType, Brokers, Helds, Counts
<1>3. Queue \in Seq(Packet)
  BY <1>1, <1>2, QueueType DEF Queue
<1> QED  BY <1>1, <1>2, <1>3

LEMMA FrameNone == Frame0.pc = "none" /\ Frame0.own = 0 /\ Frame0.m = 0 /\ 0 \notin Transports
  BY NotZero DEF Frame0

NoneLater == \A t \in Transports : link'[t] = "none" => link[t] = "none"

LEMMA QosKeeps ==
    ASSUME QosInv, UniqueIds(broker'), NoneLater, Caller' \in {Caller, Frame0},
           transport' \in {transport, 0},
           \A t \in Transports : Fresh(t) => wire'[t] = <<>> /\ broker'.on # t /\ Reader'.own # t,
           BufferInv', OnceInv'
    PROVE  QosInv'
<1>1. \A t \in Transports : Fresh(t)' => Fresh(t)
  BY FrameNone DEF Fresh, NoneLater
<1>2. FreshInv'
  BY <1>1 DEF FreshInv
<1>3. AskingInv'
  BY FrameNone DEF QosInv, AskingInv
<1>4. UniqueIds(broker)'
  BY DEF UniqueIds
<1> QED  BY <1>2, <1>3, <1>4 DEF QosInv

LEMMA OnceKeeps ==
    ASSUME OnceInv, lapses \subseteq lapses', UNCHANGED <<held, transport>>,
           Caller' \in {Caller, Frame0},
           \A m \in Msgs : OutOf(Reader', delivered')[m] = OutOf(Reader, delivered)[m],
           Once(Queue, held, broker, OutOf(Reader, delivered))
               => Once(Queue', held, broker', OutOf(Reader, delivered))
    PROVE  OnceInv'
<1> SUFFICES ASSUME ("stale" \notin lapses)'
             PROVE  Once(Queue', held', broker', OutOf(Reader', delivered')) /\ HoldInv'
  BY DEF OnceInv
<1>1. Once(Queue, held, broker, OutOf(Reader, delivered)) /\ HoldInv
  BY DEF OnceInv
<1>2. Once(Queue', held, broker', OutOf(Reader, delivered))
  BY <1>1
<1>3. Once(Queue', held', broker', OutOf(Reader', delivered'))
  BY <1>2 DEF Once, OutOnce
<1>4. HoldInv'
  BY <1>1, FrameNone DEF HoldInv
<1> QED  BY <1>3, <1>4

\* A step that has nothing to do with messages.
LEMMA QosStays ==
    ASSUME QosInv, UNCHANGED <<transport, rxBuf, held, wire, broker, delivered>>, Reader' = Reader,
           Caller' \in {Caller, Frame0}, NoneLater, lapses \subseteq lapses'
    PROVE  QosInv'
<1>1. Queue' = Queue /\ OutOf(Reader', delivered') = OutOf(Reader, delivered)
  BY DEF Queue
<1>2. OnceInv'
  BY <1>1, OnceKeeps DEF QosInv
<1>3. BufferInv'
  BY DEF QosInv, BufferInv
<1>4. UniqueIds(broker')
  BY DEF QosInv
<1> QED  BY <1>2, <1>3, <1>4, QosKeeps DEF QosInv, FreshInv

LEMMA NoneSame ==
    ASSUME UNCHANGED link
    PROVE  NoneLater
  BY DEF NoneLater

-----------------------------------------------------------------------------
(* The broker and the link. *)

LEMMA AnswerQueue ==
    ASSUME MqttInv, NEW v, v.p \in Packet, NEW t \in Transports, NEW a \in Packet, Answer(t, a)
    PROVE  /\ wire' \in [Transports -> Seq(Packet)]
           /\ \A u \in Transports : u # t => wire'[u] = wire[u]
           /\ t = transport => QueueOf(v, transport, rxBuf, wire')
                                   = Append(QueueOf(v, transport, rxBuf, wire), a)
           /\ t # transport => QueueOf(v, transport, rxBuf, wire')
                                   = QueueOf(v, transport, rxBuf, wire)
<1>1. /\ wire \in [Transports -> Seq(Packet)] /\ transport \in MaybeTransport
      /\ rxBuf \in Seq(Packet)
  BY QosTypes
<1>2. Append(wire[t], a) \in Seq(Packet)
  BY <1>1
<1>3. /\ wire' \in [Transports -> Seq(Packet)] /\ wire'[t] = Append(wire[t], a)
      /\ \A u \in Transports : u # t => wire'[u] = wire[u]
  BY <1>1, <1>2 DEF Answer
<1> DEFINE now == QueueOf(v, transport, rxBuf, wire)
           next == QueueOf(v, transport, rxBuf, wire')
<1>4. ASSUME t = transport PROVE next = Append(now, a)
  <2> DEFINE h == Hand(v, t)
             b == Buffered(v, t, rxBuf)
             e == wire[t]
  <2>1. h \in Seq(Packet) /\ b \in Seq(Packet) /\ e \in Seq(Packet)
    BY <1>1, <1>4, QueueType
  <2>2. Behind(t, wire) = e /\ Behind(t, wire') = Append(e, a)
    BY <1>3, NotZero DEF Behind
  <2>3. now = h \o (b \o e) /\ next = h \o (b \o Append(e, a))
    BY <1>4, <2>2, Zenon DEF QueueOf
  <2> HIDE DEF h, b, e, now, next
  <2> QED  BY <2>1, <2>3, QueueAppended, ZenonT(40)
<1>5. ASSUME t # transport PROVE next = now
  <2>1. Behind(transport, wire') = Behind(transport, wire)
    BY <1>1, <1>3, <1>5 DEF Behind, MaybeTransport
  <2> QED  BY <2>1, Zenon DEF QueueOf
<1> HIDE DEF now, next
<1>6. /\ wire' \in [Transports -> Seq(Packet)]
      /\ \A u \in Transports : u # t => wire'[u] = wire[u]
      /\ t = transport => next = Append(now, a)
      /\ t # transport => next = now
  BY <1>3, <1>4, <1>5
<1> QED  BY <1>6 DEF now, next

LEMMA AnswerOnce ==
    ASSUME MqttInv, NEW v, v.p \in Packet, NEW t \in Transports, NEW a \in Packet, Answer(t, a),
           NEW h, NEW c, NEW o, Once(Append(QueueOf(v, transport, rxBuf, wire), a), h, c, o)
    PROVE  Once(QueueOf(v, transport, rxBuf, wire'), h, c, o)
<1> DEFINE q == QueueOf(v, transport, rxBuf, wire)
<1>1. q \in Seq(Packet)
  BY QosTypes, QueueType
<1>2. QueueOf(v, transport, rxBuf, wire') \in {q, Append(q, a)}
  BY AnswerQueue
<1> HIDE DEF q
<1>3. Append(q, a) \in Seq(Packet) /\ Within(q, Append(q, a))
  BY <1>1, WithinAppended
<1>4. Once(Append(q, a), h, c, o)
  BY DEF q
<1>5. Once(q, h, c, o)
  BY <1>1, <1>3, <1>4, OnceShorter
<1> QED  BY <1>2, <1>4, <1>5

\* What the broker answers to anything but a CONNECT.
LEMMA BrokerAnswersWith ==
    ASSUME LinkType, NEW t \in Transports, NEW p \in Outgoing, p.type # "connect",
           BrokerTakes(t, p)
    PROVE  \/ UNCHANGED <<wire, broker>>
           \/ /\ UNCHANGED broker
              /\ \E a \in Packet : a.type \notin {"publish", "pubrel"} /\ Answer(t, a)
           \/ \E m \in Msgs : /\ broker.id[m] = p.id /\ broker.st[m] = "sent"
                              /\ broker' = [broker EXCEPT !.st[m] = "released"]
                              /\ \E a \in Packet : a.type = "pubrel" /\ a.id = p.id /\ Answer(t, a)
           \/ UNCHANGED wire /\ broker'.on = broker.on /\ Completed(broker, broker', p.id)
<1> USE DEF LinkType
<1> DEFINE answers == /\ UNCHANGED broker
                      /\ \E a \in Packet : a.type \notin {"publish", "pubrel"} /\ Answer(t, a)
           releases == /\ p.type = "pubrec"
                       /\ \E m \in Msgs : broker.id[m] = p.id /\ broker.st[m] = "sent"
<1>p. p.id \in Ids /\ p.n \in Nat /\ p.type \in PacketTypes /\ 0 \in Ids
  BY BoundsAssumption DEF Outgoing, Ids
<1>t. \A type, id, m, n : Pkt(type, id, m, n).type = type /\ Pkt(type, id, m, n).id = id
  BY DEF Pkt
<1>w. ASSUME NEW type, NEW id, NEW n, type \notin {"publish", "pubrel"}, UNCHANGED broker,
             Pkt(type, id, 0, n) \in Packet, Answer(t, Pkt(type, id, 0, n))
      PROVE  answers
  <2> DEFINE a == Pkt(type, id, 0, n)
  <2>1. a \in Packet /\ a.type \notin {"publish", "pubrel"} /\ Answer(t, a)
    BY <1>t, <1>w
  <2> HIDE DEF a
  <2> QED  BY <1>w, <2>1
<1> HIDE DEF answers
<1>2. CASE releases
  <2>1. PICK m \in Msgs :
            /\ broker.id[m] = p.id /\ broker.st[m] = "sent"
            /\ broker' = [broker EXCEPT !.st[m] = "released"]
            /\ Answer(t, Pkt("pubrel", p.id, m, 0))
    BY <1>2 DEF BrokerTakes
  <2>2. Pkt("pubrel", p.id, m, 0) \in Packet
    BY <1>p, <2>1, PktFacts DEF PacketTypes
  <2> DEFINE a == Pkt("pubrel", p.id, m, 0)
  <2>3. a \in Packet /\ a.type = "pubrel" /\ a.id = p.id /\ Answer(t, a)
    BY <1>t, <2>1, <2>2
  <2> HIDE DEF a
  <2>4. \E e \in Packet : e.type = "pubrel" /\ e.id = p.id /\ Answer(t, e)
    BY <2>3
  <2> QED  BY <2>1, <2>4
<1>3. CASE p.type = "pubcomp"
  <2> DEFINE st == [m \in Msgs |-> IF broker.id[m] = p.id /\ broker.st[m] = "released"
                                   THEN "done" ELSE broker.st[m]]
             id == [m \in Msgs |-> IF broker.id[m] = p.id /\ broker.st[m] = "released"
                                   THEN 0 ELSE broker.id[m]]
  <2>1. broker' = [broker EXCEPT !.st = st, !.id = id] /\ UNCHANGED wire
    BY <1>3 DEF BrokerTakes
  <2>2. \A m \in Msgs : IF broker.id[m] = p.id /\ broker.st[m] = "released"
                        THEN st[m] = "done"
                        ELSE st[m] = broker.st[m] /\ id[m] = broker.id[m]
    OBVIOUS
  <2> HIDE DEF st, id
  <2>3. broker'.st = st /\ broker'.id = id /\ broker'.on = broker.on
    BY <2>1
  <2>4. Completed(broker, broker', p.id)
    BY <2>2, <2>3 DEF Completed
  <2> QED  BY <2>1, <2>3, <2>4
<1>6. ASSUME p.type = "pingreq" PROVE answers
  <2>1. Answer(t, Pkt("pingresp", 0, 0, 0)) /\ UNCHANGED broker
    BY <1>6 DEF BrokerTakes
  <2>2. Pkt("pingresp", 0, 0, 0) \in Packet
    BY <1>p, PktFacts DEF PacketTypes
  <2> QED  BY <1>w, <2>1, <2>2
<1>7. ASSUME p.type = "subscribe" PROVE answers
  <2>1. PICK type \in {"suback", "subnack"} : Answer(t, Pkt(type, p.id, 0, p.n)) /\ UNCHANGED broker
    BY <1>7 DEF BrokerTakes
  <2>2. p.id \in 1 .. MaxPacketId
    BY <1>7 DEF Outgoing
  <2>3. Pkt(type, p.id, 0, p.n) \in Packet
    BY <1>p, <2>2, PktFacts DEF PacketTypes
  <2> QED  BY <1>w, <2>1, <2>3
<1>8. ASSUME p.type = "unsubscribe" PROVE answers
  <2>1. Answer(t, Pkt("unsuback", p.id, 0, 0)) /\ UNCHANGED broker
    BY <1>8 DEF BrokerTakes
  <2>2. p.id \in 1 .. MaxPacketId
    BY <1>8 DEF Outgoing
  <2>3. Pkt("unsuback", p.id, 0, 0) \in Packet
    BY <1>p, <2>2, PktFacts DEF PacketTypes
  <2> QED  BY <1>w, <2>1, <2>3
<1>9. ASSUME p.type = "publish", p.n > 0 PROVE answers
  <2>1. PICK type \in {"puback", "pubrec"} : Answer(t, Pkt(type, p.id, 0, 0)) /\ UNCHANGED broker
    BY <1>9 DEF BrokerTakes
  <2>2. Pkt(type, p.id, 0, 0) \in Packet
    BY <1>p, PktFacts DEF PacketTypes
  <2> QED  BY <1>w, <2>1, <2>2
<1>10. ASSUME p.type = "pubrel" PROVE answers
  <2>1. Answer(t, Pkt("pubcomp", p.id, 0, 0)) /\ UNCHANGED broker
    BY <1>10 DEF BrokerTakes
  <2>2. Pkt("pubcomp", p.id, 0, 0) \in Packet
    BY <1>p, PktFacts DEF PacketTypes
  <2> QED  BY <1>w, <2>1, <2>2
<1>11. ASSUME p.type \notin {"connect", "pubcomp", "pingreq", "subscribe", "unsubscribe", "pubrel"},
              ~(p.type = "publish" /\ p.n > 0), ~releases
       PROVE  UNCHANGED <<wire, broker>>
  BY <1>11 DEF BrokerTakes
<1> QED  BY <1>2, <1>3, <1>6, <1>7, <1>8, <1>9, <1>10, <1>11 DEF answers

\* The client sends a packet other than a CONNECT, while v reads.
LEMMA SendOnce ==
    ASSUME MqttInv, UniqueIds(broker), FreshInv, NEW p \in Outgoing, p.type # "connect",
           SendPacket(p), UNCHANGED link, NEW v, v.p \in Packet
    PROVE  /\ UniqueIds(broker') /\ broker'.on = broker.on
           /\ \A t \in Transports : Fresh(t) => wire'[t] = wire[t]
           /\ \A h, o : Once(QueueOf(v, transport, rxBuf, wire), h, broker, o)
                            => Once(QueueOf(v, transport, rxBuf, wire'), h, broker', o)
<1> DEFINE q == QueueOf(v, transport, rxBuf, wire)
<1>1. q \in Seq(Packet) /\ broker \in Brokers
  BY QosTypes, QueueType
<1>2. broker' \in Brokers
  <2>1. LinkType'
    BY SendKeeps, QosTypes DEF MqttInv, TypeInv
  <2> QED  BY <2>1 DEF LinkType, Brokers
<1>3. CASE UNCHANGED <<wire, broker>>
  BY <1>3
<1>4. CASE transport # 0 /\ broker.on = transport /\ BrokerTakes(transport, p)
  <2>1. transport \in Transports
    BY <1>4, QosTypes DEF MaybeTransport
  <2>2. ~Fresh(transport)
    BY <1>4, <2>1 DEF FreshInv
  <2>3. ASSUME NEW a \in Packet, Answer(transport, a)
        PROVE  \A t \in Transports : Fresh(t) => wire'[t] = wire[t]
    BY <2>1, <2>2, <2>3, AnswerQueue
  <2>4. CASE /\ UNCHANGED broker
             /\ \E a \in Packet : a.type \notin {"publish", "pubrel"} /\ Answer(transport, a)
    <3>1. PICK a \in Packet : a.type \notin {"publish", "pubrel"} /\ Answer(transport, a)
      BY <2>4
    <3>2. a.type # "pubrel" /\ \A m \in Msgs : ~Carries(a, m)
      BY <3>1 DEF Carries
    <3>3. ASSUME NEW h, NEW o, Once(q, h, broker, o)
          PROVE  Once(QueueOf(v, transport, rxBuf, wire'), h, broker', o)
      <4>1. Once(Append(q, a), h, broker, o)
        BY <1>1, <3>2, <3>3, OnceHarmless
      <4>2. Once(QueueOf(v, transport, rxBuf, wire'), h, broker, o)
        BY <2>1, <3>1, <4>1, AnswerOnce
      <4> QED  BY <2>4, <4>2
    <3> QED  BY <2>3, <2>4, <3>1, <3>3
  <2>5. ASSUME NEW m \in Msgs, broker.id[m] = p.id, broker.st[m] = "sent",
               broker' = [broker EXCEPT !.st[m] = "released"],
               NEW a \in Packet, a.type = "pubrel", a.id = p.id, Answer(transport, a)
        PROVE  /\ UniqueIds(broker') /\ broker'.on = broker.on
               /\ \A t \in Transports : Fresh(t) => wire'[t] = wire[t]
               /\ \A h, o : Once(q, h, broker, o)
                                => Once(QueueOf(v, transport, rxBuf, wire'), h, broker', o)
    <3>1. ASSUME NEW h, NEW o, Once(q, h, broker, o)
          PROVE  Once(QueueOf(v, transport, rxBuf, wire'), h, broker', o)
      <4>1. Once(Append(q, a), h, broker', o)
        BY <1>1, <1>2, <2>5, <3>1, OnceReleased
      <4> QED  BY <2>1, <2>5, <4>1, AnswerOnce
    <3>2. UniqueIds(broker') /\ broker'.on = broker.on
      BY <1>1, <2>5 DEF UniqueIds, Unfinished, Brokers
    <3> QED  BY <2>3, <2>5, <3>1, <3>2
  <2>6. CASE UNCHANGED wire /\ broker'.on = broker.on /\ Completed(broker, broker', p.id)
    <3>1. ASSUME NEW h, NEW o, Once(q, h, broker, o)
          PROVE  Once(q, h, broker', o)
      BY <1>1, <1>2, <2>6, <3>1, OnceCompleted
    <3>2. UniqueIds(broker')
      BY <2>6 DEF UniqueIds, Unfinished, Completed
    <3> QED  BY <2>6, <3>1, <3>2
  <2> QED  BY <1>3, <1>4, <2>1, <2>4, <2>5, <2>6, BrokerAnswersWith DEF MqttInv, TypeInv
<1> QED  BY <1>3, <1>4 DEF SendPacket, Sends, SendFails, CanSend
-----------------------------------------------------------------------------
(* The views of a thread whose call nobody called. *)

LEMMA BottomAt ==
    ASSUME StackInv, NEW x \in Actors, NEW l \in OwnPcs(x), At(x, l)
    PROVE  /\ stack[x] # <<>> /\ Top(x) \in Frame /\ Top(x).pc = l /\ Tail(stack[x]) = <<>>
           /\ \A S : View(stack[x], S) = IF l \in S THEN Top(x) ELSE Frame0
<1>1. stack[x] # <<>> /\ Top(x).pc = l /\ Top(x) \in Frame
  BY OnTop DEF At
<1>2. Top(x) \in Bottom
  <2>1. l \in AppPcs \cup RxPcs \cup KaPcs
    BY DEF OwnPcs
  <2> QED  BY <1>1, <2>1 DEF Bottom
<1>3. Tail(stack[x]) = <<>> /\ Len(stack[x]) = 1
  BY <1>1, <1>2, AloneOnTop
<1>4. Top(x) = stack[x][1]
  BY <1>1, StackFrames, StackType DEF Top
<1>5. \A S : View(stack[x], S) = IF l \in S THEN Top(x) ELSE Frame0
  BY <1>1, <1>3, <1>4 DEF View
<1> QED  BY <1>1, <1>3, <1>5

LEMMA BottomGoes ==
    ASSUME MqttInv, NEW x \in Actors, NEW l \in OwnPcs(x), At(x, l), NEW g \in Frame,
           Continue(x, g) \/ Callback(x, <<g>>)
    PROVE  /\ \A y \in Actors \ {x} : stack'[y] = stack[y]
           /\ \A S \in Views : View(stack'[x], S) = IF g.pc \in S THEN g ELSE Frame0
<1> USE DEF MqttInv, TypeInv
<1>1. ASSUME NEW S PROVE View(<<g>>, S) = IF g.pc \in S THEN g ELSE Frame0
  BY ViewSingle
<1>2. CASE Continue(x, g)
  <2>1. SetStack(x, <<g>>)
    <3>1. Tail(stack[x]) = <<>>
      BY BottomAt
    <3>2. <<g>> \o <<>> = <<g>>
      BY Alone
    <3> QED  BY <1>2, <3>1, <3>2, Zenon DEF Continue
  <2>2. stack'[x] = <<g>> /\ \A y \in Actors \ {x} : stack'[y] = stack[y]
    BY <2>1, StackIs
  <2> QED  BY <1>1, <2>2
<1>3. CASE Callback(x, <<g>>)
  <2>1. <<g>> \in Seq(Frame)
    BY Single
  <2>2. \A y \in Actors \ {x} : stack'[y] = stack[y]
    BY <1>3, <2>1, CallbackTop
  <2>3. ASSUME NEW S \in Views
        PROVE  View(stack'[x], S) = View(<<g>>, S)
    <3>1. "stop" \notin S
      BY ViewsApart DEF SharedPcs
    <3> QED  BY <1>3, <2>1, <3>1, ViewCallback
  <2> QED  BY <1>1, <2>2, <2>3
<1> QED  BY <1>2, <1>3

LEMMA BottomReturns ==
    ASSUME MqttInv, NEW x \in Actors, NEW l \in OwnPcs(x), At(x, l), Return(x)
    PROVE  /\ \A y \in Actors \ {x} : stack'[y] = stack[y]
           /\ \A S : View(stack'[x], S) = Frame0
<1>1. stack'[x] = <<>> /\ \A y \in Actors \ {x} : stack'[y] = stack[y]
  BY BottomAt, StackIs DEF Return, MqttInv, TypeInv
<1> QED  BY <1>1, ViewEmpty

LEMMA ViewSets ==
    /\ Reading \in Views /\ Asking \in Views
    /\ \A l \in RxPcs : l \in OwnPcs(Rx) /\ (l \in Reading <=> l # "overflow")
    /\ \A l \in AppPcs : l \in OwnPcs(App)
    /\ \A l \in KaPcs : l \in OwnPcs(Ka)
  BY ActorFacts DEF Views, OwnPcs, Reading, RxPcs

\* The receive thread.
LEMMA ReaderAt ==
    ASSUME MqttInv, NEW l \in Reading, At(Rx, l)
    PROVE  /\ Reader = Top(Rx) /\ Top(Rx) \in Frame /\ Top(Rx).pc = l
           /\ Top(Rx).own \in Transports /\ Top(Rx).own # 0 /\ Top(Rx).p \in Packet
<1>1. l \in RxPcs /\ l \in OwnPcs(Rx)
  BY ViewSets DEF Reading
<1>2. Top(Rx).own \in Transports /\ Top(Rx).p \in Packet /\ Top(Rx) \in Frame /\ Top(Rx).pc = l
  BY <1>1, InHand DEF MqttInv, TypeInv, At
<1>3. Reader = Top(Rx)
  BY <1>1, BottomAt, ActorFacts DEF Reader, MqttInv, TypeInv
<1> QED  BY <1>2, <1>3, NotZero

LEMMA ReaderGoes ==
    ASSUME MqttInv, NEW l \in RxPcs, At(Rx, l), NEW g \in Frame,
           Continue(Rx, g) \/ Callback(Rx, <<g>>)
    PROVE  Caller' = Caller /\ Reader' = IF g.pc \in Reading THEN g ELSE Frame0
<1>1. /\ \A y \in Actors \ {Rx} : stack'[y] = stack[y]
      /\ \A S \in Views : View(stack'[Rx], S) = IF g.pc \in S THEN g ELSE Frame0
  BY ViewSets, BottomGoes, ActorFacts
<1> QED  BY <1>1, ViewSets, ActorFacts DEF Reader, Caller

\* The application.
LEMMA CallerAt ==
    ASSUME MqttInv, NEW l \in AppPcs, At(App, l)
    PROVE  /\ Caller = IF l \in Asking THEN Top(App) ELSE Frame0
           /\ Top(App) \in Frame /\ Top(App).pc = l
  BY ViewSets, BottomAt, ActorFacts DEF Caller, MqttInv, TypeInv

LEMMA CallerGoes ==
    ASSUME MqttInv, NEW l \in AppPcs, At(App, l), NEW g \in Frame,
           Continue(App, g) \/ Callback(App, <<g>>)
    PROVE  Reader' = Reader /\ Caller' = IF g.pc \in Asking THEN g ELSE Frame0
<1>1. /\ \A y \in Actors \ {App} : stack'[y] = stack[y]
      /\ \A S \in Views : View(stack'[App], S) = IF g.pc \in S THEN g ELSE Frame0
  BY ViewSets, BottomGoes, ActorFacts
<1> QED  BY <1>1, ViewSets, ActorFacts DEF Reader, Caller

LEMMA CallerReturns ==
    ASSUME MqttInv, NEW l \in AppPcs, At(App, l), Return(App)
    PROVE  Reader' = Reader /\ Caller' = Frame0
<1>1. /\ \A y \in Actors \ {App} : stack'[y] = stack[y]
      /\ \A S : View(stack'[App], S) = Frame0
  BY ViewSets, BottomReturns, ActorFacts
<1> QED  BY <1>1, ActorFacts DEF Reader, Caller

LEMMA CallerCalls ==
    ASSUME MqttInv, Idle(App), NEW g \in Frame, SetStack(App, <<g>>)
    PROVE  Reader' = Reader /\ Caller = Frame0 /\ Caller' = IF g.pc \in Asking THEN g ELSE Frame0
<1>1. stack'[App] = <<g>> /\ stack'[Rx] = stack[Rx]
  BY StackIs, ActorFacts DEF MqttInv, TypeInv
<1> QED  BY <1>1, ViewSingle, ViewEmpty DEF Reader, Caller, Idle

LEMMA KaViews ==
    ASSUME MqttInv, NEW l \in KaPcs, At(Ka, l),
           Return(Ka) \/ \E g \in Frame : Continue(Ka, g) \/ Callback(Ka, <<g>>)
    PROVE  SameViews
<1>1. \A y \in Actors \ {Ka} : stack'[y] = stack[y]
  BY ViewSets, BottomGoes, BottomReturns, ActorFacts
<1> QED  BY <1>1, ActorFacts DEF SameViews, Reader, Caller

-----------------------------------------------------------------------------
(* The steps that have nothing to do with messages. *)

LEMMA CallsQos ==
    ASSUME MqttInv, QosInv, NEW x \in Actors,
           Hush(x) \/ Tell(x) \/ StopKeepAlive(x) \/ JoinKeepAlive(x) \/ StartKeepAlive(x)
    PROVE  QosInv'
<1>1. SameViews
  BY CallsViews DEF Calls, Teardown
<1>2. /\ UNCHANGED <<transport, rxBuf, held, wire, broker, delivered, link>>
      /\ lapses \subseteq lapses'
  BY DEF Hush, Tell, StopKeepAlive, JoinKeepAlive, StartKeepAlive, clientVars, linkVars, history
<1> QED  BY <1>1, <1>2, NoneSame, QosStays DEF SameViews

LEMMA KaQos ==
    ASSUME MqttInv, QosInv, KaExit \/ KaPingFails \/ KaTick \/ KaStore \/ KaTimeout
    PROVE  QosInv'
<1>1. /\ UNCHANGED <<transport, rxBuf, held, wire, broker, delivered, link>>
      /\ lapses \subseteq lapses'
  BY DEF KaExit, KaPingFails, SendFails, KaTick, KaStore, KaTimeout, clientVars, linkVars, history
<1>2. PICK l \in KaPcs : At(Ka, l)
  BY DEF KaExit, KaPingFails, KaTick, KaStore, KaTimeout, KaPcs
<1>3. Top(Ka) \in Frame
  BY <1>2, BottomAt, ViewSets, ActorFacts DEF MqttInv, TypeInv
<1>4. Return(Ka) \/ \E g \in Frame : Continue(Ka, g) \/ Callback(Ka, <<g>>)
  <2>1. CASE KaPingFails \/ KaTick \/ KaStore
    <3>1. PICK next \in {"loop", "tick"} : GoTo(Ka, next)
      BY <2>1 DEF KaPingFails, KaTick, KaStore
    <3> DEFINE g == [Top(Ka) EXCEPT !.pc = next]
    <3>2. g \in Frame
      BY <1>3 DEF Frame, KaPcs
    <3>3. Continue(Ka, g)
      BY <3>1 DEF GoTo
    <3> QED  BY <3>2, <3>3
  <2>2. CASE KaTimeout
    <3> DEFINE g == TeardownFrame(Top(Ka).t, FALSE)
    <3>1. g \in Frame
      BY <1>3, TeardownIsFrame DEF Frame
    <3>2. Callback(Ka, <<g>>)
      BY <2>2 DEF KaTimeout
    <3> QED  BY <3>1, <3>2
  <2> QED  BY <2>1, <2>2 DEF KaExit
<1>5. SameViews
  BY <1>2, <1>4, KaViews
<1> QED  BY <1>1, <1>5, NoneSame, QosStays DEF SameViews

LEMMA WaitQos ==
    ASSUME MqttInv, QosInv,
           CreateFails \/ WaitAccepted \/ WaitRefused \/ WaitTimeout \/ ConnectReturns \/ Disconnect
    PROVE  QosInv'
<1> USE DEF MqttInv, TypeInv
<1>1. /\ UNCHANGED <<transport, rxBuf, held, wire, broker, delivered, link>>
      /\ lapses \subseteq lapses'
  BY DEF CreateFails, WaitAccepted, WaitRefused, WaitTimeout, ConnectReturns, Disconnect,
     clientVars, linkVars, history
<1>2. Reader' = Reader /\ Caller' \in {Caller, Frame0}
  <2>0. {"create", "wait", "up"} \subseteq AppPcs
    BY DEF AppPcs
  <2>1. CASE CreateFails
    BY <2>0, <2>1, CallerReturns DEF CreateFails
  <2>2. CASE ConnectReturns
    <3>1. At(App, "up") /\ Callback(App, Tail(stack[App])) /\ Tail(stack[App]) = <<>>
      BY <2>0, <2>2, BottomAt, ViewSets, ActorFacts DEF ConnectReturns
    <3>2. Callback(App, <<>>) /\ <<>> \in Seq(Frame)
      <4> DEFINE r == Tail(stack[App])
      <4>1. Callback(App, r) /\ r = <<>>
        BY <3>1
      <4> HIDE DEF r
      <4>2. <<>> \in Seq(Frame)
        OBVIOUS
      <4> QED  BY <4>1, <4>2
    <3>3. \A y \in Actors \ {App} : stack'[y] = stack[y]
      BY <3>2, CallbackTop, ActorFacts
    <3>4. "stop" \notin Asking
      BY DEF Asking
    <3>5. View(stack'[App], Asking) = Frame0
      BY <3>2, <3>4, ViewCallback, ViewEmpty, ActorFacts
    <3> QED  BY <3>3, <3>5, ActorFacts DEF Reader, Caller
  <2>3. CASE Disconnect
    <3> DEFINE g == DisconnectFrame
    <3>1. g \in Frame /\ g.pc = "stop"
      BY HangupFacts
    <3>2. Idle(App) /\ SetStack(App, <<g>>)
      BY <2>3 DEF Disconnect
    <3> HIDE DEF g
    <3> QED  BY <3>1, <3>2, CallerCalls DEF Asking
  <2>4. CASE WaitAccepted \/ WaitRefused \/ WaitTimeout
    <3>1. At(App, "wait")
      BY <2>4 DEF WaitAccepted, WaitRefused, WaitTimeout
    <3>2. Top(App) \in Frame
      BY <2>0, <3>1, CallerAt
    <3>3. ASSUME NEW g \in Frame, g.pc \notin Asking, Continue(App, g)
          PROVE  Reader' = Reader /\ Caller' \in {Caller, Frame0}
      BY <2>0, <3>1, <3>3, CallerGoes
    <3>4. CASE WaitAccepted
      <4> DEFINE g == [Top(App) EXCEPT !.pc = "stop", !.then = "start"]
                 h == [Top(App) EXCEPT !.pc = "up"]
      <4>1. g \in Frame /\ h \in Frame /\ g.pc = "stop" /\ h.pc = "up"
        BY <3>2 DEF Frame, SharedPcs, AppPcs
      <4>2. Continue(App, g) \/ Continue(App, h)
        BY <3>4 DEF WaitAccepted, GoTo
      <4> HIDE DEF g, h
      <4> QED  BY <3>3, <4>1, <4>2 DEF Asking
    <3>5. CASE WaitRefused \/ WaitTimeout
      <4>1. PICK bye \in BOOLEAN : Continue(App, TeardownFrame(Top(App).own, bye))
        BY <3>5 DEF WaitRefused, WaitTimeout
      <4> DEFINE g == TeardownFrame(Top(App).own, bye)
      <4>2. g \in Frame /\ g.pc = "give_up" /\ Continue(App, g)
        BY <3>2, <4>1, TeardownIsFrame DEF Frame
      <4> HIDE DEF g
      <4> QED  BY <3>3, <4>2 DEF Asking
    <3> QED  BY <2>4, <3>4, <3>5
  <2> QED  BY <2>1, <2>2, <2>3, <2>4
<1> QED  BY <1>1, <1>2, NoneSame, QosStays
-----------------------------------------------------------------------------
(* The steps of the receive thread. *)

SendsOne == UNCHANGED <<wire, broker>> \/ \E p \in Outgoing : p.type # "connect" /\ SendPacket(p)

\* What SendOnce says of a step that may send.
LEMMA SendsOnce ==
    ASSUME MqttInv, QosInv, SendsOne, UNCHANGED link, NEW v, v.p \in Packet
    PROVE  /\ UniqueIds(broker')
           /\ \A t \in Transports : Fresh(t) => wire'[t] = <<>> /\ broker'.on # t
           /\ \A h, o : Once(QueueOf(v, transport, rxBuf, wire), h, broker, o)
                            => Once(QueueOf(v, transport, rxBuf, wire'), h, broker', o)
<1>1. UniqueIds(broker) /\ FreshInv
  BY DEF QosInv
<1>2. CASE UNCHANGED <<wire, broker>>
  BY <1>1, <1>2 DEF FreshInv
<1>3. CASE \E p \in Outgoing : p.type # "connect" /\ SendPacket(p)
  <2>1. PICK p \in Outgoing : p.type # "connect" /\ SendPacket(p)
    BY <1>3
  <2>2. /\ UniqueIds(broker') /\ broker'.on = broker.on
        /\ \A t \in Transports : Fresh(t) => wire'[t] = wire[t]
        /\ \A h, o : Once(QueueOf(v, transport, rxBuf, wire), h, broker, o)
                         => Once(QueueOf(v, transport, rxBuf, wire'), h, broker', o)
    BY <1>1, <2>1, SendOnce
  <2> QED  BY <1>1, <2>2 DEF FreshInv
<1> QED  BY <1>2, <1>3 DEF SendsOne

\* The call that reads goes on as g: what is in hand, if anything, has been handled.
LEMMA ReadsOn ==
    ASSUME MqttInv, QosInv, NEW l \in Reading, At(Rx, l), NEW g, g.p \in Packet,
           g.own = Top(Rx).own, g.pc # "handle", Reader' = g, Caller' = Caller, SendsOne,
           UNCHANGED <<transport, rxBuf, held, link>>, lapses \subseteq lapses',
           \A m \in Msgs : OutOf(g, delivered')[m] = OutOf(Top(Rx), delivered)[m]
    PROVE  QosInv'
<1> DEFINE v == Top(Rx)
           q == QueueOf(g, transport, rxBuf, wire)
<1>1. Reader = v /\ v.own \in Transports /\ v.own # 0 /\ v.p \in Packet
  BY ReaderAt
<1>2. /\ transport \in MaybeTransport /\ rxBuf \in Seq(Packet)
      /\ wire \in [Transports -> Seq(Packet)] /\ Queue \in Seq(Packet)
  BY QosTypes
<1>3. q \in Seq(Packet) /\ Queue = QueueOf(v, transport, rxBuf, wire)
  BY <1>1, <1>2, QueueType DEF Queue
<1>4. Within(q, Queue)
  <2>1. CASE v.pc = "handle"
    <3>1. g.own = v.own
      OBVIOUS
    <3> HIDE DEF v
    <3>2. /\ v.own = transport /\ transport # 0 => Queue # <<>> /\ q = Tail(Queue)
          /\ ~(v.own = transport /\ transport # 0) => q = Queue
      BY <1>1, <1>2, <1>3, <2>1, <3>1, QueueHandled
    <3> HIDE DEF q
    <3> QED  BY <1>2, <3>2, TailWithin, WithinItself
  <2>2. CASE v.pc # "handle"
    <3>1. q = Queue
      BY <1>3, <2>2, QueueSame
    <3> HIDE DEF q
    <3> QED  BY <1>2, <3>1, WithinItself
  <2> QED  BY <2>1, <2>2
<1>5. /\ UniqueIds(broker')
      /\ \A t \in Transports : Fresh(t) => wire'[t] = <<>> /\ broker'.on # t
      /\ \A h, o : Once(q, h, broker, o)
                       => Once(QueueOf(g, transport, rxBuf, wire'), h, broker', o)
  BY SendsOnce
<1>6. Queue' = QueueOf(g, transport, rxBuf, wire')
  BY DEF Queue
<1> HIDE DEF q
<1>7. ASSUME NEW h, NEW o, Once(Queue, h, broker, o)
      PROVE  Once(Queue', h, broker', o)
  BY <1>2, <1>3, <1>4, <1>5, <1>6, <1>7, OnceShorter
<1>8. OnceInv'
  <2>1. \A m \in Msgs : OutOf(Reader', delivered')[m] = OutOf(Reader, delivered)[m]
    BY <1>1
  <2> QED  BY <1>7, <2>1, OnceKeeps DEF QosInv
<1>9. BufferInv'
  BY <1>1 DEF BufferInv
<1>10. \A t \in Transports : Fresh(t) => wire'[t] = <<>> /\ broker'.on # t /\ Reader'.own # t
  BY <1>1, <1>5 DEF QosInv, FreshInv
<1> QED  BY <1>5, <1>8, <1>9, <1>10, NoneSame, QosKeeps

\* One that has no message in hand takes the next packet.
LEMMA TakesNext ==
    ASSUME MqttInv, QosInv, NEW l \in Reading, At(Rx, l),
           Continue(Rx, TakeNext) \/ Callback(Rx, <<TakeNext>>), SendsOne,
           UNCHANGED <<transport, rxBuf, held, link>>, lapses \subseteq lapses',
           \A m \in Msgs : delivered'[m] = OutOf(Top(Rx), delivered)[m]
    PROVE  QosInv'
<1> DEFINE g == TakeNext
<1>1. l \in RxPcs /\ Top(Rx) \in Frame
  BY ReaderAt DEF Reading
<1>2. g \in Frame /\ g.pc = "take" /\ g.own = Top(Rx).own
  BY <1>1, TakeNextIsFrame
<1>3. Continue(Rx, g) \/ Callback(Rx, <<g>>)
  OBVIOUS
<1> HIDE DEF g
<1>4. Reader' = g /\ Caller' = Caller
  BY <1>1, <1>2, <1>3, ReaderGoes DEF Reading, RxPcs
<1>5. \A m \in Msgs : delivered'[m] \in Nat
  BY DEF OutOf, MqttInv, TypeInv, HistoryType
<1>6. \A m \in Msgs : OutOf(g, delivered')[m] = OutOf(Top(Rx), delivered)[m]
  BY <1>2, <1>5 DEF OutOf, Bears
<1>7. g.p \in Packet
  BY <1>2 DEF Frame
<1> QED  BY <1>2, <1>4, <1>6, <1>7, ReadsOn

\* Nothing is about to be delivered.
LEMMA NothingOut ==
    ASSUME MqttInv, NEW v, v.pc \notin {"pubcomp", "deliver"} \/ v.m \notin Msgs
    PROVE  \A m \in Msgs : OutOf(v, delivered)[m] = delivered[m]
<1>1. delivered \in Counts
  BY QosTypes
<1> QED  BY <1>1 DEF OutOf, Bears, Counts

LEMMA NextPacketQos ==
    ASSUME MqttInv, QosInv, HandleConnack \/ SendPubrec \/ HandlePubrec \/ HandlePublishComplete
                            \/ ReportRefused \/ HandlePingresp
    PROVE  QosInv'
<1>1. PICK l \in {"handle", "pubrec", "refused"} : At(Rx, l)
  BY DEF HandleConnack, SendPubrec, HandlePubrec, HandlePublishComplete, ReportRefused,
     HandlePingresp, Handling
<1>2. l \in Reading
  BY DEF Reading, RxPcs
<1>3. Continue(Rx, TakeNext) \/ Callback(Rx, <<TakeNext>>)
  BY DEF HandleConnack, SendPubrec, HandlePubrec, HandlePublishComplete, ReportRefused,
     HandlePingresp
<1>4. /\ UNCHANGED <<transport, rxBuf, held, link, delivered>> /\ lapses \subseteq lapses'
  BY DEF HandleConnack, SendPubrec, HandlePubrec, HandlePublishComplete, ReportRefused,
     HandlePingresp, clientVars, linkVars, history, Stale
<1>5. SendsOne
  <2>1. ASSUME NEW type \in {"pubrec", "pubrel"}, SendPacket(Pkt(type, Top(Rx).p.id, 0, 0))
        PROVE  SendsOne
    <3> DEFINE p == Pkt(type, Top(Rx).p.id, 0, 0)
    <3>1. Top(Rx).p.id \in Ids
      BY <1>1, <1>2, InHand DEF MqttInv, TypeInv, Reading
    <3>2. p \in Outgoing /\ p.type # "connect"
      BY <3>1 DEF Pkt, Outgoing, PacketTypes
    <3>3. SendPacket(p)
      BY <2>1
    <3> HIDE DEF p
    <3> QED  BY <3>2, <3>3 DEF SendsOne
  <2>2. CASE SendPubrec \/ HandlePubrec
    BY <2>1, <2>2 DEF SendPubrec, HandlePubrec
  <2>3. CASE UNCHANGED <<wire, broker>>
    BY <2>3 DEF SendsOne
  <2> QED
    BY <2>2, <2>3 DEF HandleConnack, HandlePublishComplete, ReportRefused, HandlePingresp, linkVars
<1>6. \A m \in Msgs : OutOf(Top(Rx), delivered)[m] = delivered[m]
  BY <1>1, NothingOut DEF At
<1> QED  BY <1>1, <1>2, <1>3, <1>4, <1>5, <1>6, TakesNext

LEMMA HandlePublishQos ==
    ASSUME MqttInv, QosInv, HandlePublish
    PROVE  QosInv'
<1> USE DEF MqttInv, TypeInv
<1>1. /\ At(Rx, "handle") /\ "handle" \in Reading /\ "handle" \in RxPcs
      /\ UNCHANGED <<transport, rxBuf, held, link, delivered, lapses>>
  BY DEF HandlePublish, Handling, Reading, RxPcs, clientVars, history
<1>2. Top(Rx) \in Frame /\ Top(Rx).own \in Transports /\ Top(Rx).p.id \in Ids
  BY <1>1, InHand
<1>3. ASSUME NEW g \in Frame, g.own = Top(Rx).own, g.pc # "handle", Reader' = g, Caller' = Caller,
             g.pc = "deliver" => g.m = 0, g.pc # "pubcomp", SendsOne
      PROVE  QosInv'
  <2>1. g.p \in Packet
    BY DEF Frame
  <2>2. \A m \in Msgs : OutOf(g, delivered')[m] = OutOf(Top(Rx), delivered)[m]
    <3>1. \A m \in Msgs : OutOf(g, delivered)[m] = delivered[m]
      BY <1>3, NothingOut, BoundsAssumption
    <3>2. \A m \in Msgs : OutOf(Top(Rx), delivered)[m] = delivered[m]
      BY <1>1, NothingOut DEF At
    <3> QED  BY <1>1, <3>1, <3>2 DEF OutOf
  <2> QED  BY <1>1, <1>3, <2>1, <2>2, ReadsOn
<1>4. CASE /\ Callback(Rx, <<TeardownFrame(Top(Rx).own, FALSE), TakeNext>>)
           /\ UNCHANGED <<wire, broker>>
  <2> DEFINE g == TeardownFrame(Top(Rx).own, FALSE)
             n == TakeNext
             s == <<g>> \o <<n>>
  <2>1. g \in Frame /\ g.pc = "give_up"
    BY <1>2, TeardownIsFrame DEF MaybeTransport
  <2>2. n \in Frame /\ n.pc = "take" /\ n.own = Top(Rx).own
    BY <1>2, TakeNextIsFrame
  <2>p. Callback(Rx, <<g, n>>)
    BY <1>4
  <2> HIDE DEF g, n
  <2>3. Callback(Rx, s)
    <3>1. <<g, n>> = <<g>> \o <<n>>
      BY <2>1, <2>2, Two
    <3> QED  BY <2>p, <3>1
  <2>4. <<n>> \in Seq(Frame)
    BY <2>2, Single
  <2>5. s \in Seq(Frame)
    BY <2>1, <2>4, Pushed
  <2>6. View(s, Reading) = n
    <3>1. View(<<n>>, Reading) = n
      BY <2>2, ViewSingle DEF Reading, RxPcs
    <3>2. g.pc \notin Reading
      BY <2>1 DEF Reading, RxPcs
    <3> QED  BY <2>1, <2>4, <3>1, <3>2, ViewPushed
  <2> HIDE DEF s
  <2>7. "stop" \notin Reading
    BY DEF Reading, RxPcs
  <2>8. Reader' = n
    BY <2>3, <2>5, <2>6, <2>7, ViewCallback, ActorFacts DEF Reader
  <2>9. Caller' = Caller
    BY <2>3, <2>5, CallbackTop, ActorFacts DEF Caller
  <2> QED  BY <1>3, <1>4, <2>2, <2>8, <2>9 DEF SendsOne
<1>5. CASE /\ \/ SendPacket(Pkt("puback", Top(Rx).p.id, 0, 0))
              \/ UNCHANGED <<wire, broker>>
           /\ Continue(Rx, [Top(Rx) EXCEPT !.pc = "deliver", !.m = 0])
  <2> DEFINE g == [Top(Rx) EXCEPT !.pc = "deliver", !.m = 0]
             p == Pkt("puback", Top(Rx).p.id, 0, 0)
  <2>1. p \in Outgoing /\ p.type # "connect"
    BY <1>2 DEF Pkt, Outgoing, PacketTypes
  <2>2. SendPacket(p) \/ UNCHANGED <<wire, broker>>
    BY <1>5
  <2>3. g \in Frame /\ g.pc = "deliver" /\ g.m = 0 /\ g.own = Top(Rx).own /\ Continue(Rx, g)
    BY <1>2, <1>5, FrameZero DEF Frame, RxPcs
  <2> HIDE DEF g, p
  <2>4. SendsOne
    BY <2>1, <2>2 DEF SendsOne
  <2>5. Reader' = g /\ Caller' = Caller
    BY <1>1, <2>3, ReaderGoes DEF Reading, RxPcs
  <2> QED  BY <1>3, <2>3, <2>4, <2>5
<1> QED  BY <1>4, <1>5 DEF HandlePublish

LEMMA SendPubcompQos ==
    ASSUME MqttInv, QosInv, SendPubcomp
    PROVE  QosInv'
<1> USE DEF MqttInv, TypeInv
<1>1. /\ At(Rx, "pubcomp") /\ "pubcomp" \in Reading /\ "pubcomp" \in RxPcs
      /\ UNCHANGED <<transport, rxBuf, held, link, delivered, lapses>>
      /\ SendPacket(Pkt("pubcomp", Top(Rx).p.id, 0, 0))
      /\ Continue(Rx, IF Top(Rx).m = 0 THEN TakeNext ELSE [Top(Rx) EXCEPT !.pc = "deliver"])
  BY DEF SendPubcomp, Reading, RxPcs, clientVars, history
<1>2. Top(Rx) \in Frame /\ Top(Rx).p.id \in Ids /\ Top(Rx).pc = "pubcomp"
  BY <1>1, InHand DEF At
<1>3. SendsOne
  <2> DEFINE p == Pkt("pubcomp", Top(Rx).p.id, 0, 0)
  <2>1. p \in Outgoing /\ p.type # "connect" /\ SendPacket(p)
    BY <1>1, <1>2 DEF Pkt, Outgoing, PacketTypes
  <2> HIDE DEF p
  <2> QED  BY <2>1 DEF SendsOne
<1>4. CASE Top(Rx).m = 0
  <2>1. \A m \in Msgs : OutOf(Top(Rx), delivered)[m] = delivered[m]
    BY <1>4, NothingOut, BoundsAssumption
  <2> QED  BY <1>1, <1>3, <1>4, <2>1, TakesNext
<1>5. CASE Top(Rx).m # 0
  <2> DEFINE g == [Top(Rx) EXCEPT !.pc = "deliver"]
  <2>1. /\ g \in Frame /\ g.pc = "deliver" /\ g.own = Top(Rx).own /\ g.m = Top(Rx).m
        /\ g.p \in Packet /\ Continue(Rx, g)
    BY <1>1, <1>2, <1>5 DEF Frame, RxPcs
  <2> HIDE DEF g
  <2>2. Reader' = g /\ Caller' = Caller
    BY <1>1, <2>1, ReaderGoes DEF Reading, RxPcs
  <2>3. \A m \in Msgs : Bears(g, m) <=> Bears(Top(Rx), m)
    BY <1>2, <2>1 DEF Bears
  <2>4. \A m \in Msgs : OutOf(g, delivered')[m] = OutOf(Top(Rx), delivered)[m]
    BY <1>1, <2>3 DEF OutOf
  <2> QED  BY <1>1, <1>3, <2>1, <2>2, <2>4, ReadsOn
<1> QED  BY <1>4, <1>5

LEMMA DeliverQos ==
    ASSUME MqttInv, QosInv, Deliver
    PROVE  QosInv'
<1>1. /\ At(Rx, "deliver") /\ "deliver" \in Reading /\ Callback(Rx, <<TakeNext>>)
      /\ UNCHANGED <<transport, rxBuf, held, link, wire, broker, lapses>>
      /\ delivered' = [m \in Msgs |-> IF m = Top(Rx).m THEN delivered[m] + 1 ELSE delivered[m]]
  BY DEF Deliver, Reading, RxPcs, clientVars, linkVars
<1>2. delivered \in [Msgs -> Nat] /\ Top(Rx).pc = "deliver"
  BY <1>1 DEF At, MqttInv, TypeInv, HistoryType
<1>3. \A m \in Msgs : delivered'[m] = OutOf(Top(Rx), delivered)[m]
  BY <1>1, <1>2 DEF OutOf, Bears
<1>4. SendsOne
  BY <1>1 DEF SendsOne
<1> QED  BY <1>1, <1>3, <1>4, TakesNext

LEMMA HandleSubackQos ==
    ASSUME MqttInv, QosInv, HandleSuback
    PROVE  QosInv'
<1> USE DEF MqttInv, TypeInv
<1>1. /\ At(Rx, "handle") /\ "handle" \in Reading /\ "handle" \in RxPcs
      /\ Top(Rx).p.type \in {"suback", "subnack", "unsuback"}
      /\ UNCHANGED <<transport, rxBuf, held, link, wire, broker, delivered, lapses>>
      /\ \/ Continue(Rx, TakeNext)
         \/ Continue(Rx, [Top(Rx) EXCEPT !.pc = "refused", !.m = topics[Top(Rx).p.id]])
  BY DEF HandleSuback, Handling, Reading, RxPcs, linkVars, history
<1>2. Top(Rx) \in Frame /\ Top(Rx).pc = "handle" /\ Top(Rx).p \in Packet
  BY <1>1, InHand DEF At
<1>3. SendsOne
  BY <1>1 DEF SendsOne
<1>4. \A m \in Msgs : OutOf(Top(Rx), delivered)[m] = delivered[m]
  BY <1>2, NothingOut
<1>5. CASE Continue(Rx, TakeNext)
  BY <1>1, <1>3, <1>4, <1>5, TakesNext
<1>6. CASE Continue(Rx, [Top(Rx) EXCEPT !.pc = "refused", !.m = topics[Top(Rx).p.id]])
  <2> DEFINE g == [Top(Rx) EXCEPT !.pc = "refused", !.m = topics[Top(Rx).p.id]]
  <2>1. topics[Top(Rx).p.id] \in 0 .. MaxEvents
    BY <1>1, <1>2 DEF ClientType, Packet
  <2>2. /\ g \in Frame /\ g.pc = "refused" /\ g.own = Top(Rx).own /\ g.p \in Packet
        /\ Continue(Rx, g)
    BY <1>2, <1>6, <2>1 DEF Frame, RxPcs
  <2> HIDE DEF g
  <2>3. Reader' = g /\ Caller' = Caller
    BY <1>1, <2>2, ReaderGoes DEF Reading, RxPcs
  <2>4. \A m \in Msgs : OutOf(g, delivered)[m] = delivered[m]
    BY <2>2, NothingOut
  <2>5. \A m \in Msgs : OutOf(g, delivered')[m] = OutOf(Top(Rx), delivered)[m]
    BY <1>1, <1>4, <2>4
  <2> QED  BY <1>1, <1>3, <2>2, <2>3, <2>5, ReadsOn
<1> QED  BY <1>1, <1>5, <1>6

\* The call that reads goes on as g and changes what is held.
LEMMA HoldsOn ==
    ASSUME MqttInv, QosInv, NEW l \in Reading, At(Rx, l), NEW g, g.own = Top(Rx).own,
           Reader' = g, Caller' = Caller, UNCHANGED <<transport, wire, broker, link>>, OnceInv'
    PROVE  QosInv'
<1>1. Reader = Top(Rx) /\ Top(Rx).own # 0
  BY ReaderAt
<1>2. BufferInv'
  BY <1>1 DEF BufferInv
<1>3. \A t \in Transports : Fresh(t) => wire'[t] = <<>> /\ broker'.on # t /\ Reader'.own # t
  BY <1>1 DEF QosInv, FreshInv
<1>4. UniqueIds(broker')
  BY DEF QosInv
<1> QED  BY <1>2, <1>3, <1>4, NoneSame, QosKeeps

LEMMA HoldPublishQos ==
    ASSUME MqttInv, QosInv, HoldPublish
    PROVE  QosInv'
<1> DEFINE v == Top(Rx)
           g == [Top(Rx) EXCEPT !.pc = "pubrec"]
<1>1. /\ At(Rx, "handle") /\ "handle" \in Reading /\ "handle" \in RxPcs /\ v.p.type = "publish"
      /\ held' = [held EXCEPT ![v.p.id] = IF @ = 0 THEN v.p.m ELSE @]
      /\ lapses' = Stale /\ Continue(Rx, g)
      /\ UNCHANGED <<transport, rxBuf, link, wire, broker, delivered>>
  BY DEF HoldPublish, Handling, Reading, RxPcs, linkVars, GoTo
<1>2. v \in Frame /\ v.pc = "handle" /\ v.p \in Packet /\ Reader = v /\ v.own # 0
  BY <1>1, ReaderAt
<1>3. /\ g \in Frame /\ g.pc = "pubrec" /\ g.own = v.own /\ g.p \in Packet
  BY <1>2 DEF Frame, RxPcs
<1>4. held' \in Helds
  <2>1. MqttInv'
    BY HoldPublishKeeps
  <2> QED  BY <2>1 DEF MqttInv, TypeInv, ClientType, Helds
<1> HIDE DEF g
<1>5. Reader' = g /\ Caller' = Caller
  BY <1>1, <1>3, ReaderGoes DEF Reading, RxPcs
<1>6. OnceInv'
  <2> SUFFICES ASSUME ("stale" \notin lapses)'
               PROVE  Once(Queue', held', broker', OutOf(Reader', delivered')) /\ HoldInv'
    BY DEF OnceInv
  <2>1. transport = v.own /\ "stale" \notin lapses
    BY <1>1 DEF Stale
  <2>2. Once(Queue, held, broker, OutOf(Reader, delivered)) /\ HoldInv
    BY <2>1 DEF QosInv, OnceInv
  <2>3. /\ transport \in MaybeTransport /\ rxBuf \in Seq(Packet) /\ held \in Helds
        /\ wire \in [Transports -> Seq(Packet)] /\ Queue \in Seq(Packet)
    BY QosTypes
  <2>4. Queue = QueueOf(v, transport, rxBuf, wire) /\ Queue' = QueueOf(g, transport, rxBuf, wire)
    BY <1>1, <1>2, <1>5 DEF Queue
  <2> HIDE DEF v
  <2>5. Queue # <<>> /\ Head(Queue) = v.p /\ Queue' = Tail(Queue)
    BY <1>2, <1>3, <2>1, <2>3, <2>4, QueueHandled
  <2>6. Once(Queue', held', broker, OutOf(Reader, delivered))
    BY <1>1, <1>4, <2>2, <2>3, <2>5, OnceHeld
  <2>7. \A m \in Msgs : OutOf(Reader', delivered')[m] = OutOf(Reader, delivered)[m]
    <3>1. \A m \in Msgs : OutOf(v, delivered)[m] = delivered[m]
      BY <1>2, NothingOut
    <3>2. \A m \in Msgs : OutOf(g, delivered)[m] = delivered[m]
      BY <1>3, NothingOut
    <3> QED  BY <1>1, <1>2, <1>5, <3>1, <3>2
  <2>8. Once(Queue', held', broker', OutOf(Reader', delivered'))
    BY <1>1, <2>6, <2>7 DEF Once, OutOnce
  <2>9. HoldInv'
    <3>1. transport \in Transports /\ ~Fresh(transport)
      BY <1>2, <2>1, <2>3 DEF QosInv, FreshInv, MaybeTransport
    <3>2. Caller.pc # "send_connect"
      BY <1>2, <2>1, <3>1 DEF QosInv, AskingInv, Fresh
    <3> QED  BY <1>1, <1>2, <1>5, <2>1, <3>2 DEF HoldInv
  <2> QED  BY <2>8, <2>9
<1> QED  BY <1>1, <1>3, <1>5, <1>6, HoldsOn

LEMMA HandlePubrelQos ==
    ASSUME MqttInv, QosInv, HandlePubrel
    PROVE  QosInv'
<1> DEFINE v == Top(Rx)
           i == v.p.id
           g == [Top(Rx) EXCEPT !.pc = "pubcomp", !.m = held[Top(Rx).p.id]]
<1>1. /\ At(Rx, "handle") /\ "handle" \in Reading /\ "handle" \in RxPcs /\ v.p.type = "pubrel"
      /\ held' = [held EXCEPT ![i] = 0]
      /\ lapses' = IF held[i] = 0 THEN lapses ELSE Stale
      /\ Continue(Rx, g)
      /\ UNCHANGED <<transport, rxBuf, link, wire, broker, delivered>>
  BY DEF HandlePubrel, Handling, Reading, RxPcs, linkVars
<1>2. v \in Frame /\ v.pc = "handle" /\ v.p \in Packet /\ Reader = v /\ v.own # 0
  BY <1>1, ReaderAt
<1>3. i \in BrokerIds
  BY <1>1, <1>2 DEF Packet
<1>4. held \in Helds /\ held[i] \in Msgs \cup {0} /\ held' \in Helds
  <2>1. held \in Helds
    BY QosTypes
  <2> QED  BY <1>1, <1>3, <2>1 DEF Helds
<1>5. g \in Frame /\ g.pc = "pubcomp" /\ g.own = v.own /\ g.p \in Packet /\ g.m = held[i]
  BY <1>2, <1>4, FrameZero DEF Frame, RxPcs
<1> HIDE DEF g
<1>6. Reader' = g /\ Caller' = Caller
  BY <1>1, <1>5, ReaderGoes DEF Reading, RxPcs
<1>7. OnceInv'
  <2> SUFFICES ASSUME ("stale" \notin lapses)'
               PROVE  Once(Queue', held', broker', OutOf(Reader', delivered')) /\ HoldInv'
    BY DEF OnceInv
  <2>1. /\ transport = v.own \/ held[i] = 0
        /\ "stale" \notin lapses
    BY <1>1 DEF Stale
  <2>2. Once(Queue, held, broker, OutOf(Reader, delivered)) /\ HoldInv
    BY <2>1 DEF QosInv, OnceInv
  <2>3. /\ transport \in MaybeTransport /\ rxBuf \in Seq(Packet) /\ delivered \in Counts
        /\ wire \in [Transports -> Seq(Packet)] /\ Queue \in Seq(Packet)
    BY QosTypes
  <2>4. Queue = QueueOf(v, transport, rxBuf, wire) /\ Queue' = QueueOf(g, transport, rxBuf, wire)
    BY <1>1, <1>2, <1>6 DEF Queue
  <2> DEFINE o == OutOf(Reader, delivered)
             u == OutOf(Reader', delivered')
  <2>5. \A m \in Msgs : o[m] = delivered[m]
    BY <1>2, NothingOut
  <2>6. \A m \in Msgs : u[m] = delivered[m] + IF m = held[i] THEN 1 ELSE 0
    BY <1>1, <1>5, <1>6 DEF OutOf, Bears
  <2>7. /\ o \in Counts /\ u \in Counts
        /\ TakenOut(o, u, held[i])
    <3>1. o = [m \in Msgs |-> o[m]] /\ u = [m \in Msgs |-> u[m]]
      BY DEF OutOf
    <3>2. \A m \in Msgs : delivered[m] \in Nat
      BY <2>3 DEF Counts
    <3> HIDE DEF o, u, i, v
    <3>3. ASSUME NEW m \in Msgs
          PROVE  o[m] \in Nat /\ u[m] \in Nat /\ u[m] = IF m = held[i] THEN o[m] + 1 ELSE o[m]
      BY <2>5, <2>6, <3>2
    <3> QED  BY <3>1, <3>3 DEF Counts, TakenOut
  <2> HIDE DEF o, u
  <2>8. Once(Queue', held', broker, u)
    <3>1. CASE transport = v.own
      <4>1. Frees(v.p, i)
        BY <1>1 DEF Frees
      <4> HIDE DEF v, i
      <4>2. Queue # <<>> /\ Head(Queue) = v.p /\ Queue' = Tail(Queue)
        BY <1>2, <1>5, <2>3, <2>4, <3>1, QueueHandled
      <4>3. Frees(Head(Queue), i)
        BY <4>1, <4>2
      <4>4. Once(Queue, held, broker, o)
        BY <2>2 DEF o
      <4>5. held' = [held EXCEPT ![i] = 0]
        BY <1>1
      <4>6. Once(Tail(Queue), held', broker, u)
        BY <1>3, <1>4, <2>3, <2>7, <4>2, <4>3, <4>4, <4>5, OnceFreed
      <4> QED  BY <4>2, <4>6
    <3>2. CASE transport # v.own
      <4>1. held[i] = 0 /\ held' = held
        BY <1>1, <1>4, <2>1, <3>2 DEF Helds
      <4>2. \A m \in Msgs : u[m] = o[m]
        BY <2>7, <4>1, BoundsAssumption DEF TakenOut
      <4> HIDE DEF v, i
      <4>3. Queue' = Queue
        BY <1>2, <1>5, <2>3, <2>4, <3>2, QueueHandled
      <4>4. Once(Queue, held, broker, o)
        BY <2>2 DEF o
      <4> QED  BY <4>1, <4>2, <4>3, <4>4 DEF Once, OutOnce
    <3> QED  BY <3>1, <3>2
  <2>9. HoldInv'
    <3>1. \A k \in BrokerIds : held[k] = 0 => held'[k] = 0
      BY <1>1, <1>3, <1>4 DEF Helds
    <3> QED  BY <1>1, <1>6, <2>2, <3>1 DEF HoldInv
  <2> QED  BY <1>1, <2>8, <2>9 DEF u
<1> QED  BY <1>1, <1>5, <1>6, <1>7, HoldsOn

-----------------------------------------------------------------------------
(* From the wire to the buffer, and from the buffer to the hand. *)

LEMMA Joined ==
    ASSUME NEW a \in Seq(Packet), NEW e \in Seq(Packet)
    PROVE  /\ a \o e \in Seq(Packet) /\ Len(a \o e) = Len(a) + Len(e)
           /\ DOMAIN (a \o e) = 1 .. Len(a) + Len(e)
           /\ \A j \in 1 .. Len(a) : (a \o e)[j] = a[j]
           /\ \A j \in 1 .. Len(e) : (a \o e)[Len(a) + j] = e[j]
  OBVIOUS

\* What is between a and e is lost.
LEMMA WithinGap ==
    ASSUME NEW a \in Seq(Packet), NEW c \in Seq(Packet), NEW e \in Seq(Packet)
    PROVE  Within(a \o e, a \o (c \o e))
<1> DEFINE r == a \o e
           x == c \o e
           q == a \o x
<1>1. Len(a) \in Nat /\ Len(c) \in Nat /\ Len(e) \in Nat
  OBVIOUS
<1>2. /\ r \in Seq(Packet) /\ Len(r) = Len(a) + Len(e) /\ DOMAIN r = 1 .. Len(a) + Len(e)
      /\ \A j \in 1 .. Len(a) : r[j] = a[j]
      /\ \A j \in 1 .. Len(e) : r[Len(a) + j] = e[j]
  BY Joined
<1>3. /\ x \in Seq(Packet) /\ Len(x) = Len(c) + Len(e)
      /\ \A j \in 1 .. Len(e) : x[Len(c) + j] = e[j]
  BY Joined
<1> HIDE DEF x
<1>4. /\ q \in Seq(Packet) /\ DOMAIN q = 1 .. Len(a) + Len(x)
      /\ \A j \in 1 .. Len(a) : q[j] = a[j]
      /\ \A j \in 1 .. Len(x) : q[Len(a) + j] = x[j]
  BY <1>3, Joined
<1> DEFINE f == [j \in DOMAIN r |-> IF j <= Len(a) THEN j ELSE j + Len(c)]
<1> HIDE DEF r, q
<1>5. ASSUME NEW j \in DOMAIN r
      PROVE  f[j] \in DOMAIN q /\ r[j] = q[f[j]]
  <2>1. CASE j <= Len(a)
    <3>1. j \in 1 .. Len(a) /\ f[j] = j
      BY <1>1, <1>2, <2>1
    <3>2. j \in 1 .. Len(a) + Len(x)
      BY <1>1, <1>3, <3>1
    <3> QED  BY <1>2, <1>4, <3>1, <3>2
  <2>2. CASE ~(j <= Len(a))
    <3> DEFINE k == j - Len(a)
    <3>1. k \in 1 .. Len(e) /\ j = Len(a) + k /\ f[j] = j + Len(c)
      BY <1>1, <1>2, <2>2
    <3>2. f[j] = Len(a) + (Len(c) + k) /\ Len(c) + k \in 1 .. Len(x) /\ f[j] \in 1 .. Len(a) + Len(x)
      BY <1>1, <1>3, <3>1
    <3> HIDE DEF k, f
    <3>3. q[f[j]] = x[Len(c) + k] /\ r[j] = e[k]
      BY <1>2, <1>4, <3>1, <3>2
    <3>4. x[Len(c) + k] = e[k]
      BY <1>3, <3>1
    <3> QED  BY <1>4, <3>2, <3>3, <3>4
  <2> QED  BY <2>1, <2>2
<1>6. \A j, k \in DOMAIN r : j < k => f[j] < f[k]
  BY <1>1, <1>2
<1>7. f \in [DOMAIN r -> DOMAIN q]
  BY <1>5
<1> HIDE DEF f
<1>8. Within(r, q)
  BY <1>5, <1>6, <1>7 DEF Within
<1> QED  BY <1>8 DEF r, q, x

LEMMA NothingBefore ==
    ASSUME NEW e \in Seq(Packet)
    PROVE  <<>> \o e = e
  BY ConcatEmptySeq

LEMMA WithinEnd ==
    ASSUME NEW c \in Seq(Packet), NEW e \in Seq(Packet)
    PROVE  Within(e, c \o e)
<1>1. <<>> \in Seq(Packet) /\ c \o e \in Seq(Packet)
  OBVIOUS
<1> DEFINE q == c \o e
<1>2. <<>> \o e = e /\ <<>> \o q = q
  BY <1>1, NothingBefore
<1>3. Within(<<>> \o e, <<>> \o q)
  BY <1>1, WithinGap
<1> HIDE DEF q
<1>4. Within(e, q)
  BY <1>2, <1>3
<1> QED  BY <1>4 DEF q

\* Without a packet in hand.
LEMMA QueueUnhanded ==
    ASSUME NEW v, v.p \in Packet, v.pc # "handle", NEW t \in MaybeTransport, NEW b \in Seq(Packet),
           NEW w \in [Transports -> Seq(Packet)]
    PROVE  QueueOf(v, t, b, w) = Buffered(v, t, b) \o Behind(t, w)
<1> DEFINE x == Buffered(v, t, b) \o Behind(t, w)
<1>1. Buffered(v, t, b) \in Seq(Packet) /\ Behind(t, w) \in Seq(Packet)
  BY QueueType
<1>2. x \in Seq(Packet)
  BY <1>1
<1>3. Hand(v, t) = <<>>
  BY DEF Hand
<1>4. QueueOf(v, t, b, w) = <<>> \o x
  BY <1>3, Zenon DEF QueueOf
<1> HIDE DEF x
<1>5. <<>> \o x = x
  BY <1>2, NothingBefore
<1> QED  BY <1>4, <1>5 DEF x

\* The first packet in the buffer is taken.
LEMMA QueueTaken ==
    ASSUME NEW v, v.p \in Packet, v.pc # "handle", NEW b \in Seq(Packet), b # <<>>, ~Stuck(b),
           NEW g, g.own = v.own, g.pc = "handle", g.p = Head(b), NEW t \in MaybeTransport,
           NEW w \in [Transports -> Seq(Packet)]
    PROVE  Within(QueueOf(g, t, Tail(b), w), QueueOf(v, t, b, w))
<1> DEFINE c == Tail(b)
           e == Behind(t, w)
           p == Head(b)
<1>1. p \in Packet /\ c \in Seq(Packet) /\ <<p>> \in Seq(Packet)
  OBVIOUS
<1>2. b = <<p>> \o c
  OBVIOUS
<1>3. e \in Seq(Packet) /\ QueueOf(v, t, b, w) \in Seq(Packet)
  BY QueueType
<1>4. QueueOf(v, t, b, w) = Buffered(v, t, b) \o e
  BY QueueUnhanded
<1>5. QueueOf(g, t, c, w) = Hand(g, t) \o (Buffered(g, t, c) \o e)
  BY Zenon DEF QueueOf
<1>6. g.p = p
  OBVIOUS
<1> HIDE DEF c, e, p
<1>7. CASE t # 0 /\ v.own = t
  <2>1. Buffered(v, t, b) = b /\ Hand(g, t) = <<p>> /\ Buffered(g, t, c) \in {c, <<>>}
    BY <1>6, <1>7 DEF Buffered, Hand
  <2>2. (<<p>> \o c) \o e = <<p>> \o (c \o e)
    BY <1>1, <1>3, PacketsAssociative, Zenon
  <2>3. QueueOf(v, t, b, w) = <<p>> \o (c \o e)
    BY <1>2, <1>4, <2>1, <2>2, Zenon
  <2>4. CASE Buffered(g, t, c) = c
    <3>1. QueueOf(g, t, c, w) = QueueOf(v, t, b, w)
      BY <1>5, <2>1, <2>3, <2>4, Zenon
    <3> QED  BY <1>3, <3>1, WithinItself DEF c
  <2>5. CASE Buffered(g, t, c) = <<>>
    <3>1. <<>> \o e = e
      BY <1>3, NothingBefore
    <3>2. QueueOf(g, t, c, w) = <<p>> \o e
      BY <1>5, <2>1, <2>5, <3>1, Zenon
    <3>3. Within(<<p>> \o e, <<p>> \o (c \o e))
      BY <1>1, <1>3, WithinGap
    <3>4. Within(QueueOf(g, t, c, w), QueueOf(v, t, b, w))
      BY <2>3, <3>2, <3>3, Zenon
    <3> QED  BY <3>4 DEF c
  <2> QED  BY <2>1, <2>4, <2>5
<1>8. CASE ~(t # 0 /\ v.own = t)
  <2>1. Buffered(v, t, b) = <<>> /\ Hand(g, t) = <<>> /\ Buffered(g, t, c) = <<>>
    BY <1>8 DEF Buffered, Hand
  <2>2. <<>> \o e = e
    BY <1>3, NothingBefore
  <2>3. QueueOf(g, t, c, w) = QueueOf(v, t, b, w)
    BY <1>4, <1>5, <2>1, <2>2, Zenon
  <2> QED  BY <1>3, <2>3, WithinItself DEF c
<1> QED  BY <1>7, <1>8

\* With nothing in the buffer that can be handled.
LEMMA QueueBehind ==
    ASSUME NEW v, v.p \in Packet, v.pc # "handle", NEW t \in MaybeTransport, NEW b \in Seq(Packet),
           v.own # t \/ t = 0 \/ b = <<>> \/ Stuck(b), NEW w \in [Transports -> Seq(Packet)]
    PROVE  QueueOf(v, t, b, w) = Behind(t, w)
<1>1. Buffered(v, t, b) = <<>>
  BY DEF Buffered
<1>2. QueueOf(v, t, b, w) = <<>> \o Behind(t, w)
  BY <1>1, QueueUnhanded
<1>3. Behind(t, w) \in Seq(Packet)
  BY QueueType
<1> QED  BY <1>2, <1>3, NothingBefore

\* The wires are z when x has been received from wire u, of w, and y is left.
Received(w, z, u, x, y) ==
    w[u] = x \o y /\ z[u] = y /\ \A k \in Transports \ {u} : z[k] = w[k]

Extended(b, x, c) == c = b \o x

\* The first packets on wire u go to the buffer, which had nothing that can be handled.
LEMMA QueueReceived ==
    ASSUME NEW v, v.p \in Packet, v.pc # "handle", v.own = 0, NEW b \in Seq(Packet),
           b = <<>> \/ Stuck(b), NEW t \in MaybeTransport, NEW w \in [Transports -> Seq(Packet)],
           NEW u \in Transports, NEW x \in Seq(Packet), NEW y \in Seq(Packet),
           NEW z \in [Transports -> Seq(Packet)], Received(w, z, u, x, y),
           NEW g, g.p \in Packet, g.pc # "handle", g.own \in {0, u}, NEW c \in Seq(Packet),
           Extended(b, x, c) \/ g.own = 0
    PROVE  Within(QueueOf(g, t, c, z), QueueOf(v, t, b, w))
<1>1. QueueOf(v, t, b, w) = Behind(t, w) /\ Behind(t, w) \in Seq(Packet) /\ u # 0
  <2>1. v.own # t \/ t = 0
    OBVIOUS
  <2>2. QueueOf(v, t, b, w) = Behind(t, w)
    BY <2>1, QueueBehind
  <2>3. Behind(t, w) \in Seq(Packet)
    BY QueueType
  <2> QED  BY <2>2, <2>3, NotZero
<1>2. CASE t # u
  <2>1. QueueOf(g, t, c, z) = Behind(t, z)
    BY <1>2, QueueBehind
  <2>2. Behind(t, z) = Behind(t, w)
    BY <1>2 DEF Behind, MaybeTransport, Received
  <2> QED  BY <1>1, <2>1, <2>2, WithinItself
<1>3. CASE t = u
  <2>1. Behind(t, w) = x \o y /\ Behind(t, z) = y
    BY <1>1, <1>3 DEF Behind, Received
  <2>2. CASE g.own # t \/ c = <<>> \/ Stuck(c)
    <3>1. QueueOf(g, t, c, z) = y
      BY <2>1, <2>2, QueueBehind
    <3>2. Within(y, x \o y)
      BY WithinEnd
    <3> QED  BY <1>1, <2>1, <3>1, <3>2, Zenon
  <2>3. CASE g.own = t /\ c # <<>> /\ ~Stuck(c)
    <3>1. c = b \o x
      BY <1>1, <1>3, <2>3 DEF Extended
    <3>2. b = <<>>
      <4> SUFFICES ASSUME Stuck(b), b # <<>> PROVE FALSE
        OBVIOUS
      <4>1. b \o x # <<>> /\ Head(b \o x) = Head(b)
        OBVIOUS
      <4>2. Stuck(b \o x)
        BY <4>1 DEF Stuck
      <4> QED  BY <2>3, <3>1, <4>2
    <3>3. c = x
      <4>1. <<>> \o x = x
        BY NothingBefore
      <4> QED  BY <3>1, <3>2, <4>1, Zenon
    <3>4. Buffered(g, t, c) = x
      BY <1>1, <1>3, <2>3, <3>3 DEF Buffered
    <3>5. QueueOf(g, t, c, z) = x \o y
      <4>1. QueueOf(g, t, c, z) = Buffered(g, t, c) \o Behind(t, z)
        BY QueueUnhanded
      <4> QED  BY <2>1, <3>4, <4>1, Zenon
    <3>6. x \o y \in Seq(Packet)
      OBVIOUS
    <3>7. Within(x \o y, x \o y)
      BY <3>6, WithinItself
    <3> QED  BY <1>1, <2>1, <3>5, <3>7, Zenon
  <2> QED  BY <2>2, <2>3
<1> QED  BY <1>2, <1>3

\* A step of the receive thread that handles no packet.
LEMMA FetchQos ==
    ASSUME MqttInv, QosInv, UNCHANGED <<transport, held, broker, delivered, link, lapses>>,
           Caller' = Caller, wire' \in [Transports -> Seq(Packet)], rxBuf' \in Seq(Packet),
           Reader'.p \in Packet,
           Within(QueueOf(Reader', transport, rxBuf', wire'), QueueOf(Reader, transport, rxBuf, wire)),
           \A v \in {Reader, Reader'} : v.pc \notin {"pubcomp", "deliver"},
           \A t \in Transports : Fresh(t) => wire'[t] = <<>> /\ Reader'.own # t,
           BufferInv'
    PROVE  QosInv'
<1> DEFINE q == QueueOf(Reader', transport, rxBuf', wire')
<1>1. transport \in MaybeTransport /\ Queue \in Seq(Packet)
  BY QosTypes
<1>2. q \in Seq(Packet)
  BY <1>1, QueueType
<1>3. Queue' = q /\ Queue = QueueOf(Reader, transport, rxBuf, wire)
  BY DEF Queue
<1> HIDE DEF q
<1>4. Within(q, Queue)
  BY <1>3 DEF q
<1>5. Once(Queue, held, broker, OutOf(Reader, delivered))
          => Once(Queue', held, broker', OutOf(Reader, delivered))
  BY <1>1, <1>2, <1>3, <1>4, OnceShorter
<1>6. \A m \in Msgs : OutOf(Reader', delivered')[m] = OutOf(Reader, delivered)[m]
  <2>1. \A m \in Msgs : OutOf(Reader, delivered)[m] = delivered[m]
    BY NothingOut
  <2>2. \A m \in Msgs : OutOf(Reader', delivered)[m] = delivered[m]
    BY NothingOut
  <2> QED  BY <2>1, <2>2
<1>7. OnceInv'
  BY <1>5, <1>6, OnceKeeps DEF QosInv
<1>8. \A t \in Transports : Fresh(t) => wire'[t] = <<>> /\ broker'.on # t /\ Reader'.own # t
  BY DEF QosInv, FreshInv
<1>9. UniqueIds(broker')
  BY DEF QosInv
<1> QED  BY <1>7, <1>8, <1>9, NoneSame, QosKeeps

LEMMA OverflowQos ==
    ASSUME MqttInv, QosInv, Overflow
    PROVE  QosInv'
<1> DEFINE g == TeardownFrame(Top(Rx).own, FALSE)
<1>1. /\ At(Rx, "overflow") /\ "overflow" \in RxPcs /\ Callback(Rx, <<g>>)
      /\ UNCHANGED <<transport, rxBuf, held, wire, broker, delivered, link, lapses>>
  BY DEF Overflow, RxPcs, clientVars, linkVars, history
<1>2. g \in Frame /\ g.pc = "give_up"
  BY <1>1, InHand, TeardownIsFrame DEF MqttInv, TypeInv
<1> HIDE DEF g
<1>3. Reader = Frame0
  BY <1>1, BottomAt, ViewSets, ActorFacts DEF Reader, MqttInv, TypeInv
<1>4. Caller' = Caller /\ Reader' = Frame0
  BY <1>1, <1>2, ReaderGoes DEF Reading, RxPcs
<1> QED  BY <1>1, <1>3, <1>4, NoneSame, QosStays

LEMMA TakePacketQos ==
    ASSUME MqttInv, QosInv, TakePacket
    PROVE  QosInv'
<1> DEFINE v == Top(Rx)
<1>1. /\ At(Rx, "take") /\ "take" \in Reading /\ "take" \in RxPcs
      /\ UNCHANGED <<transport, held, wire, broker, delivered, link, lapses>>
  BY DEF TakePacket, Reading, RxPcs, linkVars, history
<1>2. v \in Frame /\ v.pc = "take" /\ v.p \in Packet /\ Reader = v /\ v.own # 0
  BY <1>1, ReaderAt
<1>3. /\ transport \in MaybeTransport /\ rxBuf \in Seq(Packet)
      /\ wire \in [Transports -> Seq(Packet)]
  BY QosTypes
<1>4. \A t \in Transports : Fresh(t) => wire'[t] = <<>> /\ v.own # t
  BY <1>1, <1>2 DEF QosInv, FreshInv
<1>z. /\ Frame0.p \in Packet /\ Frame0.pc = "none" /\ Frame0.own = 0 /\ 0 \notin Transports
  BY FrameZero, FrameNone
<1>5. CASE (rxBuf = <<>> \/ Stuck(rxBuf)) /\ Return(Rx) /\ UNCHANGED rxBuf
  <2>1. Reader' = Frame0 /\ Caller' = Caller
    <3>1. /\ \A y \in Actors \ {Rx} : stack'[y] = stack[y]
          /\ \A S : View(stack'[Rx], S) = Frame0
      BY <1>1, <1>5, BottomReturns, ViewSets, ActorFacts
    <3> QED  BY <3>1, ActorFacts DEF Reader, Caller
  <2>2. QueueOf(v, transport, rxBuf, wire) = Behind(transport, wire)
    BY <1>2, <1>3, <1>5, QueueBehind
  <2>3. QueueOf(Frame0, transport, rxBuf, wire) = Behind(transport, wire)
    BY <1>3, <1>5, <1>z, QueueBehind
  <2>4. Within(QueueOf(Frame0, transport, rxBuf, wire), QueueOf(v, transport, rxBuf, wire))
    <3>1. Behind(transport, wire) \in Seq(Packet)
      BY <1>2, <1>3, QueueType
    <3> QED  BY <2>2, <2>3, <3>1, WithinItself
  <2>5. BufferInv'
    BY <1>5 DEF BufferInv, Stuck
  <2> HIDE DEF v
  <2>6. \A t \in Transports : Fresh(t) => wire'[t] = <<>> /\ Reader'.own # t
    BY <1>4, <1>z, <2>1
  <2>7. Within(QueueOf(Reader', transport, rxBuf', wire'), QueueOf(Reader, transport, rxBuf, wire))
    BY <1>1, <1>2, <1>5, <2>1, <2>4
  <2>8. \A f \in {Reader, Reader'} : f.pc \notin {"pubcomp", "deliver"}
    BY <1>2, <1>z, <2>1
  <2>9. wire' \in [Transports -> Seq(Packet)] /\ rxBuf' \in Seq(Packet) /\ Reader'.p \in Packet
    BY <1>1, <1>3, <1>5, <1>z, <2>1
  <2> QED  BY <1>1, <2>1, <2>5, <2>6, <2>7, <2>8, <2>9, FetchQos
<1>6. CASE /\ rxBuf # <<>> /\ ~Stuck(rxBuf) /\ rxBuf' = Tail(rxBuf)
           /\ Continue(Rx, [Top(Rx) EXCEPT !.pc = "handle", !.p = Head(rxBuf)])
  <2> DEFINE g == [Top(Rx) EXCEPT !.pc = "handle", !.p = Head(rxBuf)]
             c == Tail(rxBuf)
  <2>1. Head(rxBuf) \in Packet /\ c \in Seq(Packet)
    BY <1>3, <1>6
  <2>2. /\ g \in Frame /\ g.pc = "handle" /\ g.own = v.own /\ g.p = Head(rxBuf)
        /\ Continue(Rx, g)
    BY <1>2, <1>6, <2>1 DEF Frame, RxPcs
  <2> HIDE DEF g
  <2>3. Reader' = g /\ Caller' = Caller
    BY <1>1, <2>2, ReaderGoes DEF Reading, RxPcs
  <2> HIDE DEF v
  <2>4. Within(QueueOf(g, transport, c, wire), QueueOf(v, transport, rxBuf, wire))
    BY <1>2, <1>3, <1>6, <2>2, QueueTaken
  <2>5. BufferInv'
    BY <1>2, <2>2, <2>3 DEF BufferInv
  <2>r. rxBuf' = c
    BY <1>6
  <2> HIDE DEF c
  <2>6. \A t \in Transports : Fresh(t) => wire'[t] = <<>> /\ Reader'.own # t
    BY <1>4, <2>2, <2>3
  <2>7. Within(QueueOf(Reader', transport, rxBuf', wire'), QueueOf(Reader, transport, rxBuf, wire))
    BY <1>1, <1>2, <2>r, <2>3, <2>4
  <2>8. \A f \in {Reader, Reader'} : f.pc \notin {"pubcomp", "deliver"}
    BY <1>2, <2>2, <2>3
  <2>9. wire' \in [Transports -> Seq(Packet)] /\ rxBuf' \in Seq(Packet) /\ Reader'.p \in Packet
    BY <1>1, <1>3, <2>r, <2>1, <2>2, <2>3
  <2> QED  BY <1>1, <2>3, <2>5, <2>6, <2>7, <2>8, <2>9, FetchQos
<1> QED  BY <1>5, <1>6 DEF TakePacket, Stuck

LEMMA OnTransportDataQos ==
    ASSUME MqttInv, QosInv, NEW t \in Transports, NEW n \in 1 .. Len(wire[t]), OnTransportData(t, n)
    PROVE  QosInv'
<1> DEFINE x == SubSeq(wire[t], 1, n)
           y == SubSeq(wire[t], n + 1, Len(wire[t]))
           f == [Frame0 EXCEPT !.own = t]
<1>1. /\ stack[Rx] = <<>> /\ wire' = [wire EXCEPT ![t] = y]
      /\ UNCHANGED <<transport, held, broker, delivered, link, lapses>>
      /\ \/ rxBuf' = <<>> /\ SetStack(Rx, <<[f EXCEPT !.pc = "overflow"]>>)
         \/ rxBuf' = rxBuf \o x /\ SetStack(Rx, <<[f EXCEPT !.pc = "take"]>>)
  BY DEF OnTransportData, Idle, history
<1>2. /\ transport \in MaybeTransport /\ rxBuf \in Seq(Packet)
      /\ wire \in [Transports -> Seq(Packet)] /\ wire[t] \in Seq(Packet)
  BY QosTypes
<1>3. x \in Seq(Packet) /\ y \in Seq(Packet) /\ wire[t] = x \o y
  <2> DEFINE s == wire[t]
  <2>1. Len(s) \in Nat /\ n \in 1 .. Len(s) /\ s \in Seq(Packet)
    BY <1>2
  <2> HIDE DEF s
  <2>2. 1 \in 1 .. Len(s) + 1 /\ n \in 1 - 1 .. Len(s) /\ Len(s) \in n .. Len(s)
    BY <2>1
  <2>3. SubSeq(s, 1, n) \o SubSeq(s, n + 1, Len(s)) = SubSeq(s, 1, Len(s))
    BY <2>1, <2>2, ConcatAdjacentSubSeq
  <2>4. SubSeq(s, 1, Len(s)) = s
    BY <2>1, SubSeqFull
  <2>5. SubSeq(s, 1, n) \in Seq(Packet) /\ SubSeq(s, n + 1, Len(s)) \in Seq(Packet)
    BY <2>1
  <2> QED  BY <2>3, <2>4, <2>5, Zenon DEF s
<1>4. wire[t] # <<>>
  <2>1. CASE wire[t] = <<>>
    <3>1. Len(wire[t]) = 0
      BY <2>1
    <3> QED  BY <3>1
  <2> QED  BY <2>1
<1> HIDE DEF x, y
<1>5. wire' \in [Transports -> Seq(Packet)] /\ Received(wire, wire', t, x, y)
  BY <1>1, <1>2, <1>3 DEF Received
<1>6. Reader = Frame0
  BY <1>1, ViewEmpty DEF Reader
<1>z. /\ Frame0.p \in Packet /\ Frame0.pc = "none" /\ Frame0.own = 0 /\ 0 \notin Transports
  BY FrameZero, FrameNone
<1>7. rxBuf = <<>> \/ Stuck(rxBuf)
  BY <1>6, <1>z DEF QosInv, BufferInv
<1>8. ~Fresh(t)
  BY <1>4 DEF QosInv, FreshInv
<1>9. ASSUME NEW l \in {"overflow", "take"}, SetStack(Rx, <<[f EXCEPT !.pc = l]>>)
      PROVE  /\ Caller' = Caller /\ Reader'.p \in Packet
             /\ IF l = "take" THEN Reader'.pc = "take" /\ Reader'.own = t ELSE Reader' = Frame0
  <2> DEFINE g == [f EXCEPT !.pc = l]
  <2>1. g \in Frame /\ g.pc = l /\ g.own = t /\ g.p \in Packet
    BY FrameZero DEF Frame, Frame0, RxPcs, MaybeTransport
  <2>2. SetStack(Rx, <<g>>)
    BY <1>9
  <2> HIDE DEF g
  <2>3. stack'[Rx] = <<g>> /\ stack'[App] = stack[App]
    BY <2>2, StackIs, ActorFacts DEF MqttInv, TypeInv
  <2>4. Reader' = IF g.pc \in Reading THEN g ELSE Frame0
    BY <2>1, <2>3, ViewSingle DEF Reader
  <2>5. Caller' = Caller
    BY <2>3 DEF Caller
  <2> QED  BY <1>z, <2>1, <2>4, <2>5 DEF Reading, RxPcs
<1>10. /\ Caller' = Caller /\ Reader'.p \in Packet
       /\ \/ rxBuf' = <<>> /\ Reader' = Frame0
          \/ rxBuf' = rxBuf \o x /\ Reader'.pc = "take" /\ Reader'.own = t
  BY <1>1, <1>9
<1> HIDE DEF f
<1>11. rxBuf' \in Seq(Packet) /\ (Extended(rxBuf, x, rxBuf') \/ Reader'.own = 0)
  <2>1. <<>> \in Seq(Packet) /\ rxBuf \o x \in Seq(Packet)
    BY <1>2, <1>3
  <2> QED  BY <1>10, <1>z, <2>1 DEF Extended
<1>12. Reader'.pc # "handle" /\ Reader'.own \in {0, t} /\ Reader'.pc \notin {"pubcomp", "deliver"}
  BY <1>10, <1>z
<1>13. Within(QueueOf(Reader', transport, rxBuf', wire'), QueueOf(Reader, transport, rxBuf, wire))
  <2> DEFINE v == Reader
             g == Reader'
             c == rxBuf'
             w == wire'
  <2>1. v.p \in Packet /\ v.pc # "handle" /\ v.own = 0
    BY <1>6, <1>z
  <2>2. /\ g.p \in Packet /\ g.pc # "handle" /\ g.own \in {0, t} /\ c \in Seq(Packet)
        /\ Extended(rxBuf, x, c) \/ g.own = 0
    BY <1>10, <1>11, <1>12
  <2>3. w \in [Transports -> Seq(Packet)] /\ Received(wire, w, t, x, y)
    BY <1>5
  <2> HIDE DEF v, g, c, w
  <2>4. Within(QueueOf(g, transport, c, w), QueueOf(v, transport, rxBuf, wire))
    BY <1>2, <1>3, <1>7, <2>1, <2>2, <2>3, QueueReceived
  <2> QED  BY <2>4 DEF v, g, c, w
<1>14. BufferInv'
  BY <1>10, <1>z DEF BufferInv
<1>15. \A u \in Transports : Fresh(u) => wire'[u] = <<>> /\ Reader'.own # u
  BY <1>1, <1>2, <1>8, <1>12, <1>z DEF QosInv, FreshInv
<1>16. \A v \in {Reader, Reader'} : v.pc \notin {"pubcomp", "deliver"}
  BY <1>6, <1>12, <1>z
<1> QED  BY <1>1, <1>5, <1>10, <1>11, <1>13, <1>14, <1>15, <1>16, FetchQos

-----------------------------------------------------------------------------
(* The broker and the link go their own way. *)

LEMMA SameStacks ==
    ASSUME UNCHANGED stack
    PROVE  SameViews
  BY DEF SameViews, Reader, Caller

\* The broker sends packet a over its live transport.
LEMMA BrokerQos ==
    ASSUME MqttInv, QosInv, broker.on \in Transports, NEW a \in Packet, Answer(broker.on, a),
           broker'.on = broker.on, UniqueIds(broker'),
           UNCHANGED <<stack, transport, rxBuf, held, link, delivered, lapses>>,
           \A o : Once(Queue, held, broker, o) => Once(Append(Queue, a), held, broker', o)
    PROVE  QosInv'
<1> DEFINE t == broker.on
<1>1. SameViews
  BY SameStacks
<1>2. Reader.p \in Packet /\ Queue = QueueOf(Reader, transport, rxBuf, wire)
  BY QosTypes DEF Queue
<1>3. Queue' = QueueOf(Reader, transport, rxBuf, wire')
  BY <1>1 DEF Queue, SameViews
<1>4. \A u \in Transports : u # t => wire'[u] = wire[u]
  BY <1>2, AnswerQueue
<1>5. ASSUME NEW o, Once(Queue, held, broker, o)
      PROVE  Once(Queue', held, broker', o)
  <2>1. Once(Append(QueueOf(Reader, transport, rxBuf, wire), a), held, broker', o)
    BY <1>2, <1>5
  <2>2. Once(QueueOf(Reader, transport, rxBuf, wire'), held, broker', o)
    BY <1>2, <2>1, AnswerOnce
  <2> QED  BY <1>3, <2>2
<1>6. OnceInv'
  <2>1. OutOf(Reader', delivered') = OutOf(Reader, delivered)
    BY <1>1 DEF SameViews
  <2> QED  BY <1>1, <1>5, <2>1, OnceKeeps DEF QosInv, SameViews
<1>7. \A u \in Transports : Fresh(u) => wire'[u] = <<>> /\ broker'.on # u /\ Reader'.own # u
  BY <1>1, <1>4 DEF QosInv, FreshInv, SameViews
<1>8. BufferInv'
  BY <1>1 DEF QosInv, BufferInv, SameViews
<1> QED  BY <1>1, <1>6, <1>7, <1>8, NoneSame, QosKeeps DEF SameViews

LEMMA BrokerPublishesQos ==
    ASSUME MqttInv, QosInv, NEW m \in Msgs, BrokerPublishes(m)
    PROVE  QosInv'
<1>1. PICK id \in BrokerIds :
          /\ IF broker.st[m] = "new" THEN \A k \in Msgs : broker.id[k] # id ELSE id = broker.id[m]
          /\ broker' = [broker EXCEPT !.st[m] = "sent", !.id[m] = id]
          /\ Answer(broker.on, Pkt("publish", id, m, 2))
  BY DEF BrokerPublishes
<1>2. /\ broker.on \in Transports /\ broker.st[m] \in {"new", "resend"}
      /\ UNCHANGED <<stack, transport, rxBuf, held, link, delivered, lapses>>
  BY DEF BrokerPublishes, BrokerUp, MqttInv, TypeInv, LinkType, MaybeTransport, clientVars, history
<1> DEFINE a == Pkt("publish", id, m, 2)
<1>3. a \in Packet /\ a.type = "publish" /\ a.id = id /\ a.m = m /\ Answer(broker.on, a)
  <2>1. a \in Packet
    BY PktFacts DEF PacketTypes, Ids
  <2> QED  BY <1>1, <2>1 DEF Pkt
<1> HIDE DEF a
<1>4. broker \in Brokers /\ Queue \in Seq(Packet) /\ UniqueIds(broker)
  BY QosTypes DEF QosInv
<1>5. broker' \in Brokers /\ broker'.on = broker.on
  BY <1>1, <1>4 DEF Brokers, BrokerStates
<1>6. ASSUME NEW o, Once(Queue, held, broker, o)
      PROVE  Once(Append(Queue, a), held, broker', o)
  BY <1>1, <1>2, <1>3, <1>4, <1>5, <1>6, OncePublished
<1>7. UniqueIds(broker')
  BY <1>1, <1>2, <1>4 DEF UniqueIds, Unfinished, Brokers
<1> QED  BY <1>2, <1>3, <1>5, <1>6, <1>7, BrokerQos

LEMMA BrokerReleasesAgainQos ==
    ASSUME MqttInv, QosInv, NEW m \in Msgs, BrokerReleasesAgain(m)
    PROVE  QosInv'
<1>1. /\ broker.on \in Transports /\ broker.st[m] = "rerelease"
      /\ broker' = [broker EXCEPT !.st[m] = "released"]
      /\ Answer(broker.on, Pkt("pubrel", broker.id[m], m, 0))
      /\ UNCHANGED <<stack, transport, rxBuf, held, link, delivered, lapses>>
  BY DEF BrokerReleasesAgain, BrokerUp, MqttInv, TypeInv, LinkType, MaybeTransport, clientVars,
     history
<1> DEFINE a == Pkt("pubrel", broker.id[m], m, 0)
<1>2. a \in Packet /\ a.type = "pubrel" /\ a.id = broker.id[m] /\ Answer(broker.on, a)
  <2>1. a \in Packet
    BY <1>1, PktFacts DEF PacketTypes, Ids, MqttInv, TypeInv, LinkType
  <2> QED  BY <1>1, <2>1 DEF Pkt
<1> HIDE DEF a
<1>3. broker \in Brokers /\ Queue \in Seq(Packet) /\ UniqueIds(broker)
  BY QosTypes DEF QosInv
<1>4. broker' \in Brokers /\ broker'.on = broker.on
  BY <1>1, <1>3 DEF Brokers, BrokerStates
<1>5. ASSUME NEW o, Once(Queue, held, broker, o)
      PROVE  Once(Append(Queue, a), held, broker', o)
  BY <1>1, <1>2, <1>3, <1>4, <1>5, OnceReleased
<1>6. UniqueIds(broker')
  BY <1>1, <1>3 DEF UniqueIds, Unfinished, Brokers
<1> QED  BY <1>1, <1>2, <1>4, <1>5, <1>6, BrokerQos

LEMMA BrokerSendsQos ==
    ASSUME MqttInv, QosInv, NEW p \in StrayPackets, BrokerSends(p)
    PROVE  QosInv'
<1>1. /\ broker.on \in Transports /\ Answer(broker.on, p)
      /\ UNCHANGED <<stack, transport, rxBuf, held, link, broker, delivered, lapses>>
  BY DEF BrokerSends, BrokerUp, MqttInv, TypeInv, LinkType, MaybeTransport, clientVars, history
<1>2. p \in Packet /\ p.type # "pubrel" /\ p.m = 0
  BY BoundsAssumption DEF StrayPackets, Pkt, Packet, PacketTypes, Ids
<1>3. \A m \in Msgs : ~Carries(p, m)
  BY <1>2, BoundsAssumption DEF Carries
<1>4. Queue \in Seq(Packet) /\ UniqueIds(broker')
  BY <1>1, QosTypes DEF QosInv
<1>5. ASSUME NEW o, Once(Queue, held, broker, o)
      PROVE  Once(Append(Queue, p), held, broker', o)
  BY <1>1, <1>2, <1>3, <1>4, <1>5, OnceHarmless
<1> QED  BY <1>1, <1>2, <1>4, <1>5, BrokerQos

\* What is said of the queue does not depend on the broker's live transport.
LEMMA OnceElsewhere ==
    ASSUME NEW q, NEW h, NEW b, NEW o, Once(q, h, b, o), NEW c, c.st = b.st, c.id = b.id
    PROVE  Once(q, h, c, o)
<1>1. \A m, i : (Settled(b, m) <=> Settled(c, m)) /\ (Awaited(b, m, i) <=> Awaited(c, m, i))
  BY DEF Settled, Awaited
<1>2. QueuedOnce(q, c)
  BY <1>1 DEF Once, QueuedOnce
<1>3. HeldOnce(q, h, c)
  BY <1>1 DEF Once, HeldOnce
<1>4. OutOnce(q, h, c, o)
  BY <1>1 DEF Once, OutOnce
<1> QED  BY <1>2, <1>3, <1>4 DEF Once

\* What is on the wire of transport t is lost.
LEMMA CutQos ==
    ASSUME MqttInv, QosInv, NEW t \in Transports, wire' = [wire EXCEPT ![t] = <<>>],
           broker' = broker \/ broker' = [broker EXCEPT !.on = IF broker.on = t THEN 0 ELSE broker.on],
           SameViews, NoneLater, UNCHANGED <<transport, rxBuf, held, delivered, lapses>>
    PROVE  QosInv'
<1>1. /\ transport \in MaybeTransport /\ rxBuf \in Seq(Packet) /\ Reader.p \in Packet
      /\ wire \in [Transports -> Seq(Packet)] /\ Queue \in Seq(Packet) /\ broker \in Brokers
  BY QosTypes
<1>2. broker'.st = broker.st /\ broker'.id = broker.id /\ broker'.on \in {broker.on, 0}
  BY <1>1 DEF Brokers
<1>3. /\ wire' \in [Transports -> Seq(Packet)] /\ wire'[t] = <<>>
      /\ \A u \in Transports : u # t => wire'[u] = wire[u]
  <2>1. <<>> \in Seq(Packet)
    OBVIOUS
  <2> QED  BY <1>1, <2>1
<1>4. /\ Queue' = QueueOf(Reader, transport, rxBuf, wire')
      /\ Queue = QueueOf(Reader, transport, rxBuf, wire)
  BY DEF Queue, SameViews
<1>5. Queue' \in Seq(Packet)
  BY <1>1, <1>3, <1>4, QueueType
<1>6. Within(Queue', Queue)
  <2>1. CASE transport = t
    BY <1>1, <1>3, <1>4, <2>1, QueueCut
  <2>2. CASE transport # t
    <3>1. Behind(transport, wire') = Behind(transport, wire)
      BY <1>1, <1>3, <2>2 DEF Behind, MaybeTransport
    <3>2. Queue' = Queue
      BY <1>4, <3>1, Zenon DEF QueueOf
    <3> QED  BY <1>1, <3>2, WithinItself
  <2> QED  BY <2>1, <2>2
<1>7. ASSUME NEW o, Once(Queue, held, broker, o)
      PROVE  Once(Queue', held, broker', o)
  <2>1. Once(Queue', held, broker, o)
    BY <1>1, <1>5, <1>6, <1>7, OnceShorter
  <2> QED  BY <1>2, <2>1, OnceElsewhere
<1>8. OnceInv'
  <2>1. OutOf(Reader', delivered') = OutOf(Reader, delivered)
    BY DEF SameViews
  <2> QED  BY <1>7, <2>1, OnceKeeps DEF QosInv, SameViews
<1>9. \A u \in Transports : Fresh(u) => wire'[u] = <<>> /\ broker'.on # u /\ Reader'.own # u
  BY <1>2, <1>3, NotZero DEF QosInv, FreshInv, SameViews
<1>10. UniqueIds(broker')
  BY <1>2 DEF QosInv, UniqueIds
<1>11. BufferInv'
  BY DEF QosInv, BufferInv, SameViews
<1> QED  BY <1>8, <1>9, <1>10, <1>11, QosKeeps DEF SameViews

LEMMA LinkGoesSilentQos ==
    ASSUME MqttInv, QosInv, NEW t \in Transports, LinkGoesSilent(t)
    PROVE  QosInv'
<1>1. /\ link' = [link EXCEPT ![t] = "silent"] /\ wire' = [wire EXCEPT ![t] = <<>>]
      /\ broker' = broker /\ UNCHANGED <<stack, transport, rxBuf, held, delivered, lapses>>
  BY DEF LinkGoesSilent, clientVars, history
<1>2. NoneLater
  BY <1>1 DEF NoneLater, MqttInv, TypeInv, LinkType
<1> QED  BY <1>1, <1>2, SameStacks, CutQos

LEMMA CloseQos ==
    ASSUME MqttInv, QosInv, NEW t \in Transports, CloseLink(t), SameViews,
           UNCHANGED <<transport, rxBuf, held, delivered, lapses>>
    PROVE  QosInv'
<1>1. /\ link' = [link EXCEPT ![t] = "closed"] /\ wire' = [wire EXCEPT ![t] = <<>>]
      /\ broker' = [broker EXCEPT !.on = IF broker.on = t THEN 0 ELSE broker.on]
  BY DEF CloseLink
<1>2. NoneLater
  BY <1>1 DEF NoneLater, MqttInv, TypeInv, LinkType
<1> QED  BY <1>1, <1>2, CutQos

LEMMA OnTransportClosedQos ==
    ASSUME MqttInv, QosInv, NEW t \in Transports, OnTransportClosed(t)
    PROVE  QosInv'
<1> DEFINE g == TeardownFrame(t, FALSE)
<1>1. /\ stack[Rx] = <<>> /\ CloseLink(t) /\ SetStack(Rx, <<g>>)
      /\ UNCHANGED <<transport, rxBuf, held, delivered, lapses>>
  BY DEF OnTransportClosed, Idle, clientVars, history
<1>2. g \in Frame /\ g.pc = "give_up"
  BY TeardownIsFrame DEF MaybeTransport
<1> HIDE DEF g
<1>3. stack'[Rx] = <<g>> /\ stack'[App] = stack[App]
  BY <1>1, StackIs, ActorFacts DEF MqttInv, TypeInv
<1>4. View(<<g>>, Reading) = Frame0 /\ View(<<>>, Reading) = Frame0
  BY <1>2, ViewSingle, ViewEmpty DEF Reading, RxPcs
<1>5. SameViews
  BY <1>1, <1>3, <1>4 DEF SameViews, Reader, Caller
<1> QED  BY <1>1, <1>5, CloseQos

-----------------------------------------------------------------------------
(* A session ends. *)

LEMMA DropQos ==
    ASSUME MqttInv, QosInv, NEW x \in Actors, Drop(x)
    PROVE  QosInv'
<1>1. SameViews
  BY CallsViews DEF Calls, Teardown
<1>2. UNCHANGED <<transport, rxBuf, held, delivered, lapses>>
  BY DEF Drop, clientVars, history
<1>3. Top(x).t \in Transports
  <2>1. stack[x] # <<>> /\ Top(x).pc = "drop"
    BY DEF Drop, At
  <2>2. Top(x) \in FramesOf(x, link)
    BY <2>1, OnTop DEF MqttInv, TypeInv
  <2> QED  BY <2>1, <2>2 DEF FramesOf
<1>4. CloseLink(Top(x).t) \/ UNCHANGED linkVars
  <2> DEFINE f == [Top(x) EXCEPT !.pc = "tell"]
  <2>1. f.t = Top(x).t
    <3>1. Top(x) \in Frame
      BY OnTop DEF Drop, At, MqttInv, TypeInv
    <3> QED  BY <3>1 DEF Frame
  <2>2. CloseLink(f.t) \/ UNCHANGED linkVars
    BY DEF Drop
  <2> HIDE DEF f
  <2> QED  BY <2>1, <2>2
<1>5. CASE CloseLink(Top(x).t)
  BY <1>1, <1>2, <1>3, <1>5, CloseQos
<1>6. CASE UNCHANGED linkVars
  <2>1. UNCHANGED <<wire, broker, link>>
    BY <1>6 DEF linkVars
  <2> QED  BY <1>1, <1>2, <2>1, NoneSame, QosStays DEF SameViews
<1> QED  BY <1>4, <1>5, <1>6

LEMMA GiveUpQos ==
    ASSUME MqttInv, QosInv, NEW x \in Actors, GiveUp(x)
    PROVE  QosInv'
<1>1. SameViews
  BY CallsViews DEF Calls, Teardown
<1>2. /\ transport' = 0 /\ rxBuf' = <<>> /\ held' = [i \in BrokerIds |-> 0]
      /\ lapses \subseteq lapses' /\ UNCHANGED <<wire, broker, delivered, link>>
  BY DEF GiveUp, linkVars
<1>3. Queue' = <<>>
  <2>1. \A v, b, w : QueueOf(v, 0, b, w) = <<>>
    <3>1. 0 \in MaybeTransport
      BY DEF MaybeTransport
    <3> QED  BY <3>1, QueueNone
  <2> QED  BY <1>2, <2>1 DEF Queue
<1>4. OnceInv'
  <2> SUFFICES ASSUME ("stale" \notin lapses)'
               PROVE  Once(Queue', held', broker', OutOf(Reader', delivered')) /\ HoldInv'
    BY DEF OnceInv
  <2>1. Once(Queue, held, broker, OutOf(Reader, delivered))
    BY <1>2 DEF QosInv, OnceInv
  <2>2. \A i \in BrokerIds : held'[i] = 0
    BY <1>2
  <2>3. Once(<<>>, held', broker, OutOf(Reader, delivered))
    BY <2>1, <2>2, OnceBegins
  <2>4. Once(Queue', held', broker', OutOf(Reader', delivered'))
    BY <1>1, <1>2, <1>3, <2>3 DEF SameViews
  <2> QED  BY <2>2, <2>4 DEF HoldInv
<1>5. BufferInv'
  BY <1>2 DEF BufferInv
<1>6. \A t \in Transports : Fresh(t) => wire'[t] = <<>> /\ broker'.on # t /\ Reader'.own # t
  BY <1>1, <1>2 DEF QosInv, FreshInv, SameViews
<1>7. UniqueIds(broker') /\ NoneLater
  BY <1>2, NoneSame DEF QosInv
<1> QED  BY <1>1, <1>2, <1>4, <1>5, <1>6, <1>7, QosKeeps DEF SameViews

-----------------------------------------------------------------------------
(* The application. *)

\* A step that does no more than send, and may end the application's call.
LEMMA SendsQos ==
    ASSUME MqttInv, QosInv, SendsOne, UNCHANGED <<transport, rxBuf, held, link, delivered, lapses>>,
           Reader' = Reader, Caller' \in {Caller, Frame0}
    PROVE  QosInv'
<1>1. Reader.p \in Packet
  BY QosTypes
<1>2. /\ UniqueIds(broker')
      /\ \A t \in Transports : Fresh(t) => wire'[t] = <<>> /\ broker'.on # t
      /\ \A h, o : Once(QueueOf(Reader, transport, rxBuf, wire), h, broker, o)
                       => Once(QueueOf(Reader, transport, rxBuf, wire'), h, broker', o)
  BY <1>1, SendsOnce
<1>3. /\ Queue = QueueOf(Reader, transport, rxBuf, wire)
      /\ Queue' = QueueOf(Reader, transport, rxBuf, wire')
  BY DEF Queue
<1>4. OnceInv'
  BY <1>2, <1>3, OnceKeeps DEF QosInv
<1>5. BufferInv'
  BY DEF QosInv, BufferInv
<1>6. \A t \in Transports : Fresh(t) => wire'[t] = <<>> /\ broker'.on # t /\ Reader'.own # t
  BY <1>2 DEF QosInv, FreshInv
<1> QED  BY <1>2, <1>4, <1>5, <1>6, NoneSame, QosKeeps

LEMMA KaPingQos ==
    ASSUME MqttInv, QosInv, KaPing
    PROVE  QosInv'
<1> DEFINE p == Pkt("pingreq", 0, 0, 0)
           g == [Top(Ka) EXCEPT !.pc = "store", !.t = transport]
<1>1. /\ At(Ka, "loop") /\ "loop" \in KaPcs /\ SendPacket(p) /\ Continue(Ka, g)
      /\ UNCHANGED <<transport, rxBuf, held, link, delivered, lapses>>
  BY DEF KaPing, KaPcs, SendPacket, clientVars, history
<1>2. p \in Outgoing /\ p.type # "connect"
  BY BoundsAssumption DEF Pkt, Outgoing, PacketTypes, Ids
<1>3. g \in Frame
  <2>1. Top(Ka) \in Frame
    BY <1>1, BottomAt, ViewSets, ActorFacts DEF MqttInv, TypeInv
  <2> QED  BY <2>1, QosTypes DEF Frame, KaPcs
<1> HIDE DEF p, g
<1>4. SameViews
  BY <1>1, <1>3, KaViews
<1>5. SendsOne
  BY <1>1, <1>2 DEF SendsOne
<1> QED  BY <1>1, <1>4, <1>5, SendsQos DEF SameViews

LEMMA SendRequestQos ==
    ASSUME MqttInv, QosInv, SendRequest
    PROVE  QosInv'
<1>1. /\ At(App, "send") /\ "send" \in AppPcs /\ "send" \in Asking /\ SendPacket(Top(App).p)
      /\ Return(App) /\ UNCHANGED <<transport, rxBuf, held, link, delivered, lapses>>
  BY DEF SendRequest, SendPacket, AppPcs, Asking, history
<1>2. Caller = Top(App) /\ Top(App) \in Frame /\ Top(App).pc = "send"
  BY <1>1, CallerAt
<1>3. Top(App).p \in Outgoing
  BY <1>2 DEF Frame, Packet, Outgoing
<1>4. Top(App).p.type # "connect"
  BY <1>2 DEF QosInv, AskingInv
<1>5. SendsOne
  BY <1>1, <1>3, <1>4 DEF SendsOne
<1>6. Reader' = Reader /\ Caller' = Frame0
  BY <1>1, CallerReturns
<1> QED  BY <1>1, <1>5, <1>6, SendsQos

\* A step of the application that touches no packet.
LEMMA AsksQos ==
    ASSUME QosInv, UNCHANGED <<transport, rxBuf, held, wire, broker, delivered, lapses>>,
           Reader' = Reader, Caller'.pc # "send_connect", AskingInv',
           \A t \in Transports : Fresh(t)' => Fresh(t)
    PROVE  QosInv'
<1>1. FreshInv'
  BY DEF QosInv, FreshInv
<1>2. Queue' = Queue /\ OutOf(Reader', delivered') = OutOf(Reader, delivered)
  BY DEF Queue
<1>3. OnceInv'
  <2> SUFFICES ASSUME ("stale" \notin lapses)'
               PROVE  Once(Queue', held', broker', OutOf(Reader', delivered')) /\ HoldInv'
    BY DEF OnceInv
  <2>1. Once(Queue, held, broker, OutOf(Reader, delivered)) /\ HoldInv
    BY DEF QosInv, OnceInv
  <2>2. Once(Queue', held', broker', OutOf(Reader', delivered'))
    BY <1>2, <2>1
  <2>3. HoldInv'
    BY <2>1 DEF HoldInv
  <2> QED  BY <2>2, <2>3
<1>4. BufferInv'
  BY DEF QosInv, BufferInv
<1>5. UniqueIds(broker)'
  BY DEF QosInv, UniqueIds
<1> QED  BY <1>1, <1>3, <1>4, <1>5 DEF QosInv

LEMMA PrepareQos ==
    ASSUME MqttInv, QosInv, NEW type \in {"publish", "subscribe", "unsubscribe"}, NEW qos \in 0 .. 2,
           Prepare(type, qos)
    PROVE  QosInv'
<1>1. /\ Idle(App) /\ UNCHANGED <<transport, rxBuf, held, wire, broker, delivered, lapses, link>>
      /\ \E id, n : SetStack(App, <<[Frame0 EXCEPT !.pc = "send", !.p = Pkt(type, id, 0, n)]>>)
  BY DEF Prepare, linkVars, history
<1>2. PICK id, n : SetStack(App, <<[Frame0 EXCEPT !.pc = "send", !.p = Pkt(type, id, 0, n)]>>)
  BY <1>1
<1> DEFINE g == [Frame0 EXCEPT !.pc = "send", !.p = Pkt(type, id, 0, n)]
<1>3. g.pc = "send" /\ g.p.type = type
  BY FrameZero DEF Frame0, Pkt
<1>4. SetStack(App, <<g>>)
  BY <1>2
<1> HIDE DEF g
<1>5. stack'[App] = <<g>> /\ stack'[Rx] = stack[Rx]
  BY <1>4, StackIs, ActorFacts DEF MqttInv, TypeInv
<1>6. Reader' = Reader /\ Caller' = g
  <2>1. <<g>> # <<>> /\ Len(<<g>>) = 1 /\ <<g>>[1] = g
    OBVIOUS
  <2> QED  BY <1>3, <1>5, <2>1 DEF Reader, Caller, View, Asking
<1>7. AskingInv'
  BY <1>3, <1>6 DEF AskingInv
<1>8. \A t \in Transports : Fresh(t)' => Fresh(t)
  BY <1>1, <1>3, <1>6 DEF Fresh
<1> QED  BY <1>1, <1>3, <1>6, <1>7, <1>8, AsksQos

LEMMA ConnectQos ==
    ASSUME MqttInv, QosInv, NEW clean \in {0, 1}, NEW period \in BOOLEAN, Connect(clean, period)
    PROVE  QosInv'
<1> DEFINE g == [Frame0 EXCEPT !.pc = "create", !.p = Pkt("connect", 0, 0, clean)]
<1>1. /\ Idle(App) /\ transport = 0 /\ rxBuf' = <<>> /\ SetStack(App, <<g>>)
      /\ UNCHANGED <<transport, held, wire, broker, delivered, lapses, link>>
  BY DEF Connect, linkVars, history
<1>2. g \in Frame /\ g.pc = "create"
  <2>1. Pkt("connect", 0, 0, clean) \in Packet
    BY BoundsAssumption, PktFacts DEF PacketTypes, Ids
  <2> QED  BY <2>1, FrameZero DEF Frame, Frame0, AppPcs
<1> HIDE DEF g
<1>3. Reader' = Reader /\ Caller' = Frame0
  BY <1>1, <1>2, CallerCalls DEF Asking
<1>4. Queue' = Queue
  <2>1. \A v, b, w : QueueOf(v, 0, b, w) = <<>>
    <3>1. 0 \in MaybeTransport
      BY DEF MaybeTransport
    <3> QED  BY <3>1, QueueNone
  <2> QED  BY <1>1, <2>1 DEF Queue
<1>5. OnceInv'
  BY <1>1, <1>3, <1>4, OnceKeeps DEF QosInv
<1>6. BufferInv'
  BY <1>1 DEF BufferInv
<1>7. \A t \in Transports : Fresh(t) => wire'[t] = <<>> /\ broker'.on # t /\ Reader'.own # t
  BY <1>1, <1>3 DEF QosInv, FreshInv
<1>8. UniqueIds(broker') /\ NoneLater
  BY <1>1, NoneSame DEF QosInv
<1> QED  BY <1>1, <1>3, <1>5, <1>6, <1>7, <1>8, QosKeeps

LEMMA CreateQos ==
    ASSUME MqttInv, QosInv, Create
    PROVE  QosInv'
<1> DEFINE c == CHOOSE t \in Transports :
                    link[t] = "none" /\ \A u \in Transports : u < t => link[u] # "none"
           g == [Top(App) EXCEPT !.pc = "assign", !.own = c]
<1>1. /\ At(App, "create") /\ "create" \in AppPcs /\ "create" \notin Asking
      /\ link' = [link EXCEPT ![c] = "open"] /\ Continue(App, g)
      /\ UNCHANGED <<transport, rxBuf, held, wire, broker, delivered, lapses>>
  BY DEF Create, AppPcs, Asking, clientVars, history
<1>2. c \in Transports /\ link[c] = "none"
  BY <1>1, NewTransport
<1> HIDE DEF c
<1>3. Caller = Frame0 /\ Top(App) \in Frame
  BY <1>1, CallerAt
<1>4. g \in Frame /\ g.pc = "assign" /\ g.own = c
  BY <1>2, <1>3 DEF Frame, AppPcs, MaybeTransport
<1> HIDE DEF g
<1>5. Reader' = Reader /\ Caller' = g
  BY <1>1, <1>4, CallerGoes DEF Asking
<1>6. \A t \in Transports : Fresh(t)' => Fresh(t)
  BY <1>1, <1>2, <1>4, <1>5 DEF Fresh, MqttInv, TypeInv, LinkType
<1>7. AskingInv'
  BY <1>4, <1>5 DEF AskingInv
<1> QED  BY <1>1, <1>4, <1>5, <1>6, <1>7, AsksQos

LEMMA AssignQos ==
    ASSUME MqttInv, QosInv, Assign
    PROVE  QosInv'
<1> DEFINE t == Top(App).own
           g == [Top(App) EXCEPT !.pc = "send_connect"]
<1>1. /\ At(App, "assign") /\ "assign" \in AppPcs /\ "assign" \in Asking
      /\ transport' = t /\ Continue(App, g)
      /\ UNCHANGED <<rxBuf, held, wire, broker, delivered, lapses, link>>
  BY DEF Assign, AppPcs, Asking, linkVars, history, GoTo
<1>2. Caller = Top(App) /\ Top(App) \in Frame /\ Top(App).pc = "assign"
  BY <1>1, CallerAt
<1>3. t \in Transports /\ transport = 0
  <2>1. /\ Top(App) \in FramesOf(App, link)
        /\ \A H : Depths(stack[App], H) = IF Top(App) \in H THEN {0} ELSE {}
    BY <1>1, AppAt, ActorFacts
  <2>2. Top(App) \in Opening
    BY <1>2 DEF Opening
  <2> QED  BY <1>2, <2>1, <2>2 DEF FramesOf, MqttInv, ConnectInv
<1>4. g \in Frame /\ g.pc = "send_connect" /\ g.own = t
  BY <1>2 DEF Frame, AppPcs
<1> HIDE DEF g
<1>5. Reader' = Reader /\ Caller' = g
  BY <1>1, <1>4, CallerGoes DEF Asking
<1>6. Fresh(t)
  BY <1>2 DEF Fresh
<1>7. wire[t] = <<>> /\ Reader.own # t
  BY <1>3, <1>6 DEF QosInv, FreshInv
<1> HIDE DEF t
<1>8. FreshInv'
  <2>1. \A u \in Transports : Fresh(u)' => Fresh(u)
    BY <1>1, <1>4, <1>5, <1>6 DEF Fresh
  <2> QED  BY <1>1, <1>5, <2>1 DEF QosInv, FreshInv
<1>9. AskingInv'
  BY <1>1, <1>4, <1>5 DEF AskingInv
<1>10. BufferInv'
  BY <1>1, <1>5 DEF QosInv, BufferInv
<1>11. OnceInv'
  <2> SUFFICES ASSUME ("stale" \notin lapses)'
               PROVE  Once(Queue', held', broker', OutOf(Reader', delivered')) /\ HoldInv'
    BY DEF OnceInv
  <2>1. Once(Queue, held, broker, OutOf(Reader, delivered)) /\ HoldInv
    BY <1>1 DEF QosInv, OnceInv
  <2>2. Queue = <<>> /\ Queue' = <<>>
    <3>1. 0 \in MaybeTransport /\ t \in MaybeTransport
      BY <1>3 DEF MaybeTransport
    <3>2. QueueOf(Reader, 0, rxBuf, wire) = <<>> /\ QueueOf(Reader, t, rxBuf, wire) = <<>>
      BY <1>7, <3>1, QueueNone
    <3> QED  BY <1>1, <1>3, <1>5, <3>2 DEF Queue
  <2>3. Once(Queue', held', broker', OutOf(Reader', delivered'))
    BY <1>1, <1>5, <2>1, <2>2
  <2>4. \A i \in BrokerIds : held'[i] = 0
    BY <1>1, <1>3, <2>1 DEF HoldInv
  <2> QED  BY <2>3, <2>4 DEF HoldInv
<1>12. UniqueIds(broker)'
  BY <1>1 DEF QosInv, UniqueIds
<1> QED  BY <1>8, <1>9, <1>10, <1>11, <1>12 DEF QosInv

\* The broker takes a CONNECT over a fresh transport: the session begins.
LEMMA SessionQos ==
    ASSUME MqttInv, QosInv, transport \in Transports, Fresh(transport), link[transport] = "open",
           Caller.pc = "send_connect",
           NEW p \in Outgoing, p.type = "connect", BrokerTakes(transport, p),
           UNCHANGED <<transport, rxBuf, held, link, delivered, lapses>>,
           Reader' = Reader, Caller' = Frame0
    PROVE  QosInv'
<1>1. PICK n \in {0, 1} :
          /\ Answer(transport, Pkt("connack", 0, 0, n))
          /\ broker' = IF n = 0 THEN [broker EXCEPT !.on = 0]
                       ELSE [broker EXCEPT !.st = Resumed(p.n = 1), !.on = transport]
  BY DEF BrokerTakes
<1> DEFINE a == Pkt("connack", 0, 0, n)
<1>2. a \in Packet /\ a.type # "pubrel" /\ (\A m \in Msgs : ~Carries(a, m)) /\ Answer(transport, a)
  <2>1. a \in Packet
    BY BoundsAssumption, PktFacts DEF PacketTypes, Ids
  <2> QED  BY <1>1, <2>1 DEF Pkt, Carries
<1> HIDE DEF a
<1>3. broker \in Brokers /\ Reader.p \in Packet /\ Queue \in Seq(Packet)
  BY QosTypes
<1>4. ASSUME NEW m \in Msgs
      PROVE  /\ Settled(broker, m) => Settled(broker', m)
             /\ broker'.st[m] \in Unfinished => broker.st[m] \in Unfinished
             /\ broker'.id[m] = broker.id[m]
  <2>1. CASE n = 0
    BY <1>1, <1>3, <2>1 DEF Brokers, Settled
  <2>2. CASE n # 0
    <3>1. broker'.st = Resumed(p.n = 1) /\ broker'.id = broker.id
      BY <1>1, <1>3, <2>2 DEF Brokers
    <3>2. /\ broker.st[m] \in {"released", "rerelease", "done", "gone"}
                 => Resumed(p.n = 1)[m] \in {"released", "rerelease", "done", "gone"}
          /\ Resumed(p.n = 1)[m] \in Unfinished => broker.st[m] \in Unfinished
      BY DEF Resumed, InFlight, Unfinished
    <3> QED  BY <3>1, <3>2 DEF Settled
  <2> QED  BY <2>1, <2>2
<1>5. broker'.on \in {0, transport}
  BY <1>1, <1>3 DEF Brokers
<1>6. UniqueIds(broker)'
  BY <1>4 DEF QosInv, UniqueIds
<1>7. FreshInv'
  <2>1. \A u \in Transports : Fresh(u)' => Fresh(u) /\ u # transport
    BY FrameNone DEF Fresh
  <2>2. \A u \in Transports : u # transport => wire'[u] = wire[u]
    BY <1>2, <1>3, AnswerQueue
  <2> QED  BY <1>5, <2>1, <2>2, NotZero DEF QosInv, FreshInv
<1>8. OnceInv'
  <2> SUFFICES ASSUME ("stale" \notin lapses)'
               PROVE  Once(Queue', held', broker', OutOf(Reader', delivered')) /\ HoldInv'
    BY DEF OnceInv
  <2> DEFINE o == OutOf(Reader, delivered)
  <2>1. Once(Queue, held, broker, o) /\ \A i \in BrokerIds : held[i] = 0
    BY DEF QosInv, OnceInv, HoldInv
  <2> HIDE DEF o
  <2>2. Once(<<>>, held, broker', o)
    BY <1>4, <2>1, OnceBegins
  <2>3. <<>> \in Seq(Packet)
    OBVIOUS
  <2>4. Once(Append(<<>>, a), held, broker', o)
    BY <1>2, <2>2, <2>3, OnceHarmless
  <2>5. QueueOf(Reader, transport, rxBuf, wire) = <<>>
    BY QueueNone DEF QosInv, FreshInv, MaybeTransport
  <2>6. Once(QueueOf(Reader, transport, rxBuf, wire'), held, broker', o)
    <3>1. Once(Append(QueueOf(Reader, transport, rxBuf, wire), a), held, broker', o)
      BY <2>4, <2>5
    <3> QED  BY <1>2, <1>3, <3>1, AnswerOnce
  <2>7. Once(Queue', held', broker', OutOf(Reader', delivered'))
    BY <2>6 DEF Queue, o
  <2> QED  BY <2>1, <2>7 DEF HoldInv
<1>9. BufferInv'
  BY DEF QosInv, BufferInv
<1>10. AskingInv'
  BY FrameNone DEF AskingInv
<1> QED  BY <1>6, <1>7, <1>8, <1>9, <1>10 DEF QosInv

LEMMA SendConnectQos ==
    ASSUME MqttInv, QosInv, SendConnect
    PROVE  QosInv'
<1>1. /\ At(App, "send_connect") /\ "send_connect" \in AppPcs /\ "send_connect" \in Asking
      /\ UNCHANGED <<transport, rxBuf, held, delivered, lapses, link>>
  BY DEF SendConnect, AppPcs, Asking, clientVars, history
<1>2. Caller = Top(App) /\ Top(App) \in Frame /\ Top(App).pc = "send_connect"
  BY <1>1, CallerAt
<1>3. CASE SendFails /\ Continue(App, TeardownFrame(Top(App).own, FALSE))
  <2> DEFINE g == TeardownFrame(Top(App).own, FALSE)
  <2>1. g \in Frame /\ g.pc = "give_up"
    BY <1>2, TeardownIsFrame DEF Frame
  <2>2. Continue(App, g) /\ UNCHANGED <<wire, broker>>
    BY <1>3 DEF SendFails
  <2> HIDE DEF g
  <2>3. Reader' = Reader /\ Caller' = Frame0
    BY <1>1, <2>1, <2>2, CallerGoes DEF Asking
  <2> QED  BY <1>1, <2>2, <2>3, NoneSame, QosStays
<1>4. CASE Sends(Top(App).p) /\ GoTo(App, "wait")
  <2> DEFINE g == [Top(App) EXCEPT !.pc = "wait"]
             p == Top(App).p
  <2>1. g \in Frame /\ g.pc = "wait" /\ p \in Outgoing
    BY <1>2 DEF Frame, AppPcs, Packet, Outgoing
  <2>2. Continue(App, g) /\ Sends(p)
    BY <1>4 DEF GoTo
  <2> HIDE DEF g, p
  <2>3. Reader' = Reader /\ Caller' = Frame0
    BY <1>1, <2>1, <2>2, CallerGoes DEF Asking
  <2>4. transport \in Transports /\ transport = Caller.own
    BY <1>2, <1>4, QosTypes DEF Sends, CanSend, QosInv, AskingInv, MaybeTransport
  <2>5. Fresh(transport)
    BY <1>2, <2>4 DEF Fresh
  <2>6. broker.on # transport
    BY <2>4, <2>5 DEF QosInv, FreshInv
  <2>7. CASE UNCHANGED <<wire, broker>>
    BY <1>1, <2>3, <2>7, NoneSame, QosStays
  <2>8. CASE link[transport] = "open" /\ p.type = "connect" /\ BrokerTakes(transport, p)
    BY <1>1, <1>2, <2>1, <2>3, <2>4, <2>5, <2>8, SessionQos
  <2> QED  BY <2>2, <2>6, <2>7, <2>8 DEF Sends
<1> QED  BY <1>3, <1>4 DEF SendConnect

-----------------------------------------------------------------------------
(* Init and Next. *)

LEMMA InitQos ==
    ASSUME Init
    PROVE  QosInv
<1>1. /\ stack = [x \in Actors |-> <<>>] /\ transport = 0 /\ rxBuf = <<>>
      /\ held = [i \in BrokerIds |-> 0] /\ wire = [t \in Transports |-> <<>>]
      /\ broker = [st |-> [m \in Msgs |-> "new"], id |-> [m \in Msgs |-> 0], on |-> 0]
      /\ delivered = [m \in Msgs |-> 0]
  BY DEF Init
<1>2. Reader = Frame0 /\ Caller = Frame0
  BY <1>1, ViewEmpty, ActorFacts DEF Reader, Caller
<1>3. UniqueIds(broker)
  BY <1>1 DEF UniqueIds, Unfinished
<1>4. FreshInv /\ AskingInv /\ BufferInv
  BY <1>1, <1>2, FrameNone DEF FreshInv, AskingInv, BufferInv
<1>5. Queue = <<>>
  <2>1. \A v, b, w : QueueOf(v, 0, b, w) = <<>>
    <3>1. 0 \in MaybeTransport
      BY DEF MaybeTransport
    <3> QED  BY <3>1, QueueNone
  <2> QED  BY <1>1, <2>1 DEF Queue
<1>6. \A i \in BrokerIds : held[i] = 0
  BY <1>1
<1>7. Once(Queue, held, broker, OutOf(Reader, delivered))
  <2>1. DOMAIN <<>> = {} /\ \A i \in BrokerIds, m \in Msgs : held[i] # m
    BY <1>6, BoundsAssumption
  <2>2. \A m \in Msgs : OutOf(Frame0, delivered)[m] = 0
    BY <1>1, FrameNone DEF OutOf, Bears
  <2> QED  BY <1>2, <1>5, <2>1, <2>2 DEF Once, QueuedOnce, HeldOnce, OutOnce
<1>8. OnceInv
  BY <1>6, <1>7 DEF OnceInv, HoldInv
<1> QED  BY <1>3, <1>4, <1>8 DEF QosInv

LEMMA TimePassesQos ==
    ASSUME MqttInv, QosInv, TimePasses
    PROVE  QosInv'
<1>1. /\ UNCHANGED <<stack, transport, rxBuf, held, wire, broker, delivered, link, lapses>>
  BY DEF TimePasses, clientVars, history
<1> QED  BY <1>1, SameStacks, NoneSame, QosStays DEF SameViews

LEMMA NextQos ==
    ASSUME MqttInv, QosInv, Next
    PROVE  QosInv'
<1>1. ASSUME NEW x \in Actors, Calls(x)
      PROVE  QosInv'
  BY <1>1, GiveUpQos, DropQos, CallsQos DEF Calls, Teardown
<1>2. ASSUME KeepAlive
      PROVE  QosInv'
  BY <1>2, KaQos, KaPingQos DEF KeepAlive
<1>3. ASSUME Application
      PROVE  QosInv'
  <2>1. 0 \in 0 .. 2
    OBVIOUS
  <2>2. ASSUME Publish \/ Subscribe \/ Unsubscribe
        PROVE  QosInv'
    BY <2>1, <2>2, PrepareQos DEF Publish, Subscribe, Unsubscribe
  <2> QED
    BY <1>3, <2>2, ConnectQos, CreateQos, AssignQos, SendConnectQos, WaitQos, SendRequestQos
    DEF Application
<1>4. ASSUME Receive
      PROVE  QosInv'
  BY <1>4, OnTransportDataQos, OverflowQos, TakePacketQos, NextPacketQos, HandlePublishQos,
     HoldPublishQos, HandlePubrelQos, SendPubcompQos, DeliverQos, HandleSubackQos
  DEF Receive, Handlers
<1>5. ASSUME Broker
      PROVE  QosInv'
  BY <1>5, BrokerPublishesQos, BrokerReleasesAgainQos, BrokerSendsQos DEF Broker
<1>6. ASSUME NEW t \in Transports, LinkGoesSilent(t) \/ OnTransportClosed(t)
      PROVE  QosInv'
  BY <1>6, LinkGoesSilentQos, OnTransportClosedQos
<1> QED  BY <1>1, <1>2, <1>3, <1>4, <1>5, <1>6, TimePassesQos DEF Next

\* What has been delivered has been taken out.
LEMMA QosNow ==
    ASSUME MqttInv, QosInv
    PROVE  QosTwoAtMostOnce
<1> SUFFICES ASSUME "stale" \notin lapses, NEW m \in Msgs
             PROVE  delivered[m] <= 1
  BY DEF QosTwoAtMostOnce
<1>1. delivered[m] \in Nat
  BY QosTypes DEF Counts
<1>2. OutOf(Reader, delivered)[m] \in {0, 1}
  BY DEF QosInv, OnceInv, Once, OutOnce
<1>3. OutOf(Reader, delivered)[m] = delivered[m] \/ OutOf(Reader, delivered)[m] = delivered[m] + 1
  BY <1>1 DEF OutOf
<1> QED  BY <1>1, <1>2, <1>3

LEMMA StutterQos ==
    ASSUME MqttInv, QosInv, UNCHANGED vars
    PROVE  QosInv'
<1>1. /\ UNCHANGED <<stack, transport, rxBuf, held, wire, broker, delivered, link, lapses>>
  BY DEF vars, clientVars, linkVars, history
<1> QED  BY <1>1, SameStacks, NoneSame, QosStays DEF SameViews

\* A QoS 2 message reaches on_message_ at most once, whatever the broker resends and
\* however often the session is resumed, as long as no packet that was read from a
\* connection given up meanwhile is held or released in the next (HandlePublish,
\* HandlePubrel, Teardown): for any number of connections, messages and ids.
THEOREM MqttQosTwoAtMostOnce == Spec => []QosTwoAtMostOnce
<1>1. Init => QosInv
  BY InitQos
<1>2. MqttInv /\ QosInv /\ [Next]_vars => QosInv'
  BY NextQos, StutterQos
<1>3. MqttInv /\ QosInv => QosTwoAtMostOnce
  BY QosNow
<1> QED  BY <1>1, <1>2, <1>3, MqttInvariant, PTL DEF Spec
=============================================================================
