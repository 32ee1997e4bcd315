------------------------------ MODULE Ml307Tcp ------------------------------
(***************************************************************************)
(* A TCP connection over the ML307: HalTcpClient (src/hal), the routes and *)
(* the hold of IModuleHal (src/hal/imodule_hal.h), and the cid pool and    *)
(* socket events of Ml307Hal (src/modules/ml307/ml307_hal.cpp).            *)
(*                                                                         *)
(* Each client is used by one thread; the AT receive task runs the URC     *)
(* handlers and through them the client's callbacks.  A thread and the     *)
(* task have a call stack, because SubscribeTcp hands control to the       *)
(* user's callbacks while Connect is still under way, and those may        *)
(* disconnect or connect again.  Every critical section of pool_mutex_,    *)
(* subscription_mutex_ and open_mutex_ is a step, as is every AT command   *)
(* and every callback.                                                     *)
(*                                                                         *)
(* The module names a cid in its events and nothing else.  The serial of a *)
(* connect, in lines, slots and routes, is there for the properties.       *)
(***************************************************************************)
EXTENDS Naturals, Sequences, FiniteSets

CONSTANTS
    Clients,      \* HalTcpClient objects, each with the thread that uses it
    Task,         \* the AT receive task
    NumCids,      \* kMaxConnections
    MaxHeld,      \* kMaxUndeliveredBytes, in chunks
    MaxConnects,  \* bound: connects that are asked for
    MaxChunks,    \* bound: chunks the peers send
    MaxWire       \* bound: lines on their way to the receive task

ASSUME ActorsAssumption == IsFiniteSet(Clients) /\ Task \notin Clients

ASSUME BoundsAssumption ==
    /\ NumCids \in Nat \ {0}
    /\ MaxHeld \in Nat
    /\ MaxConnects \in Nat
    /\ MaxChunks \in Nat
    /\ MaxWire \in Nat

Actors == Clients \cup {Task}

Cids == 0 .. NumCids - 1

Nothing == [data |-> <<>>, truncated |-> FALSE, closed |-> FALSE]

Frame0 == [pc |-> "none", then |-> "none", cid |-> 0, serial |-> 0, gen |-> 0,
           handle |-> 0, held |-> Nothing, to |-> {}, own |-> FALSE]

NoWait == [id |-> NumCids, ok |-> FALSE, done |-> FALSE]

VARIABLES
    stack,             \* the calls each actor is in, innermost first
    nextSerial,        \* connects asked for so far, and one
    slots,             \* slots_: used, and the connect that took the cid
    quarantine,        \* free cids whose quarantine runs, oldest release first
    openWait,          \* open_wait_; its id is NumCids for -1
    routes,            \* tcp_routes_
    nextSubscription,  \* next_subscription_
    undelivered,       \* undelivered_; Nothing where it has no entry
    client,            \* the fields of each HalTcpClient
    wire,              \* lines written by the module
    sock,              \* the module's sockets
    owed,              \* closes the module has yet to announce
    sent,              \* the socket that each chunk of payload came on
    got,               \* history: chunks handed to a client since it connected
    lapses             \* history: the ways in which a cid was mistaken

poolVars == <<slots, quarantine>>
routeVars == <<routes, nextSubscription, undelivered>>
moduleVars == <<wire, sock, owed, sent>>
vars == <<stack, nextSerial, poolVars, openWait, routeVars, client, moduleVars, got,
          lapses>>

\* The sockets in `left' were left open by an earlier run of the program.
Init ==
    /\ stack = [x \in Actors |-> <<>>]
    /\ nextSerial = 1
    /\ slots = [c \in Cids |-> [used |-> FALSE, serial |-> 0]]
    /\ quarantine = <<>>
    /\ openWait = NoWait
    /\ routes = {}
    /\ nextSubscription = 1
    /\ undelivered = [c \in Cids |-> Nothing]
    /\ client = [k \in Clients |->
                    [connected |-> FALSE, cid |-> NumCids, sub |-> 0, gen |-> 0, serial |-> 0]]
    /\ wire = <<>>
    /\ \E left \in SUBSET Cids :
           sock = [c \in Cids |-> [st |-> IF c \in left THEN "open" ELSE "none", serial |-> 0]]
    /\ owed = {}
    /\ sent = <<>>
    /\ got = [k \in Clients |-> <<>>]
    /\ lapses = {}

-----------------------------------------------------------------------------
(***************************************************************************)
(* Call stacks.                                                            *)
(***************************************************************************)
Top(x) == Head(stack[x])

At(x, l) == stack[x] # <<>> /\ Top(x).pc = l

\* The innermost call of x goes on as f.
Continue(x, f) == stack' = [stack EXCEPT ![x] = <<f>> \o Tail(@)]

GoTo(x, l) == Continue(x, [Top(x) EXCEPT !.pc = l])

\* The innermost call of x goes on as f once the call g it makes has returned.
Call(x, f, g) == stack' = [stack EXCEPT ![x] = <<g, f>> \o Tail(@)]

Return(x) == stack' = [stack EXCEPT ![x] = Tail(@)]

-----------------------------------------------------------------------------
(***************************************************************************)
(* The pool of cids.                                                       *)
(***************************************************************************)
ConnectFrame == [Frame0 EXCEPT !.pc = "alloc", !.serial = nextSerial]

\* HalTcpClient::Connect, down to Ml307Hal::OpenSocket.
Connect(k) ==
    /\ stack[k] = <<>> /\ ~client[k].connected
    /\ nextSerial <= MaxConnects
    /\ nextSerial' = nextSerial + 1
    /\ stack' = [stack EXCEPT ![k] = <<ConnectFrame>>]
    /\ UNCHANGED <<poolVars, openWait, routeVars, client, moduleVars, got, lapses>>

FreeFrom(first) == {c \in Cids : c >= first /\ ~slots[c].used}

Settling == {quarantine[i] : i \in DOMAIN quarantine}

\* The quarantine of c ends.
Unsettled(c) ==
    IF c \notin Settling THEN quarantine
    ELSE LET i == CHOOSE i \in DOMAIN quarantine : quarantine[i] = c
         IN SubSeq(quarantine, 1, i - 1) \o SubSeq(quarantine, i + 1, Len(quarantine))

Oldest(S) == LET i == CHOOSE i \in DOMAIN quarantine :
                         /\ quarantine[i] \in S
                         /\ \A j \in 1 .. i - 1 : quarantine[j] \notin S
             IN quarantine[i]

\* The first cid that has settled or, when every free one is settling, the oldest.
Chosen(S) == LET settled == S \ Settling
             IN IF settled # {} THEN CHOOSE c \in settled : \A d \in settled : c <= d
                                ELSE Oldest(S)

AllocateConnectionId(k) ==
    /\ At(k, "alloc")
    /\ LET free == FreeFrom(Top(k).cid)
           c == Chosen(free)
       IN /\ free # {}
          /\ slots' = [slots EXCEPT ![c] = [used |-> TRUE, serial |-> Top(k).serial]]
          /\ quarantine' = Unsettled(c)
          /\ lapses' = IF c \in Settling THEN lapses \cup {"settling"} ELSE lapses
          /\ Continue(k, [Top(k) EXCEPT !.pc = "taken", !.cid = c])
    /\ UNCHANGED <<nextSerial, openWait, routeVars, client, moduleVars, got>>

NoConnectionId(k) ==
    /\ At(k, "alloc") /\ FreeFrom(Top(k).cid) = {}
    /\ Return(k)
    /\ UNCHANGED <<nextSerial, poolVars, openWait, routeVars, client, moduleVars, got, lapses>>

\* AllocateConnectionId voids what is held for the cid, after the pool's lock.
Taken(k) ==
    /\ At(k, "taken")
    /\ undelivered' = [undelivered EXCEPT ![Top(k).cid] = Nothing]
    /\ GoTo(k, "ensure")
    /\ UNCHANGED <<nextSerial, poolVars, openWait, routes, nextSubscription, client,
                   moduleVars, got, lapses>>

\* The cid of x's call has been taken by a connect that the call does not know of.
TakenByAnother(x) == slots[Top(x).cid].used /\ slots[Top(x).cid].serial # Top(x).serial

\* ReleaseConnectionId, up to the end of its critical section.
Release(x) ==
    /\ At(x, "release")
    /\ LET c == Top(x).cid
       IN /\ slots' = [slots EXCEPT ![c] = [used |-> FALSE, serial |-> 0]]
          /\ quarantine' = Append(Unsettled(c), c)
          /\ lapses' = IF TakenByAnother(x) THEN lapses \cup {"foreign"} ELSE lapses
    /\ GoTo(x, "discard")
    /\ UNCHANGED <<nextSerial, openWait, routeVars, client, moduleVars, got>>

\* Where a call goes on after it has released its cid.
AfterRelease(x) ==
    CASE Top(x).then = "return" -> Return(x)
      [] Top(x).then = "retry"  -> Continue(x, [Top(x) EXCEPT !.pc = "alloc", !.cid = @ + 1])
      [] Top(x).then = "report" -> Continue(x, [Top(x) EXCEPT !.pc = "dispatchclose",
                                                              !.then = "none"])

Discard(x) ==
    /\ At(x, "discard")
    /\ undelivered' = [undelivered EXCEPT ![Top(x).cid] = Nothing]
    /\ AfterRelease(x)
    /\ UNCHANGED <<nextSerial, poolVars, openWait, routes, nextSubscription, client,
                   moduleVars, got, lapses>>

\* The call releases its cid, and goes on at l.
ReleaseThen(k, l) == Continue(k, [Top(k) EXCEPT !.pc = "release", !.then = l])

-----------------------------------------------------------------------------
(***************************************************************************)
(* Opening a socket on the cid that was taken.                             *)
(***************************************************************************)
InWire(c, kinds) == \E i \in DOMAIN wire : wire[i].cid = c /\ wire[i].kind \in kinds

TaskAt(c) == stack[Task] # <<>> /\ Top(Task).cid = c

Owes(c) == \E o \in owed : o.cid = c

\* The answer to a command is behind every line the module wrote before it.
InStep(c) == ~InWire(c, {"opened", "refused", "data", "disconn"}) /\ ~TaskAt(c)

\* AT+MIPCLOSE ends a socket at once and announces it later.
EndSocket(c) ==
    /\ sock' = [sock EXCEPT ![c] = [st |-> "none", serial |-> 0]]
    /\ owed' = IF sock[c].st = "none" THEN owed
               ELSE owed \cup {[cid |-> c, serial |-> sock[c].serial]}

\* EnsureSocketFree hears that the cid is free on the module, or hears nothing of
\* use, and configuring the cid succeeds.
EnsureSocketFree(k) ==
    /\ At(k, "ensure") /\ InStep(Top(k).cid)
    /\ GoTo(k, "open")
    /\ UNCHANGED <<nextSerial, poolVars, openWait, routeVars, client, moduleVars, got, lapses>>

\* EnsureSocketFree closes what it finds on the cid, and the cid is left to settle.
CidWasHeld(k) ==
    /\ At(k, "ensure")
    /\ LET c == Top(k).cid
       IN InStep(c) /\ (sock[c].st # "none" \/ Owes(c)) /\ EndSocket(c)
    /\ ReleaseThen(k, "retry")
    /\ UNCHANGED <<nextSerial, poolVars, openWait, routeVars, client, wire, sent, got, lapses>>

\* A command of the open fails; when it is AT+MIPOPEN the module may have taken it.
OpenFails(k) ==
    /\ \/ /\ At(k, "ensure")
          /\ UNCHANGED <<openWait, sock>>
       \/ /\ At(k, "open")
          /\ openWait' = [NoWait EXCEPT !.id = Top(k).cid]
          /\ \/ UNCHANGED sock
             \/ /\ sock[Top(k).cid].st = "none"
                /\ sock' = [sock EXCEPT ![Top(k).cid] =
                                [st |-> "connecting", serial |-> Top(k).serial]]
    /\ ReleaseThen(k, "return")
    /\ UNCHANGED <<nextSerial, poolVars, routeVars, client, wire, owed, sent, got, lapses>>

\* OpenOnId: ArmOpenWait, and AT+MIPOPEN is accepted.
OpenOnId(k) ==
    /\ At(k, "open") /\ sock[Top(k).cid].st = "none"
    /\ openWait' = [NoWait EXCEPT !.id = Top(k).cid]
    /\ sock' = [sock EXCEPT ![Top(k).cid] = [st |-> "connecting", serial |-> Top(k).serial]]
    /\ GoTo(k, "wait")
    /\ UNCHANGED <<nextSerial, poolVars, routeVars, client, wire, owed, sent, got, lapses>>

\* AT+MIPOPEN is refused because the cid is taken (552): the search goes on.
OpenBusy(k) ==
    /\ At(k, "open")
    /\ sock[Top(k).cid].st # "none" \/ Owes(Top(k).cid)
    /\ openWait' = [NoWait EXCEPT !.id = Top(k).cid]
    /\ ReleaseThen(k, "retry")
    /\ UNCHANGED <<nextSerial, poolVars, routeVars, client, moduleVars, got, lapses>>

\* WaitForOpenResult ends with an outcome or by its timeout.
WaitForOpenResult(k) ==
    /\ At(k, "wait")
    /\ openWait' = NoWait
    /\ IF openWait.done /\ openWait.ok THEN GoTo(k, "opened") ELSE ReleaseThen(k, "return")
    /\ UNCHANGED <<nextSerial, poolVars, routeVars, client, moduleVars, got, lapses>>

\* HalTcpClient::Connect sets its fields before the route exists.
Opened(k) ==
    /\ At(k, "opened")
    /\ client' = [client EXCEPT ![k] = [connected |-> TRUE, cid |-> Top(k).cid, sub |-> @.sub,
                                        gen |-> @.gen + 1, serial |-> Top(k).serial]]
    /\ got' = [got EXCEPT ![k] = <<>>]
    /\ Continue(k, [Top(k) EXCEPT !.pc = "subscribe", !.gen = client[k].gen + 1])
    /\ UNCHANGED <<nextSerial, poolVars, openWait, routeVars, moduleVars, lapses>>

-----------------------------------------------------------------------------
(***************************************************************************)
(* Routes, and what is held for a cid without one.                         *)
(***************************************************************************)
RoutesOf(c) == {r \in routes : r.cid = c}

\* HoldLocked keeps what fits and drops the tail.
HoldLocked(u, data) ==
    LET room == IF Len(u.data) < MaxHeld THEN MaxHeld - Len(u.data) ELSE 0
        take == IF room < Len(data) THEN room ELSE Len(data)
    IN [data |-> u.data \o SubSeq(data, 1, take),
        truncated |-> u.truncated \/ take < Len(data),
        closed |-> u.closed]

\* Mutant: what was held for the cid is erased and not handed over.
SubscribeTcpDropsHold(k) ==
    /\ At(k, "subscribe")
    /\ LET c == Top(k).cid
       IN /\ routes' = routes \cup {[handle |-> nextSubscription, cid |-> c, client |-> k,
                                     serial |-> Top(k).serial]}
          /\ undelivered' = [undelivered EXCEPT ![c] = Nothing]
          /\ Continue(k, [Top(k) EXCEPT !.pc = "helddata", !.then = "heldend",
                                        !.handle = nextSubscription])
    /\ nextSubscription' = nextSubscription + 1
    /\ UNCHANGED <<nextSerial, poolVars, openWait, client, moduleVars, got, lapses>>

\* SubscribeTcp, up to the end of its critical section.
SubscribeTcp(k) ==
    /\ At(k, "subscribe")
    /\ LET c == Top(k).cid
       IN /\ routes' = routes \cup {[handle |-> nextSubscription, cid |-> c, client |-> k,
                                     serial |-> Top(k).serial]}
          /\ undelivered' = [undelivered EXCEPT ![c] = Nothing]
          /\ Continue(k, [Top(k) EXCEPT !.pc = "helddata", !.then = "heldend",
                                        !.handle = nextSubscription,
                                        !.held = undelivered[c]])
    /\ nextSubscription' = nextSubscription + 1
    /\ UNCHANGED <<nextSerial, poolVars, openWait, client, moduleVars, got, lapses>>

\* DispatchTcpData by SubscribeTcp: the route is looked up again.
DispatchHeld(k) ==
    /\ At(k, "helddata")
    /\ LET c == Top(k).cid
           data == Top(k).held.data
       IN \/ /\ data = <<>>
             /\ GoTo(k, "heldend")
             /\ UNCHANGED undelivered
          \/ /\ data # <<>>
             /\ \E r \in RoutesOf(c) :
                    Continue(k, [Top(k) EXCEPT !.pc = "calldata", !.to = {r}])
             /\ UNCHANGED undelivered
          \/ /\ data # <<>> /\ RoutesOf(c) = {}
             /\ undelivered' = [undelivered EXCEPT ![c] = HoldLocked(@, data)]
             /\ GoTo(k, "heldend")
    /\ UNCHANGED <<nextSerial, poolVars, openWait, routes, nextSubscription, client,
                   moduleVars, got, lapses>>

\* A handler called for a connection that is not its client's any more.
Stale(r) == client[r.client].connected /\ client[r.client].serial # r.serial

Resume(x) == IF Top(x).then = "none" THEN Return(x) ELSE GoTo(x, Top(x).then)

CloseFrame(c, s) == [Frame0 EXCEPT !.pc = "unsubscribe", !.then = "return", !.cid = c,
                                   !.serial = s]

Cleared(k) == [client EXCEPT ![k] = [@ EXCEPT !.connected = FALSE, !.cid = NumCids]]

\* HalTcpClient::OnTcpData, outside the lock.  On its own thread the user's
\* callback may disconnect; on the receive task it must not send.
OnTcpData(x) ==
    /\ At(x, "calldata")
    /\ \E r \in Top(x).to :
        /\ got' = [got EXCEPT ![r.client] = @ \o Top(x).held.data]
        /\ lapses' = IF Stale(r) THEN lapses \cup {"stale"} ELSE lapses
        /\ \/ Resume(x) /\ UNCHANGED client
           \/ /\ x = r.client /\ client[x].connected
              /\ client' = Cleared(x)
              /\ Call(x, [Top(x) EXCEPT !.pc = Top(x).then], CloseFrame(client[x].cid, client[x].serial))
    /\ UNCHANGED <<nextSerial, poolVars, openWait, routeVars, moduleVars>>

\* Mutant: a truncated stream is reported as over and its socket is not ended.
HeldEndWithoutClose(k) ==
    /\ At(k, "heldend")
    /\ IF Top(k).held.closed \/ Top(k).held.truncated
       THEN Continue(k, [Top(k) EXCEPT !.pc = "dispatchclose", !.then = "finish"])
       ELSE GoTo(k, "finish")
    /\ UNCHANGED <<nextSerial, poolVars, openWait, routeVars, client, moduleVars, got, lapses>>

\* The end of SubscribeTcp: a held close is reported, a truncated stream is ended.
HeldEnd(k) ==
    /\ At(k, "heldend")
    /\ LET held == Top(k).held
           report == [Top(k) EXCEPT !.pc = "dispatchclose", !.then = "finish"]
       IN \/ held.closed /\ Continue(k, report)
          \/ /\ ~held.closed /\ held.truncated
             /\ Call(k, report, [CloseFrame(Top(k).cid, Top(k).serial) EXCEPT !.pc = "tcpclose"])
          \/ ~held.closed /\ ~held.truncated /\ GoTo(k, "finish")
    /\ UNCHANGED <<nextSerial, poolVars, openWait, routeVars, client, moduleVars, got, lapses>>

\* DispatchTcpClose takes the routes out under the lock, or holds the close.
DispatchTcpClose(x) ==
    /\ At(x, "dispatchclose")
    /\ LET c == Top(x).cid
           to == RoutesOf(c)
       IN /\ routes' = routes \ to
          /\ undelivered' = [undelivered EXCEPT
                                ![c] = IF to # {} THEN Nothing ELSE [@ EXCEPT !.closed = TRUE]]
          /\ lapses' = IF TakenByAnother(x) THEN lapses \cup {"foreign"} ELSE lapses
          /\ IF to # {} THEN Continue(x, [Top(x) EXCEPT !.pc = "callclose", !.to = to])
                        ELSE Resume(x)
    /\ UNCHANGED <<nextSerial, poolVars, openWait, nextSubscription, client, moduleVars, got>>

\* HalTcpClient::OnTcpClose for each route taken out.  On its own thread the user's
\* callback may connect again.
OnTcpClose(x) ==
    /\ At(x, "callclose")
    /\ \E r \in Top(x).to :
        LET rest == Top(x).to \ {r}
            f == [Top(x) EXCEPT !.to = rest, !.pc = IF rest = {} THEN Top(x).then ELSE @]
        IN /\ client' = Cleared(r.client)
           /\ lapses' = IF Stale(r) THEN lapses \cup {"stale"} ELSE lapses
           /\ \/ /\ IF f.pc = "none" THEN Return(x) ELSE Continue(x, f)
                 /\ UNCHANGED nextSerial
              \/ /\ x = r.client /\ nextSerial <= MaxConnects
                 /\ nextSerial' = nextSerial + 1
                 /\ Call(x, f, ConnectFrame)
    /\ UNCHANGED <<poolVars, openWait, routeVars, moduleVars, got>>

\* Mutant: the handle is assigned whatever the callbacks have done.
FinishAnyGeneration(k) ==
    /\ At(k, "finish")
    /\ client' = [client EXCEPT ![k] = [@ EXCEPT !.sub = Top(k).handle]]
    /\ Return(k)
    /\ UNCHANGED <<nextSerial, poolVars, openWait, routeVars, moduleVars, got, lapses>>

\* The end of HalTcpClient::Connect: a nested Connect has taken the object over
\* when the generation is not its own.
Finish(k) ==
    /\ At(k, "finish")
    /\ client' = IF client[k].gen = Top(k).gen
                 THEN [client EXCEPT ![k] = [@ EXCEPT !.sub = Top(k).handle]] ELSE client
    /\ Return(k)
    /\ UNCHANGED <<nextSerial, poolVars, openWait, routeVars, moduleVars, got, lapses>>

-----------------------------------------------------------------------------
(***************************************************************************)
(* Disconnecting.                                                          *)
(***************************************************************************)
\* HalTcpClient::Disconnect clears its fields first.
Disconnect(k) ==
    /\ stack[k] = <<>> /\ client[k].connected
    /\ client' = Cleared(k)
    /\ stack' = [stack EXCEPT ![k] = <<CloseFrame(client[k].cid, client[k].serial)>>]
    /\ UNCHANGED <<nextSerial, poolVars, openWait, routeVars, moduleVars, got, lapses>>

Unsubscribe(k) ==
    /\ At(k, "unsubscribe")
    /\ routes' = {r \in routes : r.handle # client[k].sub}
    /\ client' = [client EXCEPT ![k] = [@ EXCEPT !.sub = 0]]
    /\ GoTo(k, "tcpclose")
    /\ UNCHANGED <<nextSerial, poolVars, openWait, nextSubscription, undelivered, moduleVars,
                   got, lapses>>

\* CloseConnection of a cid that is not in use is a no-op.
CloseUnused(k) ==
    /\ At(k, "tcpclose") /\ ~slots[Top(k).cid].used
    /\ Return(k)
    /\ UNCHANGED <<nextSerial, poolVars, openWait, routeVars, client, moduleVars, got, lapses>>

\* CloseConnection: AT+MIPCLOSE, which may not reach the module; the cid is released
\* either way.
CloseConnection(k) ==
    /\ At(k, "tcpclose") /\ slots[Top(k).cid].used
    /\ EndSocket(Top(k).cid) \/ UNCHANGED <<sock, owed>>
    /\ GoTo(k, "release")
    /\ UNCHANGED <<nextSerial, poolVars, openWait, routeVars, client, wire, sent, got, lapses>>

-----------------------------------------------------------------------------
(***************************************************************************)
(* URC handlers on the receive task.                                       *)
(***************************************************************************)
OnLine(kinds) ==
    /\ stack[Task] = <<>> /\ wire # <<>>
    /\ Head(wire).kind \in kinds
    /\ wire' = Tail(wire)

\* +MIPOPEN: an outcome for another cid is ignored.
RecordOpenResult ==
    /\ OnLine({"opened", "refused"})
    /\ openWait' = IF openWait.id # Head(wire).cid THEN openWait
                   ELSE [openWait EXCEPT !.ok = (Head(wire).kind = "opened"), !.done = TRUE]
    /\ UNCHANGED <<stack, nextSerial, poolVars, routeVars, client, sock, owed, sent, got, lapses>>

\* +MIPURC: "rtcp" and +MIPRTCP, with DispatchTcpData up to the end of its critical
\* section.
DispatchTcpData ==
    /\ OnLine({"data"})
    /\ LET c == Head(wire).cid
           data == <<[serial |-> Head(wire).serial, n |-> Head(wire).n]>>
       IN \/ /\ \E r \in RoutesOf(c) :
                    stack' = [stack EXCEPT ![Task] = <<[Frame0 EXCEPT
                                 !.pc = "calldata", !.cid = c, !.to = {r},
                                 !.held = [Nothing EXCEPT !.data = data]]>>]
             /\ UNCHANGED undelivered
          \/ /\ RoutesOf(c) = {}
             /\ undelivered' = [undelivered EXCEPT ![c] = HoldLocked(@, data)]
             /\ UNCHANGED stack
    /\ UNCHANGED <<nextSerial, poolVars, openWait, routes, nextSubscription, client, sock, owed,
                   sent, got, lapses>>

\* +MIPURC: "disconn" and +MIPCLOSE release the cid, whoever has it, and report.
OnDisconn ==
    /\ OnLine({"disconn"})
    /\ stack' = [stack EXCEPT ![Task] = <<[Frame0 EXCEPT
                     !.pc = "release", !.then = "report", !.cid = Head(wire).cid,
                     !.serial = Head(wire).serial, !.own = Head(wire).own]>>]
    /\ UNCHANGED <<nextSerial, poolVars, openWait, routeVars, client, sock, owed, sent, got,
                   lapses>>

-----------------------------------------------------------------------------
(***************************************************************************)
(* The module and time.                                                    *)
(***************************************************************************)
Line(k, c, s, n, own) == [kind |-> k, cid |-> c, serial |-> s, n |-> n, own |-> own]

ModuleWrites(l) == Len(wire) < MaxWire /\ wire' = Append(wire, l)

moduleOnly == <<stack, nextSerial, poolVars, openWait, routeVars, client, got, lapses>>

\* The outcome of AT+MIPOPEN.
ModuleConnects(c, ok) ==
    /\ sock[c].st = "connecting"
    /\ sock' = [sock EXCEPT ![c] = IF ok THEN [@ EXCEPT !.st = "open"]
                                         ELSE [st |-> "none", serial |-> 0]]
    /\ ModuleWrites(Line(IF ok THEN "opened" ELSE "refused", c, sock[c].serial, 0, FALSE))
    /\ UNCHANGED <<owed, sent>> /\ UNCHANGED moduleOnly

\* Payload is numbered in the order it arrives in, over all sockets.
ModuleReceives(c) ==
    /\ sock[c].st = "open" /\ Len(sent) < MaxChunks
    /\ sent' = Append(sent, sock[c].serial)
    /\ ModuleWrites(Line("data", c, sock[c].serial, Len(sent) + 1, FALSE))
    /\ UNCHANGED <<sock, owed>> /\ UNCHANGED moduleOnly

ModulePeerCloses(c) ==
    /\ sock[c].st = "open"
    /\ sock' = [sock EXCEPT ![c] = [st |-> "none", serial |-> 0]]
    /\ ModuleWrites(Line("disconn", c, sock[c].serial, 0, FALSE))
    /\ UNCHANGED <<owed, sent>> /\ UNCHANGED moduleOnly

\* The announcement of a close the program asked for.
ModuleAnnounces ==
    /\ \E o \in owed :
        /\ owed' = owed \ {o}
        /\ ModuleWrites(Line("disconn", o.cid, o.serial, 0, TRUE))
    /\ UNCHANGED <<sock, sent>> /\ UNCHANGED moduleOnly

\* kCidQuarantine has passed since the oldest release.  It is taken to be as long as
\* ml307_hal.h means it to be: the previous occupant's teardown has been delivered.
Settle ==
    /\ quarantine # <<>>
    /\ LET c == Head(quarantine) IN ~Owes(c) /\ ~InWire(c, {"disconn"}) /\ ~TaskAt(c)
    /\ quarantine' = Tail(quarantine)
    /\ UNCHANGED <<stack, nextSerial, slots, openWait, routeVars, client, moduleVars, got, lapses>>

ThreadStep(k) ==
    \/ AllocateConnectionId(k) \/ NoConnectionId(k) \/ Taken(k)
    \/ EnsureSocketFree(k) \/ CidWasHeld(k) \/ OpenFails(k) \/ OpenOnId(k) \/ OpenBusy(k)
    \/ WaitForOpenResult(k) \/ Opened(k)
    \/ SubscribeTcp(k) \/ DispatchHeld(k) \/ HeldEnd(k) \/ Finish(k)
    \/ Unsubscribe(k) \/ CloseUnused(k) \/ CloseConnection(k)

CommonStep(x) ==
    Release(x) \/ Discard(x) \/ OnTcpData(x) \/ DispatchTcpClose(x) \/ OnTcpClose(x)

Handlers == RecordOpenResult \/ DispatchTcpData \/ OnDisconn

Module ==
    \/ \E c \in Cids : \/ \E ok \in BOOLEAN : ModuleConnects(c, ok)
                       \/ ModuleReceives(c) \/ ModulePeerCloses(c)
    \/ ModuleAnnounces

\* Nothing is left to do and the bound on connects is reached.
Quiet ==
    /\ nextSerial > MaxConnects /\ wire = <<>>
    /\ \A x \in Actors : stack[x] = <<>>
    /\ \A k \in Clients : ~client[k].connected
    /\ UNCHANGED vars

Next ==
    \/ \E k \in Clients : Connect(k) \/ Disconnect(k) \/ ThreadStep(k)
    \/ \E x \in Actors : CommonStep(x)
    \/ Handlers \/ Module \/ Settle \/ Quiet

Spec == Init /\ [][Next]_vars

-----------------------------------------------------------------------------
(***************************************************************************)
(* Properties.                                                             *)
(***************************************************************************)
Chunk == [serial : Nat, n : Nat]

Undelivered == [data : Seq(Chunk), truncated : BOOLEAN, closed : BOOLEAN]

Route == [handle : Nat \ {0}, cid : Cids, client : Clients, serial : Nat]

Frame == [pc : {"alloc", "taken", "ensure", "open", "wait", "opened", "subscribe", "helddata",
                "heldend", "finish", "calldata", "callclose", "dispatchclose", "unsubscribe",
                "tcpclose", "release", "discard"},
          then : {"none", "return", "retry", "report", "heldend", "finish"},
          cid : 0 .. NumCids, serial : Nat, gen : Nat, handle : Nat, held : Undelivered,
          to : SUBSET Route, own : BOOLEAN]

\* The values the state of the HAL, its clients and the module can take.
TypeOK ==
    /\ stack \in [Actors -> Seq(Frame)]
    /\ \A x \in Actors : \A i \in DOMAIN stack[x] :
           stack[x][i].pc # "alloc" => stack[x][i].cid \in Cids
    /\ nextSerial \in Nat \ {0}
    /\ slots \in [Cids -> [used : BOOLEAN, serial : Nat]]
    /\ quarantine \in Seq(Cids)
    /\ openWait \in [id : 0 .. NumCids, ok : BOOLEAN, done : BOOLEAN]
    /\ routes \subseteq Route
    /\ nextSubscription \in Nat \ {0}
    /\ undelivered \in [Cids -> Undelivered]
    /\ client \in [Clients -> [connected : BOOLEAN, cid : 0 .. NumCids, sub : Nat, gen : Nat,
                               serial : Nat]]
    /\ wire \in Seq([kind : {"opened", "refused", "data", "disconn"}, cid : Cids, serial : Nat,
                     n : Nat, own : BOOLEAN])
    /\ sock \in [Cids -> [st : {"none", "connecting", "open"}, serial : Nat]]
    /\ owed \subseteq [cid : Cids, serial : Nat]
    /\ sent \in Seq(Nat)
    /\ got \in [Clients -> Seq(Chunk)]
    /\ lapses \subseteq {"settling", "foreign", "stale"}

\* No call is under way, and the cid has not been mistaken: it was not taken while it
\* settled, no close of another socket released it or was reported on it, and no
\* handler of an earlier connection was called late.
AtRest == (\A x \in Actors : stack[x] = <<>>) /\ lapses = {}

\* A client that is connected has been handed what the module reported for its
\* socket, all of it, once, and nothing of another socket: although the route appears
\* only after the socket, the hold is bounded, cids are reused, the module volunteers
\* events for cids nobody has, and callbacks disconnect and reconnect.
StreamComplete ==
    AtRest => \A k \in Clients :
        LET s == client[k].serial
        IN client[k].connected /\ ~InWire(client[k].cid, {"data"}) =>
            /\ {got[k][i].n : i \in DOMAIN got[k]} = {n \in DOMAIN sent : sent[n] = s}
            /\ Len(got[k]) = Cardinality({n \in DOMAIN sent : sent[n] = s})

\* A client that says it is connected has its cid, the socket it opened, unless the
\* end of it is being announced, and a route it can withdraw.  Losing a close that
\* came before the route, or the handle of a nested Connect, would break it.
ConnectedIsLive ==
    AtRest => \A k \in Clients :
        LET c == client[k].cid
        IN client[k].connected =>
            /\ slots[c].used /\ slots[c].serial = client[k].serial
            /\ sock[c] = [st |-> "open", serial |-> client[k].serial] \/ InWire(c, {"disconn"})
            /\ \E r \in routes : r.handle = client[k].sub /\ r.cid = c /\ r.client = k

\* The innermost call of k has c, and will release it or hand it to its client.
Holds(k, c) ==
    /\ stack[k] # <<>>
    /\ Top(k).pc \in {"taken", "ensure", "open", "wait", "opened", "unsubscribe", "tcpclose",
                      "release"}
    /\ Top(k).cid = c /\ Top(k).serial = slots[c].serial

\* No path out of Connect, Disconnect and peer close keeps a cid for which there is
\* no connection: a cid in use belongs to a client that is connected on it or to a
\* call that is opening or closing it, and at rest to a client that is connected.
UsedCidHasOwner ==
    lapses = {} => \A c \in Cids : slots[c].used =>
        \E k \in Clients : \/ Holds(k, c)
                           \/ /\ client[k].connected /\ client[k].cid = c
                              /\ client[k].serial = slots[c].serial

-----------------------------------------------------------------------------
(***************************************************************************)
(* What comments of the code promise and the code does not keep: TLC finds *)
(* a counterexample to each of these.                                      *)
(***************************************************************************)
\* SubscribeTcp ("data-then-close, the order the module produced it in"): a client is
\* handed its chunks in the order in which they arrived.
BytesInOrder ==
    lapses = {} => \A k \in Clients : \A i, j \in DOMAIN got[k] :
        i < j => got[k][i].n < got[k][j].n

\* Disconnect ("Withdrawn before the close so the URC the close provokes arrives with
\* nobody listening"): the announcement of a close that the client asked for is not
\* delivered to the route of the connection it closed.
OwnCloseIsQuiet ==
    At(Task, "callclose") /\ Top(Task).own =>
        \A r \in Top(Task).to : r.serial # Top(Task).serial
=============================================================================
