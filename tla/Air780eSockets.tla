--------------------------- MODULE Air780eSockets ---------------------------
(***************************************************************************)
(* The sockets of the Air780E HAL (src/modules/air780e/air780e_hal.cpp):   *)
(* the pool of cids, the module-wide TLS switch and its reservations, the  *)
(* rendezvous of AT+CIPSTART and AT+CIPCLOSE with the event lines that     *)
(* answer them, and the reader task that fetches payload and finishes a    *)
(* socket whose peer has closed.                                           *)
(*                                                                         *)
(* Three kinds of process share this state: application threads, the       *)
(* reader (ReceiveLoop), and the handlers that run on the AT receive task. *)
(* Every critical section of pool_mutex_, rx_mutex_, ssl_mutex_,           *)
(* open_mutex_ and event_mutex_ that a thread or the reader enters is a    *)
(* step, as is every AT command.                                           *)
(*                                                                         *)
(* An event line names a cid only.  The serial a line carries here is the  *)
(* socket the module wrote it about, for the properties to compare with    *)
(* the socket the HAL took it for.  UDP differs from TCP in the dispatch   *)
(* of a chunk alone (a datagram without a sender ends the pass) and is not *)
(* told apart.                                                             *)
(***************************************************************************)
EXTENDS Naturals, Sequences, FiniteSets

CONSTANTS
    Threads,     \* application threads
    Reader,      \* the air780e_rx task
    NumCids,     \* kMaxConnections
    Budget,      \* chunks per wake, kMaxDrainPerWake / kReadChunk
    MaxOpens,    \* bound: no socket is asked for once so many were allocated
    MaxData,     \* bound: chunks the peers send
    MaxWire,     \* bound: lines on their way to the receive task
    Kinds        \* modes the application opens sockets in

ASSUME ActorsAssumption == IsFiniteSet(Threads) /\ Reader \notin Threads

ASSUME NumCidsAssumption == NumCids \in Nat \ {0}

ASSUME BoundsAssumption ==
    /\ Budget \in Nat \ {0}
    /\ MaxOpens \in Nat
    /\ MaxData \in Nat
    /\ MaxWire \in Nat

Modes == {"plain", "ssl"}

ASSUME KindsAssumption == Kinds \subseteq Modes

Other(m) == IF m = "ssl" THEN "plain" ELSE "ssl"

Actors == Threads \cup {Reader}

Cids == 0 .. NumCids - 1

FreeSlot == [used |-> FALSE, holds |-> FALSE, mode |-> "plain", serial |-> 0]

NoClose == [serial |-> 0, about |-> 0]

NoWait == [id |-> NumCids, outcome |-> "failed", done |-> FALSE, about |-> 0]

NoNote == [cid |-> 0, serial |-> 0, about |-> 0]

Local0 == [cid |-> 0, mode |-> "plain", serial |-> 0, tried |-> {}, why |-> "none",
           owned |-> FALSE, about |-> 0]

VARIABLES
    pc,            \* where each actor is
    at,            \* its local variables
    slots,         \* slots_
    nextSerial,    \* next_serial_
    open,          \* plain_sockets_open_ and ssl_sockets_open_
    switching,     \* ssl_switch_in_progress_
    cipssl,        \* the module's AT+CIPSSL switch
    openWait,      \* open_wait_; its id is NumCids for -1
    closePending,  \* close_pending_id_, NumCids for -1
    rxPending,     \* rx_pending_
    rxClose,       \* rx_close_serial_
    batch,         \* the reader's cids of this pass
    drained,       \* chunks read in this pass of DrainOneCid
    note,          \* NotePeerClosed between its two critical sections
    wire,          \* lines written by the module
    sock,          \* the module's sockets
    sent,          \* chunks the peers have sent
    handles,       \* sockets the application holds
    marks          \* history: what befell the socket a cid has now

actorVars == <<pc, at>>
poolVars == <<slots, nextSerial>>
modeVars == <<open, switching, cipssl>>
waitVars == <<openWait, closePending>>
rxVars == <<rxPending, rxClose>>
readerVars == <<batch, drained>>
moduleVars == <<wire, sock, sent>>
vars == <<actorVars, poolVars, modeVars, waitVars, rxVars, readerVars, note,
          moduleVars, handles, marks>>

Init ==
    /\ pc = [x \in Actors |-> IF x = Reader THEN "rest" ELSE "idle"]
    /\ at = [x \in Actors |-> Local0]
    /\ slots = [c \in Cids |-> FreeSlot]
    /\ nextSerial = 1
    /\ open = [m \in Modes |-> 0]
    /\ switching = FALSE
    /\ cipssl = "plain"
    /\ openWait = NoWait
    /\ closePending = NumCids
    /\ rxPending = [c \in Cids |-> FALSE]
    /\ rxClose = [c \in Cids |-> NoClose]
    /\ batch = {}
    /\ drained = 0
    /\ note = NoNote
    /\ wire = <<>>
    /\ sock = [c \in Cids |-> [st |-> "closed", serial |-> 0, data |-> 0]]
    /\ sent = 0
    /\ handles = {}
    /\ marks = [c \in Cids |-> {}]

\* Actor x goes on at l with local variables loc; none outlive the call.
Go(x, l, loc) ==
    /\ pc' = [pc EXCEPT ![x] = l]
    /\ at' = [at EXCEPT ![x] = IF l \in {"idle", "rest"} THEN Local0 ELSE loc]

GoTo(x, l) == Go(x, l, at[x])

\* The socket that the module has on a cid changes its state and what is buffered.
SetSock(c, st, d) ==
    sock' = [sock EXCEPT ![c] = [st |-> st, serial |-> sock[c].serial, data |-> d]]

Line(k, c, s) == [kind |-> k, cid |-> c, serial |-> s]

-----------------------------------------------------------------------------
(***************************************************************************)
(* Opening a socket.                                                       *)
(***************************************************************************)
OpenSocket(t, m) ==
    /\ pc[t] = "idle"
    /\ nextSerial <= MaxOpens
    /\ Go(t, "reserve", [Local0 EXCEPT !.mode = m])
    /\ UNCHANGED <<poolVars, modeVars, waitVars, rxVars, readerVars, note,
                   moduleVars, handles, marks>>

\* Mutant: an opener does not wait for the switch that is under way.
ReserveDuringSwitch(t) ==
    /\ pc[t] = "reserve"
    /\ LET m == at[t].mode IN
       \/ /\ open[Other(m)] = 0 /\ open[m] > 0
          /\ open' = [open EXCEPT ![m] = @ + 1]
          /\ GoTo(t, "alloc")
          /\ UNCHANGED switching
       \/ /\ open[Other(m)] = 0 /\ open[m] = 0
          /\ switching' = TRUE
          /\ GoTo(t, "switch")
          /\ UNCHANGED open
    /\ UNCHANGED <<poolVars, cipssl, waitVars, rxVars, readerVars, note,
                   moduleVars, handles, marks>>

\* Mutant: a socket that finds the switch in its mode is not counted.
ReserveUncounted(t) ==
    /\ pc[t] = "reserve"
    /\ ~switching
    /\ LET m == at[t].mode IN
       /\ open[Other(m)] = 0
       /\ switching' = (open[m] = 0)
       /\ GoTo(t, IF open[m] > 0 THEN "alloc" ELSE "switch")
    /\ UNCHANGED <<poolVars, open, cipssl, waitVars, rxVars, readerVars, note,
                   moduleVars, handles, marks>>

\* ReserveSocketForMode up to the point where ssl_mutex_ is dropped.
Reserve(t) ==
    /\ pc[t] = "reserve"
    /\ ~switching
    /\ LET m == at[t].mode IN
       \/ /\ open[Other(m)] > 0
          /\ GoTo(t, "idle")
          /\ UNCHANGED <<open, switching>>
       \/ /\ open[Other(m)] = 0 /\ open[m] > 0
          /\ open' = [open EXCEPT ![m] = @ + 1]
          /\ GoTo(t, "alloc")
          /\ UNCHANGED switching
       \/ /\ open[Other(m)] = 0 /\ open[m] = 0
          /\ switching' = TRUE
          /\ GoTo(t, "switch")
          /\ UNCHANGED open
    /\ UNCHANGED <<poolVars, cipssl, waitVars, rxVars, readerVars, note,
                   moduleVars, handles, marks>>

\* ApplySslSwitch, with no mutex held.  It succeeds when the switch reads back as
\* set; when it fails the module may have moved it or not.
ApplySslSwitch(t) ==
    /\ pc[t] = "switch"
    /\ \/ cipssl' = at[t].mode /\ GoTo(t, "switched")
       \/ cipssl' \in {cipssl, at[t].mode} /\ GoTo(t, "switchfailed")
    /\ UNCHANGED <<poolVars, open, switching, waitVars, rxVars, readerVars,
                   note, moduleVars, handles, marks>>

\* Mutant: a switch that failed returns before the flag is taken back.
SwitchFailedLeavesFlag(t) ==
    /\ pc[t] \in {"switched", "switchfailed"}
    /\ IF pc[t] = "switched"
       THEN /\ open' = [open EXCEPT ![at[t].mode] = @ + 1] /\ GoTo(t, "alloc")
            /\ switching' = FALSE
       ELSE UNCHANGED <<open, switching>> /\ GoTo(t, "idle")
    /\ UNCHANGED <<poolVars, cipssl, waitVars, rxVars, readerVars, note,
                   moduleVars, handles, marks>>

\* The end of ReserveSocketForMode.
SwitchDone(t) ==
    /\ pc[t] \in {"switched", "switchfailed"}
    /\ switching' = FALSE
    /\ IF pc[t] = "switched"
       THEN open' = [open EXCEPT ![at[t].mode] = @ + 1] /\ GoTo(t, "alloc")
       ELSE UNCHANGED open /\ GoTo(t, "idle")
    /\ UNCHANGED <<poolVars, cipssl, waitVars, rxVars, readerVars, note,
                   moduleVars, handles, marks>>

Candidates(tried) == {c \in Cids : ~slots[c].used /\ c \notin tried}

\* The lowest cid that is not used and was not tried.
AllocateConnectionId(t) ==
    /\ pc[t] = "alloc"
    /\ Candidates(at[t].tried) # {}
    /\ LET c == CHOOSE i \in Candidates(at[t].tried) :
                    \A j \in Candidates(at[t].tried) : i <= j
       IN  /\ slots' = [slots EXCEPT ![c] = [FreeSlot EXCEPT !.used = TRUE,
                                                             !.serial = nextSerial]]
           /\ Go(t, "start", [at[t] EXCEPT !.cid = c, !.serial = nextSerial])
    /\ nextSerial' = nextSerial + 1
    /\ UNCHANGED <<modeVars, waitVars, rxVars, readerVars, note, moduleVars,
                   handles, marks>>

\* No cid is left: kNoResources.
NoConnectionId(t) ==
    /\ pc[t] = "alloc"
    /\ Candidates(at[t].tried) = {}
    /\ Go(t, "unreserve", [at[t] EXCEPT !.why = "failed"])
    /\ UNCHANGED <<poolVars, modeVars, waitVars, rxVars, readerVars, note,
                   moduleVars, handles, marks>>

Armed(c) == [NoWait EXCEPT !.id = c]

\* ArmOpenWait and AT+CIPSTART.  The module refuses a cid it still holds.
Start(t) ==
    /\ pc[t] = "start"
    /\ Len(wire) < MaxWire
    /\ LET c == at[t].cid
           s == at[t].serial
       IN  /\ openWait' = Armed(c)
           /\ IF sock[c].st \in {"closed", "gone"}
              THEN /\ sock' = [sock EXCEPT ![c] = [st |-> "connecting", serial |-> s,
                                                   data |-> 0]]
                   /\ UNCHANGED wire
              ELSE /\ wire' = Append(wire, Line("already", c, s))
                   /\ UNCHANGED sock
    /\ GoTo(t, "wait")
    /\ UNCHANGED <<poolVars, modeVars, closePending, rxVars,
                   readerVars, note, sent, handles, marks>>

\* SendLine failed: the slot is retired and the reservation given back.
StartFails(t) ==
    /\ pc[t] = "start"
    /\ openWait' = Armed(at[t].cid)
    /\ Go(t, "retire", [at[t] EXCEPT !.why = "failed"])
    /\ UNCHANGED <<poolVars, modeVars, closePending, rxVars, readerVars,
                   note, moduleVars, handles, marks>>

\* WaitForOpenResult: the predicate looks at done and not at the id.
Opened(t) ==
    /\ pc[t] = "wait"
    /\ openWait.done
    /\ openWait' = NoWait
    /\ CASE openWait.outcome = "connected" ->
              Go(t, "hold", [at[t] EXCEPT !.about = openWait.about])
         [] openWait.outcome = "already" ->
              Go(t, "retire", [at[t] EXCEPT !.why = "already", !.tried = @ \cup {at[t].cid}])
         [] openWait.outcome = "failed" ->
              Go(t, "retire", [at[t] EXCEPT !.why = "failed"])
    /\ UNCHANGED <<poolVars, modeVars, closePending, rxVars, readerVars,
                   note, moduleVars, handles, marks>>

OpenTimeout(t) ==
    /\ pc[t] = "wait"
    /\ ~openWait.done
    /\ openWait' = NoWait
    /\ Go(t, "retire", [at[t] EXCEPT !.why = "failed"])
    /\ UNCHANGED <<poolVars, modeVars, closePending, rxVars, readerVars,
                   note, moduleVars, handles, marks>>

\* Mutant: the slot is not told the mode it was opened in.
HoldWithoutMode(t) ==
    /\ pc[t] = "hold"
    /\ LET c == at[t].cid
       IN  /\ slots' = [slots EXCEPT ![c] = [@ EXCEPT !.holds = TRUE]]
           /\ handles' = handles \cup {[cid |-> c, serial |-> at[t].serial]}
    /\ GoTo(t, "idle")
    /\ UNCHANGED <<nextSerial, modeVars, waitVars, rxVars, readerVars, note,
                   moduleVars, marks>>

\* The reservation passes to the slot and the socket to the caller.
Hold(t) ==
    /\ pc[t] = "hold"
    /\ LET c == at[t].cid
           m == at[t].mode
       IN  /\ slots' = [slots EXCEPT ![c] = [@ EXCEPT !.mode = m, !.holds = TRUE]]
           /\ handles' = handles \cup {[cid |-> c, serial |-> at[t].serial]}
    /\ GoTo(t, "idle")
    /\ UNCHANGED <<nextSerial, modeVars, waitVars, rxVars, readerVars, note,
                   moduleVars, marks>>

-----------------------------------------------------------------------------
(***************************************************************************)
(* Retiring a slot, on behalf of a failed open, of CloseConnection or of   *)
(* the reader's FinishClosedCid: at[x].why says which.  An open that       *)
(* failed gives its own reservation back, the other two the one that the   *)
(* slot held, if it held any.                                              *)
(***************************************************************************)
\* Mutant: FinishClosedCid returns without dispatching the close.
AfterReleaseReturns(x) == IF at[x].why = "close" THEN "closewait" ELSE "idle"

AfterRelease(x) ==
    CASE at[x].why = "close" -> "closewait"
      [] at[x].why = "finish" -> "report"
      [] OTHER -> "idle"

AfterRetire(x, owned) ==
    CASE at[x].why = "failed" -> "unreserve"
      [] at[x].why = "already" ->
           IF Cardinality(at[x].tried) < NumCids THEN "alloc" ELSE "unreserve"
      [] OTHER -> IF owned THEN "unreserve" ELSE AfterRelease(x)

IsOpening(x) == at[x].why \in {"none", "failed", "already"}

\* RetireSlot under pool_mutex_; at[x].serial becomes the socket that it ended.
RetirePool(x) ==
    /\ pc[x] = "retire"
    /\ LET c == at[x].cid
       IN  IF ~slots[c].used
           THEN /\ GoTo(x, AfterRetire(x, FALSE))
                /\ UNCHANGED <<slots, marks>>
           ELSE /\ slots' = [slots EXCEPT ![c] = FreeSlot]
                /\ Go(x, "retirerx",
                      [at[x] EXCEPT !.owned = slots[c].holds,
                                    !.serial = slots[c].serial,
                                    !.mode = IF IsOpening(x) THEN @ ELSE slots[c].mode])
                /\ marks' = [marks EXCEPT ![c] = {}]
    /\ UNCHANGED <<nextSerial, modeVars, waitVars, rxVars, readerVars, note,
                   moduleVars, handles>>

Mark(c, what) == marks' = [marks EXCEPT ![c] = IF slots[c].used THEN @ \cup {what} ELSE @]

\* RetireSlot under rx_mutex_.  The cid may have a new occupant by now.
RetireRx(x) ==
    /\ pc[x] = "retirerx"
    /\ LET c == at[x].cid
       IN  /\ rxPending' = [rxPending EXCEPT ![c] = FALSE]
           /\ rxClose' = [rxClose EXCEPT ![c] = NoClose]
           /\ IF rxPending[c] \/ rxClose[c] # NoClose
              THEN Mark(c, "wiped") ELSE UNCHANGED marks
    /\ GoTo(x, AfterRetire(x, at[x].owned))
    /\ UNCHANGED <<poolVars, modeVars, waitVars, readerVars, note, moduleVars,
                   handles>>

\* ReleaseSocketForMode.
Unreserve(x) ==
    /\ pc[x] = "unreserve"
    /\ open' = [open EXCEPT ![at[x].mode] = IF @ > 0 THEN @ - 1 ELSE 0]
    /\ GoTo(x, AfterRelease(x))
    /\ UNCHANGED <<poolVars, switching, cipssl, waitVars, rxVars, readerVars,
                   note, moduleVars, handles, marks>>

-----------------------------------------------------------------------------
(***************************************************************************)
(* Closing a socket.                                                       *)
(***************************************************************************)

\* The application gives a socket up; a cid that is not used is not closed.
CloseConnection(t, h) ==
    /\ pc[t] = "idle"
    /\ h \in handles
    /\ handles' = handles \ {h}
    /\ IF slots[h.cid].used
       THEN Go(t, "closearm", [Local0 EXCEPT !.cid = h.cid, !.why = "close"])
       ELSE UNCHANGED actorVars
    /\ UNCHANGED <<poolVars, modeVars, waitVars, rxVars, readerVars, note,
                   moduleVars, marks>>

CloseArm(t) ==
    /\ pc[t] = "closearm"
    /\ closePending' = at[t].cid
    /\ GoTo(t, "closesend")
    /\ UNCHANGED <<poolVars, modeVars, openWait, rxVars, readerVars, note,
                   moduleVars, handles, marks>>

\* AT+CIPCLOSE.  The module confirms with CLOSE OK a socket it has, and drops its
\* buffer; for any other cid it answers an error, which is no event.
CloseSend(t) ==
    /\ pc[t] = "closesend"
    /\ Len(wire) < MaxWire
    /\ LET c == at[t].cid
       IN  /\ SetSock(c, "closed", 0)
           /\ wire' = IF sock[c].st \in {"closed", "gone"} THEN wire
                      ELSE Append(wire, Line("closeok", c, sock[c].serial))
    /\ GoTo(t, "retire")
    /\ UNCHANGED <<poolVars, modeVars, waitVars, rxVars, readerVars, note,
                   sent, handles, marks>>

\* SendLine failed.  The cid is released all the same, and nobody takes
\* close_pending_id_ back.
CloseSendFails(t) ==
    /\ pc[t] = "closesend"
    /\ Go(t, "retire", [at[t] EXCEPT !.why = "closefailed"])
    /\ UNCHANGED <<poolVars, modeVars, waitVars, rxVars, readerVars, note,
                   moduleVars, handles, marks>>

\* The wait ends with CLOSE OK or with its timeout, and the call succeeds either
\* way: close_ok_ decides how long it takes and nothing else.
CloseWait(t) ==
    /\ pc[t] = "closewait"
    /\ closePending' = NumCids
    /\ GoTo(t, "idle")
    /\ UNCHANGED <<poolVars, modeVars, openWait, rxVars, readerVars,
                   note, moduleVars, handles, marks>>

-----------------------------------------------------------------------------
(***************************************************************************)
(* The reader task: ReceiveLoop, DrainOneCid and FinishClosedCid.          *)
(***************************************************************************)
ReaderTo(l) == GoTo(Reader, l)

Cid == at[Reader].cid

\* The flags are taken and cleared before anything is read.
TakePending ==
    /\ pc[Reader] = "rest"
    /\ batch = {}
    /\ \E c \in Cids : rxPending[c]
    /\ batch' = {c \in Cids : rxPending[c]}
    /\ rxPending' = [c \in Cids |-> FALSE]
    /\ UNCHANGED <<actorVars, poolVars, modeVars, waitVars, rxClose, drained,
                   note, moduleVars, handles, marks>>

\* The next cid of the pass, in order.
NextCid ==
    /\ pc[Reader] = "rest"
    /\ batch # {}
    /\ LET c == CHOOSE i \in batch : \A j \in batch : i <= j
       IN  /\ Go(Reader, "check", [Local0 EXCEPT !.cid = c, !.why = "finish"])
           /\ batch' = batch \ {c}
    /\ drained' = 0
    /\ UNCHANGED <<poolVars, modeVars, waitVars, rxVars, note, moduleVars,
                   handles, marks>>

\* IsConnectionUsed, at the head of every round.
CheckUsed ==
    /\ pc[Reader] = "check"
    /\ ReaderTo(IF slots[Cid].used THEN "read" ELSE "forget")
    /\ UNCHANGED <<poolVars, modeVars, waitVars, rxVars, readerVars, note,
                   moduleVars, handles, marks>>

\* The cid was not in use a moment ago: the close recorded for it is dropped.
ForgetClose ==
    /\ pc[Reader] = "forget"
    /\ rxClose' = [rxClose EXCEPT ![Cid] = NoClose]
    /\ IF rxClose[Cid] = NoClose THEN UNCHANGED marks ELSE Mark(Cid, "wiped")
    /\ ReaderTo("rest")
    /\ UNCHANGED <<poolVars, modeVars, waitVars, rxPending, readerVars, note,
                   moduleVars, handles>>

\* AT+CIPRXGET=3.  The reply is behind every line the module wrote before it, so
\* the handlers have seen those.  Length 0 and the error of a closed cid both end
\* the pass.
Read ==
    /\ pc[Reader] = "read"
    /\ wire = <<>> /\ note = NoNote
    /\ IF sock[Cid].data > 0
       THEN /\ SetSock(Cid, sock[Cid].st, sock[Cid].data - 1)
            /\ ReaderTo("dispatch")
       ELSE ReaderTo("finish") /\ UNCHANGED sock
    /\ UNCHANGED <<poolVars, modeVars, waitVars, rxVars, batch, drained, note,
                   wire, sent, handles, marks>>

\* The command failed or timed out, or the lines GetResponseLines returned were
\* those of another thread's command: the pass ends as if there were no data.
ReadFails ==
    /\ pc[Reader] = "read"
    /\ Mark(Cid, "unread")
    /\ ReaderTo("finish")
    /\ UNCHANGED <<poolVars, modeVars, waitVars, rxVars, readerVars, note,
                   moduleVars, handles>>

\* DispatchTcpData finds the route by cid; then the next round, or the end of the
\* pass when its budget is used up.
Dispatch ==
    /\ pc[Reader] = "dispatch"
    /\ drained' = IF drained + 1 < Budget THEN drained + 1 ELSE 0
    /\ ReaderTo(IF drained + 1 < Budget THEN "check" ELSE "rearm")
    /\ UNCHANGED <<poolVars, modeVars, waitVars, rxVars, batch, note, moduleVars,
                   handles, marks>>

\* Mutant: the pass ends without putting the flag back.
RearmForgotten ==
    /\ pc[Reader] = "rearm"
    /\ ReaderTo("rest")
    /\ UNCHANGED <<poolVars, modeVars, waitVars, rxVars, readerVars, note,
                   moduleVars, handles, marks>>

Rearm ==
    /\ pc[Reader] = "rearm"
    /\ rxPending' = [rxPending EXCEPT ![Cid] = TRUE]
    /\ ReaderTo("rest")
    /\ UNCHANGED <<poolVars, modeVars, waitVars, rxClose, readerVars, note,
                   moduleVars, handles, marks>>

\* FinishClosedCid under rx_mutex_.
FinishClosedCid ==
    /\ pc[Reader] = "finish"
    /\ rxClose' = [rxClose EXCEPT ![Cid] = NoClose]
    /\ Go(Reader, IF rxClose[Cid] = NoClose THEN "rest" ELSE "owns",
          [at[Reader] EXCEPT !.serial = rxClose[Cid].serial,
                             !.about = rxClose[Cid].about])
    /\ UNCHANGED <<poolVars, modeVars, waitVars, rxPending, readerVars, note,
                   moduleVars, handles, marks>>

\* OwnsSerial; then ReleaseConnectionId in steps of its own.
OwnsSerial ==
    /\ pc[Reader] = "owns"
    /\ LET mine == slots[Cid].used /\ slots[Cid].serial = at[Reader].serial
       IN  ReaderTo(IF mine THEN "retire" ELSE "rest")
    /\ UNCHANGED <<poolVars, modeVars, waitVars, rxVars, readerVars, note,
                   moduleVars, handles, marks>>

\* DispatchTcpClose: whoever holds the cid loses it.
Report ==
    /\ pc[Reader] = "report"
    /\ handles' = {h \in handles : h.cid # Cid}
    /\ ReaderTo("rest")
    /\ UNCHANGED <<poolVars, modeVars, waitVars, rxVars, readerVars, note,
                   moduleVars, marks>>

-----------------------------------------------------------------------------
(***************************************************************************)
(* The handlers on the AT receive task.  A line is handled in one step but *)
(* for the two critical sections of NotePeerClosed.                        *)
(***************************************************************************)
OnLine(kinds) ==
    /\ note = NoNote
    /\ wire # <<>>
    /\ Head(wire).kind \in kinds
    /\ wire' = Tail(wire)
    /\ UNCHANGED <<actorVars, poolVars, modeVars, readerVars, sock, sent, handles>>

\* +CIPRXGET: 1,<id>
OnCiprxgetUrc ==
    /\ OnLine({"arrival"})
    /\ rxPending' = [rxPending EXCEPT ![Head(wire).cid] = TRUE]
    /\ UNCHANGED <<waitVars, rxClose, note, marks>>

\* CONNECT OK, CONNECT FAIL and ALREADY CONNECT.
RecordOpenResult ==
    /\ OnLine({"connected", "failed", "already"})
    /\ openWait' = IF openWait.id # Head(wire).cid THEN openWait
                   ELSE [openWait EXCEPT !.outcome = Head(wire).kind, !.done = TRUE,
                                         !.about = Head(wire).serial]
    /\ UNCHANGED <<closePending, rxVars, note, marks>>

\* NotePeerClosed reads the serial under pool_mutex_ ...
NoteSerial(l) ==
    note' = IF slots[l.cid].used
            THEN [cid |-> l.cid, serial |-> slots[l.cid].serial, about |-> l.serial]
            ELSE NoNote

\* CLOSE OK: the answer to a close that is pending on the cid, or else the news
\* that the peer is gone.
OnCloseOk ==
    /\ OnLine({"closeok", "peercloseok"})
    /\ IF closePending = Head(wire).cid
       THEN UNCHANGED note
       ELSE NoteSerial(Head(wire))
    /\ IF /\ Head(wire).kind = "peercloseok" /\ closePending = Head(wire).cid
          /\ slots[Head(wire).cid].serial = Head(wire).serial
       THEN Mark(Head(wire).cid, "swallowed")
       ELSE UNCHANGED marks
    /\ UNCHANGED <<openWait, closePending, rxVars>>

OnClosed ==
    /\ OnLine({"closed"})
    /\ NoteSerial(Head(wire))
    /\ UNCHANGED <<waitVars, rxVars, marks>>

\* Mutant: the close is recorded but the reader is not woken.
NotePeerClosedQuietly ==
    /\ note # NoNote
    /\ rxClose' = [rxClose EXCEPT ![note.cid] = [serial |-> note.serial,
                                                 about |-> note.about]]
    /\ note' = NoNote
    /\ UNCHANGED <<actorVars, poolVars, modeVars, waitVars, rxPending, readerVars,
                   moduleVars, handles, marks>>

\* ... and records it under rx_mutex_.
NotePeerClosed ==
    /\ note # NoNote
    /\ rxClose' = [rxClose EXCEPT ![note.cid] = [serial |-> note.serial,
                                                 about |-> note.about]]
    /\ rxPending' = [rxPending EXCEPT ![note.cid] = TRUE]
    /\ note' = NoNote
    /\ UNCHANGED <<actorVars, poolVars, modeVars, waitVars, readerVars, moduleVars,
                   handles, marks>>

-----------------------------------------------------------------------------
(***************************************************************************)
(* The module and the peers behind it.                                     *)
(***************************************************************************)
ModuleWrites(l) ==
    /\ Len(wire) < MaxWire
    /\ wire' = Append(wire, l)
    /\ UNCHANGED <<actorVars, poolVars, modeVars, waitVars, rxVars, readerVars, note,
                   handles, marks>>

\* A connect has its outcome; it may never come.
ModuleConnects(c, ok) ==
    /\ sock[c].st = "connecting"
    /\ SetSock(c, IF ok THEN "open" ELSE "closed", 0)
    /\ ModuleWrites(Line(IF ok THEN "connected" ELSE "failed", c, sock[c].serial))
    /\ UNCHANGED sent

\* A chunk arrives.  The arrival is announced once.
ModuleReceives(c) ==
    /\ sock[c].st = "open"
    /\ sent < MaxData
    /\ sent' = sent + 1
    /\ SetSock(c, "open", sock[c].data + 1)
    /\ ModuleWrites(Line("arrival", c, sock[c].serial))

\* The peer closes.  The module says CLOSED, and what is buffered can still be
\* read, or says CLOSE OK, and the buffer is gone.
ModulePeerCloses(c, kept) ==
    /\ sock[c].st = "open"
    /\ SetSock(c, "gone", IF kept THEN sock[c].data ELSE 0)
    /\ ModuleWrites(Line(IF kept THEN "closed" ELSE "peercloseok", c, sock[c].serial))
    /\ UNCHANGED sent

-----------------------------------------------------------------------------
OpenStep(t) ==
    \/ Reserve(t) \/ ApplySslSwitch(t) \/ SwitchDone(t)
    \/ AllocateConnectionId(t) \/ NoConnectionId(t) \/ Start(t) \/ StartFails(t)
    \/ Opened(t) \/ OpenTimeout(t) \/ Hold(t)

RetireStep(x) == RetirePool(x) \/ RetireRx(x) \/ Unreserve(x)

CloseStep(t) == CloseArm(t) \/ CloseSend(t) \/ CloseSendFails(t) \/ CloseWait(t)

Application ==
    \E t \in Threads :
        \/ \E m \in Kinds : OpenSocket(t, m)
        \/ \E h \in handles : CloseConnection(t, h)
        \/ OpenStep(t) \/ RetireStep(t) \/ CloseStep(t)

ReadStep ==
    \/ TakePending \/ NextCid \/ CheckUsed \/ ForgetClose \/ Read \/ ReadFails
    \/ Dispatch \/ Rearm \/ FinishClosedCid \/ OwnsSerial \/ Report

ReaderStep == ReadStep \/ RetireStep(Reader)

Handlers ==
    \/ OnCiprxgetUrc \/ RecordOpenResult \/ OnCloseOk \/ OnClosed \/ NotePeerClosed

Module ==
    \E c \in Cids :
        \/ \E b \in BOOLEAN : ModuleConnects(c, b) \/ ModulePeerCloses(c, b)
        \/ ModuleReceives(c)

\* Nothing is left to do and the bound on sockets is reached.
Quiet ==
    /\ nextSerial > MaxOpens
    /\ handles = {}
    /\ \A t \in Threads : pc[t] = "idle"
    /\ pc[Reader] = "rest" /\ batch = {}
    /\ \A c \in Cids : ~rxPending[c]
    /\ wire = <<>> /\ note = NoNote
    /\ UNCHANGED vars

Next == Application \/ ReaderStep \/ Handlers \/ Module \/ Quiet

Spec == Init /\ [][Next]_vars

\* Threads, the reader and the receive task keep running; the module owes nothing.
FairSpec ==
    /\ Spec
    /\ \A t \in Threads :
           WF_vars(OpenStep(t) \/ RetireStep(t) \/ CloseStep(t))
    /\ WF_vars(ReaderStep)
    /\ WF_vars(Handlers)

-----------------------------------------------------------------------------
(***************************************************************************)
(* Properties.                                                             *)
(***************************************************************************)
RetirePcs == {"retire", "retirerx", "unreserve"}

ThreadPcs == {"idle", "reserve", "switch", "switched", "switchfailed", "alloc", "start",
              "wait", "hold", "closearm", "closesend", "closewait"} \cup RetirePcs

ReaderPcs == {"rest", "check", "forget", "read", "dispatch", "rearm", "finish", "owns",
              "report"} \cup RetirePcs

Local == [cid : Cids, mode : Modes, serial : Nat, tried : SUBSET Cids,
          why : {"none", "failed", "already", "close", "closefailed", "finish"},
          owned : BOOLEAN, about : Nat]

SockState == {"closed", "connecting", "open", "gone"}

LineKinds == {"arrival", "connected", "failed", "already", "closeok", "peercloseok",
              "closed"}

\* A thread is never at a step of the reader, nor the reader at one of a thread.
ActorsOK ==
    /\ pc \in [Actors -> ThreadPcs \cup ReaderPcs]
    /\ at \in [Actors -> Local]
    /\ pc[Reader] \in ReaderPcs
    /\ pc[Reader] # "rest" => at[Reader].why = "finish"
    /\ \A t \in Threads : pc[t] \in ThreadPcs /\ at[t].why # "finish"

PoolOK ==
    /\ slots \in [Cids -> [used : BOOLEAN, holds : BOOLEAN, mode : Modes, serial : Nat]]
    /\ nextSerial \in Nat \ {0}

ModesOK ==
    /\ open \in [Modes -> Nat]
    /\ switching \in BOOLEAN
    /\ cipssl \in Modes

WaitsOK ==
    /\ openWait \in [id : 0 .. NumCids, outcome : {"connected", "failed", "already"},
                     done : BOOLEAN, about : Nat]
    /\ closePending \in 0 .. NumCids

RxOK ==
    /\ rxPending \in [Cids -> BOOLEAN]
    /\ rxClose \in [Cids -> [serial : Nat, about : Nat]]

ReaderOK ==
    /\ batch \subseteq Cids
    /\ drained \in Nat

NoteOK == note \in [cid : Cids, serial : Nat, about : Nat]

ModuleOK ==
    /\ wire \in Seq([kind : LineKinds, cid : Cids, serial : Nat])
    /\ sock \in [Cids -> [st : SockState, serial : Nat, data : Nat]]
    /\ sent \in Nat

HandlesOK == handles \subseteq [cid : Cids, serial : Nat]

MarksOK == marks \in [Cids -> SUBSET {"wiped", "unread", "swallowed"}]

\* The values the state of the HAL, its users and the module can take.
TypeOK ==
    /\ ActorsOK /\ PoolOK /\ ModesOK /\ WaitsOK /\ RxOK /\ ReaderOK /\ NoteOK
    /\ ModuleOK /\ HandlesOK /\ MarksOK

\* AT+CIPSSL is one switch for the whole module.  Reservations of one mode exclude
\* those of the other, the switch is where the reserved mode needs it, and it is
\* moved only while nothing is reserved, although the mutex is dropped meanwhile.
SwitchFollowsReservations ==
    \A m \in Modes :
        open[m] > 0 => /\ open[Other(m)] = 0
                       /\ cipssl = m
                       /\ ~switching

\* Actor x has one reservation of mode m to hand on or to give back.
Reserved(x, m) ==
    /\ at[x].mode = m
    /\ \/ IsOpening(x) /\ pc[x] \in {"alloc", "start", "wait", "hold"} \cup RetirePcs
       \/ ~IsOpening(x) /\ (pc[x] = "unreserve" \/ (pc[x] = "retirerx" /\ at[x].owned))

Holding(m) == {c \in Cids : slots[c].holds /\ slots[c].mode = m}

\* The counters never fall below the reservations that are out: those of opens
\* under way, those of the sockets in the pool, and those being given back.  A
\* reservation given back twice, on a path that retires a slot somebody else has
\* retired as well, would break it, and the saturating decrement would hide it.
ReservationsCovered ==
    \A m \in Modes :
        Cardinality({x \in Actors : Reserved(x, m)}) + Cardinality(Holding(m)) <= open[m]

\* What the two together are for: the switch stays in the mode of every socket
\* that was handed to the application, for as long as its slot is not retired.
SocketsMatchSwitch ==
    \A c \in Cids : slots[c].holds => cipssl = slots[c].mode /\ ~switching

InWire(c, kinds) == \E i \in DOMAIN wire : wire[i].cid = c /\ wire[i].kind \in kinds

\* The module has bytes for the socket on the cid, and no announcement under way,
\* flag or reader will fetch them.
Stranded(c) ==
    /\ slots[c].used /\ sock[c].serial = slots[c].serial /\ sock[c].data > 0
    /\ ~InWire(c, {"arrival"}) /\ ~rxPending[c] /\ c \notin batch
    /\ ~(Cid = c /\ pc[Reader] \in {"check", "read", "dispatch", "rearm"})

\* An arrival is announced once (AT+CIPRXGET=5), so the flag that the reader clears
\* before it reads must be put back when the budget runs out.  No socket is left
\* with bytes that nobody will fetch, but for a socket whose flags were cleared on
\* behalf of the cid's earlier occupant or on which a read failed.
NoStrandedData ==
    \A c \in Cids : Stranded(c) => marks[c] \cap {"wiped", "unread"} # {}

Gone(c) == /\ slots[c].used /\ slots[c].serial = sock[c].serial
           /\ sock[c].st = "gone"

\* A socket whose peer has gone is retired and reported, although the close only
\* sets a flag, reads can fail, and the reader serves other cids; unless its flags
\* were cleared for an earlier occupant or its CLOSE OK was taken for an answer.
PeerCloseFinishes ==
    \A c \in Cids : Gone(c) ~> (~Gone(c) \/ marks[c] \cap {"wiped", "swallowed"} # {})

\* A switch of AT+CIPSSL ends, whatever the module answers, and lets the openers
\* that wait for it go on; and every open that has its turn, and every close, returns.
CallReturns ==
    /\ switching ~> ~switching
    /\ \A t \in Threads : (pc[t] \notin {"idle", "reserve"}) ~> (pc[t] = "idle")

AtRest == (\A t \in Threads : pc[t] = "idle") /\ pc[Reader] = "rest"

-----------------------------------------------------------------------------
(***************************************************************************)
(* What comments of the code promise and the code does not keep: TLC finds *)
(* a counterexample to each of these.                                      *)
(***************************************************************************)
\* OpenSocket ("Taken once for the call and given back on every path out of it"):
\* with no call under way, as many reservations are counted as sockets hold one.
ReservationGivenBack ==
    AtRest => \A m \in Modes :
        open[m] = Cardinality({c \in Cids : slots[c].used /\ slots[c].holds
                                              /\ slots[c].mode = m})

\* OpenWait ("a line for an unrelated cid is ignored rather than mistaken for
\* ours"): an open ends on the outcome of its own connect.
OpenOutcomeIsOwn == \A t \in Threads : pc[t] = "hold" => at[t].about = at[t].serial

\* FinishClosedCid ("The serial is what keeps this from tearing down the wrong
\* connection"): the reader retires the socket that the close was about.
CloseEndsItsOwnSocket == pc[Reader] = "retirerx" => at[Reader].about = at[Reader].serial
=============================================================================
