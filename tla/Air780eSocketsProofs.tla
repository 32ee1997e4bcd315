------------------------ MODULE Air780eSocketsProofs ------------------------
(* Proofs about the sockets of the Air780E HAL. *)
EXTENDS Air780eSockets, FiniteSetTheorems, WellFoundedInduction, TLAPS

-----------------------------------------------------------------------------
(* Type correctness: TypeOK is inductive. *)

\* There is a lowest cid to take: a set of cids that is not empty has a least one.
LEMMA LeastCid ==
    ASSUME NEW S \in SUBSET Cids, S # {}
    PROVE  \E i \in S : \A j \in S : i <= j
<1>1. S \in SUBSET Nat
  BY NumCidsAssumption DEF Cids
<1>2. PICK m \in S : \A k \in S : ~ (<<k, m>> \in OpToRel(<, Nat))
  BY <1>1, WFMin, NatLessThanWellFounded, Zenon
<1>3. \A k \in S : ~ (k < m)
  BY <1>1, <1>2, Zenon DEF OpToRel
<1> QED  BY <1>1, <1>3

\* The constants the state is built from have the types of the state.
LEMMA ConstantTypes ==
    /\ 0 \in Cids
    /\ Cids \subseteq 0 .. NumCids
    /\ NumCids \in 0 .. NumCids
    /\ Local0 \in Local
    /\ Local0.why = "none"
    /\ FreeSlot \in [used : BOOLEAN, holds : BOOLEAN, mode : Modes, serial : Nat]
    /\ NoClose \in [serial : Nat, about : Nat]
    /\ NoNote \in [cid : Cids, serial : Nat, about : Nat]
    /\ NoWait \in [id : 0 .. NumCids, outcome : {"connected", "failed", "already"},
                   done : BOOLEAN, about : Nat]
<1>1. 0 \in Cids /\ Cids \subseteq 0 .. NumCids /\ NumCids \in 0 .. NumCids
  BY NumCidsAssumption DEF Cids
<1> QED  BY <1>1 DEF Local0, Local, FreeSlot, NoClose, NoNote, NoWait, Modes

\* An actor that goes on at a step of its own kind stays well typed.
LEMMA GoType ==
    ASSUME TypeOK, NEW x \in Actors, NEW l, NEW loc \in Local, Go(x, l, loc),
           x = Reader => l \in ReaderPcs /\ (l # "rest" => loc.why = "finish"),
           x \in Threads => l \in ThreadPcs /\ loc.why # "finish"
    PROVE  ActorsOK'
<1> DEFINE loc0 == IF l \in {"idle", "rest"} THEN Local0 ELSE loc
<1>1. loc0 \in Local /\ Local0.why # "finish"
  BY ConstantTypes
<1>2. /\ pc \in [Actors -> ThreadPcs \cup ReaderPcs] /\ at \in [Actors -> Local]
      /\ pc[Reader] \in ReaderPcs
      /\ pc[Reader] # "rest" => at[Reader].why = "finish"
      /\ \A t \in Threads : pc[t] \in ThreadPcs /\ at[t].why # "finish"
  BY DEF TypeOK, ActorsOK
<1>3. x \in Threads \/ x = Reader
  BY DEF Actors
<1>4. l \in ThreadPcs \cup ReaderPcs
  BY <1>3
<1>5. pc' = [pc EXCEPT ![x] = l] /\ at' = [at EXCEPT ![x] = loc0]
  BY DEF Go
<1> HIDE DEF loc0
<1>6. pc' \in [Actors -> ThreadPcs \cup ReaderPcs] /\ at' \in [Actors -> Local]
  BY <1>1, <1>2, <1>4, <1>5
<1>7. pc'[x] = l /\ at'[x] = loc0
  BY <1>2, <1>5
<1>8. \A y \in Actors \ {x} : pc'[y] = pc[y] /\ at'[y] = at[y]
  BY <1>2, <1>5
<1>9. x = Reader => pc'[Reader] \in ReaderPcs
                      /\ (pc'[Reader] # "rest" => at'[Reader].why = "finish")
  BY <1>7 DEF loc0, ReaderPcs, RetirePcs
<1>10. x # Reader => pc'[Reader] \in ReaderPcs
                      /\ (pc'[Reader] # "rest" => at'[Reader].why = "finish")
  BY <1>2, <1>8 DEF Actors
<1>11. ASSUME NEW t \in Threads
       PROVE  pc'[t] \in ThreadPcs /\ at'[t].why # "finish"
  <2>1. CASE t = x
    BY <1>1, <1>7, <2>1 DEF loc0
  <2>2. CASE t # x
    BY <1>2, <1>8, <2>2 DEF Actors
  <2> QED  BY <2>1, <2>2
<1> QED  BY <1>6, <1>9, <1>10, <1>11 DEF ActorsOK

\* The same when the local variables stay as they are.
LEMMA GoToType ==
    ASSUME TypeOK, NEW x \in Actors, NEW l, GoTo(x, l),
           x = Reader => l \in ReaderPcs /\ (l # "rest" => pc[x] # "rest"),
           x \in Threads => l \in ThreadPcs
    PROVE  ActorsOK'
<1>1. at[x] \in Local /\ (x \in Threads => at[x].why # "finish")
      /\ (x = Reader /\ pc[x] # "rest" => at[x].why = "finish")
  BY DEF TypeOK, ActorsOK
<1> QED  BY <1>1, GoType DEF GoTo

\* A part of the state that a step leaves alone keeps its type.
LEMMA Frames ==
    ASSUME TypeOK
    PROVE  /\ UNCHANGED actorVars => ActorsOK'
           /\ UNCHANGED poolVars => PoolOK'
           /\ UNCHANGED modeVars => ModesOK'
           /\ UNCHANGED waitVars => WaitsOK'
           /\ UNCHANGED rxVars => RxOK'
           /\ UNCHANGED readerVars => ReaderOK'
           /\ UNCHANGED note => NoteOK'
           /\ UNCHANGED moduleVars => ModuleOK'
           /\ UNCHANGED handles => HandlesOK'
           /\ UNCHANGED marks => MarksOK'
<1>1. UNCHANGED actorVars => ActorsOK'
  BY DEF TypeOK, ActorsOK, actorVars
<1>2. UNCHANGED poolVars => PoolOK'
  BY DEF TypeOK, PoolOK, poolVars
<1>3. UNCHANGED modeVars => ModesOK'
  BY DEF TypeOK, ModesOK, modeVars
<1>4. UNCHANGED waitVars => WaitsOK'
  BY DEF TypeOK, WaitsOK, waitVars
<1>5. UNCHANGED rxVars => RxOK'
  BY DEF TypeOK, RxOK, rxVars
<1>6. UNCHANGED readerVars => ReaderOK'
  BY DEF TypeOK, ReaderOK, readerVars
<1>7. UNCHANGED note => NoteOK'
  BY DEF TypeOK, NoteOK
<1>8. UNCHANGED moduleVars => ModuleOK'
  BY DEF TypeOK, ModuleOK, moduleVars
<1>9. (UNCHANGED handles => HandlesOK') /\ (UNCHANGED marks => MarksOK')
  BY DEF TypeOK, HandlesOK, MarksOK
<1> QED  BY <1>1, <1>2, <1>3, <1>4, <1>5, <1>6, <1>7, <1>8, <1>9

\* A line the module writes, or none, leaves the wire well typed.
LEMMA AppendType ==
    ASSUME TypeOK, NEW l \in [kind : LineKinds, cid : Cids, serial : Nat],
           wire' = wire \/ wire' = Append(wire, l),
           sock' \in [Cids -> [st : SockState, serial : Nat, data : Nat]],
           sent' \in Nat
    PROVE  ModuleOK'
<1> DEFINE L == [kind : LineKinds, cid : Cids, serial : Nat]
<1>1. wire \in Seq(L) /\ l \in L
  BY DEF TypeOK, ModuleOK
<1> HIDE DEF L
<1>2. wire' \in Seq(L)
  BY <1>1
<1> QED  BY <1>2 DEF L, ModuleOK

\* Changing the state and the data of a socket of the module keeps the sockets well
\* typed.
LEMMA SetSockType ==
    ASSUME TypeOK, NEW c \in Cids, NEW st \in SockState, NEW d \in Nat, SetSock(c, st, d)
    PROVE  sock' \in [Cids -> [st : SockState, serial : Nat, data : Nat]]
<1>1. sock \in [Cids -> [st : SockState, serial : Nat, data : Nat]]
  BY DEF TypeOK, ModuleOK
<1>2. [st |-> st, serial |-> sock[c].serial, data |-> d]
        \in [st : SockState, serial : Nat, data : Nat]
  BY <1>1
<1> QED  BY <1>1, <1>2 DEF SetSock

\* The initial state is well typed.
LEMMA InitTypeOK == Init => TypeOK
<1> SUFFICES ASSUME Init PROVE TypeOK
  OBVIOUS
<1> USE ConstantTypes
<1>1. ActorsOK
  <2>1. /\ pc = [x \in Actors |-> IF x = Reader THEN "rest" ELSE "idle"]
        /\ at = [x \in Actors |-> Local0]
    BY DEF Init
  <2>2. "rest" \in ReaderPcs /\ "idle" \in ThreadPcs
    BY DEF ReaderPcs, ThreadPcs
  <2>3. pc[Reader] = "rest" /\ \A t \in Threads : pc[t] = "idle" /\ at[t] = Local0
    BY <2>1, ActorsAssumption DEF Actors
  <2>4. pc \in [Actors -> ThreadPcs \cup ReaderPcs] /\ at \in [Actors -> Local]
    BY <2>1, <2>2
  <2> QED  BY <2>2, <2>3, <2>4 DEF ActorsOK
<1>2. PoolOK /\ ModesOK
  <2>1. PoolOK
    BY DEF Init, PoolOK
  <2>2. open \in [Modes -> Nat] /\ switching \in BOOLEAN /\ cipssl \in Modes
    BY DEF Init, Modes
  <2> QED  BY <2>1, <2>2 DEF ModesOK
<1>5. WaitsOK /\ RxOK
  BY DEF Init, WaitsOK, RxOK
<1>3. ReaderOK /\ NoteOK /\ HandlesOK /\ MarksOK
  BY DEF Init, ReaderOK, NoteOK, HandlesOK, MarksOK
<1>4. ModuleOK
  BY DEF Init, ModuleOK, SockState
<1> QED  BY <1>1, <1>2, <1>3, <1>4, <1>5 DEF TypeOK
-----------------------------------------------------------------------------
\* Every step of an open keeps the types.
LEMMA OpenTypeOK ==
    ASSUME TypeOK, NEW t \in Threads, OpenStep(t)
    PROVE  TypeOK'
<1> USE ConstantTypes
<1>t. t \in Actors /\ t # Reader /\ at[t] \in Local /\ at[t].why # "finish"
  BY ActorsAssumption DEF TypeOK, ActorsOK, Actors
<1>1. ASSUME Reserve(t) PROVE TypeOK'
  <2>1. ActorsOK'
    BY <1>1, <1>t, GoToType DEF Reserve, ThreadPcs
  <2>2. ModesOK'
    <3>1. at[t].mode \in Modes
      BY <1>t DEF Local
    <3>2. open' \in [Modes -> Nat]
      BY <1>1, <3>1 DEF Reserve, TypeOK, ModesOK
    <3>3. switching' \in BOOLEAN
      BY <1>1 DEF Reserve, TypeOK, ModesOK
    <3>4. cipssl' \in Modes
      BY <1>1 DEF Reserve, TypeOK, ModesOK
    <3> QED  BY <3>2, <3>3, <3>4 DEF ModesOK
  <2>3. UNCHANGED <<poolVars, waitVars, rxVars, readerVars, note, moduleVars, handles, marks>>
    BY <1>1 DEF Reserve
  <2> QED  BY <2>1, <2>2, <2>3, Frames DEF TypeOK
<1>2. ASSUME ApplySslSwitch(t) PROVE TypeOK'
  <2>1. ActorsOK'
    BY <1>2, <1>t, GoToType DEF ApplySslSwitch, ThreadPcs
  <2>2. ModesOK'
    BY <1>2, <1>t DEF ApplySslSwitch, TypeOK, ModesOK, Local
  <2>3. UNCHANGED <<poolVars, waitVars, rxVars, readerVars, note, moduleVars, handles, marks>>
    BY <1>2 DEF ApplySslSwitch
  <2> QED  BY <2>1, <2>2, <2>3, Frames DEF TypeOK
<1>3. ASSUME SwitchDone(t) PROVE TypeOK'
  <2>1. ActorsOK'
    BY <1>3, <1>t, GoToType DEF SwitchDone, ThreadPcs
  <2>2. ModesOK'
    <3>1. at[t].mode \in Modes
      BY <1>t DEF Local
    <3>2. open' \in [Modes -> Nat]
      BY <1>3, <3>1 DEF SwitchDone, TypeOK, ModesOK
    <3>3. switching' = FALSE /\ UNCHANGED cipssl
      BY <1>3 DEF SwitchDone
    <3> QED  BY <3>2, <3>3 DEF TypeOK, ModesOK
  <2>3. UNCHANGED <<poolVars, waitVars, rxVars, readerVars, note, moduleVars, handles, marks>>
    BY <1>3 DEF SwitchDone
  <2> QED  BY <2>1, <2>2, <2>3, Frames DEF TypeOK
<1>4. ASSUME AllocateConnectionId(t) PROVE TypeOK'
  <2> DEFINE S == Candidates(at[t].tried)
             c == CHOOSE i \in S : \A j \in S : i <= j
  <2>3. c \in Cids
    <3>1. S \in SUBSET Cids /\ S # {}
      BY <1>4 DEF AllocateConnectionId, Candidates
    <3> HIDE DEF S
    <3>2. c \in S
      BY <3>1, LeastCid
    <3> QED  BY <3>1, <3>2
  <2>4. /\ slots' = [slots EXCEPT ![c] = [FreeSlot EXCEPT !.used = TRUE, !.serial = nextSerial]]
        /\ Go(t, "start", [at[t] EXCEPT !.cid = c, !.serial = nextSerial])
        /\ nextSerial' = nextSerial + 1
    BY <1>4 DEF AllocateConnectionId
  <2> HIDE DEF S, c
  <2>5. nextSerial \in Nat
    BY DEF TypeOK, PoolOK
  <2>1. ActorsOK'
    <3>1. [at[t] EXCEPT !.cid = c, !.serial = nextSerial] \in Local
          /\ [at[t] EXCEPT !.cid = c, !.serial = nextSerial].why # "finish"
      BY <1>t, <2>3, <2>5 DEF Local
    <3> QED  BY <1>t, <2>4, <3>1, GoType DEF ThreadPcs
  <2>2. PoolOK'
    <3>1. [FreeSlot EXCEPT !.used = TRUE, !.serial = nextSerial]
            \in [used : BOOLEAN, holds : BOOLEAN, mode : Modes, serial : Nat]
      BY <2>5 DEF FreeSlot, Modes
    <3>2. slots \in [Cids -> [used : BOOLEAN, holds : BOOLEAN, mode : Modes, serial : Nat]]
      BY DEF TypeOK, PoolOK
    <3>3. slots' \in [Cids -> [used : BOOLEAN, holds : BOOLEAN, mode : Modes, serial : Nat]]
      BY <2>3, <2>4, <3>1, <3>2
    <3> QED  BY <2>4, <2>5, <3>3 DEF PoolOK
  <2>6. UNCHANGED <<modeVars, waitVars, rxVars, readerVars, note, moduleVars, handles, marks>>
    BY <1>4 DEF AllocateConnectionId
  <2> QED  BY <2>1, <2>2, <2>6, Frames DEF TypeOK
<1>5. ASSUME NoConnectionId(t) PROVE TypeOK'
  <2>1. ActorsOK'
    BY <1>5, <1>t, GoType DEF NoConnectionId, ThreadPcs, RetirePcs, Local
  <2>2. UNCHANGED <<poolVars, modeVars, waitVars, rxVars, readerVars, note, moduleVars, handles, marks>>
    BY <1>5 DEF NoConnectionId
  <2> QED  BY <2>1, <2>2, Frames DEF TypeOK
<1>6. ASSUME Start(t) PROVE TypeOK'
  <2>1. ActorsOK'
    BY <1>6, <1>t, GoToType DEF Start, ThreadPcs
  <2>2. WaitsOK'
    BY <1>6, <1>t DEF Start, Armed, NoWait, TypeOK, WaitsOK, Local
  <2>3. ModuleOK'
    <3>1. at[t].cid \in Cids /\ at[t].serial \in Nat
      BY <1>t DEF Local
    <3>2. /\ sock' \in [Cids -> [st : SockState, serial : Nat, data : Nat]]
          /\ sent' \in Nat
      <4>1. [st |-> "connecting", serial |-> at[t].serial, data |-> 0]
              \in [st : SockState, serial : Nat, data : Nat]
        BY <3>1 DEF SockState
      <4>2. sock \in [Cids -> [st : SockState, serial : Nat, data : Nat]]
        BY DEF TypeOK, ModuleOK
      <4>3. /\ \/ UNCHANGED sock
               \/ sock' = [sock EXCEPT ![at[t].cid] =
                             [st |-> "connecting", serial |-> at[t].serial, data |-> 0]]
            /\ UNCHANGED sent
        BY <1>6 DEF Start
      <4>4. sent \in Nat
        BY DEF TypeOK, ModuleOK
      <4> QED  BY <3>1, <4>1, <4>2, <4>3, <4>4
    <3>3. Line("already", at[t].cid, at[t].serial) \in [kind : LineKinds, cid : Cids, serial : Nat]
      BY <3>1 DEF Line, LineKinds
    <3>4. wire' = wire \/ wire' = Append(wire, Line("already", at[t].cid, at[t].serial))
      BY <1>6 DEF Start
    <3> QED  BY <3>2, <3>3, <3>4, AppendType
  <2>4. UNCHANGED <<poolVars, modeVars, rxVars, readerVars, note, handles, marks>>
    BY <1>6 DEF Start
  <2> QED  BY <2>1, <2>2, <2>3, <2>4, Frames DEF TypeOK
<1>7. ASSUME StartFails(t) PROVE TypeOK'
  <2>1. ActorsOK'
    BY <1>7, <1>t, GoType DEF StartFails, ThreadPcs, RetirePcs, Local
  <2>2. WaitsOK'
    BY <1>7, <1>t DEF StartFails, Armed, NoWait, TypeOK, WaitsOK, Local
  <2>3. UNCHANGED <<poolVars, modeVars, rxVars, readerVars, note, moduleVars, handles, marks>>
    BY <1>7 DEF StartFails
  <2> QED  BY <2>1, <2>2, <2>3, Frames DEF TypeOK
<1>8. ASSUME Opened(t) PROVE TypeOK'
  <2>1. ActorsOK'
    <3>1. openWait.about \in Nat /\ openWait.outcome \in {"connected", "already", "failed"}
      BY DEF TypeOK, WaitsOK
    <3>2. CASE openWait.outcome = "connected"
      BY <1>8, <1>t, <3>1, <3>2, GoType DEF Opened, ThreadPcs, Local
    <3>3. CASE openWait.outcome = "already"
      <4>1. [at[t] EXCEPT !.why = "already", !.tried = @ \cup {at[t].cid}] \in Local
        BY <1>t DEF Local
      <4>2. Go(t, "retire", [at[t] EXCEPT !.why = "already", !.tried = @ \cup {at[t].cid}])
        BY <1>8, <3>3 DEF Opened
      <4>3. [at[t] EXCEPT !.why = "already", !.tried = @ \cup {at[t].cid}].why # "finish"
        BY <1>t DEF Local
      <4> QED  BY <1>t, <4>1, <4>2, <4>3, GoType DEF ThreadPcs, RetirePcs
    <3>4. CASE openWait.outcome = "failed"
      BY <1>8, <1>t, <3>4, GoType DEF Opened, ThreadPcs, RetirePcs, Local
    <3> QED  BY <3>1, <3>2, <3>3, <3>4
  <2>2. WaitsOK'
    BY <1>8 DEF Opened, TypeOK, WaitsOK
  <2>3. UNCHANGED <<poolVars, modeVars, rxVars, readerVars, note, moduleVars, handles, marks>>
    BY <1>8 DEF Opened
  <2> QED  BY <2>1, <2>2, <2>3, Frames DEF TypeOK
<1>9. ASSUME OpenTimeout(t) PROVE TypeOK'
  <2>1. ActorsOK'
    BY <1>9, <1>t, GoType DEF OpenTimeout, ThreadPcs, RetirePcs, Local
  <2>2. WaitsOK'
    BY <1>9 DEF OpenTimeout, TypeOK, WaitsOK
  <2>3. UNCHANGED <<poolVars, modeVars, rxVars, readerVars, note, moduleVars, handles, marks>>
    BY <1>9 DEF OpenTimeout
  <2> QED  BY <2>1, <2>2, <2>3, Frames DEF TypeOK
<1>10. ASSUME Hold(t) PROVE TypeOK'
  <2>1. ActorsOK'
    BY <1>10, <1>t, GoToType DEF Hold, ThreadPcs
  <2>2. PoolOK'
    BY <1>10, <1>t DEF Hold, TypeOK, PoolOK, Local
  <2>3. HandlesOK'
    BY <1>10, <1>t DEF Hold, TypeOK, HandlesOK, Local
  <2>4. UNCHANGED <<modeVars, waitVars, rxVars, readerVars, note, moduleVars, marks>>
    BY <1>10 DEF Hold
  <2> QED  BY <2>1, <2>2, <2>3, <2>4, Frames DEF TypeOK
<1> QED
  BY <1>1, <1>2, <1>3, <1>4, <1>5, <1>6, <1>7, <1>8, <1>9, <1>10 DEF OpenStep

\* Retiring a slot keeps the types, and brings the reader to a step of its own.
LEMMA RetireTypeOK ==
    ASSUME TypeOK, NEW x \in Actors, RetireStep(x)
    PROVE  TypeOK'
<1> USE ConstantTypes
<1>x. /\ at[x] \in Local
      /\ x \in Threads => at[x].why # "finish"
      /\ x = Reader /\ pc[x] # "rest" => at[x].why = "finish"
  BY DEF TypeOK, ActorsOK
<1>y. at[x].cid \in Cids /\ at[x].mode \in Modes
  BY <1>x DEF Local
<1>z. at[x].why \in {"none", "failed", "already", "close", "closefailed", "finish"}
  BY <1>x DEF Local
<1>a. /\ x \in Threads => AfterRelease(x) \in {"idle", "closewait"}
      /\ x = Reader /\ pc[x] # "rest" => AfterRelease(x) = "report"
  BY <1>x, <1>z DEF AfterRelease
<1>b. ASSUME NEW b \in BOOLEAN
      PROVE  /\ x \in Threads => AfterRetire(x, b) \in {"idle", "closewait", "alloc", "unreserve"}
             /\ x = Reader /\ pc[x] # "rest" => AfterRetire(x, b) \in {"report", "unreserve"}
  BY <1>a, <1>x, <1>z DEF AfterRetire
<1>1. ASSUME RetirePool(x) PROVE TypeOK'
  <2> DEFINE c == at[x].cid
             loc == [at[x] EXCEPT !.owned = slots[c].holds, !.serial = slots[c].serial,
                                  !.mode = IF IsOpening(x) THEN @ ELSE slots[c].mode]
  <2>1. slots \in [Cids -> [used : BOOLEAN, holds : BOOLEAN, mode : Modes, serial : Nat]]
        /\ nextSerial \in Nat \ {0}
    BY DEF TypeOK, PoolOK
  <2>2. pc[x] = "retire" /\ UNCHANGED <<nextSerial, modeVars, waitVars, rxVars, readerVars, note,
                                        moduleVars, handles>>
    BY <1>1 DEF RetirePool
  <2>3. CASE ~slots[c].used
    <3>1. GoTo(x, AfterRetire(x, FALSE)) /\ UNCHANGED <<slots, marks>>
      BY <1>1, <2>3 DEF RetirePool
    <3>2. ActorsOK'
      BY <1>b, <2>2, <3>1, GoToType, ActorsAssumption DEF ThreadPcs, ReaderPcs, RetirePcs
    <3>3. UNCHANGED poolVars
      BY <2>2, <3>1 DEF poolVars
    <3> QED  BY <2>2, <3>1, <3>2, <3>3, Frames DEF TypeOK
  <2>4. CASE slots[c].used
    <3>1. /\ slots' = [slots EXCEPT ![c] = FreeSlot]
          /\ Go(x, "retirerx", loc)
          /\ marks' = [marks EXCEPT ![c] = {}]
      BY <1>1, <2>4 DEF RetirePool
    <3>2. /\ slots[c].holds \in BOOLEAN /\ slots[c].serial \in Nat /\ slots[c].mode \in Modes
      BY <1>y, <2>1
    <3>3. loc \in Local /\ loc.why = at[x].why
      BY <1>x, <3>2 DEF Local
    <3> HIDE DEF loc
    <3>4. ActorsOK'
      BY <1>x, <2>2, <3>1, <3>3, GoType, ActorsAssumption DEF ThreadPcs, ReaderPcs, RetirePcs
    <3>5. PoolOK'
      BY <1>y, <2>1, <2>2, <3>1 DEF PoolOK
    <3>6. MarksOK'
      BY <1>y, <3>1 DEF TypeOK, MarksOK
    <3> QED  BY <2>2, <3>4, <3>5, <3>6, Frames DEF TypeOK
  <2> QED  BY <2>3, <2>4
<1>2. ASSUME RetireRx(x) PROVE TypeOK'
  <2>1. at[x].owned \in BOOLEAN
    BY <1>x DEF Local
  <2>2. ActorsOK'
    BY <1>2, <1>b, <2>1, GoToType, ActorsAssumption DEF RetireRx, ThreadPcs, ReaderPcs, RetirePcs
  <2>3. RxOK'
    BY <1>2, <1>y DEF RetireRx, TypeOK, RxOK
  <2>4. MarksOK'
    BY <1>2, <1>y DEF RetireRx, Mark, TypeOK, MarksOK
  <2>5. UNCHANGED <<poolVars, modeVars, waitVars, readerVars, note, moduleVars, handles>>
    BY <1>2 DEF RetireRx
  <2> QED  BY <2>2, <2>3, <2>4, <2>5, Frames DEF TypeOK
<1>3. ASSUME Unreserve(x) PROVE TypeOK'
  <2>1. ActorsOK'
    BY <1>3, <1>a, GoToType, ActorsAssumption DEF Unreserve, ThreadPcs, ReaderPcs
  <2>2. open' \in [Modes -> Nat]
    <3>1. open \in [Modes -> Nat]
      BY DEF TypeOK, ModesOK
    <3>2. open' = [open EXCEPT ![at[x].mode] = IF open[at[x].mode] > 0 THEN open[at[x].mode] - 1 ELSE 0]
      BY <1>3 DEF Unreserve
    <3>3. (IF open[at[x].mode] > 0 THEN open[at[x].mode] - 1 ELSE 0) \in Nat
      BY <1>y, <3>1
    <3> QED  BY <1>y, <3>1, <3>2, <3>3
  <2>3. UNCHANGED <<switching, cipssl>>
    BY <1>3 DEF Unreserve
  <2>4. ModesOK'
    BY <2>2, <2>3 DEF TypeOK, ModesOK
  <2>5. UNCHANGED <<poolVars, waitVars, rxVars, readerVars, note, moduleVars, handles, marks>>
    BY <1>3 DEF Unreserve
  <2> QED  BY <2>1, <2>4, <2>5, Frames DEF TypeOK
<1> QED  BY <1>1, <1>2, <1>3 DEF RetireStep

\* Every step of a close keeps the types.
LEMMA CloseTypeOK ==
    ASSUME TypeOK, NEW t \in Threads, CloseStep(t)
    PROVE  TypeOK'
<1> USE ConstantTypes
<1>t. t \in Actors /\ t # Reader /\ at[t] \in Local /\ at[t].why # "finish"
  BY ActorsAssumption DEF TypeOK, ActorsOK, Actors
<1>u. at[t].cid \in Cids
  BY <1>t DEF Local
<1>1. ASSUME CloseArm(t) PROVE TypeOK'
  <2>1. ActorsOK'
    BY <1>1, <1>t, GoToType DEF CloseArm, ThreadPcs
  <2>2. WaitsOK'
    BY <1>1, <1>u DEF CloseArm, TypeOK, WaitsOK
  <2>3. UNCHANGED <<poolVars, modeVars, rxVars, readerVars, note, moduleVars, handles, marks>>
    BY <1>1 DEF CloseArm
  <2> QED  BY <2>1, <2>2, <2>3, Frames DEF TypeOK
<1>2. ASSUME CloseSend(t) PROVE TypeOK'
  <2> DEFINE c == at[t].cid
  <2>1. ActorsOK'
    BY <1>2, <1>t, GoToType DEF CloseSend, ThreadPcs, RetirePcs
  <2>2. /\ sock \in [Cids -> [st : SockState, serial : Nat, data : Nat]] /\ sent \in Nat
    BY DEF TypeOK, ModuleOK
  <2>3. /\ SetSock(c, "closed", 0)
        /\ wire' = wire \/ wire' = Append(wire, Line("closeok", c, sock[c].serial))
        /\ UNCHANGED sent
    BY <1>2 DEF CloseSend
  <2>4. sock' \in [Cids -> [st : SockState, serial : Nat, data : Nat]]
    BY <1>u, <2>3, SetSockType DEF SockState
  <2>5. Line("closeok", c, sock[c].serial) \in [kind : LineKinds, cid : Cids, serial : Nat]
    BY <1>u, <2>2 DEF Line, LineKinds
  <2>6. ModuleOK'
    BY <2>2, <2>3, <2>4, <2>5, AppendType
  <2>7. UNCHANGED <<poolVars, modeVars, waitVars, rxVars, readerVars, note, handles, marks>>
    BY <1>2 DEF CloseSend
  <2> QED  BY <2>1, <2>6, <2>7, Frames DEF TypeOK
<1>3. ASSUME CloseSendFails(t) PROVE TypeOK'
  <2>1. ActorsOK'
    BY <1>3, <1>t, GoType DEF CloseSendFails, ThreadPcs, RetirePcs, Local
  <2>2. UNCHANGED <<poolVars, modeVars, waitVars, rxVars, readerVars, note, moduleVars, handles,
                    marks>>
    BY <1>3 DEF CloseSendFails
  <2> QED  BY <2>1, <2>2, Frames DEF TypeOK
<1>4. ASSUME CloseWait(t) PROVE TypeOK'
  <2>1. ActorsOK'
    BY <1>4, <1>t, GoToType DEF CloseWait, ThreadPcs
  <2>2. WaitsOK'
    BY <1>4 DEF CloseWait, TypeOK, WaitsOK
  <2>3. UNCHANGED <<poolVars, modeVars, rxVars, readerVars, note, moduleVars, handles, marks>>
    BY <1>4 DEF CloseWait
  <2> QED  BY <2>1, <2>2, <2>3, Frames DEF TypeOK
<1> QED  BY <1>1, <1>2, <1>3, <1>4 DEF CloseStep

\* A call of the application, to open a socket or to close one, keeps the types.
LEMMA CallTypeOK ==
    ASSUME TypeOK, NEW t \in Threads,
           \/ \E m \in Kinds : OpenSocket(t, m)
           \/ \E h \in handles : CloseConnection(t, h)
    PROVE  TypeOK'
<1> USE ConstantTypes
<1>t. t \in Actors /\ t # Reader
  BY ActorsAssumption DEF Actors
<1>1. ASSUME NEW m \in Kinds, OpenSocket(t, m) PROVE TypeOK'
  <2>1. [Local0 EXCEPT !.mode = m] \in Local /\ [Local0 EXCEPT !.mode = m].why # "finish"
    BY KindsAssumption DEF Local, Local0
  <2>2. ActorsOK'
    BY <1>1, <1>t, <2>1, GoType DEF OpenSocket, ThreadPcs
  <2>3. UNCHANGED <<poolVars, modeVars, waitVars, rxVars, readerVars, note, moduleVars, handles,
                    marks>>
    BY <1>1 DEF OpenSocket
  <2> QED  BY <2>2, <2>3, Frames DEF TypeOK
<1>2. ASSUME NEW h \in handles, CloseConnection(t, h) PROVE TypeOK'
  <2>1. h.cid \in Cids
    BY DEF TypeOK, HandlesOK
  <2>2. /\ [Local0 EXCEPT !.cid = h.cid, !.why = "close"] \in Local
        /\ [Local0 EXCEPT !.cid = h.cid, !.why = "close"].why # "finish"
    BY <2>1 DEF Local, Local0
  <2>3. ActorsOK'
    <3>1. CASE UNCHANGED actorVars
      BY <3>1, Frames
    <3>2. CASE Go(t, "closearm", [Local0 EXCEPT !.cid = h.cid, !.why = "close"])
      BY <1>t, <2>2, <3>2, GoType DEF ThreadPcs
    <3> QED  BY <1>2, <3>1, <3>2 DEF CloseConnection
  <2>4. HandlesOK'
    BY <1>2 DEF CloseConnection, TypeOK, HandlesOK
  <2>5. UNCHANGED <<poolVars, modeVars, waitVars, rxVars, readerVars, note, moduleVars, marks>>
    BY <1>2 DEF CloseConnection
  <2> QED  BY <2>3, <2>4, <2>5, Frames DEF TypeOK
<1> QED  BY <1>1, <1>2

\* Every step of the reader but those that retire a slot keeps the types.
LEMMA ReadTypeOK ==
    ASSUME TypeOK, ReadStep
    PROVE  TypeOK'
<1> USE ConstantTypes
<1>r. /\ Reader \in Actors /\ Reader \notin Threads /\ at[Reader] \in Local
      /\ pc[Reader] # "rest" => at[Reader].why = "finish"
  BY ActorsAssumption DEF TypeOK, ActorsOK, Actors
<1>c. Cid \in Cids
  BY <1>r DEF Cid, Local
<1>1. ASSUME TakePending PROVE TypeOK'
  <2>1. RxOK'
    BY <1>1 DEF TakePending, TypeOK, RxOK
  <2>2. ReaderOK'
    BY <1>1 DEF TakePending, TypeOK, ReaderOK
  <2>3. UNCHANGED <<actorVars, poolVars, modeVars, waitVars, note, moduleVars, handles, marks>>
    BY <1>1 DEF TakePending
  <2> QED  BY <2>1, <2>2, <2>3, Frames DEF TypeOK
<1>2. ASSUME NextCid PROVE TypeOK'
  <2>1. ActorsOK'
    <3> DEFINE c == CHOOSE i \in batch : \A j \in batch : i <= j
    <3>1. batch \in SUBSET Cids /\ batch # {}
      BY <1>2 DEF NextCid, TypeOK, ReaderOK
    <3>2. c \in Cids
      BY <3>1, LeastCid
    <3>3. Go(Reader, "check", [Local0 EXCEPT !.cid = c, !.why = "finish"])
      BY <1>2 DEF NextCid
    <3> HIDE DEF c
    <3>4. /\ [Local0 EXCEPT !.cid = c, !.why = "finish"] \in Local
          /\ [Local0 EXCEPT !.cid = c, !.why = "finish"].why = "finish"
      BY <3>2 DEF Local, Local0
    <3> QED  BY <1>r, <3>3, <3>4, GoType DEF ReaderPcs
  <2>2. ReaderOK'
    BY <1>2 DEF NextCid, TypeOK, ReaderOK
  <2>3. UNCHANGED <<poolVars, modeVars, waitVars, rxVars, note, moduleVars, handles, marks>>
    BY <1>2 DEF NextCid
  <2> QED  BY <2>1, <2>2, <2>3, Frames DEF TypeOK
<1>3. ASSUME CheckUsed PROVE TypeOK'
  <2>1. ActorsOK'
    BY <1>3, <1>r, GoToType DEF CheckUsed, ReaderTo, ReaderPcs, RetirePcs
  <2>2. UNCHANGED <<poolVars, modeVars, waitVars, rxVars, readerVars, note, moduleVars, handles, marks>>
    BY <1>3 DEF CheckUsed
  <2> QED  BY <2>1, <2>2, Frames DEF TypeOK
<1>4. ASSUME ForgetClose PROVE TypeOK'
  <2>1. ActorsOK'
    BY <1>4, <1>r, GoToType DEF ForgetClose, ReaderTo, ReaderPcs, RetirePcs
  <2>2. RxOK'
    BY <1>4, <1>c DEF ForgetClose, TypeOK, RxOK
  <2>3. MarksOK'
    BY <1>4, <1>c DEF ForgetClose, Mark, TypeOK, MarksOK
  <2>4. UNCHANGED <<poolVars, modeVars, waitVars, readerVars, note, moduleVars, handles>>
    BY <1>4 DEF ForgetClose
  <2> QED  BY <2>1, <2>2, <2>3, <2>4, Frames DEF TypeOK
<1>5. ASSUME Read PROVE TypeOK'
  <2>1. ActorsOK'
    BY <1>5, <1>r, GoToType DEF Read, ReaderTo, ReaderPcs, RetirePcs
  <2>2. ReaderOK'
    BY <1>5, <1>c DEF Read, TypeOK, ReaderOK, ModuleOK
  <2>3. ModuleOK'
    <3>1. /\ sock \in [Cids -> [st : SockState, serial : Nat, data : Nat]]
          /\ UNCHANGED <<wire, sent>>
      BY <1>5 DEF Read, TypeOK, ModuleOK
    <3>2. /\ sock' \in [Cids -> [st : SockState, serial : Nat, data : Nat]]
      <4>1. CASE sock[Cid].data > 0
        <5>1. sock[Cid].st \in SockState /\ sock[Cid].data - 1 \in Nat
          BY <1>c, <3>1, <4>1
        <5>2. SetSock(Cid, sock[Cid].st, sock[Cid].data - 1)
          BY <1>5, <4>1 DEF Read
        <5> QED  BY <1>c, <5>1, <5>2, SetSockType
      <4>2. CASE ~(sock[Cid].data > 0)
        BY <1>5, <3>1, <4>2 DEF Read
      <4> QED  BY <4>1, <4>2
    <3> QED  BY <3>1, <3>2 DEF TypeOK, ModuleOK
  <2>4. UNCHANGED <<poolVars, modeVars, waitVars, rxVars, note, handles, marks>>
    BY <1>5 DEF Read
  <2> QED  BY <2>1, <2>2, <2>3, <2>4, Frames DEF TypeOK
<1>6. ASSUME ReadFails PROVE TypeOK'
  <2>1. ActorsOK'
    BY <1>6, <1>r, GoToType DEF ReadFails, ReaderTo, ReaderPcs, RetirePcs
  <2>2. MarksOK'
    BY <1>6, <1>c DEF ReadFails, Mark, TypeOK, MarksOK
  <2>3. UNCHANGED <<poolVars, modeVars, waitVars, rxVars, readerVars, note, moduleVars, handles>>
    BY <1>6 DEF ReadFails
  <2> QED  BY <2>1, <2>2, <2>3, Frames DEF TypeOK
<1>7. ASSUME Dispatch PROVE TypeOK'
  <2>1. ActorsOK'
    BY <1>7, <1>r, GoToType DEF Dispatch, ReaderTo, ReaderPcs, RetirePcs
  <2>2. ReaderOK'
    BY <1>7 DEF Dispatch, TypeOK, ReaderOK
  <2>3. UNCHANGED <<poolVars, modeVars, waitVars, rxVars, note, moduleVars, handles, marks>>
    BY <1>7 DEF Dispatch
  <2> QED  BY <2>1, <2>2, <2>3, Frames DEF TypeOK
<1>8. ASSUME Rearm PROVE TypeOK'
  <2>1. ActorsOK'
    BY <1>8, <1>r, GoToType DEF Rearm, ReaderTo, ReaderPcs, RetirePcs
  <2>2. RxOK'
    BY <1>8, <1>c DEF Rearm, TypeOK, RxOK
  <2>3. UNCHANGED <<poolVars, modeVars, waitVars, readerVars, note, moduleVars, handles, marks>>
    BY <1>8 DEF Rearm
  <2> QED  BY <2>1, <2>2, <2>3, Frames DEF TypeOK
<1>9. ASSUME FinishClosedCid PROVE TypeOK'
  <2>1. ActorsOK'
    <3> DEFINE loc == [at[Reader] EXCEPT !.serial = rxClose[Cid].serial,
                                         !.about = rxClose[Cid].about]
    <3>1. rxClose[Cid].serial \in Nat /\ rxClose[Cid].about \in Nat
      BY <1>c DEF TypeOK, RxOK
    <3>2. loc \in Local /\ loc.why = at[Reader].why
      BY <1>r, <3>1 DEF Local
    <3>3. /\ pc[Reader] = "finish"
          /\ Go(Reader, IF rxClose[Cid] = NoClose THEN "rest" ELSE "owns", loc)
      BY <1>9 DEF FinishClosedCid
    <3> HIDE DEF loc
    <3> QED  BY <1>r, <3>2, <3>3, GoType DEF ReaderPcs
  <2>2. RxOK'
    BY <1>9, <1>c DEF FinishClosedCid, TypeOK, RxOK
  <2>3. UNCHANGED <<poolVars, modeVars, waitVars, readerVars, note, moduleVars, handles, marks>>
    BY <1>9 DEF FinishClosedCid
  <2> QED  BY <2>1, <2>2, <2>3, Frames DEF TypeOK
<1>10. ASSUME OwnsSerial PROVE TypeOK'
  <2>1. ActorsOK'
    BY <1>10, <1>r, GoToType DEF OwnsSerial, ReaderTo, ReaderPcs, RetirePcs
  <2>2. UNCHANGED <<poolVars, modeVars, waitVars, rxVars, readerVars, note, moduleVars, handles, marks>>
    BY <1>10 DEF OwnsSerial
  <2> QED  BY <2>1, <2>2, Frames DEF TypeOK
<1>11. ASSUME Report PROVE TypeOK'
  <2>1. ActorsOK'
    BY <1>11, <1>r, GoToType DEF Report, ReaderTo, ReaderPcs, RetirePcs
  <2>2. HandlesOK'
    BY <1>11 DEF Report, TypeOK, HandlesOK
  <2>3. UNCHANGED <<poolVars, modeVars, waitVars, rxVars, readerVars, note, moduleVars, marks>>
    BY <1>11 DEF Report
  <2> QED  BY <2>1, <2>2, <2>3, Frames DEF TypeOK
<1> QED
  BY <1>1, <1>2, <1>3, <1>4, <1>5, <1>6, <1>7, <1>8, <1>9, <1>10, <1>11 DEF ReadStep

\* Every handler keeps the types.
LEMMA HandlersTypeOK ==
    ASSUME TypeOK, Handlers
    PROVE  TypeOK'
<1> USE ConstantTypes
<1> DEFINE L == [kind : LineKinds, cid : Cids, serial : Nat]
<1>w. /\ wire \in Seq(L) /\ sent \in Nat
      /\ sock \in [Cids -> [st : SockState, serial : Nat, data : Nat]]
  BY DEF TypeOK, ModuleOK
<1>l. ASSUME NEW kinds, OnLine(kinds)
      PROVE  /\ ModuleOK' /\ Head(wire) \in L /\ Head(wire).kind \in kinds
             /\ UNCHANGED <<actorVars, poolVars, modeVars, readerVars, handles>>
  <2>1. /\ wire # <<>> /\ wire' = Tail(wire) /\ Head(wire).kind \in kinds
        /\ UNCHANGED <<actorVars, poolVars, modeVars, readerVars, sock, sent, handles>>
    BY <1>l DEF OnLine
  <2> HIDE DEF L
  <2>2. Head(wire) \in L /\ Tail(wire) \in Seq(L)
    BY <1>w, <2>1
  <2> QED  BY <1>w, <2>1, <2>2 DEF ModuleOK, L
<1>n. ASSUME NEW l \in L, NoteSerial(l) PROVE NoteOK'
  BY <1>n DEF NoteSerial, TypeOK, NoteOK, PoolOK
<1>1. ASSUME OnCiprxgetUrc PROVE TypeOK'
  <2>1. OnLine({"arrival"})
    BY <1>1 DEF OnCiprxgetUrc
  <2>2. RxOK'
    BY <1>1, <1>l, <2>1 DEF OnCiprxgetUrc, TypeOK, RxOK
  <2>3. UNCHANGED <<waitVars, note, marks>>
    BY <1>1 DEF OnCiprxgetUrc
  <2> QED  BY <1>l, <2>1, <2>2, <2>3, Frames DEF TypeOK
<1>2. ASSUME RecordOpenResult PROVE TypeOK'
  <2>1. OnLine({"connected", "failed", "already"})
    BY <1>2 DEF RecordOpenResult
  <2>2. WaitsOK'
    BY <1>2, <1>l, <2>1 DEF RecordOpenResult, TypeOK, WaitsOK
  <2>3. UNCHANGED <<rxVars, note, marks>>
    BY <1>2 DEF RecordOpenResult
  <2> QED  BY <1>l, <2>1, <2>2, <2>3, Frames DEF TypeOK
<1>3. ASSUME OnCloseOk PROVE TypeOK'
  <2>1. OnLine({"closeok", "peercloseok"})
    BY <1>3 DEF OnCloseOk
  <2>2. NoteOK'
    <3>1. CASE UNCHANGED note
      BY <3>1, Frames
    <3>2. CASE NoteSerial(Head(wire))
      BY <1>l, <1>n, <2>1, <3>2
    <3> QED  BY <1>3, <3>1, <3>2 DEF OnCloseOk
  <2>3. MarksOK'
    <3>1. CASE UNCHANGED marks
      BY <3>1, Frames
    <3>2. CASE Mark(Head(wire).cid, "swallowed")
      BY <1>l, <2>1, <3>2 DEF Mark, TypeOK, MarksOK
    <3> QED  BY <1>3, <3>1, <3>2 DEF OnCloseOk
  <2>4. UNCHANGED <<waitVars, rxVars>>
    BY <1>3 DEF OnCloseOk, waitVars
  <2> QED  BY <1>l, <2>1, <2>2, <2>3, <2>4, Frames DEF TypeOK
<1>4. ASSUME OnClosed PROVE TypeOK'
  <2>1. OnLine({"closed"})
    BY <1>4 DEF OnClosed
  <2>2. NoteOK'
    BY <1>4, <1>l, <1>n, <2>1 DEF OnClosed
  <2>3. UNCHANGED <<waitVars, rxVars, marks>>
    BY <1>4 DEF OnClosed
  <2> QED  BY <1>l, <2>1, <2>2, <2>3, Frames DEF TypeOK
<1>5. ASSUME NotePeerClosed PROVE TypeOK'
  <2>1. RxOK'
    BY <1>5 DEF NotePeerClosed, TypeOK, RxOK, NoteOK
  <2>2. NoteOK'
    BY <1>5 DEF NotePeerClosed, NoteOK
  <2>3. UNCHANGED <<actorVars, poolVars, modeVars, waitVars, readerVars, moduleVars, handles,
                    marks>>
    BY <1>5 DEF NotePeerClosed
  <2> QED  BY <2>1, <2>2, <2>3, Frames DEF TypeOK
<1> QED  BY <1>1, <1>2, <1>3, <1>4, <1>5 DEF Handlers

\* Every step of the module keeps the types.
LEMMA ModuleTypeOK ==
    ASSUME TypeOK, Module
    PROVE  TypeOK'
<1> DEFINE L == [kind : LineKinds, cid : Cids, serial : Nat]
           S == [st : SockState, serial : Nat, data : Nat]
<1>w. sock \in [Cids -> S] /\ sent \in Nat
  BY DEF TypeOK, ModuleOK
<1>m. ASSUME NEW l \in L, ModuleWrites(l), sock' \in [Cids -> S], sent' \in Nat
      PROVE  TypeOK'
  <2>1. ModuleOK'
    BY <1>m, AppendType DEF ModuleWrites
  <2>2. UNCHANGED <<actorVars, poolVars, modeVars, waitVars, rxVars, readerVars, note, handles,
                    marks>>
    BY <1>m DEF ModuleWrites
  <2> QED  BY <2>1, <2>2, Frames DEF TypeOK
<1>1. ASSUME NEW c \in Cids, NEW ok \in BOOLEAN, ModuleConnects(c, ok) PROVE TypeOK'
  <2>1. sock' \in [Cids -> S] /\ sent' \in Nat
    <3>1. /\ SetSock(c, IF ok THEN "open" ELSE "closed", 0)
          /\ (IF ok THEN "open" ELSE "closed") \in SockState
          /\ UNCHANGED sent
      BY <1>1 DEF ModuleConnects, SockState
    <3> QED  BY <1>w, <3>1, SetSockType
  <2>2. Line(IF ok THEN "connected" ELSE "failed", c, sock[c].serial) \in L
    BY <1>w DEF Line, LineKinds
  <2> QED  BY <1>1, <1>m, <2>1, <2>2 DEF ModuleConnects
<1>2. ASSUME NEW c \in Cids, ModuleReceives(c) PROVE TypeOK'
  <2>1. sock' \in [Cids -> S] /\ sent' \in Nat
    <3>1. SetSock(c, "open", sock[c].data + 1) /\ sent' = sent + 1
      BY <1>2 DEF ModuleReceives
    <3>2. sock[c].data + 1 \in Nat /\ "open" \in SockState /\ sent + 1 \in Nat
      BY <1>w DEF SockState
    <3> QED  BY <3>1, <3>2, SetSockType
  <2>2. Line("arrival", c, sock[c].serial) \in L
    BY <1>w DEF Line, LineKinds
  <2> QED  BY <1>2, <1>m, <2>1, <2>2 DEF ModuleReceives
<1>3. ASSUME NEW c \in Cids, NEW kept \in BOOLEAN, ModulePeerCloses(c, kept) PROVE TypeOK'
  <2>1. sock' \in [Cids -> S] /\ sent' \in Nat
    <3>1. SetSock(c, "gone", IF kept THEN sock[c].data ELSE 0) /\ UNCHANGED sent
      BY <1>3 DEF ModulePeerCloses
    <3>2. (IF kept THEN sock[c].data ELSE 0) \in Nat /\ "gone" \in SockState
      BY <1>w DEF SockState
    <3> QED  BY <1>w, <3>1, <3>2, SetSockType
  <2>2. Line(IF kept THEN "closed" ELSE "peercloseok", c, sock[c].serial) \in L
    BY <1>w DEF Line, LineKinds
  <2> QED  BY <1>3, <1>m, <2>1, <2>2 DEF ModulePeerCloses
<1> QED  BY <1>1, <1>2, <1>3 DEF Module

\* A step that changes nothing keeps the types.
LEMMA StutterTypeOK ==
    ASSUME TypeOK, UNCHANGED vars
    PROVE  TypeOK'
<1>1. UNCHANGED <<actorVars, poolVars, modeVars, waitVars, rxVars, readerVars, note, moduleVars,
                  handles, marks>>
  BY DEF vars
<1> QED  BY <1>1, Frames DEF TypeOK

\* TypeOK is inductive.
LEMMA NextTypeOK ==
    ASSUME TypeOK, [Next]_vars
    PROVE  TypeOK'
<1>1. CASE Application
  BY <1>1, OpenTypeOK, RetireTypeOK, CloseTypeOK, CallTypeOK DEF Application, Actors
<1>2. CASE ReaderStep
  BY <1>2, ReadTypeOK, RetireTypeOK DEF ReaderStep, Actors
<1>3. CASE Handlers \/ Module
  BY <1>3, HandlersTypeOK, ModuleTypeOK
<1>4. CASE Quiet \/ UNCHANGED vars
  BY <1>4, StutterTypeOK DEF Quiet
<1> QED  BY <1>1, <1>2, <1>3, <1>4 DEF Next

\* The state of the Air780E HAL keeps its types, whatever the threads, the reader,
\* the handlers and the module do; a thread never ends up at a step of the reader.
THEOREM TypeCorrect == Spec => []TypeOK
<1>1. TypeOK /\ [Next]_vars => TypeOK'
  BY NextTypeOK
<1> QED  BY InitTypeOK, <1>1, PTL DEF Spec

-----------------------------------------------------------------------------
(***************************************************************************)
(* The switch.  SwitchFollowsReservations is not inductive by itself: it   *)
(* says nothing of the thread that moves the switch with no mutex held.    *)
(* SwitchInv adds that such a thread is alone, that the flag is up while   *)
(* it is there, and that the switch it is about to count on has been set.  *)
(***************************************************************************)
SwitchPcs == {"switch", "switched", "switchfailed"}

\* The inductive strengthening of SwitchFollowsReservations.
SwitchInv ==
    /\ SwitchFollowsReservations
    /\ \A t \in Threads : pc[t] \in SwitchPcs => switching
    /\ \A t, u \in Threads : pc[t] \in SwitchPcs /\ pc[u] \in SwitchPcs => t = u
    /\ \A t \in Threads : pc[t] = "switched" => cipssl = at[t].mode

\* An actor that goes anywhere but to the switch does not disturb SwitchInv.
LEMMA GoSwitch ==
    ASSUME TypeOK, SwitchInv, NEW x \in Actors, NEW l, NEW loc, Go(x, l, loc),
           l \notin SwitchPcs, UNCHANGED modeVars
    PROVE  SwitchInv'
<1>1. pc \in [Actors -> ThreadPcs \cup ReaderPcs] /\ at \in [Actors -> Local]
  BY DEF TypeOK, ActorsOK
<1>2. \A t \in Threads : t \in Actors
  BY DEF Actors
<1>3. \A t \in Threads : pc'[t] \in SwitchPcs => t # x /\ pc'[t] = pc[t] /\ at'[t] = at[t]
  BY <1>1, <1>2 DEF Go
<1>4. \A t \in Threads : pc'[t] = "switched" => pc'[t] \in SwitchPcs
  BY DEF SwitchPcs
<1>5. SwitchFollowsReservations'
  BY DEF SwitchInv, SwitchFollowsReservations, modeVars
<1>6. UNCHANGED <<switching, cipssl>>
  BY DEF modeVars
<1> HIDE DEF SwitchPcs
<1> QED  BY <1>3, <1>4, <1>5, <1>6 DEF SwitchInv

\* Neither does a step that moves no actor.
LEMMA StaySwitch ==
    ASSUME SwitchInv, UNCHANGED <<actorVars, modeVars>>
    PROVE  SwitchInv'
BY DEF SwitchInv, SwitchFollowsReservations, actorVars, modeVars

\* The three steps of ReserveSocketForMode keep SwitchInv: the flag is what keeps
\* other openers away while ssl_mutex_ is dropped.
LEMMA ReserveSwitch ==
    ASSUME TypeOK, SwitchInv, NEW t \in Threads,
           Reserve(t) \/ ApplySslSwitch(t) \/ SwitchDone(t)
    PROVE  SwitchInv'
<1> DEFINE m == at[t].mode
<1>p. pc \in [Actors -> ThreadPcs \cup ReaderPcs] /\ at \in [Actors -> Local]
  BY DEF TypeOK, ActorsOK
<1>t. t \in Actors /\ \A u \in Threads : u \in Actors
  BY DEF Actors
<1>m. m \in Modes /\ Other(m) \in Modes /\ Other(m) # m /\ Modes = {m, Other(m)}
      /\ Other(Other(m)) = m
  BY <1>p, <1>t DEF Local, Modes, Other
<1>o. open \in [Modes -> Nat]
  BY DEF TypeOK, ModesOK
<1>g. ASSUME NEW l, GoTo(t, l), l # "idle", l # "rest"
      PROVE  /\ pc'[t] = l /\ at'[t] = at[t]
             /\ \A u \in Threads : u # t => pc'[u] = pc[u] /\ at'[u] = at[u]
  BY <1>g, <1>p, <1>t DEF GoTo, Go
<1>1. ASSUME Reserve(t) PROVE SwitchInv'
  <2>0. pc[t] = "reserve" /\ ~switching /\ UNCHANGED cipssl
    BY <1>1 DEF Reserve
  <2>n. \A u \in Threads : pc[u] \notin SwitchPcs
    BY <2>0 DEF SwitchInv
  <2>1. CASE GoTo(t, "idle") /\ UNCHANGED <<open, switching>>
    BY <1>t, <2>0, <2>1, GoSwitch DEF GoTo, modeVars, SwitchPcs
  <2>2. CASE /\ open[Other(m)] = 0 /\ open[m] > 0
             /\ open' = [open EXCEPT ![m] = @ + 1]
             /\ GoTo(t, "alloc") /\ UNCHANGED switching
    <3>1. SwitchFollowsReservations'
      <4>1. open'[Other(m)] = 0 /\ cipssl = m
        BY <1>m, <1>o, <2>2 DEF SwitchInv, SwitchFollowsReservations
      <4> QED  BY <1>m, <2>0, <2>2, <4>1 DEF SwitchFollowsReservations
    <3>2. \A u \in Threads : pc'[u] \notin SwitchPcs
      BY <1>g, <2>2, <2>n DEF SwitchPcs
    <3> QED  BY <3>1, <3>2 DEF SwitchInv, SwitchPcs
  <2>3. CASE /\ open[Other(m)] = 0 /\ open[m] = 0
             /\ switching' = TRUE
             /\ GoTo(t, "switch") /\ UNCHANGED open
    <3>1. SwitchFollowsReservations'
      BY <1>m, <2>3 DEF SwitchFollowsReservations
    <3>2. \A u \in Threads : pc'[u] \in SwitchPcs => u = t
      BY <1>g, <2>3, <2>n
    <3>3. pc'[t] = "switch"
      BY <1>g, <2>3
    <3> QED  BY <2>3, <3>1, <3>2, <3>3 DEF SwitchInv, SwitchPcs
  <2> QED  BY <1>1, <2>1, <2>2, <2>3 DEF Reserve
<1>2. ASSUME ApplySslSwitch(t) PROVE SwitchInv'
  <2>0. pc[t] = "switch" /\ UNCHANGED <<open, switching>>
    BY <1>2 DEF ApplySslSwitch
  <2>1. switching /\ \A u \in Threads : pc[u] \in SwitchPcs => u = t
    BY <2>0 DEF SwitchInv, SwitchPcs
  <2>2. open[m] = 0 /\ open[Other(m)] = 0
    BY <1>m, <1>o, <2>1 DEF SwitchInv, SwitchFollowsReservations
  <2>3. SwitchFollowsReservations'
    BY <1>m, <2>0, <2>2 DEF SwitchFollowsReservations
  <2>4. PICK l \in {"switched", "switchfailed"} :
           GoTo(t, l) /\ (l = "switched" => cipssl' = m)
    BY <1>2 DEF ApplySslSwitch
  <2>5. pc'[t] = l /\ at'[t] = at[t] /\ \A u \in Threads : u # t => pc'[u] = pc[u]
    BY <1>g, <2>4
  <2>6. \A u \in Threads : pc'[u] \in SwitchPcs => u = t
    BY <2>1, <2>5
  <2>7. \A u \in Threads : pc'[u] = "switched" => u = t
    BY <2>6 DEF SwitchPcs
  <2> QED  BY <2>0, <2>1, <2>3, <2>4, <2>5, <2>6, <2>7 DEF SwitchInv
<1>3. ASSUME SwitchDone(t) PROVE SwitchInv'
  <2>0. pc[t] \in {"switched", "switchfailed"} /\ switching' = FALSE /\ UNCHANGED cipssl
    BY <1>3 DEF SwitchDone
  <2>1. switching /\ \A u \in Threads : pc[u] \in SwitchPcs => u = t
    BY <2>0 DEF SwitchInv, SwitchPcs
  <2>2. open[m] = 0 /\ open[Other(m)] = 0
    BY <1>m, <1>o, <2>1 DEF SwitchInv, SwitchFollowsReservations
  <2>3. PICK l \in {"alloc", "idle"} : GoTo(t, l)
    BY <1>3 DEF SwitchDone
  <2>4. pc'[t] = l /\ \A u \in Threads : u # t => pc'[u] = pc[u]
    BY <1>p, <1>t, <2>3 DEF GoTo, Go
  <2>5. \A u \in Threads : pc'[u] \notin SwitchPcs
    BY <2>1, <2>4 DEF SwitchPcs
  <2>6. SwitchFollowsReservations'
    <3>1. CASE pc[t] = "switched"
      <4>1. open' = [open EXCEPT ![m] = @ + 1] /\ cipssl = m
        BY <1>3, <3>1 DEF SwitchDone, SwitchInv
      <4> QED  BY <1>m, <1>o, <2>0, <2>2, <4>1 DEF SwitchFollowsReservations
    <3>2. CASE pc[t] = "switchfailed"
      <4>1. UNCHANGED open
        BY <1>3, <3>2 DEF SwitchDone
      <4> QED  BY <1>m, <2>2, <4>1 DEF SwitchFollowsReservations
    <3> QED  BY <2>0, <3>1, <3>2
  <2> QED  BY <2>5, <2>6 DEF SwitchInv, SwitchPcs
<1> QED  BY <1>1, <1>2, <1>3

-----------------------------------------------------------------------------
(***************************************************************************)
(* The counters.  ReservationsCovered compares a count with the sizes of   *)
(* two sets; a step changes each by one element at most.                   *)
(***************************************************************************)

\* Sets that lose elements stay covered by a count that does not fall.
LEMMA Shrink ==
    ASSUME NEW R, NEW H, NEW R2, NEW H2, NEW n \in Nat, NEW n2 \in Nat,
           IsFiniteSet(R), IsFiniteSet(H), Cardinality(R) + Cardinality(H) <= n,
           R2 \subseteq R, H2 \subseteq H, n <= n2
    PROVE  Cardinality(R2) + Cardinality(H2) <= n2
<1>1. /\ IsFiniteSet(R2) /\ Cardinality(R2) <= Cardinality(R)
      /\ IsFiniteSet(H2) /\ Cardinality(H2) <= Cardinality(H)
  BY FS_Subset
<1>2. /\ Cardinality(R) \in Nat /\ Cardinality(H) \in Nat
      /\ Cardinality(R2) \in Nat /\ Cardinality(H2) \in Nat
  BY <1>1, FS_CardinalityType
<1> QED  BY <1>1, <1>2

\* The size of a set without one of its elements.
LEMMA OneLess ==
    ASSUME NEW S, IsFiniteSet(S), NEW x \in S
    PROVE  IsFiniteSet(S \ {x}) /\ Cardinality(S \ {x}) \in Nat
           /\ Cardinality(S \ {x}) + 1 = Cardinality(S)
<1>1. IsFiniteSet(S \ {x}) /\ Cardinality(S \ {x}) = Cardinality(S) - 1
  BY FS_RemoveElement
<1>2. Cardinality(S \ {x}) \in Nat /\ Cardinality(S) \in Nat
  BY <1>1, FS_CardinalityType
<1> QED  BY <1>1, <1>2

\* The size of a set with one element more.
LEMMA OneMore ==
    ASSUME NEW S, IsFiniteSet(S), NEW x
    PROVE  IsFiniteSet(S \cup {x}) /\ Cardinality(S \cup {x}) \in Nat
           /\ Cardinality(S \cup {x}) <= Cardinality(S) + 1
<1>1. /\ IsFiniteSet(S \cup {x})
      /\ Cardinality(S \cup {x}) = Cardinality(S) \/ Cardinality(S \cup {x}) = Cardinality(S) + 1
  BY FS_AddElement
<1>2. Cardinality(S \cup {x}) \in Nat /\ Cardinality(S) \in Nat
  BY <1>1, FS_CardinalityType
<1> QED  BY <1>1, <1>2

\* What gains an element is covered by a count that rises.
LEMMA Gain ==
    ASSUME NEW R, NEW H, NEW R2, NEW H2, NEW n \in Nat, NEW x,
           IsFiniteSet(R), IsFiniteSet(H), Cardinality(R) + Cardinality(H) <= n,
           R2 \subseteq R \cup {x}, H2 \subseteq H
    PROVE  Cardinality(R2) + Cardinality(H2) <= n + 1
<1>1. /\ IsFiniteSet(R \cup {x}) /\ Cardinality(R \cup {x}) \in Nat
      /\ Cardinality(R \cup {x}) <= Cardinality(R) + 1
  BY OneMore
<1>2. Cardinality(R) \in Nat /\ Cardinality(H) \in Nat
  BY FS_CardinalityType
<1>3. Cardinality(R \cup {x}) + Cardinality(H) <= n + 1
  BY <1>1, <1>2
<1> QED  BY <1>1, <1>3, Shrink

\* What loses an element is covered by a count that falls by one.
LEMMA Drop ==
    ASSUME NEW R, NEW H, NEW R2, NEW H2, NEW n \in Nat, NEW x \in R,
           IsFiniteSet(R), IsFiniteSet(H), Cardinality(R) + Cardinality(H) <= n,
           R2 \subseteq R \ {x}, H2 \subseteq H
    PROVE  n > 0 /\ Cardinality(R2) + Cardinality(H2) <= n - 1
<1>1. /\ IsFiniteSet(R \ {x}) /\ Cardinality(R \ {x}) \in Nat
      /\ Cardinality(R \ {x}) + 1 = Cardinality(R)
  BY OneLess
<1>2. Cardinality(R) \in Nat /\ Cardinality(H) \in Nat
  BY FS_CardinalityType
<1>3. n - 1 \in Nat /\ Cardinality(R \ {x}) + Cardinality(H) <= n - 1
  BY <1>1, <1>2
<1> QED  BY <1>1, <1>3, Shrink

\* An element that passes from one set to the other costs nothing.
LEMMA Pass ==
    ASSUME NEW R, NEW H, NEW R2, NEW H2, NEW n \in Nat, NEW x \in R, NEW c,
           IsFiniteSet(R), IsFiniteSet(H), Cardinality(R) + Cardinality(H) <= n,
           R2 \subseteq R \ {x}, H2 \subseteq H \cup {c}
    PROVE  Cardinality(R2) + Cardinality(H2) <= n
<1>1. /\ IsFiniteSet(R \ {x}) /\ Cardinality(R \ {x}) \in Nat
      /\ Cardinality(R \ {x}) + 1 = Cardinality(R)
  BY OneLess
<1>2. /\ IsFiniteSet(H \cup {c}) /\ Cardinality(H \cup {c}) \in Nat
      /\ Cardinality(H \cup {c}) <= Cardinality(H) + 1
  BY OneMore
<1>3. Cardinality(R) \in Nat /\ Cardinality(H) \in Nat
  BY FS_CardinalityType
<1>4. Cardinality(R \ {x}) + Cardinality(H \cup {c}) <= n
  BY <1>1, <1>2, <1>3
<1> QED  BY <1>1, <1>2, <1>4, Shrink

\* Reserved, in terms of where an actor is and of its local variables.
ReservedAt(l, loc, m) ==
    /\ loc.mode = m
    /\ \/ /\ loc.why \in {"none", "failed", "already"}
          /\ l \in {"alloc", "start", "wait", "hold"} \cup RetirePcs
       \/ /\ loc.why \notin {"none", "failed", "already"}
          /\ l = "unreserve" \/ (l = "retirerx" /\ loc.owned)

\* Whether a thread is opening or closing a socket agrees with where it is.
Phase(l, loc) ==
    /\ l \in {"reserve", "alloc", "start", "wait", "hold"} \cup SwitchPcs
         => loc.why \in {"none", "failed", "already"}
    /\ l \in {"closearm", "closesend"} => loc.why \notin {"none", "failed", "already"}

\* The inductive strengthening of ReservationsCovered.
CoverInv ==
    /\ ReservationsCovered
    /\ \A t \in Threads : Phase(pc[t], at[t])

Reservers(m) == {x \in Actors : Reserved(x, m)}

\* The sets that are counted are finite, and the counts are numbers.
LEMMA CountsFinite ==
    ASSUME TypeOK, NEW m \in Modes
    PROVE  IsFiniteSet(Reservers(m)) /\ IsFiniteSet(Holding(m)) /\ open[m] \in Nat
<1>1. IsFiniteSet(Actors)
  BY ActorsAssumption, FS_AddElement DEF Actors
<1>2. IsFiniteSet(Cids)
  BY NumCidsAssumption, FS_Interval DEF Cids
<1>3. Reservers(m) \in SUBSET Actors /\ Holding(m) \in SUBSET Cids
  BY DEF Reservers, Holding
<1> QED  BY <1>1, <1>2, <1>3, FS_Subset DEF TypeOK, ModesOK

\* The effect of a move on the reservations: those of the other actors stay.
LEMMA GoReserved ==
    ASSUME TypeOK, NEW x \in Actors, NEW l, NEW loc, Go(x, l, loc)
    PROVE  /\ \A y \in Actors, m \in Modes : y # x => (Reserved(y, m)' <=> Reserved(y, m))
           /\ \A m \in Modes : Reserved(x, m)' => ReservedAt(l, loc, m)
           /\ l \in {"idle", "rest"} => \A m \in Modes : ~Reserved(x, m)'
<1>1. pc \in [Actors -> ThreadPcs \cup ReaderPcs] /\ at \in [Actors -> Local]
  BY DEF TypeOK, ActorsOK
<1>2. \A y \in Actors : y # x => pc'[y] = pc[y] /\ at'[y] = at[y]
  BY <1>1 DEF Go
<1>3. pc'[x] = l /\ (l \notin {"idle", "rest"} => at'[x] = loc)
  BY <1>1 DEF Go
<1>4. l \in {"idle", "rest"} => \A m \in Modes : ~Reserved(x, m)'
  BY <1>3 DEF Reserved, IsOpening, RetirePcs
<1>5. ASSUME l \notin {"idle", "rest"}, NEW m \in Modes, Reserved(x, m)'
      PROVE  ReservedAt(l, loc, m)
  BY <1>3, <1>5 DEF Reserved, IsOpening, ReservedAt
<1>6. ASSUME NEW y \in Actors, NEW m \in Modes, y # x
      PROVE  Reserved(y, m)' <=> Reserved(y, m)
  BY <1>2, <1>6 DEF Reserved, IsOpening
<1> QED  BY <1>4, <1>5, <1>6

\* A move keeps the phases in order if it goes to a phase of its own.
LEMMA GoPhase ==
    ASSUME TypeOK, CoverInv, NEW x \in Actors, NEW l, NEW loc, Go(x, l, loc),
           x \in Threads => Phase(l, loc)
    PROVE  \A t \in Threads : Phase(pc[t], at[t])'
<1>1. pc \in [Actors -> ThreadPcs \cup ReaderPcs] /\ at \in [Actors -> Local]
  BY DEF TypeOK, ActorsOK
<1>2. \A y \in Actors : y # x => pc'[y] = pc[y] /\ at'[y] = at[y]
  BY <1>1 DEF Go
<1>3. pc'[x] = l /\ (l \notin {"idle", "rest"} => at'[x] = loc)
  BY <1>1 DEF Go
<1>4. ASSUME NEW t \in Threads PROVE Phase(pc'[t], at'[t])
  <2>1. CASE t # x
    BY <1>2, <2>1 DEF CoverInv, Actors
  <2>2. CASE t = x /\ l \notin {"idle", "rest"}
    BY <1>3, <2>2
  <2>3. CASE t = x /\ l \in {"idle", "rest"}
    BY <1>3, <2>3 DEF Phase, SwitchPcs
  <2> QED  BY <2>1, <2>2, <2>3
<1> QED  BY <1>4

\* A move that takes no new reservation and leaves the counters alone, while no
\* slot begins to hold one, keeps the counters above what they count.
LEMMA GoCover ==
    ASSUME TypeOK, CoverInv, NEW x \in Actors, NEW l, NEW loc, Go(x, l, loc),
           x \in Threads => Phase(l, loc),
           \A m \in Modes : ReservedAt(l, loc, m) => Reserved(x, m),
           \A m \in Modes : Holding(m)' \subseteq Holding(m),
           UNCHANGED open
    PROVE  CoverInv'
<1>1. ASSUME NEW m \in Modes
      PROVE  Cardinality(Reservers(m)') + Cardinality(Holding(m)') <= open'[m]
  <2>1. Reservers(m)' \subseteq Reservers(m)
    BY GoReserved DEF Reservers
  <2>2. Cardinality(Reservers(m)) + Cardinality(Holding(m)) <= open[m]
    BY DEF CoverInv, ReservationsCovered, Reservers
  <2> QED  BY <2>1, <2>2, CountsFinite, Shrink
<1> QED  BY <1>1, GoPhase DEF CoverInv, ReservationsCovered, Reservers

\* A step that moves no actor and touches neither slots nor counters keeps it.
LEMMA StayCover ==
    ASSUME CoverInv, UNCHANGED <<actorVars, slots, open>>
    PROVE  CoverInv'
<1>1. \A x \in Actors, m \in Modes : Reserved(x, m)' = Reserved(x, m)
  BY DEF Reserved, IsOpening, actorVars
<1>2. \A m \in Modes : Reservers(m)' = Reservers(m) /\ Holding(m)' = Holding(m)
  BY DEF Reservers, Holding, Reserved, IsOpening, actorVars
<1>3. ReservationsCovered'
  BY <1>2 DEF CoverInv, ReservationsCovered, Reservers
<1> QED  BY <1>3 DEF CoverInv, Phase, actorVars

-----------------------------------------------------------------------------
(* Every action keeps both invariants. *)

\* What the proofs carry from state to state.
ModeInv == TypeOK /\ SwitchInv /\ CoverInv

\* A move away from the switch that takes no reservation keeps both invariants.
LEMMA Move ==
    ASSUME ModeInv, NEW x \in Actors, NEW l, NEW loc, Go(x, l, loc),
           l \notin SwitchPcs, x \in Threads => Phase(l, loc),
           \A m \in Modes : ReservedAt(l, loc, m) => Reserved(x, m),
           \A m \in Modes : Holding(m)' \subseteq Holding(m),
           UNCHANGED modeVars
    PROVE  SwitchInv' /\ CoverInv'
BY GoSwitch, GoCover DEF ModeInv, modeVars

\* The steps of ReserveSocketForMode: who takes a reservation counts it.
LEMMA ReserveCover ==
    ASSUME ModeInv, NEW t \in Threads,
           Reserve(t) \/ ApplySslSwitch(t) \/ SwitchDone(t)
    PROVE  CoverInv'
<1> DEFINE m0 == at[t].mode
<1>t. t \in Actors /\ TypeOK /\ CoverInv
  BY DEF Actors, ModeInv
<1>m. m0 \in Modes /\ open \in [Modes -> Nat]
  BY <1>t DEF TypeOK, ActorsOK, ModesOK, Local
<1>s. UNCHANGED slots
  BY DEF Reserve, ApplySslSwitch, SwitchDone, poolVars
<1>h. \A m \in Modes : Holding(m)' = Holding(m)
  BY <1>s DEF Holding
<1>w. at[t].why \in {"none", "failed", "already"}
  <2>1. pc[t] \in {"reserve"} \cup SwitchPcs
    BY DEF Reserve, ApplySslSwitch, SwitchDone, SwitchPcs
  <2> QED  BY <1>t, <2>1 DEF CoverInv, Phase
<1>1. ASSUME NEW l \in {"idle", "switch", "switched", "switchfailed"}, GoTo(t, l),
             UNCHANGED open
      PROVE  CoverInv'
  <2>1. Go(t, l, at[t]) /\ Phase(l, at[t])
    BY <1>1, <1>w DEF GoTo, Phase
  <2>2. \A m \in Modes : ~ReservedAt(l, at[t], m)
    BY <1>1, <1>w DEF ReservedAt, RetirePcs
  <2> QED  BY <1>1, <1>t, <1>h, <2>1, <2>2, GoCover
<1>2. ASSUME GoTo(t, "alloc"), open' = [open EXCEPT ![m0] = @ + 1]
      PROVE  CoverInv'
  <2>1. Go(t, "alloc", at[t]) /\ Phase("alloc", at[t])
    BY <1>2, <1>w DEF GoTo, Phase
  <2>2. ASSUME NEW m \in Modes
        PROVE  Cardinality(Reservers(m)') + Cardinality(Holding(m)') <= open'[m]
    <3>1. Cardinality(Reservers(m)) + Cardinality(Holding(m)) <= open[m]
      BY <1>t DEF CoverInv, ReservationsCovered, Reservers
    <3>2. Reservers(m)' \subseteq Reservers(m) \cup {t}
      BY <1>t, <2>1, GoReserved DEF Reservers
    <3>3. CASE m = m0
      BY <1>2, <1>m, <1>t, <1>h, <3>1, <3>2, <3>3, CountsFinite, Gain
    <3>4. CASE m # m0
      <4>1. Reservers(m)' \subseteq Reservers(m)
        BY <1>t, <2>1, <3>4, GoReserved DEF Reservers, ReservedAt
      <4>2. open'[m] = open[m]
        BY <1>2, <1>m, <3>4
      <4> QED  BY <1>t, <1>h, <3>1, <4>1, <4>2, CountsFinite, Shrink
    <3> QED  BY <3>3, <3>4
  <2>3. \A u \in Threads : Phase(pc[u], at[u])'
    BY <1>t, <2>1, GoPhase
  <2> QED  BY <2>2, <2>3 DEF CoverInv, ReservationsCovered, Reservers
<1>3. CASE Reserve(t)
  BY <1>1, <1>2, <1>3 DEF Reserve
<1>4. CASE ApplySslSwitch(t)
  BY <1>1, <1>4 DEF ApplySslSwitch
<1>5. CASE SwitchDone(t)
  BY <1>1, <1>2, <1>5 DEF SwitchDone
<1> QED  BY <1>3, <1>4, <1>5

\* Hold passes the caller's reservation to the slot.
LEMMA HoldCover ==
    ASSUME ModeInv, NEW t \in Threads, Hold(t)
    PROVE  CoverInv'
<1> DEFINE m0 == at[t].mode
           c == at[t].cid
<1>t. t \in Actors /\ TypeOK /\ CoverInv
  BY DEF Actors, ModeInv
<1>m. m0 \in Modes /\ c \in Cids
  BY <1>t DEF TypeOK, ActorsOK, Local
<1>s. slots \in [Cids -> [used : BOOLEAN, holds : BOOLEAN, mode : Modes, serial : Nat]]
  BY <1>t DEF TypeOK, PoolOK
<1>g. Go(t, "idle", at[t]) /\ UNCHANGED open /\ pc[t] = "hold"
  BY DEF Hold, GoTo, modeVars
<1>p. Phase("idle", at[t])
  BY DEF Phase, SwitchPcs
<1>r. Reserved(t, m0)
  <2>1. at[t].why \in {"none", "failed", "already"}
    BY <1>g, <1>t DEF CoverInv, Phase
  <2> QED  BY <1>g, <2>1 DEF Reserved, IsOpening
<1>h. \A m \in Modes : /\ Holding(m)' \subseteq Holding(m) \cup {c}
                       /\ m # m0 => Holding(m)' \subseteq Holding(m)
  <2>1. slots' = [slots EXCEPT ![c] = [slots[c] EXCEPT !.mode = m0, !.holds = TRUE]]
    BY DEF Hold
  <2>2. /\ \A d \in Cids : d # c => slots'[d] = slots[d]
        /\ slots'[c].mode = m0
    BY <1>m, <1>s, <2>1
  <2> QED  BY <2>2 DEF Holding
<1>1. ASSUME NEW m \in Modes
      PROVE  Cardinality(Reservers(m)') + Cardinality(Holding(m)') <= open'[m]
  <2>1. Cardinality(Reservers(m)) + Cardinality(Holding(m)) <= open[m]
    BY <1>t DEF CoverInv, ReservationsCovered, Reservers
  <2>2. Reservers(m)' \subseteq Reservers(m) \ {t}
    BY <1>t, <1>g, GoReserved DEF Reservers
  <2>3. CASE m = m0
    <3>1. t \in Reservers(m)
      BY <1>r, <1>t, <2>3 DEF Reservers
    <3> QED  BY <1>g, <1>h, <1>t, <2>1, <2>2, <3>1, CountsFinite, Pass
  <2>4. CASE m # m0
    BY <1>g, <1>h, <1>t, <2>1, <2>2, <2>4, CountsFinite, Shrink
  <2> QED  BY <2>3, <2>4
<1> QED  BY <1>1, <1>g, <1>p, <1>t, GoPhase DEF CoverInv, ReservationsCovered, Reservers

\* Every step of an open keeps both invariants.
LEMMA OpenInv ==
    ASSUME ModeInv, NEW t \in Threads, OpenStep(t)
    PROVE  SwitchInv' /\ CoverInv'
<1> DEFINE opening == {"none", "failed", "already"}
<1>t. t \in Actors /\ TypeOK /\ SwitchInv /\ CoverInv
  BY DEF Actors, ModeInv
<1>l. at[t] \in Local /\ at[t].cid \in Cids
  BY <1>t DEF TypeOK, ActorsOK, Local
<1>w. pc[t] \in {"alloc", "start", "wait", "hold"} => at[t].why \in opening
  BY <1>t DEF CoverInv, Phase
<1>r. \A m \in Modes : pc[t] \in {"alloc", "start", "wait", "hold"} /\ at[t].mode = m
                         => Reserved(t, m)
  BY <1>w DEF Reserved, IsOpening
<1>g. ASSUME NEW l \in {"alloc", "start", "wait", "hold", "retire", "unreserve"},
             NEW loc \in Local, Go(t, l, loc),
             pc[t] \in {"alloc", "start", "wait", "hold"},
             loc.mode = at[t].mode, loc.why \in opening,
             \A m \in Modes : Holding(m)' \subseteq Holding(m),
             UNCHANGED modeVars
      PROVE  SwitchInv' /\ CoverInv'
  <2>1. Phase(l, loc)
    BY <1>g DEF Phase
  <2>2. \A m \in Modes : ReservedAt(l, loc, m) => Reserved(t, m)
    BY <1>g, <1>r DEF ReservedAt
  <2>3. l \notin SwitchPcs
    BY DEF SwitchPcs
  <2> QED  BY <1>g, <1>t, <2>1, <2>2, <2>3, Move
<1>h. UNCHANGED slots => \A m \in Modes : Holding(m)' \subseteq Holding(m)
  BY DEF Holding
<1>1. CASE Reserve(t) \/ ApplySslSwitch(t) \/ SwitchDone(t)
  BY <1>1, <1>t, ReserveSwitch, ReserveCover
<1>2. CASE AllocateConnectionId(t)
  <2> DEFINE c == CHOOSE i \in Candidates(at[t].tried) :
                      \A j \in Candidates(at[t].tried) : i <= j
             loc == [at[t] EXCEPT !.cid = c, !.serial = nextSerial]
  <2>1. /\ pc[t] = "alloc" /\ Candidates(at[t].tried) # {} /\ UNCHANGED modeVars
        /\ slots' = [slots EXCEPT ![c] = [FreeSlot EXCEPT !.used = TRUE, !.serial = nextSerial]]
        /\ Go(t, "start", loc)
    BY <1>2 DEF AllocateConnectionId
  <2>2. Candidates(at[t].tried) \in SUBSET Cids
    BY DEF Candidates
  <2>3. c \in Cids
    BY <2>1, <2>2, LeastCid
  <2> HIDE DEF c
  <2>4. loc \in Local /\ loc.mode = at[t].mode /\ loc.why = at[t].why
    BY <1>l, <1>t, <2>3 DEF Local, TypeOK, PoolOK
  <2>5. \A m \in Modes : Holding(m)' \subseteq Holding(m)
    <3>1. slots \in [Cids -> [used : BOOLEAN, holds : BOOLEAN, mode : Modes, serial : Nat]]
      BY <1>t DEF TypeOK, PoolOK
    <3>2. slots'[c].holds = FALSE /\ \A d \in Cids : d # c => slots'[d] = slots[d]
      BY <2>1, <2>3, <3>1 DEF FreeSlot
    <3> QED  BY <3>2 DEF Holding
  <2> HIDE DEF loc
  <2> QED  BY <1>g, <1>w, <2>1, <2>4, <2>5
<1>3. CASE NoConnectionId(t) \/ StartFails(t) \/ OpenTimeout(t)
  <2> DEFINE loc == [at[t] EXCEPT !.why = "failed"]
  <2>1. loc \in Local /\ loc.mode = at[t].mode /\ loc.why = "failed"
    BY <1>l DEF Local
  <2>2. PICK l \in {"retire", "unreserve"} : Go(t, l, loc)
    BY <1>3 DEF NoConnectionId, StartFails, OpenTimeout
  <2>3. UNCHANGED <<slots, modeVars>> /\ pc[t] \in {"alloc", "start", "wait"}
    BY <1>3 DEF NoConnectionId, StartFails, OpenTimeout, poolVars
  <2> HIDE DEF loc
  <2> QED  BY <1>g, <1>h, <2>1, <2>2, <2>3
<1>4. CASE Start(t)
  <2>1. Go(t, "wait", at[t]) /\ UNCHANGED <<slots, modeVars>> /\ pc[t] = "start"
    BY <1>4 DEF Start, GoTo, poolVars
  <2> QED  BY <1>g, <1>h, <1>l, <1>w, <2>1
<1>5. CASE Opened(t)
  <2>0. UNCHANGED <<slots, modeVars>> /\ pc[t] = "wait"
    BY <1>5 DEF Opened, poolVars
  <2>o. openWait.outcome \in {"connected", "failed", "already"} /\ openWait.about \in Nat
    BY <1>t DEF TypeOK, WaitsOK
  <2>1. CASE openWait.outcome = "connected"
    <3> DEFINE loc == [at[t] EXCEPT !.about = openWait.about]
    <3>1. Go(t, "hold", loc)
      BY <1>5, <2>1 DEF Opened
    <3>2. loc \in Local /\ loc.mode = at[t].mode /\ loc.why = at[t].why
      BY <1>l, <2>o DEF Local
    <3> HIDE DEF loc
    <3> QED  BY <1>g, <1>h, <1>w, <2>0, <3>1, <3>2
  <2>2. CASE openWait.outcome = "already"
    <3> DEFINE loc == [at[t] EXCEPT !.why = "already", !.tried = at[t].tried \cup {at[t].cid}]
    <3>1. Go(t, "retire", loc)
      BY <1>5, <2>2 DEF Opened
    <3>2. loc \in Local /\ loc.mode = at[t].mode /\ loc.why = "already"
      BY <1>l DEF Local
    <3> HIDE DEF loc
    <3> QED  BY <1>g, <1>h, <2>0, <3>1, <3>2
  <2>3. CASE openWait.outcome = "failed"
    <3> DEFINE loc == [at[t] EXCEPT !.why = "failed"]
    <3>1. Go(t, "retire", loc)
      BY <1>5, <2>3 DEF Opened
    <3>2. loc \in Local /\ loc.mode = at[t].mode /\ loc.why = "failed"
      BY <1>l DEF Local
    <3> HIDE DEF loc
    <3> QED  BY <1>g, <1>h, <2>0, <3>1, <3>2
  <2> QED  BY <2>o, <2>1, <2>2, <2>3
<1>6. CASE Hold(t)
  <2>1. Go(t, "idle", at[t]) /\ UNCHANGED modeVars
    BY <1>6 DEF Hold, GoTo
  <2>2. SwitchInv'
    BY <1>t, <2>1, GoSwitch DEF SwitchPcs
  <2> QED  BY <1>6, <2>2, HoldCover
<1> QED  BY <1>1, <1>2, <1>3, <1>4, <1>5, <1>6 DEF OpenStep

\* Starting an open or a close, and the steps of a close, keep both invariants.
LEMMA CallInv ==
    ASSUME ModeInv, NEW t \in Threads,
           \/ \E m \in Kinds : OpenSocket(t, m)
           \/ \E h \in handles : CloseConnection(t, h)
           \/ CloseStep(t)
    PROVE  SwitchInv' /\ CoverInv'
<1> USE ConstantTypes
<1>t. t \in Actors /\ TypeOK /\ SwitchInv /\ CoverInv
  BY DEF Actors, ModeInv
<1>l. at[t] \in Local
  BY <1>t DEF TypeOK, ActorsOK
<1>0. UNCHANGED <<slots, modeVars>>
  BY DEF OpenSocket, CloseConnection, CloseStep, CloseArm, CloseSend, CloseSendFails,
         CloseWait, poolVars
<1>h. \A m \in Modes : Holding(m)' \subseteq Holding(m)
  BY <1>0 DEF Holding
<1>g. ASSUME NEW l \in {"idle", "reserve", "closearm", "closesend", "retire"}, NEW loc,
             Go(t, l, loc), Phase(l, loc),
             l = "retire" => loc.why \notin {"none", "failed", "already"}
      PROVE  SwitchInv' /\ CoverInv'
  <2>1. \A m \in Modes : ~ReservedAt(l, loc, m)
    BY <1>g DEF ReservedAt, RetirePcs
  <2>2. l \notin SwitchPcs
    BY DEF SwitchPcs
  <2> QED  BY <1>0, <1>g, <1>h, <1>t, <2>1, <2>2, Move
<1>c. pc[t] \in {"closearm", "closesend"} => at[t].why \notin {"none", "failed", "already"}
  BY <1>t DEF CoverInv, Phase
<1>1. ASSUME NEW m \in Kinds, OpenSocket(t, m) PROVE SwitchInv' /\ CoverInv'
  <2> DEFINE loc == [Local0 EXCEPT !.mode = m]
  <2>1. loc.why = "none"
    BY DEF Local0
  <2>2. Go(t, "reserve", loc)
    BY <1>1 DEF OpenSocket
  <2>3. Phase("reserve", loc)
    BY <2>1 DEF Phase
  <2> HIDE DEF loc
  <2> QED  BY <1>g, <2>2, <2>3
<1>2. ASSUME NEW h \in handles, CloseConnection(t, h) PROVE SwitchInv' /\ CoverInv'
  <2> DEFINE loc == [Local0 EXCEPT !.cid = h.cid, !.why = "close"]
  <2>1. loc.why = "close"
    BY DEF Local0
  <2>2. Phase("closearm", loc)
    BY <2>1 DEF Phase, SwitchPcs
  <2>3. CASE Go(t, "closearm", loc)
    <3> HIDE DEF loc
    <3> QED  BY <1>g, <2>2, <2>3
  <2>4. CASE UNCHANGED actorVars
    <3>1. UNCHANGED open
      BY <1>0 DEF modeVars
    <3> QED  BY <1>0, <1>t, <2>4, <3>1, StaySwitch, StayCover
  <2> QED  BY <1>2, <2>3, <2>4 DEF CloseConnection
<1>3. CASE CloseArm(t)
  <2>1. Go(t, "closesend", at[t]) /\ pc[t] = "closearm"
    BY <1>3 DEF CloseArm, GoTo
  <2>2. Phase("closesend", at[t])
    BY <1>c, <2>1 DEF Phase, SwitchPcs
  <2> QED  BY <1>g, <2>1, <2>2
<1>4. CASE CloseSend(t)
  <2>1. Go(t, "retire", at[t]) /\ pc[t] = "closesend"
    BY <1>4 DEF CloseSend, GoTo
  <2>2. Phase("retire", at[t])
    BY DEF Phase, SwitchPcs
  <2> QED  BY <1>c, <1>g, <2>1, <2>2
<1>5. CASE CloseSendFails(t)
  <2> DEFINE loc == [at[t] EXCEPT !.why = "closefailed"]
  <2>1. Go(t, "retire", loc)
    BY <1>5 DEF CloseSendFails
  <2>2. loc.why = "closefailed"
    BY <1>l DEF Local
  <2>3. Phase("retire", loc)
    BY DEF Phase, SwitchPcs
  <2> HIDE DEF loc
  <2> QED  BY <1>g, <2>1, <2>2, <2>3
<1>6. CASE CloseWait(t)
  <2>1. Go(t, "idle", at[t])
    BY <1>6 DEF CloseWait, GoTo
  <2>2. Phase("idle", at[t])
    BY DEF Phase, SwitchPcs
  <2> QED  BY <1>g, <2>1, <2>2
<1> QED  BY <1>1, <1>2, <1>3, <1>4, <1>5, <1>6 DEF CloseStep

\* RetirePool takes a reservation from the slot or none; the slot is free after it.
LEMMA RetirePoolCover ==
    ASSUME ModeInv, NEW x \in Actors, RetirePool(x)
    PROVE  SwitchInv' /\ CoverInv'
<1> DEFINE c == at[x].cid
           opening == {"none", "failed", "already"}
<1>t. TypeOK /\ SwitchInv /\ CoverInv
  BY DEF ModeInv
<1>l. at[x] \in Local /\ c \in Cids
  BY <1>t DEF TypeOK, ActorsOK, Local
<1>s. slots \in [Cids -> [used : BOOLEAN, holds : BOOLEAN, mode : Modes, serial : Nat]]
  BY <1>t DEF TypeOK, PoolOK
<1>0. pc[x] = "retire" /\ UNCHANGED modeVars /\ UNCHANGED open
  BY DEF RetirePool, modeVars
<1>r. \A m \in Modes : at[x].mode = m /\ at[x].why \in opening => Reserved(x, m)
  BY <1>0 DEF Reserved, IsOpening, RetirePcs
<1>1. CASE ~slots[c].used
  <2> DEFINE l == AfterRetire(x, FALSE)
  <2>1. Go(x, l, at[x]) /\ UNCHANGED slots
    BY <1>1 DEF RetirePool, GoTo
  <2>2. /\ l \in {"alloc", "unreserve", "idle", "closewait", "report"}
        /\ l \in {"alloc", "unreserve"} => at[x].why \in opening
    <3>1. AfterRelease(x) \in {"idle", "closewait", "report"}
      BY DEF AfterRelease
    <3> QED  BY <3>1 DEF AfterRetire
  <2> HIDE DEF l
  <2>3. Phase(l, at[x]) /\ l \notin SwitchPcs
    BY <2>2 DEF Phase, SwitchPcs
  <2>4. \A m \in Modes : ReservedAt(l, at[x], m) => Reserved(x, m)
    BY <1>r, <2>2 DEF ReservedAt, RetirePcs
  <2>5. \A m \in Modes : Holding(m)' \subseteq Holding(m)
    BY <2>1 DEF Holding
  <2> QED  BY <1>0, <2>1, <2>3, <2>4, <2>5, Move
<1>2. CASE slots[c].used
  <2> DEFINE loc == [at[x] EXCEPT !.owned = slots[c].holds, !.serial = slots[c].serial,
                                  !.mode = IF IsOpening(x) THEN at[x].mode ELSE slots[c].mode]
  <2>1. slots' = [slots EXCEPT ![c] = FreeSlot] /\ Go(x, "retirerx", loc)
    BY <1>2 DEF RetirePool
  <2>2. /\ loc.why = at[x].why /\ loc.owned = slots[c].holds
        /\ loc.mode = IF IsOpening(x) THEN at[x].mode ELSE slots[c].mode
    BY <1>l DEF Local
  <2> HIDE DEF loc
  <2>3. Phase("retirerx", loc) /\ "retirerx" \notin SwitchPcs
    BY DEF Phase, SwitchPcs
  <2>4. /\ c \notin Holding("plain")' /\ c \notin Holding("ssl")'
        /\ \A d \in Cids : d # c => slots'[d] = slots[d]
    BY <1>l, <1>s, <2>1 DEF Holding, FreeSlot
  <2>5. \A m \in Modes : Holding(m)' \subseteq Holding(m) \ {c}
    BY <2>4 DEF Holding, Modes
  <2>6. CASE IsOpening(x) \/ ~slots[c].holds
    <3>1. \A m \in Modes : ReservedAt("retirerx", loc, m) => Reserved(x, m)
      BY <1>r, <2>2, <2>6 DEF ReservedAt, IsOpening
    <3> QED  BY <1>0, <2>1, <2>3, <2>5, <3>1, Move
  <2>7. CASE ~IsOpening(x) /\ slots[c].holds
    <3>1. SwitchInv'
      BY <1>0, <1>t, <2>1, <2>3, GoSwitch
    <3>2. ASSUME NEW m \in Modes
          PROVE  Cardinality(Reservers(m)') + Cardinality(Holding(m)') <= open'[m]
      <4>1. Cardinality(Reservers(m)) + Cardinality(Holding(m)) <= open[m]
        BY <1>t DEF CoverInv, ReservationsCovered, Reservers
      <4>f. /\ IsFiniteSet(Reservers(m)) /\ IsFiniteSet(Holding(m)) /\ open[m] \in Nat
            /\ Cardinality(Reservers(m)) \in Nat /\ Cardinality(Holding(m)) \in Nat
        BY <1>t, CountsFinite, FS_CardinalityType
      <4>2. CASE m = slots[c].mode
        <5>1. c \in Holding(m)
          BY <1>l, <2>7, <4>2 DEF Holding
        <5>2. Reservers(m)' \subseteq Reservers(m) \cup {x}
          BY <1>t, <2>1, GoReserved DEF Reservers
        <5>3. Cardinality(Holding(m)') + Cardinality(Reservers(m)') <= open[m]
          <6>1. Cardinality(Holding(m)) + Cardinality(Reservers(m)) <= open[m]
            BY <4>1, <4>f
          <6>2. Holding(m)' \subseteq Holding(m) \ {c}
            BY <2>5
          <6> HIDE DEF c
          <6> QED  BY <4>f, <5>1, <5>2, <6>1, <6>2, Pass
        <5>4. /\ IsFiniteSet(Reservers(m)') /\ IsFiniteSet(Holding(m)')
          BY <1>t, <2>5, <4>f, <5>2, FS_Subset, FS_AddElement
        <5>5. Cardinality(Reservers(m)') \in Nat /\ Cardinality(Holding(m)') \in Nat
          BY <5>4, FS_CardinalityType
        <5> QED  BY <1>0, <5>3, <5>5
      <4>3. CASE m # slots[c].mode
        <5>1. ~ReservedAt("retirerx", loc, m)
          BY <2>2, <2>7, <4>3 DEF ReservedAt
        <5>2. Reservers(m)' \subseteq Reservers(m)
          BY <1>t, <2>1, <5>1, GoReserved DEF Reservers
        <5> QED  BY <1>0, <2>5, <4>1, <4>f, <5>2, Shrink
      <4> QED  BY <4>2, <4>3
    <3> QED  BY <1>t, <2>1, <2>3, <3>1, <3>2, GoPhase DEF CoverInv, ReservationsCovered, Reservers
  <2> QED  BY <2>6, <2>7
<1> QED  BY <1>1, <1>2

\* Unreserve gives back a reservation that is out, so the decrement never saturates.
LEMMA UnreserveCover ==
    ASSUME ModeInv, NEW x \in Actors, Unreserve(x)
    PROVE  SwitchInv' /\ CoverInv'
<1> DEFINE m0 == at[x].mode
           l == AfterRelease(x)
<1>t. TypeOK /\ SwitchInv /\ CoverInv
  BY DEF ModeInv
<1>m. m0 \in Modes /\ open \in [Modes -> Nat]
  BY <1>t DEF TypeOK, ActorsOK, ModesOK, Local
<1>0. /\ pc[x] = "unreserve" /\ UNCHANGED <<switching, cipssl, slots>>
      /\ open' = [open EXCEPT ![m0] = IF @ > 0 THEN @ - 1 ELSE 0]
      /\ Go(x, l, at[x])
  BY DEF Unreserve, GoTo, poolVars
<1>1. l \in {"idle", "closewait", "report"}
  BY DEF AfterRelease
<1> HIDE DEF l
<1>r. x \in Reservers(m0)
  BY <1>0 DEF Reservers, Reserved, RetirePcs
<1>2. \A m \in Modes : Reservers(m)' \subseteq Reservers(m) \ {x}
  <2>1. \A m \in Modes : ~ReservedAt(l, at[x], m)
    BY <1>1 DEF ReservedAt, RetirePcs
  <2> QED  BY <1>0, <1>t, <2>1, GoReserved DEF Reservers
<1>h. \A m \in Modes : Holding(m)' = Holding(m)
  BY <1>0 DEF Holding
<1>3. ASSUME NEW m \in Modes
      PROVE  Cardinality(Reservers(m)') + Cardinality(Holding(m)') <= open'[m]
  <2>1. Cardinality(Reservers(m)) + Cardinality(Holding(m)) <= open[m]
    BY <1>t DEF CoverInv, ReservationsCovered, Reservers
  <2>2. CASE m = m0
    <3>1. open[m] > 0 /\ Cardinality(Reservers(m)') + Cardinality(Holding(m)') <= open[m] - 1
      BY <1>2, <1>h, <1>r, <1>t, <2>1, <2>2, CountsFinite, Drop
    <3>2. open'[m] = open[m] - 1
      BY <1>0, <1>m, <2>2, <3>1
    <3> QED  BY <3>1, <3>2
  <2>3. CASE m # m0
    <3>1. open'[m] = open[m]
      BY <1>0, <1>m, <2>3
    <3>2. Reservers(m)' \subseteq Reservers(m)
      BY <1>2
    <3> QED  BY <1>h, <1>t, <2>1, <3>1, <3>2, CountsFinite, Shrink
  <2> QED  BY <2>2, <2>3
<1>4. CoverInv'
  <2>1. Phase(l, at[x])
    BY <1>1 DEF Phase, SwitchPcs
  <2> QED  BY <1>0, <1>3, <1>t, <2>1, GoPhase DEF CoverInv, ReservationsCovered, Reservers
<1>5. SwitchInv'
  <2>1. \A m \in Modes : open'[m] \in Nat /\ open'[m] <= open[m]
    BY <1>0, <1>m
  <2>2. SwitchFollowsReservations'
    <3>1. ASSUME NEW m \in Modes, open'[m] > 0
          PROVE  open'[Other(m)] = 0 /\ cipssl' = m /\ ~switching'
      <4>1. Other(m) \in Modes
        BY DEF Other, Modes
      <4>2. open[m] > 0
        BY <1>m, <2>1, <3>1
      <4>3. open[Other(m)] = 0 /\ cipssl = m /\ ~switching
        BY <1>t, <4>2 DEF SwitchInv, SwitchFollowsReservations
      <4> QED  BY <1>0, <1>m, <2>1, <4>1, <4>3
    <3> QED  BY <3>1 DEF SwitchFollowsReservations
  <2>3. pc \in [Actors -> ThreadPcs \cup ReaderPcs] /\ at \in [Actors -> Local]
    BY <1>t DEF TypeOK, ActorsOK
  <2>4. \A t \in Threads : pc'[t] \in SwitchPcs => pc'[t] = pc[t] /\ at'[t] = at[t]
    BY <1>0, <1>1, <2>3 DEF Go, SwitchPcs, Actors
  <2>5. \A t \in Threads : pc'[t] = "switched" => pc'[t] \in SwitchPcs
    BY DEF SwitchPcs
  <2> HIDE DEF SwitchPcs
  <2> QED  BY <1>0, <1>t, <2>2, <2>4, <2>5 DEF SwitchInv
<1> QED  BY <1>4, <1>5

\* Every step that retires a slot keeps both invariants.
LEMMA RetireInv ==
    ASSUME ModeInv, NEW x \in Actors, RetireStep(x)
    PROVE  SwitchInv' /\ CoverInv'
<1> DEFINE opening == {"none", "failed", "already"}
<1>1. CASE RetireRx(x)
  <2> DEFINE l == AfterRetire(x, at[x].owned)
  <2>1. Go(x, l, at[x]) /\ UNCHANGED <<slots, modeVars>> /\ pc[x] = "retirerx"
    BY <1>1 DEF RetireRx, GoTo, poolVars
  <2>2. /\ l \in {"alloc", "unreserve", "idle", "closewait", "report"}
        /\ l = "alloc" => at[x].why \in opening
        /\ l = "unreserve" /\ at[x].why \notin opening => at[x].owned
    <3>1. AfterRelease(x) \in {"idle", "closewait", "report"}
      BY DEF AfterRelease
    <3>2. CASE at[x].why \in opening
      BY <3>1, <3>2 DEF AfterRetire
    <3>3. CASE at[x].why \notin opening
      <4>1. l = IF at[x].owned THEN "unreserve" ELSE AfterRelease(x)
        BY <3>3 DEF AfterRetire
      <4> QED  BY <3>1, <3>3, <4>1
    <3> QED  BY <3>2, <3>3
  <2> HIDE DEF l
  <2>3. Phase(l, at[x]) /\ l \notin SwitchPcs
    BY <2>2 DEF Phase, SwitchPcs
  <2>4. \A m \in Modes : ReservedAt(l, at[x], m) => Reserved(x, m)
    BY <2>1, <2>2 DEF ReservedAt, Reserved, IsOpening, RetirePcs
  <2>5. \A m \in Modes : Holding(m)' \subseteq Holding(m)
    BY <2>1 DEF Holding
  <2> QED  BY <2>1, <2>3, <2>4, <2>5, Move
<1> QED  BY <1>1, RetirePoolCover, UnreserveCover DEF RetireStep

\* The reader, outside of RetireSlot, has no reservation and takes none.
LEMMA ReadInv ==
    ASSUME ModeInv, ReadStep
    PROVE  SwitchInv' /\ CoverInv'
<1>t. Reader \in Actors /\ Reader \notin Threads /\ TypeOK /\ SwitchInv /\ CoverInv
  BY ActorsAssumption DEF Actors, ModeInv
<1>l. at[Reader] \in Local
  BY <1>t DEF TypeOK, ActorsOK
<1>0. UNCHANGED <<slots, modeVars>> /\ UNCHANGED open
  BY DEF ReadStep, TakePending, NextCid, CheckUsed, ForgetClose, Read, ReadFails, Dispatch,
         Rearm, FinishClosedCid, OwnsSerial, Report, poolVars, modeVars
<1>h. \A m \in Modes : Holding(m)' \subseteq Holding(m)
  BY <1>0 DEF Holding
<1>g. ASSUME NEW l \in {"rest", "check", "forget", "read", "dispatch", "rearm", "finish", "owns",
                        "report", "retire"},
             NEW loc, Go(Reader, l, loc), l = "retire" => loc.why = "finish"
      PROVE  SwitchInv' /\ CoverInv'
  <2>1. \A m \in Modes : ~ReservedAt(l, loc, m)
    BY <1>g DEF ReservedAt, RetirePcs
  <2>2. l \notin SwitchPcs
    BY DEF SwitchPcs
  <2> QED  BY <1>0, <1>g, <1>h, <1>t, <2>1, <2>2, Move
<1>1. CASE TakePending
  BY <1>0, <1>1, <1>t, StaySwitch, StayCover DEF TakePending
<1>2. CASE NextCid \/ FinishClosedCid
  <2>1. \E l \in {"rest", "check", "owns"} : \E loc : Go(Reader, l, loc)
    BY <1>2 DEF NextCid, FinishClosedCid
  <2> QED  BY <1>g, <2>1
<1>3. CASE CheckUsed \/ ForgetClose \/ Read \/ ReadFails \/ Dispatch \/ Rearm \/ Report
  <2>1. \E l \in {"rest", "check", "forget", "read", "dispatch", "rearm", "finish"} :
           Go(Reader, l, at[Reader])
    BY <1>3 DEF CheckUsed, ForgetClose, Read, ReadFails, Dispatch, Rearm, Report, ReaderTo, GoTo
  <2> QED  BY <1>g, <2>1
<1>4. CASE OwnsSerial
  <2>1. at[Reader].why = "finish"
    BY <1>4, <1>t DEF OwnsSerial, TypeOK, ActorsOK
  <2>2. \E l \in {"rest", "retire"} : Go(Reader, l, at[Reader])
    BY <1>4 DEF OwnsSerial, ReaderTo, GoTo
  <2> QED  BY <1>g, <2>1, <2>2
<1> QED  BY <1>1, <1>2, <1>3, <1>4 DEF ReadStep

\* The handlers and the module move no actor and touch neither slots nor counters.
LEMMA EventInv ==
    ASSUME ModeInv, Handlers \/ Module \/ UNCHANGED vars
    PROVE  SwitchInv' /\ CoverInv'
<1>1. UNCHANGED <<actorVars, modeVars, slots>>
  <2>1. CASE Handlers
    BY <2>1 DEF Handlers, OnCiprxgetUrc, RecordOpenResult, OnCloseOk, OnClosed, NotePeerClosed,
                OnLine, poolVars
  <2>2. CASE Module
    BY <2>2 DEF Module, ModuleConnects, ModuleReceives, ModulePeerCloses, ModuleWrites, poolVars
  <2>3. CASE UNCHANGED vars
    BY <2>3 DEF vars, poolVars
  <2> QED  BY <2>1, <2>2, <2>3
<1>2. UNCHANGED open
  BY <1>1 DEF modeVars
<1> QED  BY <1>1, <1>2, StaySwitch, StayCover DEF ModeInv

\* ModeInv holds at first.
LEMMA InitModeInv == Init => ModeInv
<1> SUFFICES ASSUME Init PROVE ModeInv
  OBVIOUS
<1>1. \A t \in Threads : t \in Actors /\ t # Reader
  BY ActorsAssumption DEF Actors
<1>2. \A x \in Actors : pc[x] \in {"idle", "rest"}
  BY DEF Init
<1>3. \A t \in Threads : pc[t] = "idle" /\ at[t] = Local0
  BY <1>1 DEF Init
<1>4. SwitchInv
  <2>1. SwitchFollowsReservations
    BY DEF Init, SwitchFollowsReservations
  <2> QED  BY <1>3, <2>1 DEF SwitchInv, SwitchPcs
<1>5. ASSUME NEW m \in Modes
      PROVE  Cardinality({x \in Actors : Reserved(x, m)}) + Cardinality(Holding(m)) <= open[m]
  <2>1. {x \in Actors : Reserved(x, m)} = {}
    BY <1>2 DEF Reserved, RetirePcs
  <2>2. Holding(m) = {}
    BY DEF Init, Holding, FreeSlot
  <2>3. open[m] = 0
    BY DEF Init
  <2> QED  BY <2>1, <2>2, <2>3, FS_EmptySet
<1>6. CoverInv
  BY <1>3, <1>5 DEF CoverInv, ReservationsCovered, Phase, SwitchPcs
<1> QED  BY <1>4, <1>6, InitTypeOK DEF ModeInv

\* ModeInv is inductive.
LEMMA NextModeInv ==
    ASSUME ModeInv, [Next]_vars
    PROVE  ModeInv'
<1>0. TypeOK'
  BY NextTypeOK DEF ModeInv
<1>1. SwitchInv' /\ CoverInv'
  <2>1. CASE Application
    BY <2>1, OpenInv, RetireInv, CallInv DEF Application, Actors
  <2>2. CASE ReaderStep
    BY <2>2, ReadInv, RetireInv DEF ReaderStep, Actors
  <2>3. CASE Handlers \/ Module \/ Quiet \/ UNCHANGED vars
    BY <2>3, EventInv DEF Quiet
  <2> QED  BY <2>1, <2>2, <2>3 DEF Next
<1> QED  BY <1>0, <1>1 DEF ModeInv

\* A slot that holds a reservation is counted, so the switch is in its mode.
LEMMA CountedMeansSwitched ==
    ASSUME ModeInv
    PROVE  SocketsMatchSwitch
<1> SUFFICES ASSUME NEW c \in Cids, slots[c].holds
             PROVE  cipssl = slots[c].mode /\ ~switching
  BY DEF SocketsMatchSwitch
<1> DEFINE m == slots[c].mode
<1>1. TypeOK /\ m \in Modes
  BY DEF ModeInv, TypeOK, PoolOK
<1>2. c \in Holding(m)
  BY DEF Holding
<1>3. Cardinality(Reservers(m)) + Cardinality(Holding(m)) <= open[m]
  BY <1>1 DEF ModeInv, CoverInv, ReservationsCovered, Reservers
<1> HIDE DEF m
<1>4. Cardinality(Holding(m) \ {c}) \in Nat /\ Cardinality(Holding(m) \ {c}) + 1 = Cardinality(Holding(m))
  BY <1>1, <1>2, CountsFinite, OneLess
<1>5. Cardinality(Reservers(m)) \in Nat /\ open[m] \in Nat
  BY <1>1, CountsFinite, FS_CardinalityType
<1>6. open[m] > 0
  BY <1>3, <1>4, <1>5
<1> QED  BY <1>1, <1>6 DEF ModeInv, SwitchInv, SwitchFollowsReservations, m

\* AT+CIPSSL is moved only while nothing is reserved, reservations of one mode
\* exclude those of the other, and the switch is in the mode that is reserved: for
\* any number of threads and cids, although ReserveSocketForMode drops ssl_mutex_.
THEOREM SwitchSafe == Spec => []SwitchFollowsReservations
<1>1. ModeInv /\ [Next]_vars => ModeInv'
  BY NextModeInv
<1>2. ModeInv => SwitchFollowsReservations
  BY DEF ModeInv, SwitchInv
<1> QED  BY InitModeInv, <1>1, <1>2, PTL DEF Spec

\* The counters cover the reservations that are out, for any number of threads and
\* cids: no path through OpenSocket, CloseConnection and FinishClosedCid gives a
\* reservation back that it did not have.
THEOREM CountersCover == Spec => []ReservationsCovered
<1>1. ModeInv /\ [Next]_vars => ModeInv'
  BY NextModeInv
<1>2. ModeInv => ReservationsCovered
  BY DEF ModeInv, CoverInv
<1> QED  BY InitModeInv, <1>1, <1>2, PTL DEF Spec

\* The switch stays in the mode of every socket the application was given.
THEOREM SocketsSafe == Spec => []SocketsMatchSwitch
<1>1. ModeInv /\ [Next]_vars => ModeInv'
  BY NextModeInv
<1>2. ModeInv => SocketsMatchSwitch
  BY CountedMeansSwitched
<1> QED  BY InitModeInv, <1>1, <1>2, PTL DEF Spec
-----------------------------------------------------------------------------
(***************************************************************************)
(* The payload.  NoStrandedData needs one thing more: a cid that is given  *)
(* out again must not find the bytes of its last socket under its new      *)
(* serial.  The serials of the module's sockets were all given out before, *)
(* so they differ from the next one.                                       *)
(***************************************************************************)
AgeInv ==
    /\ \A c \in Cids : sock[c].serial < nextSerial
    /\ \A t \in Threads : pc[t] = "start" => at[t].serial < nextSerial

\* The inductive strengthening of NoStrandedData.
FetchInv == TypeOK /\ AgeInv /\ NoStrandedData

\* Where the reader is, as Stranded sees it.
AtCid(c) == Cid = c /\ pc[Reader] \in {"check", "read", "dispatch", "rearm"}

\* A step that leaves the serials alone and starts no connect keeps their order.
LEMMA AgeKept ==
    ASSUME FetchInv, UNCHANGED nextSerial,
           \A c \in Cids : sock'[c].serial = sock[c].serial,
           \A t \in Threads : pc'[t] = "start" => pc[t] = "start" /\ at'[t] = at[t]
    PROVE  AgeInv'
  BY DEF FetchInv, AgeInv

\* An actor that goes on elsewhere than to its AT+CIPSTART starts no connect.
LEMMA GoStarts ==
    ASSUME TypeOK, NEW x \in Actors, NEW l, NEW loc, Go(x, l, loc), l # "start"
    PROVE  \A t \in Threads : pc'[t] = "start" => pc[t] = "start" /\ at'[t] = at[t]
<1>1. pc \in [Actors -> ThreadPcs \cup ReaderPcs] /\ at \in [Actors -> Local]
  BY DEF TypeOK, ActorsOK
<1> QED  BY <1>1 DEF Go, Actors

\* A thread that goes on does not move the reader.
LEMMA ReaderStays ==
    ASSUME TypeOK, NEW t \in Threads, NEW l, NEW loc, Go(t, l, loc)
    PROVE  pc'[Reader] = pc[Reader] /\ at'[Reader] = at[Reader]
<1>1. /\ pc \in [Actors -> ThreadPcs \cup ReaderPcs] /\ at \in [Actors -> Local]
      /\ Reader \in Actors /\ Reader # t
  BY ActorsAssumption DEF TypeOK, ActorsOK, Actors
<1> QED  BY <1>1 DEF Go

\* The reader that goes on with another step of the pass stays on its cid.
LEMMA ReaderGoes ==
    ASSUME TypeOK, NEW l, NEW loc, Go(Reader, l, loc)
    PROVE  /\ pc'[Reader] = l
           /\ l \notin {"idle", "rest"} => at'[Reader] = loc
<1>1. /\ pc \in [Actors -> ThreadPcs \cup ReaderPcs] /\ at \in [Actors -> Local]
      /\ Reader \in Actors
  BY DEF TypeOK, ActorsOK, Actors
<1> QED  BY <1>1 DEF Go

\* A step that strands no socket anew and takes no mark back keeps NoStrandedData.
LEMMA NoneStranded ==
    ASSUME NoStrandedData,
           \A c \in Cids : Stranded(c)' =>
               \/ Stranded(c) /\ marks[c] \subseteq marks'[c]
               \/ marks'[c] \cap {"wiped", "unread"} # {}
    PROVE  NoStrandedData'
<1> SUFFICES ASSUME NEW c \in Cids, Stranded(c)'
             PROVE  marks'[c] \cap {"wiped", "unread"} # {}
  BY DEF NoStrandedData
<1>1. CASE Stranded(c) /\ marks[c] \subseteq marks'[c]
  <2>1. marks[c] \cap {"wiped", "unread"} # {}
    BY <1>1 DEF NoStrandedData
  <2> QED  BY <1>1, <2>1
<1> QED  BY <1>1

\* A step of a thread on its own variables strands nothing.
LEMMA Elsewhere ==
    ASSUME FetchInv, NEW t \in Threads, NEW l, NEW loc, Go(t, l, loc), l # "start",
           UNCHANGED <<poolVars, rxPending, batch, wire, sock, marks>>
    PROVE  AgeInv' /\ NoStrandedData'
<1>1. pc'[Reader] = pc[Reader] /\ at'[Reader] = at[Reader]
  BY ReaderStays DEF FetchInv
<1>2. \A c \in Cids : Stranded(c)' => Stranded(c)
  BY <1>1 DEF Stranded, InWire, Cid, poolVars
<1>3. NoStrandedData'
  BY <1>2, NoneStranded DEF FetchInv
<1>4. AgeInv'
  BY GoStarts, AgeKept DEF FetchInv, poolVars, Actors
<1> QED  BY <1>3, <1>4

\* Opening a socket strands nothing: a new socket has a new serial.
LEMMA OpenFetch ==
    ASSUME FetchInv, NEW t \in Threads, OpenStep(t)
    PROVE  AgeInv' /\ NoStrandedData'
<1>t. TypeOK /\ NoStrandedData /\ t \in Actors /\ at[t] \in Local
  BY DEF FetchInv, TypeOK, ActorsOK, Actors
<1>s. slots \in [Cids -> [used : BOOLEAN, holds : BOOLEAN, mode : Modes, serial : Nat]] /\ nextSerial \in Nat
  BY <1>t DEF TypeOK, PoolOK
<1>k. sock \in [Cids -> [st : SockState, serial : Nat, data : Nat]]
  BY <1>t DEF TypeOK, ModuleOK
<1>1. ASSUME Reserve(t) PROVE AgeInv' /\ NoStrandedData'
  <2>1. \E l \in {"idle", "alloc", "switch"} : Go(t, l, at[t])
    BY <1>1 DEF Reserve, GoTo
  <2>2. UNCHANGED <<poolVars, rxPending, batch, wire, sock, marks>>
    BY <1>1 DEF Reserve, rxVars, readerVars, moduleVars
  <2> QED  BY <2>1, <2>2, Elsewhere
<1>2. ASSUME ApplySslSwitch(t) PROVE AgeInv' /\ NoStrandedData'
  <2>1. \E l \in {"switched", "switchfailed"} : Go(t, l, at[t])
    BY <1>2 DEF ApplySslSwitch, GoTo
  <2>2. UNCHANGED <<poolVars, rxPending, batch, wire, sock, marks>>
    BY <1>2 DEF ApplySslSwitch, rxVars, readerVars, moduleVars
  <2> QED  BY <2>1, <2>2, Elsewhere
<1>3. ASSUME SwitchDone(t) PROVE AgeInv' /\ NoStrandedData'
  <2>1. \E l \in {"idle", "alloc"} : Go(t, l, at[t])
    BY <1>3 DEF SwitchDone, GoTo
  <2>2. UNCHANGED <<poolVars, rxPending, batch, wire, sock, marks>>
    BY <1>3 DEF SwitchDone, rxVars, readerVars, moduleVars
  <2> QED  BY <2>1, <2>2, Elsewhere
<1>4. ASSUME AllocateConnectionId(t) PROVE AgeInv' /\ NoStrandedData'
  <2> DEFINE S == Candidates(at[t].tried)
             c == CHOOSE i \in S : \A j \in S : i <= j
  <2>1. c \in Cids
    <3>1. S \in SUBSET Cids /\ S # {}
      BY <1>4 DEF AllocateConnectionId, Candidates
    <3> HIDE DEF S
    <3>2. c \in S
      BY <3>1, LeastCid
    <3> QED  BY <3>1, <3>2
  <2>2. /\ slots' = [slots EXCEPT ![c] = [FreeSlot EXCEPT !.used = TRUE, !.serial = nextSerial]]
        /\ Go(t, "start", [at[t] EXCEPT !.cid = c, !.serial = nextSerial])
        /\ nextSerial' = nextSerial + 1
        /\ UNCHANGED <<rxPending, batch, wire, sock, marks>>
    BY <1>4 DEF AllocateConnectionId, rxVars, readerVars, moduleVars
  <2> HIDE DEF S, c
  <2>3. pc'[Reader] = pc[Reader] /\ at'[Reader] = at[Reader]
    BY <1>t, <2>2, ReaderStays
  <2>4. slots'[c].serial = nextSerial /\ \A d \in Cids \ {c} : slots'[d] = slots[d]
    BY <1>s, <2>1, <2>2 DEF FreeSlot
  <2>5. \A d \in Cids : sock'[d].serial < nextSerial
    BY <2>2 DEF FetchInv, AgeInv
  <2>6. \A d \in Cids : Stranded(d)' => d # c
    BY <1>s, <1>k, <2>1, <2>2, <2>4, <2>5 DEF Stranded
  <2>7. \A d \in Cids : Stranded(d)' => Stranded(d)
    BY <2>2, <2>3, <2>4, <2>6 DEF Stranded, InWire, Cid
  <2>8. NoStrandedData'
    BY <1>t, <2>2, <2>7, NoneStranded
  <2>9. AgeInv'
    <3>1. \A d \in Cids : sock'[d].serial < nextSerial'
      BY <1>s, <1>k, <2>2, <2>5
    <3>2. ASSUME NEW u \in Threads, pc'[u] = "start" PROVE at'[u].serial < nextSerial'
      <4>1. /\ pc \in [Actors -> ThreadPcs \cup ReaderPcs] /\ at \in [Actors -> Local]
            /\ u \in Actors
        BY <1>t DEF TypeOK, ActorsOK, Actors
      <4>2. CASE u = t
        <5>1. at'[t] = [at[t] EXCEPT !.cid = c, !.serial = nextSerial]
          BY <1>t, <2>2, <4>1 DEF Go
        <5>2. at'[t].serial = nextSerial
          BY <1>t, <5>1 DEF Local
        <5> QED  BY <1>s, <2>2, <4>2, <5>2
      <4>3. CASE u # t
        <5>1. pc'[u] = pc[u] /\ at'[u] = at[u]
          BY <1>t, <2>2, <4>1, <4>3 DEF Go
        <5>2. at[u].serial < nextSerial /\ at[u].serial \in Nat
          BY <3>2, <4>1, <5>1 DEF FetchInv, AgeInv, Local
        <5> QED  BY <1>s, <2>2, <5>1, <5>2
      <4> QED  BY <4>2, <4>3
    <3> QED  BY <3>1, <3>2 DEF AgeInv
  <2> QED  BY <2>8, <2>9
<1>5. ASSUME NoConnectionId(t) PROVE AgeInv' /\ NoStrandedData'
  <2>1. UNCHANGED <<poolVars, rxPending, batch, wire, sock, marks>>
    BY <1>5 DEF NoConnectionId, rxVars, readerVars, moduleVars
  <2> QED  BY <1>5, <2>1, Elsewhere DEF NoConnectionId
<1>6. ASSUME Start(t) PROVE AgeInv' /\ NoStrandedData'
  <2> DEFINE c == at[t].cid
  <2>1. c \in Cids /\ at[t].serial \in Nat /\ at[t].serial < nextSerial
    BY <1>t, <1>6 DEF Local, Start, FetchInv, AgeInv
  <2>2. /\ \/ /\ sock' = [sock EXCEPT ![c] = [st |-> "connecting", serial |-> at[t].serial, data |-> 0]]
              /\ wire' = wire
           \/ /\ wire' = Append(wire, Line("already", c, at[t].serial))
              /\ sock' = sock
        /\ Go(t, "wait", at[t])
        /\ UNCHANGED <<poolVars, rxPending, batch, marks>>
    BY <1>6 DEF Start, GoTo, rxVars, readerVars
  <2>3. pc'[Reader] = pc[Reader] /\ at'[Reader] = at[Reader]
    BY <1>t, <2>2, ReaderStays
  <2>4. \A d \in Cids : InWire(d, {"arrival"})' <=> InWire(d, {"arrival"})
    <3>1. CASE wire' = wire
      BY <3>1 DEF InWire
    <3>2. CASE wire' = Append(wire, Line("already", c, at[t].serial))
      <4>1. wire \in Seq([kind : LineKinds, cid : Cids, serial : Nat])
        BY <1>t DEF TypeOK, ModuleOK
      <4>2. Line("already", c, at[t].serial).kind = "already"
        BY DEF Line
      <4> QED  BY <3>2, <4>1, <4>2 DEF InWire
    <3> QED  BY <2>2, <3>1, <3>2
  <2>5. \A d \in Cids : sock'[d] = sock[d] \/ (sock'[d].data = 0 /\ sock'[d].serial < nextSerial)
    BY <1>k, <2>1, <2>2
  <2>6. \A d \in Cids : Stranded(d)' => Stranded(d)
    BY <2>2, <2>3, <2>4, <2>5 DEF Stranded, Cid, poolVars
  <2>7. NoStrandedData'
    BY <1>t, <2>2, <2>6, NoneStranded
  <2>8. \A u \in Threads : pc'[u] = "start" => pc[u] = "start" /\ at'[u] = at[u]
    BY <1>t, <2>2, GoStarts
  <2>9. AgeInv'
    BY <2>2, <2>5, <2>8 DEF FetchInv, AgeInv, poolVars
  <2> QED  BY <2>7, <2>9
<1>7. ASSUME StartFails(t) PROVE AgeInv' /\ NoStrandedData'
  <2>1. UNCHANGED <<poolVars, rxPending, batch, wire, sock, marks>>
    BY <1>7 DEF StartFails, rxVars, readerVars, moduleVars
  <2> QED  BY <1>7, <2>1, Elsewhere DEF StartFails
<1>8. ASSUME Opened(t) PROVE AgeInv' /\ NoStrandedData'
  <2>1. UNCHANGED <<poolVars, rxPending, batch, wire, sock, marks>>
    BY <1>8 DEF Opened, rxVars, readerVars, moduleVars
  <2>2. openWait.outcome \in {"connected", "already", "failed"}
    BY <1>t DEF TypeOK, WaitsOK
  <2>3. \E l \in {"hold", "retire"}, loc \in {at'[t]} : Go(t, l, loc)
    <3>1. \E l \in {"hold", "retire"} : \E loc : Go(t, l, loc)
      BY <1>8, <2>2 DEF Opened
    <3>2. ASSUME NEW l \in {"hold", "retire"}, NEW loc, Go(t, l, loc) PROVE at'[t] = loc
      BY <1>t, <3>2 DEF Go, TypeOK, ActorsOK
    <3> QED  BY <3>1, <3>2
  <2> QED  BY <2>1, <2>3, Elsewhere
<1>9. ASSUME OpenTimeout(t) PROVE AgeInv' /\ NoStrandedData'
  <2>1. UNCHANGED <<poolVars, rxPending, batch, wire, sock, marks>>
    BY <1>9 DEF OpenTimeout, rxVars, readerVars, moduleVars
  <2> QED  BY <1>9, <2>1, Elsewhere DEF OpenTimeout
<1>10. ASSUME Hold(t) PROVE AgeInv' /\ NoStrandedData'
  <2>1. /\ slots' = [slots EXCEPT ![at[t].cid] = [@ EXCEPT !.mode = at[t].mode, !.holds = TRUE]]
        /\ Go(t, "idle", at[t])
        /\ UNCHANGED <<nextSerial, rxPending, batch, wire, sock, marks>>
    BY <1>10 DEF Hold, GoTo, rxVars, readerVars, moduleVars
  <2>2. pc'[Reader] = pc[Reader] /\ at'[Reader] = at[Reader]
    BY <1>t, <2>1, ReaderStays
  <2>3. \A d \in Cids : slots'[d].used = slots[d].used /\ slots'[d].serial = slots[d].serial
    BY <1>s, <2>1
  <2>4. \A d \in Cids : Stranded(d)' => Stranded(d)
    BY <2>1, <2>2, <2>3 DEF Stranded, InWire, Cid
  <2>5. NoStrandedData'
    BY <1>t, <2>1, <2>4, NoneStranded
  <2>6. AgeInv'
    BY <1>t, <2>1, GoStarts, AgeKept
  <2> QED  BY <2>5, <2>6
<1> QED  BY <1>1, <1>2, <1>3, <1>4, <1>5, <1>6, <1>7, <1>8, <1>9, <1>10 DEF OpenStep

\* Retiring a slot strands nothing: under pool_mutex_ the socket goes, and whoever has
\* the cid by the time its flags are cleared is marked.
LEMMA RetireFetch ==
    ASSUME FetchInv, NEW x \in Actors, RetireStep(x)
    PROVE  AgeInv' /\ NoStrandedData'
<1>t. TypeOK /\ NoStrandedData /\ at[x] \in Local /\ at[x].cid \in Cids
  BY DEF FetchInv, TypeOK, ActorsOK, Local
<1>s. slots \in [Cids -> [used : BOOLEAN, holds : BOOLEAN, mode : Modes, serial : Nat]]
  BY <1>t DEF TypeOK, PoolOK
<1>m. marks \in [Cids -> SUBSET {"wiped", "unread", "swallowed"}] /\ rxPending \in [Cids -> BOOLEAN]
  BY <1>t DEF TypeOK, MarksOK, RxOK
<1>l. \A o \in BOOLEAN : /\ AfterRetire(x, o) \notin {"start", "check", "read", "dispatch", "rearm"}
                         /\ AfterRelease(x) \notin {"start", "check", "read", "dispatch", "rearm"}
  BY DEF AfterRetire, AfterRelease
\* Whoever retires a slot is at no step of DrainOneCid, before and after.
<1>r. ASSUME NEW l, NEW loc, Go(x, l, loc), pc[x] \in RetirePcs,
             l \notin {"check", "read", "dispatch", "rearm"}
      PROVE  \A c \in Cids : AtCid(c)' <=> AtCid(c)
  <2>1. CASE x = Reader
    <3>1. pc'[Reader] = l
      BY <1>t, <1>r, <2>1, ReaderGoes
    <3> QED  BY <1>r, <2>1, <3>1 DEF AtCid, RetirePcs
  <2>2. CASE x \in Threads
    <3>1. pc'[Reader] = pc[Reader] /\ at'[Reader] = at[Reader]
      BY <1>t, <1>r, <2>2, ReaderStays
    <3> QED  BY <3>1 DEF AtCid, Cid
  <2> QED  BY <2>1, <2>2 DEF Actors
<1>1. ASSUME RetirePool(x) PROVE AgeInv' /\ NoStrandedData'
  <2> DEFINE c == at[x].cid
             loc == [at[x] EXCEPT !.owned = slots[c].holds,
                                  !.serial = slots[c].serial,
                                  !.mode = IF IsOpening(x) THEN @ ELSE slots[c].mode]
  <2>1. /\ pc[x] \in RetirePcs /\ UNCHANGED <<nextSerial, rxPending, batch, wire, sock>>
        /\ \/ GoTo(x, AfterRetire(x, FALSE)) /\ UNCHANGED <<slots, marks>>
           \/ /\ slots' = [slots EXCEPT ![c] = FreeSlot]
              /\ marks' = [marks EXCEPT ![c] = {}]
              /\ Go(x, "retirerx", loc)
    BY <1>1 DEF RetirePool, rxVars, readerVars, moduleVars, RetirePcs
  <2> HIDE DEF loc
  <2>2. \E l : \E lo : Go(x, l, lo) /\ l \notin {"start", "check", "read", "dispatch", "rearm"}
    <3>1. CASE GoTo(x, AfterRetire(x, FALSE))
      BY <1>l, <3>1 DEF GoTo
    <3>2. CASE Go(x, "retirerx", loc)
      <4>1. "retirerx" \notin {"start", "check", "read", "dispatch", "rearm"}
        OBVIOUS
      <4> QED  BY <3>2, <4>1, Zenon
    <3> QED  BY <2>1, <3>1, <3>2
  <2>3. \A d \in Cids : AtCid(d)' <=> AtCid(d)
    BY <1>r, <2>1, <2>2
  <2>4. \A d \in Cids : \/ slots'[d] = slots[d] /\ marks'[d] = marks[d]
                        \/ ~slots'[d].used
    <3>1. CASE UNCHANGED <<slots, marks>>
      BY <3>1
    <3>2. CASE slots' = [slots EXCEPT ![c] = FreeSlot] /\ marks' = [marks EXCEPT ![c] = {}]
      <4>1. ~FreeSlot.used
        BY DEF FreeSlot
      <4> HIDE DEF c
      <4> QED  BY <1>s, <1>m, <3>2, <4>1
    <3> QED  BY <2>1, <3>1, <3>2
  <2>5. \A d \in Cids : Stranded(d)' => Stranded(d) /\ marks'[d] = marks[d]
    BY <2>1, <2>3, <2>4 DEF Stranded, AtCid, InWire
  <2>6. AgeInv'
    BY <1>t, <2>1, <2>2, GoStarts, AgeKept
  <2> QED  BY <1>t, <2>5, <2>6, NoneStranded
<1>2. ASSUME RetireRx(x) PROVE AgeInv' /\ NoStrandedData'
  <2> DEFINE c == at[x].cid
  <2>1. /\ pc[x] \in RetirePcs /\ UNCHANGED <<slots, nextSerial, batch, wire, sock>>
        /\ rxPending' = [rxPending EXCEPT ![c] = FALSE]
        /\ IF rxPending[c] \/ rxClose[c] # NoClose THEN Mark(c, "wiped") ELSE UNCHANGED marks
        /\ Go(x, AfterRetire(x, at[x].owned), at[x])
    BY <1>2 DEF RetireRx, GoTo, poolVars, readerVars, moduleVars, RetirePcs
  <2>2. at[x].owned \in BOOLEAN
    BY <1>t DEF Local
  <2>3. \A d \in Cids : AtCid(d)' <=> AtCid(d)
    BY <1>r, <1>l, <2>1, <2>2
  <2>4. \A d \in Cids : marks[d] \subseteq marks'[d]
    BY <1>m, <1>t, <2>1 DEF Mark
  <2>5. \A d \in Cids : \/ rxPending'[d] = rxPending[d]
                        \/ ~slots'[d].used
                        \/ "wiped" \in marks'[d]
    BY <1>m, <1>t, <2>1 DEF Mark
  <2>6. \A d \in Cids : Stranded(d)' => \/ Stranded(d) \/ "wiped" \in marks'[d]
    BY <2>1, <2>3, <2>5 DEF Stranded, AtCid, InWire
  <2>7. AgeInv'
    BY <1>t, <1>l, <2>1, <2>2, GoStarts, AgeKept
  <2>8. \A d \in Cids : Stranded(d)' => \/ Stranded(d) /\ marks[d] \subseteq marks'[d]
                                        \/ marks'[d] \cap {"wiped", "unread"} # {}
    BY <2>4, <2>6
  <2> QED  BY <1>t, <2>7, <2>8, NoneStranded
<1>3. ASSUME Unreserve(x) PROVE AgeInv' /\ NoStrandedData'
  <2>1. /\ pc[x] \in RetirePcs /\ UNCHANGED <<poolVars, rxPending, batch, wire, sock, marks>>
        /\ Go(x, AfterRelease(x), at[x])
    BY <1>3 DEF Unreserve, GoTo, rxVars, readerVars, moduleVars, RetirePcs
  <2>2. \A d \in Cids : AtCid(d)' <=> AtCid(d)
    BY <1>r, <1>l, <2>1
  <2>3. \A d \in Cids : Stranded(d)' => Stranded(d)
    BY <2>1, <2>2 DEF Stranded, AtCid, InWire, poolVars
  <2>4. AgeInv'
    BY <1>t, <1>l, <2>1, GoStarts, AgeKept DEF poolVars
  <2> QED  BY <1>t, <2>1, <2>3, <2>4, NoneStranded
<1> QED  BY <1>1, <1>2, <1>3 DEF RetireStep

\* Calls and closes strand nothing: what the module drops is not there to be fetched.
LEMMA CloseFetch ==
    ASSUME FetchInv, NEW t \in Threads,
           \/ CloseStep(t) \/ \E m \in Kinds : OpenSocket(t, m)
           \/ \E h \in handles : CloseConnection(t, h)
    PROVE  AgeInv' /\ NoStrandedData'
<1>t. TypeOK /\ NoStrandedData /\ t \in Actors /\ at[t] \in Local /\ at[t].cid \in Cids
  BY DEF FetchInv, TypeOK, ActorsOK, Actors, Local
<1>k. sock \in [Cids -> [st : SockState, serial : Nat, data : Nat]]
  BY <1>t DEF TypeOK, ModuleOK
<1>1. ASSUME CloseArm(t) \/ CloseWait(t) PROVE AgeInv' /\ NoStrandedData'
  <2>1. \E l \in {"closesend", "idle"} : Go(t, l, at[t])
    BY <1>1 DEF CloseArm, CloseWait, GoTo
  <2>2. UNCHANGED <<poolVars, rxPending, batch, wire, sock, marks>>
    BY <1>1 DEF CloseArm, CloseWait, rxVars, readerVars, moduleVars
  <2> QED  BY <2>1, <2>2, Elsewhere
<1>2. ASSUME CloseSendFails(t) PROVE AgeInv' /\ NoStrandedData'
  <2>1. UNCHANGED <<poolVars, rxPending, batch, wire, sock, marks>>
    BY <1>2 DEF CloseSendFails, rxVars, readerVars, moduleVars
  <2> QED  BY <1>2, <2>1, Elsewhere DEF CloseSendFails
<1>3. ASSUME CloseSend(t) PROVE AgeInv' /\ NoStrandedData'
  <2> DEFINE c == at[t].cid
  <2>1. /\ sock' = [sock EXCEPT ![c] = [st |-> "closed", serial |-> sock[c].serial, data |-> 0]]
        /\ wire' = wire \/ wire' = Append(wire, Line("closeok", c, sock[c].serial))
        /\ Go(t, "retire", at[t])
        /\ UNCHANGED <<poolVars, rxPending, batch, marks>>
    BY <1>3 DEF CloseSend, SetSock, GoTo, rxVars, readerVars
  <2>2. pc'[Reader] = pc[Reader] /\ at'[Reader] = at[Reader]
    BY <1>t, <2>1, ReaderStays
  <2>3. \A d \in Cids : InWire(d, {"arrival"})' <=> InWire(d, {"arrival"})
    <3>1. wire \in Seq([kind : LineKinds, cid : Cids, serial : Nat])
      BY <1>t DEF TypeOK, ModuleOK
    <3>2. Line("closeok", c, sock[c].serial).kind = "closeok"
      BY DEF Line
    <3>3. CASE wire' = wire
      BY <3>3 DEF InWire
    <3>4. CASE wire' = Append(wire, Line("closeok", c, sock[c].serial))
      BY <3>1, <3>2, <3>4 DEF InWire
    <3> QED  BY <2>1, <3>3, <3>4
  <2>4. \A d \in Cids : sock'[d] = sock[d] \/ (sock'[d].data = 0 /\ sock'[d].serial = sock[d].serial)
    BY <1>t, <1>k, <2>1
  <2>5. \A d \in Cids : Stranded(d)' => Stranded(d)
    BY <2>1, <2>2, <2>3, <2>4 DEF Stranded, Cid, poolVars
  <2>6. AgeInv'
    BY <1>t, <2>1, <2>4, GoStarts, AgeKept DEF poolVars
  <2> QED  BY <1>t, <2>1, <2>5, <2>6, NoneStranded
<1>4. ASSUME NEW m \in Kinds, OpenSocket(t, m) PROVE AgeInv' /\ NoStrandedData'
  <2>1. UNCHANGED <<poolVars, rxPending, batch, wire, sock, marks>>
    BY <1>4 DEF OpenSocket, rxVars, readerVars, moduleVars
  <2> QED  BY <1>4, <2>1, Elsewhere DEF OpenSocket
<1>5. ASSUME NEW h \in handles, CloseConnection(t, h) PROVE AgeInv' /\ NoStrandedData'
  <2>1. UNCHANGED <<poolVars, rxPending, batch, wire, sock, marks>>
    BY <1>5 DEF CloseConnection, rxVars, readerVars, moduleVars
  <2>2. CASE Go(t, "closearm", [Local0 EXCEPT !.cid = h.cid, !.why = "close"])
    BY <2>1, <2>2, Elsewhere
  <2>3. CASE UNCHANGED actorVars
    <3>1. \A d \in Cids : Stranded(d)' => Stranded(d)
      BY <2>1, <2>3 DEF Stranded, InWire, Cid, poolVars, actorVars
    <3>2. AgeInv'
      BY <2>1, <2>3, AgeKept DEF poolVars, actorVars
    <3> QED  BY <1>t, <2>1, <3>1, <3>2, NoneStranded
  <2> QED  BY <1>5, <2>2, <2>3 DEF CloseConnection
<1> QED  BY <1>1, <1>2, <1>3, <1>4, <1>5 DEF CloseStep

\* The reader strands nothing: a flag it clears it serves, and a pass that ends before
\* the buffer is empty puts the flag back or was a read that failed.
LEMMA ReadFetch ==
    ASSUME FetchInv, ReadStep
    PROVE  AgeInv' /\ NoStrandedData'
<1>t. TypeOK /\ NoStrandedData /\ Reader \in Actors /\ at[Reader] \in Local /\ Cid \in Cids
  BY DEF FetchInv, TypeOK, ActorsOK, Actors, Local, Cid
<1>k. sock \in [Cids -> [st : SockState, serial : Nat, data : Nat]]
  BY <1>t DEF TypeOK, ModuleOK
<1>m. /\ marks \in [Cids -> SUBSET {"wiped", "unread", "swallowed"}] /\ rxPending \in [Cids -> BOOLEAN]
      /\ batch \in SUBSET Cids
  BY <1>t DEF TypeOK, MarksOK, RxOK, ReaderOK
\* The reader leaves its cid or goes on with it.
<1>g. ASSUME NEW l, ReaderTo(l)
      PROVE  /\ \A c \in Cids : AtCid(c)' <=> c = Cid /\ l \in {"check", "read", "dispatch", "rearm"}
             /\ l # "start" =>
                  \A t \in Threads : pc'[t] = "start" => pc[t] = "start" /\ at'[t] = at[t]
  <2>1. pc'[Reader] = l /\ (l \notin {"idle", "rest"} => at'[Reader] = at[Reader])
    BY <1>t, <1>g, ReaderGoes DEF ReaderTo, GoTo
  <2>2. l # "start" => \A t \in Threads : pc'[t] = "start" => pc[t] = "start" /\ at'[t] = at[t]
    BY <1>t, <1>g, GoStarts DEF ReaderTo, GoTo
  <2> QED  BY <2>1, <2>2 DEF AtCid, Cid
<1>1. ASSUME TakePending PROVE AgeInv' /\ NoStrandedData'
  <2>1. /\ UNCHANGED <<actorVars, poolVars, wire, sock, marks>> /\ batch = {}
        /\ batch' = {c \in Cids : rxPending[c]}
    BY <1>1 DEF TakePending, moduleVars
  <2>2. \A c \in Cids : Stranded(c)' => Stranded(c)
    BY <2>1 DEF Stranded, InWire, Cid, poolVars, actorVars
  <2>3. AgeInv'
    BY <2>1, AgeKept DEF poolVars, actorVars
  <2> QED  BY <1>t, <2>1, <2>2, <2>3, NoneStranded
<1>2. ASSUME NextCid PROVE AgeInv' /\ NoStrandedData'
  <2> DEFINE n == CHOOSE i \in batch : \A j \in batch : i <= j
             loc == [Local0 EXCEPT !.cid = n, !.why = "finish"]
  <2>1. /\ UNCHANGED <<poolVars, rxPending, wire, sock, marks>>
        /\ pc[Reader] = "rest" /\ batch' = batch \ {n} /\ Go(Reader, "check", loc)
    BY <1>2 DEF NextCid, rxVars, moduleVars
  <2>2. loc.cid = n
    BY DEF Local0
  <2> HIDE DEF n, loc
  <2>3. pc'[Reader] = "check" /\ at'[Reader] = loc
    BY <1>t, <2>1, ReaderGoes
  <2>4. \A c \in Cids : Stranded(c)' => Stranded(c)
    BY <2>1, <2>2, <2>3 DEF Stranded, InWire, Cid, poolVars
  <2>5. AgeInv'
    BY <1>t, <2>1, GoStarts, AgeKept DEF poolVars
  <2> QED  BY <1>t, <2>1, <2>4, <2>5, NoneStranded
<1>3. ASSUME CheckUsed PROVE AgeInv' /\ NoStrandedData'
  <2>1. /\ UNCHANGED <<poolVars, rxPending, batch, wire, sock, marks>>
        /\ ReaderTo(IF slots[Cid].used THEN "read" ELSE "forget")
    BY <1>3 DEF CheckUsed, rxVars, readerVars, moduleVars
  <2>2. \A c \in Cids : AtCid(c)' <=> c = Cid /\ slots[Cid].used
    BY <1>g, <2>1
  <2>3. \A c \in Cids : Stranded(c)' => Stranded(c)
    BY <2>1, <2>2 DEF Stranded, AtCid, InWire, poolVars
  <2>4. AgeInv'
    BY <1>g, <2>1, AgeKept DEF poolVars
  <2> QED  BY <1>t, <2>1, <2>3, <2>4, NoneStranded
<1>4. ASSUME ForgetClose PROVE AgeInv' /\ NoStrandedData'
  <2>1. /\ UNCHANGED <<poolVars, rxPending, batch, wire, sock>> /\ pc[Reader] = "forget"
        /\ UNCHANGED marks \/ Mark(Cid, "wiped")
        /\ ReaderTo("rest")
    BY <1>4 DEF ForgetClose, readerVars, moduleVars
  <2>2. \A c \in Cids : marks[c] \subseteq marks'[c]
    BY <1>m, <1>t, <2>1 DEF Mark
  <2>3. \A c \in Cids : Stranded(c)' => Stranded(c)
    BY <2>1, <1>g DEF Stranded, AtCid, InWire, poolVars
  <2>4. AgeInv'
    BY <1>g, <2>1, AgeKept DEF poolVars
  <2> QED  BY <1>t, <2>2, <2>3, <2>4, NoneStranded
<1>5. ASSUME Read PROVE AgeInv' /\ NoStrandedData'
  <2>1. /\ UNCHANGED <<poolVars, rxPending, batch, wire, marks>> /\ pc[Reader] = "read"
        /\ \/ /\ sock[Cid].data > 0 /\ ReaderTo("dispatch")
              /\ sock' = [sock EXCEPT ![Cid] = [st |-> sock[Cid].st, serial |-> sock[Cid].serial,
                                                data |-> sock[Cid].data - 1]]
           \/ /\ ~(sock[Cid].data > 0) /\ ReaderTo("finish") /\ UNCHANGED sock
    BY <1>5 DEF Read, SetSock, rxVars
  <2>2. \A c \in Cids : /\ sock'[c].serial = sock[c].serial
                        /\ c # Cid => sock'[c] = sock[c]
    BY <1>k, <1>t, <2>1
  <2>3. \A c \in Cids : \/ AtCid(c)' <=> AtCid(c)
                        \/ ~(sock'[c].data > 0)
    BY <1>g, <2>1 DEF AtCid
  <2>4. \A c \in Cids : Stranded(c)' => Stranded(c)
    BY <2>1, <2>2, <2>3 DEF Stranded, AtCid, InWire, poolVars
  <2>5. AgeInv'
    BY <1>g, <2>1, <2>2, AgeKept DEF poolVars
  <2> QED  BY <1>t, <2>1, <2>4, <2>5, NoneStranded
<1>6. ASSUME ReadFails PROVE AgeInv' /\ NoStrandedData'
  <2>1. /\ UNCHANGED <<poolVars, rxPending, batch, wire, sock>>
        /\ Mark(Cid, "unread") /\ ReaderTo("finish")
    BY <1>6 DEF ReadFails, rxVars, readerVars, moduleVars
  <2>2. \A c \in Cids : /\ marks[c] \subseteq marks'[c]
                        /\ (c = Cid /\ slots[c].used) => "unread" \in marks'[c]
    BY <1>m, <1>t, <2>1 DEF Mark
  <2>3. \A c \in Cids : Stranded(c)' => Stranded(c) \/ "unread" \in marks'[c]
    BY <1>g, <2>1, <2>2 DEF Stranded, AtCid, InWire, poolVars
  <2>4. \A c \in Cids : Stranded(c)' => \/ Stranded(c) /\ marks[c] \subseteq marks'[c]
                                        \/ marks'[c] \cap {"wiped", "unread"} # {}
    BY <2>2, <2>3
  <2>5. AgeInv'
    BY <1>g, <2>1, AgeKept DEF poolVars
  <2> QED  BY <1>t, <2>4, <2>5, NoneStranded
<1>7. ASSUME Dispatch PROVE AgeInv' /\ NoStrandedData'
  <2>1. /\ UNCHANGED <<poolVars, rxPending, batch, wire, sock, marks>> /\ pc[Reader] = "dispatch"
        /\ \E l \in {"check", "rearm"} : ReaderTo(l)
    BY <1>7 DEF Dispatch, rxVars, moduleVars
  <2>2. \A c \in Cids : AtCid(c)' <=> AtCid(c)
    BY <1>g, <2>1 DEF AtCid
  <2>3. \A c \in Cids : Stranded(c)' => Stranded(c)
    BY <2>1, <2>2 DEF Stranded, AtCid, InWire, poolVars
  <2>4. AgeInv'
    BY <1>g, <2>1, AgeKept DEF poolVars
  <2> QED  BY <1>t, <2>1, <2>3, <2>4, NoneStranded
<1>8. ASSUME Rearm PROVE AgeInv' /\ NoStrandedData'
  <2>1. /\ UNCHANGED <<poolVars, batch, wire, sock, marks>> /\ ReaderTo("rest")
        /\ rxPending' = [rxPending EXCEPT ![Cid] = TRUE]
    BY <1>8 DEF Rearm, readerVars, moduleVars
  <2>2. \A c \in Cids : Stranded(c)' => Stranded(c)
    BY <1>t, <1>m, <2>1 DEF Stranded, AtCid, InWire, poolVars
  <2>3. AgeInv'
    BY <1>g, <2>1, AgeKept DEF poolVars
  <2> QED  BY <1>t, <2>1, <2>2, <2>3, NoneStranded
<1>9. ASSUME FinishClosedCid \/ OwnsSerial \/ Report PROVE AgeInv' /\ NoStrandedData'
  <2>1. /\ UNCHANGED <<poolVars, rxPending, batch, wire, sock, marks>>
        /\ pc[Reader] \in {"finish", "owns", "report"}
        /\ \E l \in {"rest", "owns", "retire"} : \E loc : Go(Reader, l, loc)
    BY <1>9 DEF FinishClosedCid, OwnsSerial, Report, ReaderTo, GoTo, rxVars, readerVars, moduleVars
  <2>2. pc'[Reader] \in {"rest", "owns", "retire"}
    BY <1>t, <2>1, ReaderGoes
  <2>3. \A c \in Cids : Stranded(c)' => Stranded(c)
    BY <2>1, <2>2 DEF Stranded, AtCid, InWire, poolVars
  <2>4. AgeInv'
    BY <1>t, <2>1, GoStarts, AgeKept DEF poolVars
  <2> QED  BY <1>t, <2>1, <2>3, <2>4, NoneStranded
<1> QED  BY <1>1, <1>2, <1>3, <1>4, <1>5, <1>6, <1>7, <1>8, <1>9 DEF ReadStep

\* The handlers and the module strand nothing: an arrival on the wire turns into a
\* flag, and a chunk brings an arrival.
LEMMA EventFetch ==
    ASSUME FetchInv, Handlers \/ Module \/ UNCHANGED vars
    PROVE  AgeInv' /\ NoStrandedData'
<1>t. TypeOK /\ NoStrandedData
  BY DEF FetchInv
<1>k. sock \in [Cids -> [st : SockState, serial : Nat, data : Nat]]
  BY <1>t DEF TypeOK, ModuleOK
<1>m. marks \in [Cids -> SUBSET {"wiped", "unread", "swallowed"}] /\ rxPending \in [Cids -> BOOLEAN]
  BY <1>t DEF TypeOK, MarksOK, RxOK
<1>w. wire \in Seq([kind : LineKinds, cid : Cids, serial : Nat])
  BY <1>t DEF TypeOK, ModuleOK
<1>h. wire # <<>> => Head(wire).cid \in Cids
  <2> DEFINE L == [kind : LineKinds, cid : Cids, serial : Nat]
  <2>1. wire \in Seq(L)
    BY <1>w
  <2> HIDE DEF L
  <2>2. wire # <<>> => Head(wire) \in L
    BY <2>1
  <2> QED  BY <2>2 DEF L
<1>u. UNCHANGED actorVars => \A c \in Cids : AtCid(c)' <=> AtCid(c)
  BY DEF actorVars, AtCid, Cid
<1>1. ASSUME NEW K, OnLine(K)
      PROVE  \A c \in Cids : InWire(c, {"arrival"}) =>
                 InWire(c, {"arrival"})' \/ (Head(wire).cid = c /\ Head(wire).kind = "arrival")
  <2>1. wire # <<>> /\ wire' = Tail(wire)
    BY <1>1 DEF OnLine
  <2> SUFFICES ASSUME NEW c \in Cids, NEW i \in DOMAIN wire, wire[i].cid = c, wire[i].kind = "arrival"
               PROVE  InWire(c, {"arrival"})' \/ (Head(wire).cid = c /\ Head(wire).kind = "arrival")
    BY DEF InWire
  <2>2. CASE i = 1
    BY <1>w, <2>1, <2>2
  <2>3. CASE i # 1
    <3>1. i - 1 \in DOMAIN wire' /\ wire'[i - 1] = wire[i]
      BY <1>w, <2>1, <2>3
    <3> QED  BY <3>1 DEF InWire
  <2> QED  BY <2>2, <2>3
<1>2. ASSUME OnCiprxgetUrc PROVE AgeInv' /\ NoStrandedData'
  <2>1. /\ UNCHANGED <<actorVars, poolVars, batch, sock, marks>> /\ wire # <<>>
        /\ rxPending' = [rxPending EXCEPT ![Head(wire).cid] = TRUE]
    BY <1>2 DEF OnCiprxgetUrc, OnLine, readerVars
  <2>2. \A c \in Cids : InWire(c, {"arrival"}) => InWire(c, {"arrival"})' \/ rxPending'[c]
    BY <1>1, <1>2, <1>m, <1>h, <2>1 DEF OnCiprxgetUrc
  <2>3. \A c \in Cids : rxPending[c] => rxPending'[c]
    BY <1>m, <2>1
  <2>4. \A c \in Cids : Stranded(c)' => Stranded(c)
    BY <1>u, <2>1, <2>2, <2>3 DEF Stranded, AtCid, poolVars
  <2>5. AgeInv'
    BY <2>1, AgeKept DEF poolVars, actorVars
  <2> QED  BY <1>t, <2>1, <2>4, <2>5, NoneStranded
<1>3. ASSUME RecordOpenResult \/ OnCloseOk \/ OnClosed PROVE AgeInv' /\ NoStrandedData'
  <2>1. /\ OnLine({"connected", "failed", "already", "closeok", "peercloseok", "closed"})
        /\ UNCHANGED <<rxPending>> /\ (UNCHANGED marks \/ Mark(Head(wire).cid, "swallowed"))
    BY <1>3 DEF RecordOpenResult, OnCloseOk, OnClosed, OnLine, rxVars
  <2>2. /\ UNCHANGED <<actorVars, poolVars, batch, sock>> /\ wire # <<>>
        /\ Head(wire).kind # "arrival"
    BY <2>1 DEF OnLine, readerVars
  <2>3. \A c \in Cids : InWire(c, {"arrival"}) => InWire(c, {"arrival"})'
    BY <1>1, <2>1, <2>2
  <2>4. \A c \in Cids : marks[c] \subseteq marks'[c]
    BY <1>m, <1>h, <2>1, <2>2 DEF Mark
  <2>5. \A c \in Cids : Stranded(c)' => Stranded(c)
    BY <1>u, <2>1, <2>2, <2>3 DEF Stranded, AtCid, poolVars
  <2>6. AgeInv'
    BY <2>2, AgeKept DEF poolVars, actorVars
  <2> QED  BY <1>t, <2>4, <2>5, <2>6, NoneStranded
<1>4. ASSUME NotePeerClosed PROVE AgeInv' /\ NoStrandedData'
  <2>1. /\ UNCHANGED <<actorVars, poolVars, batch, wire, sock, marks>>
        /\ rxPending' = [rxPending EXCEPT ![note.cid] = TRUE]
    BY <1>4 DEF NotePeerClosed, readerVars, moduleVars
  <2>2. \A c \in Cids : rxPending[c] => rxPending'[c]
    BY <1>m, <2>1
  <2>3. \A c \in Cids : Stranded(c)' => Stranded(c)
    BY <1>u, <2>1, <2>2 DEF Stranded, AtCid, InWire, poolVars
  <2>4. AgeInv'
    BY <2>1, AgeKept DEF poolVars, actorVars
  <2> QED  BY <1>t, <2>1, <2>3, <2>4, NoneStranded
\* A line more on the wire hides no arrival.
<1>5. ASSUME NEW l \in [kind : LineKinds, cid : Cids, serial : Nat], ModuleWrites(l)
      PROVE  /\ UNCHANGED <<actorVars, poolVars, rxPending, batch, marks>>
             /\ \A c \in Cids : InWire(c, {"arrival"}) => InWire(c, {"arrival"})'
             /\ l.kind = "arrival" => InWire(l.cid, {"arrival"})'
  <2>1. wire' = Append(wire, l)
    BY <1>5 DEF ModuleWrites
  <2>2. \A c \in Cids : InWire(c, {"arrival"}) => InWire(c, {"arrival"})'
    BY <1>w, <2>1 DEF InWire
  <2>3. l.kind = "arrival" => InWire(l.cid, {"arrival"})'
    <3>1. Len(wire) + 1 \in DOMAIN wire' /\ wire'[Len(wire) + 1] = l
      BY <1>w, <2>1
    <3> QED  BY <3>1 DEF InWire
  <2> QED  BY <1>5, <2>2, <2>3 DEF ModuleWrites, rxVars, readerVars
<1>6. ASSUME NEW c \in Cids, NEW b \in BOOLEAN, ModuleConnects(c, b) \/ ModulePeerCloses(c, b)
      PROVE  AgeInv' /\ NoStrandedData'
  <2>1. \E st \in SockState, n \in {sock[c].data, 0} : SetSock(c, st, n)
    BY <1>6 DEF ModuleConnects, ModulePeerCloses, SockState
  <2>2. \E l \in [kind : LineKinds, cid : Cids, serial : Nat] : ModuleWrites(l)
    BY <1>6, <1>k DEF ModuleConnects, ModulePeerCloses, LineKinds, Line
  <2>3. \A d \in Cids : /\ sock'[d].serial = sock[d].serial
                        /\ sock'[d].data > 0 => sock'[d].data = sock[d].data
    BY <1>k, <2>1 DEF SetSock
  <2>4. /\ UNCHANGED <<actorVars, poolVars, rxPending, batch, marks>>
        /\ \A d \in Cids : InWire(d, {"arrival"}) => InWire(d, {"arrival"})'
    BY <1>5, <2>2
  <2>5. \A d \in Cids : Stranded(d)' => Stranded(d)
    BY <1>u, <2>3, <2>4 DEF Stranded, AtCid, poolVars
  <2>6. AgeInv'
    BY <2>3, <2>4, AgeKept DEF poolVars, actorVars
  <2> QED  BY <1>t, <2>4, <2>5, <2>6, NoneStranded
<1>7. ASSUME NEW c \in Cids, ModuleReceives(c)
      PROVE  AgeInv' /\ NoStrandedData'
  <2> DEFINE l == Line("arrival", c, sock[c].serial)
  <2>1. SetSock(c, "open", sock[c].data + 1) /\ ModuleWrites(l)
    BY <1>7 DEF ModuleReceives
  <2>2. l \in [kind : LineKinds, cid : Cids, serial : Nat] /\ l.kind = "arrival" /\ l.cid = c
    BY <1>k DEF LineKinds, Line
  <2>3. \A d \in Cids : sock'[d].serial = sock[d].serial /\ (d # c => sock'[d] = sock[d])
    BY <1>k, <2>1 DEF SetSock
  <2> HIDE DEF l
  <2>4. /\ UNCHANGED <<actorVars, poolVars, rxPending, batch, marks>>
        /\ \A d \in Cids : InWire(d, {"arrival"}) => InWire(d, {"arrival"})'
        /\ InWire(c, {"arrival"})'
    BY <1>5, <2>1, <2>2
  <2>5. \A d \in Cids : Stranded(d)' => Stranded(d)
    BY <1>u, <2>3, <2>4 DEF Stranded, AtCid, poolVars
  <2>6. AgeInv'
    BY <2>3, <2>4, AgeKept DEF poolVars, actorVars
  <2> QED  BY <1>t, <2>4, <2>5, <2>6, NoneStranded
<1>8. ASSUME UNCHANGED vars PROVE AgeInv' /\ NoStrandedData'
  <2>1. UNCHANGED <<actorVars, poolVars, rxPending, batch, wire, sock, marks>>
    BY <1>8 DEF vars, rxVars, readerVars, moduleVars
  <2>2. \A c \in Cids : Stranded(c)' => Stranded(c)
    BY <2>1 DEF Stranded, InWire, Cid, poolVars, actorVars
  <2>3. AgeInv'
    BY <2>1, AgeKept DEF poolVars, actorVars
  <2> QED  BY <1>t, <2>1, <2>2, <2>3, NoneStranded
<1> QED  BY <1>2, <1>3, <1>4, <1>6, <1>7, <1>8 DEF Handlers, Module

\* FetchInv holds at first.
LEMMA InitFetchInv == Init => FetchInv
<1> SUFFICES ASSUME Init PROVE FetchInv
  OBVIOUS
<1>1. \A c \in Cids : sock[c].serial = 0 /\ sock[c].data = 0
  BY DEF Init
<1>2. nextSerial = 1 /\ \A t \in Threads : pc[t] # "start"
  BY ActorsAssumption DEF Init, Actors
<1> QED  BY <1>1, <1>2, InitTypeOK DEF FetchInv, AgeInv, NoStrandedData, Stranded

\* No socket is left with bytes that nobody will fetch, for any number of threads and
\* cids, any budget of the reader and any order of the module's lines, unless its
\* flags were cleared for the cid's earlier occupant or a read on it failed.
THEOREM PayloadFetched == Spec => []NoStrandedData
<1>1. ASSUME FetchInv, [Next]_vars PROVE FetchInv'
  <2>1. TypeOK'
    BY <1>1, NextTypeOK DEF FetchInv
  <2>2. AgeInv' /\ NoStrandedData'
    <3>1. CASE Application
      BY <1>1, <3>1, OpenFetch, RetireFetch, CloseFetch DEF Application, Actors
    <3>2. CASE ReaderStep
      BY <1>1, <3>2, ReadFetch, RetireFetch DEF ReaderStep, Actors
    <3>3. CASE Handlers \/ Module \/ Quiet \/ UNCHANGED vars
      BY <1>1, <3>3, EventFetch DEF Quiet
    <3> QED  BY <1>1, <3>1, <3>2, <3>3 DEF Next
  <2> QED  BY <2>1, <2>2 DEF FetchInv
<1>2. FetchInv => NoStrandedData
  BY DEF FetchInv
<1> QED  BY InitFetchInv, <1>1, <1>2, PTL DEF Spec
=============================================================================
