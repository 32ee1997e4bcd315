--------------------------- MODULE ConnectionLife ---------------------------
(***************************************************************************)
(* What a protocol client promises of the connections it makes: each one   *)
(* opens at most once, closes for good, and after it has closed the owner  *)
(* is told of its end, once and without fail (the OnDisconnected callback  *)
(* of src/include/esp_modem_link/mqtt_client.h).                           *)
(***************************************************************************)
EXTENDS Naturals

CONSTANT Conns

VARIABLES
    phase,    \* none, open or closed
    told      \* how often the owner was told of the end of each connection

vars == <<phase, told>>

Init ==
    /\ phase = [c \in Conns |-> "none"]
    /\ told = [c \in Conns |-> 0]

Open(c) ==
    /\ phase[c] = "none"
    /\ phase' = [phase EXCEPT ![c] = "open"]
    /\ UNCHANGED told

Close(c) ==
    /\ phase[c] = "open"
    /\ phase' = [phase EXCEPT ![c] = "closed"]
    /\ UNCHANGED told

Tell(c) ==
    /\ phase[c] = "closed" /\ told[c] = 0
    /\ told' = [told EXCEPT ![c] = 1]
    /\ UNCHANGED phase

Next == \E c \in Conns : Open(c) \/ Close(c) \/ Tell(c)

Spec == Init /\ [][Next]_vars /\ \A c \in Conns : WF_vars(Tell(c))
=============================================================================
