--------------------------- MODULE BaudAlignment ---------------------------
(***************************************************************************)
(* How the two ends of the UART come to one rate while a device is brought *)
(* up (src/src/at_channel/baud_alignment.cpp, and BringUp of               *)
(* src/src/device/cellular_device.cpp): the module is searched for at the  *)
(* rates it may have been left at, identified, and then moved to the rate  *)
(* that the caller asked for.                                              *)
(*                                                                         *)
(* A module hears only what is sent at its own rate.  Any answer can be    *)
(* lost, a set can be taken without its OK or acknowledged and not taken,  *)
(* and the host may be unable to move.  The module is external.            *)
(***************************************************************************)
EXTENDS Integers, Sequences

CONSTANTS
    Rates,              \* rates the host and the module may be at
    kFactoryRate, kHighestKnownRate,
    kConfirmAttempts,
    Supported           \* what the module lists for AT+IPR=?

ASSUME RatesAssumption ==
    /\ Rates \subseteq Nat \ {0}
    /\ {kFactoryRate, kHighestKnownRate} \subseteq Rates
    /\ kFactoryRate # kHighestKnownRate
    /\ Supported \subseteq Rates

ASSUME AttemptsAssumption == kConfirmAttempts \in Nat

\* AT+IPR=0: the module answers at any rate.
AutoBaud == 0

VARIABLES
    pc,
    host,         \* the channel's rate; 0 for a channel that does not name one
    module,       \* the module's rate, or AutoBaud
    requested,    \* the rate the channel had at first
    current,      \* SetModuleBaudRate's: the rate before the switch
    todo,         \* FindModuleBaudRate's: the candidates left
    entry,        \* FindModuleBaudRate's: the rate to put the channel back to
    stage,        \* who called FindModuleBaudRate: before or after
    found,        \* what FindModuleBaudRate returned
    attempts,     \* SetModuleBaudRate's: queries that did not confirm
    result,       \* ok when BringUp gets to Assemble, error when it returns before
    lost,         \* history: the module heard something and its answer was lost
    stuck,        \* history: the host could not be moved
    foreign,      \* history: the module was at no candidate to begin with
    lapses        \* history: how the ends were left apart unnoticed

rates == <<host, module>>
locals == <<requested, current, todo, entry, stage, found, attempts>>
vars == <<pc, rates, locals, result, lost, stuck, foreign, lapses>>

\* Mutant: the highest rate is not tried.
CandidatesWithoutHighest(rate) ==
    IF rate = kFactoryRate THEN <<kFactoryRate>> ELSE <<rate, kFactoryRate>>

\* BaudRateCandidates: each rate once.
Candidates(rate) ==
    CASE rate = kHighestKnownRate -> <<kHighestKnownRate, kFactoryRate>>
      [] rate = kFactoryRate -> <<kFactoryRate, kHighestKnownRate>>
      [] OTHER -> <<rate, kHighestKnownRate, kFactoryRate>>

IsCandidate(rate, of) == rate \in {of, kHighestKnownRate, kFactoryRate}

Init ==
    /\ pc = "begin"
    /\ host \in Rates \cup {0}
    /\ module \in Rates \cup {AutoBaud}
    /\ requested = host /\ current = 0
    /\ todo = <<>> /\ entry = 0 /\ stage = "before" /\ found = 0
    /\ attempts = 0
    /\ result = "none"
    /\ lost = FALSE /\ stuck = FALSE
    /\ foreign = ~(module = AutoBaud \/ IsCandidate(module, host))
    /\ lapses = {}

Hears == module = AutoBaud \/ module = host

\* An answer that a module which hears would have given does not come.
Lose == lost' = (lost \/ Hears)

Done(outcome) == pc' = "done" /\ result' = outcome

-----------------------------------------------------------------------------
(***************************************************************************)
(* FindModuleBaudRate.                                                     *)
(***************************************************************************)
Search(from) ==
    /\ todo' = Candidates(from)
    /\ entry' = from
    /\ pc' = "move"

\* AlignBeforeIdentify.
AlignBeforeIdentify ==
    /\ pc = "begin"
    /\ IF requested > 0 THEN Search(requested) ELSE pc' = "identify" /\ UNCHANGED <<todo, entry>>
    /\ UNCHANGED <<rates, requested, current, stage, found, attempts, result, lost, stuck, foreign,
                   lapses>>

\* MoveHostTo the next candidate, or skip it.
MoveHostTo ==
    /\ pc = "move" /\ todo # <<>>
    /\ \/ host' = Head(todo) /\ pc' = "query" /\ UNCHANGED <<todo, stuck>>
       \/ /\ host # Head(todo)
          /\ stuck' = TRUE
          /\ todo' = Tail(todo)
          /\ UNCHANGED <<host, pc>>
    /\ UNCHANGED <<module, requested, current, entry, stage, found, attempts, result, lost, foreign,
                   lapses>>

\* AT+IPR? is answered, so this is where to stop; automatic is not a rate.
QueryAnswered ==
    /\ pc = "query" /\ Hears
    /\ found' = IF module = AutoBaud THEN host ELSE module
    /\ pc' = IF stage = "before" THEN "identify" ELSE "land"
    /\ UNCHANGED <<rates, requested, current, todo, entry, stage, attempts, result, lost, stuck,
                   foreign, lapses>>

QuerySilent ==
    /\ pc = "query"
    /\ Lose
    /\ todo' = Tail(todo)
    /\ pc' = "move"
    /\ UNCHANGED <<rates, requested, current, entry, stage, found, attempts, result, stuck, foreign,
                   lapses>>

\* No candidate answered: the channel is put back, and whether that works is not
\* looked at.
SearchFails ==
    /\ pc = "move" /\ todo = <<>>
    /\ \/ host' = entry /\ UNCHANGED stuck
       \/ host # entry /\ stuck' = TRUE /\ UNCHANGED host
    /\ IF stage = "before" THEN pc' = "identify" /\ UNCHANGED result ELSE Done("error")
    /\ UNCHANGED <<module, locals, lost, foreign, lapses>>

-----------------------------------------------------------------------------
(***************************************************************************)
(* Identification, by the module's answers or by the type the caller names.*)
(***************************************************************************)
Detect ==
    /\ pc = "identify"
    /\ \/ Hears /\ pc' = "align" /\ UNCHANGED <<result, lost>>
       \/ Lose /\ Done("error")
    /\ UNCHANGED <<rates, locals, stuck, foreign, lapses>>

CreateModule ==
    /\ pc = "identify"
    /\ pc' = "align"
    /\ lapses' = IF Hears THEN lapses ELSE lapses \cup {"unheard"}
    /\ UNCHANGED <<rates, locals, result, lost, stuck, foreign>>

-----------------------------------------------------------------------------
(***************************************************************************)
(* AlignAfterIdentify and SetModuleBaudRate.                               *)
(***************************************************************************)
AlignAfterIdentify ==
    /\ pc = "align"
    /\ IF requested = 0 \/ host = requested
       THEN Done("ok") /\ UNCHANGED current
       ELSE pc' = "ask" /\ current' = host /\ UNCHANGED result
    /\ UNCHANGED <<rates, requested, todo, entry, stage, found, attempts, lost, stuck, foreign,
                   lapses>>

\* AT+IPR=? lists the rate.
AskSupported ==
    /\ pc = "ask" /\ Hears /\ requested \in Supported
    /\ pc' = "write"
    /\ UNCHANGED <<rates, locals, result, lost, stuck, foreign, lapses>>

\* No answer, or the rate is not in it.
AskUnsupported ==
    /\ pc = "ask"
    /\ IF requested \in Supported THEN Lose ELSE UNCHANGED lost
    /\ Done("ok")
    /\ UNCHANGED <<rates, locals, stuck, foreign, lapses>>

\* AT+IPR=<requested> is acknowledged: taken, or not.
SetAcknowledged ==
    /\ pc = "write" /\ Hears
    /\ module' \in {requested, module}
    /\ pc' = "follow"
    /\ UNCHANGED <<host, locals, result, lost, stuck, foreign, lapses>>

\* It is refused, or nothing comes back: then the module may have taken it.
SetFails ==
    /\ pc = "write"
    /\ \/ UNCHANGED <<module, lost, lapses>>
       \/ Hears /\ module' = requested /\ lost' = TRUE /\ lapses' = lapses \cup {"ackLost"}
    /\ Done("ok")
    /\ UNCHANGED <<host, locals, stuck, foreign>>

FollowModule ==
    /\ pc = "follow"
    /\ \/ host' = requested /\ pc' = "confirm" /\ UNCHANGED <<stuck, result>>
       \/ stuck' = TRUE /\ Done("error") /\ UNCHANGED host
    /\ UNCHANGED <<module, locals, lost, foreign, lapses>>

Confirmed ==
    /\ pc = "confirm" /\ attempts < kConfirmAttempts
    /\ module = requested
    /\ Done("ok")
    /\ UNCHANGED <<rates, locals, lost, stuck, foreign, lapses>>

\* No answer, or one that does not name the rate: automatic is not it.
NotConfirmed ==
    /\ pc = "confirm" /\ attempts < kConfirmAttempts
    /\ lost' = (lost \/ module = requested)
    /\ attempts' = attempts + 1
    /\ UNCHANGED <<pc, rates, requested, current, todo, entry, stage, found, result, stuck, foreign,
                   lapses>>

\* Mutant: an unconfirmed switch is taken back without looking where the module is.
GoBackBlindly ==
    /\ pc = "confirm" /\ attempts = kConfirmAttempts
    /\ module' \in {module} \cup (IF Hears THEN {current} ELSE {})
    /\ host' = current
    /\ Done("ok")
    /\ UNCHANGED <<locals, lost, stuck, foreign, lapses>>

\* The module is asked to come back, heard or not, and searched for again.
GoBack ==
    /\ pc = "confirm" /\ attempts = kConfirmAttempts
    /\ module' \in {module} \cup (IF Hears THEN {current} ELSE {})
    /\ stage' = "after"
    /\ Search(host)
    /\ UNCHANGED <<host, requested, current, found, attempts, result, lost, stuck, foreign, lapses>>

\* MoveHostTo where the module was found: the channel is there when the module names
\* the rate it answered at, so that the move cannot fail.
Land ==
    /\ pc = "land"
    /\ host' = found
    /\ Done("ok")
    /\ UNCHANGED <<module, locals, lost, stuck, foreign, lapses>>

-----------------------------------------------------------------------------
Next ==
    \/ AlignBeforeIdentify \/ MoveHostTo \/ QueryAnswered \/ QuerySilent \/ SearchFails
    \/ Detect \/ CreateModule
    \/ AlignAfterIdentify \/ AskSupported \/ AskUnsupported \/ SetAcknowledged \/ SetFails
    \/ FollowModule \/ Confirmed \/ NotConfirmed \/ GoBack \/ Land

Spec == Init /\ [][Next]_vars

-----------------------------------------------------------------------------
(***************************************************************************)
(* Properties.                                                             *)
(***************************************************************************)
\* Type invariant.
TypeOK ==
    /\ pc \in {"begin", "move", "query", "identify", "align", "ask", "write", "follow", "confirm",
               "land", "done"}
    /\ host \in Rates \cup {0} /\ requested \in Rates \cup {0} /\ entry \in Rates \cup {0}
    /\ current \in Rates \cup {0} /\ found \in Rates \cup {0}
    /\ module \in Rates \cup {AutoBaud}
    /\ todo \in Seq(Rates)
    /\ stage \in {"before", "after"}
    /\ attempts \in 0 .. kConfirmAttempts
    /\ result \in {"none", "ok", "error"}
    /\ lost \in BOOLEAN /\ stuck \in BOOLEAN /\ foreign \in BOOLEAN
    /\ lapses \subseteq {"unheard", "ackLost"}

\* A device that comes up can be talked to: when BringUp gets to Assemble both ends are at
\* one rate, whatever was lost on the way, unless the module was never heard or took
\* a rate whose acknowledgement was lost.
EndsAgree == (pc = "done" /\ result = "ok" /\ requested > 0 /\ lapses = {}) => Hears

\* A device that is there is found: BringUp gets to Assemble unless an answer was lost,
\* the host could not move, or the module was at no rate that is searched.  What
\* Initialize makes of the module afterwards is its own affair.
FailureHasCause ==
    (pc = "done" /\ result = "error" /\ requested > 0) => lost \/ stuck \/ foreign
=============================================================================
