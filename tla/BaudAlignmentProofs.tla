------------------------ MODULE BaudAlignmentProofs ------------------------
(***************************************************************************)
(* Theorems about BaudAlignment: for any rates, candidates and number of   *)
(* attempts.                                                               *)
(***************************************************************************)
EXTENDS BaudAlignment, TLAPS

\* Something happened that the code cannot help.
Excused == lost \/ stuck \/ foreign

Scanning == pc \in {"move", "query"}

\* Where the requested rate is known and in use, and the candidates left are rates.
ScanInv ==
    /\ pc \in {"move", "query", "ask", "write", "follow", "confirm", "land"} => requested > 0
    /\ Scanning => entry = requested
    /\ \A i \in DOMAIN todo : IsCandidate(todo[i], requested)
    /\ pc = "query" => todo # <<>> /\ host = Head(todo)
    /\ pc = "confirm" => host = requested

\* Which rates the host and the module can be at.
PlaceInv ==
    /\ requested > 0 => IsCandidate(host, requested)
    /\ pc \in {"ask", "write", "follow", "confirm"} => IsCandidate(current, requested)
    /\ pc \in {"begin", "identify", "align", "ask"} \/ (Scanning /\ stage = "before") =>
           foreign \/ module = AutoBaud \/ IsCandidate(module, requested)
    /\ pc \in {"ask", "write"} => current = host
    /\ pc \in {"follow", "confirm"} => module \in {requested, current, AutoBaud}

\* The ends hear each other where the code counts on it.
HearInv ==
    /\ pc \in {"align", "ask"} /\ lapses = {} => Hears
    /\ pc = "write" => Hears
    /\ pc = "land" => Hears /\ found = host

\* As long as nothing excuses it the module is at a candidate still to be tried, or
\* the channel has reached it.
ReachInv ==
    /\ Scanning /\ ~Excused =>
           \E i \in DOMAIN todo : module = AutoBaud \/ todo[i] = module
    /\ pc = "identify" /\ requested > 0 /\ ~Excused => Hears
IInv == TypeOK /\ ScanInv /\ PlaceInv /\ HearInv /\ ReachInv /\ EndsAgree /\ FailureHasCause

-----------------------------------------------------------------------------
(***************************************************************************)
(* The candidates, and what is left of them.                               *)
(***************************************************************************)
\* BaudRateCandidates lists rates, and each candidate is in the list.
LEMMA CandidatesFacts ==
    ASSUME NEW rate \in Rates
    PROVE  /\ Candidates(rate) \in Seq(Rates)
           /\ Candidates(rate) # <<>>
           /\ \A i \in DOMAIN Candidates(rate) : IsCandidate(Candidates(rate)[i], rate)
           /\ \A x : IsCandidate(x, rate) => \E i \in DOMAIN Candidates(rate) : Candidates(rate)[i] = x
<1> DEFINE high == <<kHighestKnownRate, kFactoryRate>>
           low == <<kFactoryRate, kHighestKnownRate>>
           all == <<rate, kHighestKnownRate, kFactoryRate>>
<1>1. CASE rate = kHighestKnownRate
  <2>1. Candidates(rate) = high
    BY <1>1 DEF Candidates
  <2>2. high \in Seq(Rates) /\ Len(high) = 2 /\ DOMAIN high = 1 .. 2 /\ high[1] = rate
        /\ high[2] = kFactoryRate
    BY <1>1, RatesAssumption
  <2> QED
    BY <1>1, <2>1, <2>2 DEF IsCandidate
<1>2. CASE rate = kFactoryRate
  <2>1. Candidates(rate) = low
    BY <1>2, RatesAssumption DEF Candidates
  <2>2. low \in Seq(Rates) /\ Len(low) = 2 /\ DOMAIN low = 1 .. 2 /\ low[1] = rate
        /\ low[2] = kHighestKnownRate
    BY <1>2, RatesAssumption
  <2> QED
    BY <1>2, <2>1, <2>2 DEF IsCandidate
<1>3. CASE rate # kHighestKnownRate /\ rate # kFactoryRate
  <2>1. Candidates(rate) = all
    BY <1>3 DEF Candidates
  <2>2. all \in Seq(Rates) /\ Len(all) = 3 /\ DOMAIN all = 1 .. 3 /\ all[1] = rate
        /\ all[2] = kHighestKnownRate /\ all[3] = kFactoryRate
    BY RatesAssumption
  <2> QED
    BY <2>1, <2>2 DEF IsCandidate
<1> QED
  BY <1>1, <1>2, <1>3

\* Tail drops the head and nothing else.
LEMMA TailFacts ==
    ASSUME NEW s \in Seq(Rates), s # <<>>
    PROVE  /\ Head(s) \in Rates
           /\ Head(s) = s[1] /\ 1 \in DOMAIN s
           /\ Tail(s) \in Seq(Rates)
           /\ \A i \in DOMAIN Tail(s) : i + 1 \in DOMAIN s /\ Tail(s)[i] = s[i + 1]
           /\ \A i \in DOMAIN s : s[i] = Head(s) \/ (i - 1 \in DOMAIN Tail(s) /\ Tail(s)[i - 1] = s[i])
OBVIOUS

-----------------------------------------------------------------------------
(***************************************************************************)
(* The invariant is inductive.                                             *)
(***************************************************************************)
\* Bring-up begins in a state of the invariant.
LEMMA InitInv == Init => IInv
<1> SUFFICES ASSUME Init PROVE IInv
  OBVIOUS
<1> USE RatesAssumption, AttemptsAssumption DEF Init
<1>0. /\ foreign \in BOOLEAN
      /\ foreign \/ module = AutoBaud \/ IsCandidate(module, requested)
  BY Zenon
<1>1. TypeOK
  <2>1. lost \in BOOLEAN /\ stuck \in BOOLEAN
    BY Zenon
  <2>2. host \in Rates \cup {0} /\ todo \in Seq(Rates) /\ attempts \in 0 .. kConfirmAttempts
    OBVIOUS
  <2> QED
    BY <1>0, <2>1, <2>2 DEF TypeOK
<1>2. ScanInv
  BY DEF ScanInv, Scanning
<1>3. PlaceInv
  BY <1>0 DEF PlaceInv, Scanning, IsCandidate, AutoBaud
<1>4. HearInv /\ ReachInv /\ EndsAgree /\ FailureHasCause
  BY DEF HearInv, ReachInv, Scanning, EndsAgree, FailureHasCause
<1> QED
  BY <1>1, <1>2, <1>3, <1>4 DEF IInv

LEMMA AlignBeforeIdentifyInv == IInv /\ AlignBeforeIdentify => IInv'
<1> SUFFICES ASSUME IInv, AlignBeforeIdentify PROVE IInv'
  OBVIOUS
<1> USE RatesAssumption, AttemptsAssumption DEF IInv, AlignBeforeIdentify, rates, locals, AutoBaud
<1>0. ASSUME requested \in Rates
      PROVE  LET c == Candidates(requested)
             IN /\ c \in Seq(Rates) /\ c # <<>>
                /\ \A i \in DOMAIN c : IsCandidate(c[i], requested)
                /\ \A x : IsCandidate(x, requested) => \E i \in DOMAIN c : c[i] = x
  BY <1>0, CandidatesFacts
<1>1. TypeOK'
  BY <1>0 DEF TypeOK, ScanInv, Scanning, Search
<1>2. ScanInv'
  BY <1>0 DEF TypeOK, ScanInv, Scanning, Search
<1>3. PlaceInv'
  BY <1>0 DEF TypeOK, ScanInv, Scanning, PlaceInv, IsCandidate, HearInv, Hears, Search
<1>4. HearInv'
  BY DEF TypeOK, ScanInv, Scanning, PlaceInv, IsCandidate, HearInv, Hears, Search
<1>5. ReachInv'
  <2>1. CASE requested = 0
    BY <2>1 DEF ReachInv, Scanning
  <2>2. CASE requested > 0
    <3>1. requested \in Rates /\ pc' = "move" /\ module' = module /\ foreign' = foreign
          /\ todo' = Candidates(requested) /\ todo' # <<>> /\ 1 \in DOMAIN todo'
      BY <1>0, <2>2 DEF TypeOK, Search
    <3>2. foreign \/ module = AutoBaud \/ IsCandidate(module, requested)
      BY DEF PlaceInv
    <3>3. ~Excused' => \E i \in DOMAIN todo' : module' = AutoBaud \/ todo'[i] = module'
      BY <1>0, <3>1, <3>2 DEF Excused
    <3> QED
      BY <3>1, <3>3 DEF ReachInv
  <2> QED
    BY <2>1, <2>2 DEF TypeOK
<1>6. EndsAgree'
  BY DEF TypeOK, ScanInv, Scanning, HearInv, Hears, EndsAgree, Search
<1>7. FailureHasCause'
  BY DEF TypeOK, ScanInv, Scanning, PlaceInv, IsCandidate, ReachInv, Excused, Hears,
         FailureHasCause, Search
<1> QED
  BY <1>1, <1>2, <1>3, <1>4, <1>5, <1>6, <1>7

LEMMA MoveHostToInv == IInv /\ MoveHostTo => IInv'
<1> SUFFICES ASSUME IInv, MoveHostTo PROVE IInv'
  OBVIOUS
<1> USE RatesAssumption, AttemptsAssumption DEF IInv, MoveHostTo, rates, locals, AutoBaud
<1>0. /\ Head(todo) \in Rates
      /\ Head(todo) = todo[1] /\ 1 \in DOMAIN todo
      /\ Tail(todo) \in Seq(Rates)
      /\ \A i \in DOMAIN Tail(todo) : i + 1 \in DOMAIN todo /\ Tail(todo)[i] = todo[i + 1]
      /\ \A i \in DOMAIN todo : \/ todo[i] = Head(todo)
                                \/ i - 1 \in DOMAIN Tail(todo) /\ Tail(todo)[i - 1] = todo[i]
  <2>1. todo \in Seq(Rates) /\ todo # <<>>
    BY DEF TypeOK, ScanInv
  <2> QED
    BY <2>1, TailFacts
<1>1. TypeOK'
  BY <1>0 DEF TypeOK, ScanInv, Scanning
<1>2. ScanInv'
  BY <1>0 DEF TypeOK, ScanInv, Scanning
<1>3. PlaceInv'
  BY <1>0 DEF TypeOK, ScanInv, Scanning, PlaceInv, IsCandidate, HearInv, Hears
<1>4. HearInv'
  BY DEF TypeOK, ScanInv, Scanning, PlaceInv, IsCandidate, HearInv, Hears
<1>5. ReachInv'
  BY <1>0 DEF TypeOK, ScanInv, Scanning, PlaceInv, IsCandidate, HearInv, Hears, ReachInv,
         Excused
<1>6. EndsAgree'
  BY DEF TypeOK, ScanInv, Scanning, HearInv, Hears, EndsAgree
<1>7. FailureHasCause'
  BY DEF TypeOK, ScanInv, Scanning, PlaceInv, IsCandidate, ReachInv, Excused, Hears,
         FailureHasCause
<1> QED
  BY <1>1, <1>2, <1>3, <1>4, <1>5, <1>6, <1>7

LEMMA QueryAnsweredInv == IInv /\ QueryAnswered => IInv'
<1> SUFFICES ASSUME IInv, QueryAnswered PROVE IInv'
  OBVIOUS
<1> USE RatesAssumption, AttemptsAssumption DEF IInv, QueryAnswered, rates, locals, AutoBaud
<1>1. TypeOK'
  BY DEF TypeOK, ScanInv, Scanning, Hears
<1>2. ScanInv'
  BY DEF TypeOK, ScanInv, Scanning, Hears
<1>3. PlaceInv'
  BY DEF TypeOK, ScanInv, Scanning, PlaceInv, IsCandidate, HearInv, Hears
<1>4. HearInv'
  BY DEF TypeOK, ScanInv, Scanning, PlaceInv, IsCandidate, HearInv, Hears
<1>5. ReachInv'
  BY DEF TypeOK, ScanInv, Scanning, PlaceInv, IsCandidate, HearInv, Hears, ReachInv, Excused
<1>6. EndsAgree'
  BY DEF TypeOK, ScanInv, Scanning, HearInv, Hears, EndsAgree
<1>7. FailureHasCause'
  BY DEF TypeOK, ScanInv, Scanning, PlaceInv, IsCandidate, ReachInv, Excused, Hears,
         FailureHasCause
<1> QED
  BY <1>1, <1>2, <1>3, <1>4, <1>5, <1>6, <1>7

LEMMA QuerySilentInv == IInv /\ QuerySilent => IInv'
<1> SUFFICES ASSUME IInv, QuerySilent PROVE IInv'
  OBVIOUS
<1> USE RatesAssumption, AttemptsAssumption DEF IInv, QuerySilent, rates, locals, AutoBaud
<1>0. /\ Head(todo) \in Rates
      /\ Head(todo) = todo[1] /\ 1 \in DOMAIN todo
      /\ Tail(todo) \in Seq(Rates)
      /\ \A i \in DOMAIN Tail(todo) : i + 1 \in DOMAIN todo /\ Tail(todo)[i] = todo[i + 1]
      /\ \A i \in DOMAIN todo : \/ todo[i] = Head(todo)
                                \/ i - 1 \in DOMAIN Tail(todo) /\ Tail(todo)[i - 1] = todo[i]
  <2>1. todo \in Seq(Rates) /\ todo # <<>>
    BY DEF TypeOK, ScanInv
  <2> QED
    BY <2>1, TailFacts
<1>1. TypeOK'
  BY <1>0 DEF TypeOK, ScanInv, Scanning, Lose
<1>2. ScanInv'
  BY <1>0 DEF TypeOK, ScanInv, Scanning, Lose
<1>3. PlaceInv'
  BY <1>0 DEF TypeOK, ScanInv, Scanning, PlaceInv, IsCandidate, HearInv, Hears, Lose
<1>4. HearInv'
  BY DEF TypeOK, ScanInv, Scanning, PlaceInv, IsCandidate, HearInv, Hears, Lose
<1>5. ReachInv'
  <2> SUFFICES ASSUME ~Excused'
               PROVE  \E i \in DOMAIN Tail(todo) : Tail(todo)[i] = module
    BY DEF ReachInv
  <2>1. ~Hears /\ ~Excused
    BY DEF Excused, Lose, TypeOK
  <2>2. PICK i \in DOMAIN todo : todo[i] = module
    BY <2>1 DEF ReachInv, Scanning, Hears
  <2>3. todo[i] # Head(todo)
    BY <2>1, <2>2 DEF ScanInv, Hears
  <2> QED
    BY <1>0, <2>2, <2>3
<1>6. EndsAgree'
  BY DEF TypeOK, ScanInv, Scanning, HearInv, Hears, EndsAgree, Lose
<1>7. FailureHasCause'
  BY DEF TypeOK, ScanInv, Scanning, PlaceInv, IsCandidate, ReachInv, Excused, Hears,
         FailureHasCause, Lose
<1> QED
  BY <1>1, <1>2, <1>3, <1>4, <1>5, <1>6, <1>7

LEMMA SearchFailsInv == IInv /\ SearchFails => IInv'
<1> SUFFICES ASSUME IInv, SearchFails PROVE IInv'
  OBVIOUS
<1> USE RatesAssumption, AttemptsAssumption DEF IInv, SearchFails, rates, locals, AutoBaud
<1>1. TypeOK'
  BY DEF TypeOK, ScanInv, Scanning, Done
<1>2. ScanInv'
  BY DEF TypeOK, ScanInv, Scanning, Done
<1>3. PlaceInv'
  BY DEF TypeOK, ScanInv, Scanning, PlaceInv, IsCandidate, HearInv, Hears, Done
<1>4. HearInv'
  BY DEF TypeOK, ScanInv, Scanning, PlaceInv, IsCandidate, HearInv, Hears, Done
<1>5. ReachInv'
  BY DEF TypeOK, ScanInv, Scanning, PlaceInv, IsCandidate, HearInv, Hears, ReachInv, Excused,
         Done
<1>6. EndsAgree'
  BY DEF TypeOK, ScanInv, Scanning, HearInv, Hears, EndsAgree, Done
<1>7. FailureHasCause'
  BY DEF TypeOK, ScanInv, Scanning, PlaceInv, IsCandidate, ReachInv, Excused, Hears,
         FailureHasCause, Done
<1> QED
  BY <1>1, <1>2, <1>3, <1>4, <1>5, <1>6, <1>7

LEMMA DetectInv == IInv /\ Detect => IInv'
<1> SUFFICES ASSUME IInv, Detect PROVE IInv'
  OBVIOUS
<1> USE RatesAssumption, AttemptsAssumption DEF IInv, Detect, rates, locals, AutoBaud
<1>1. TypeOK'
  BY DEF TypeOK, ScanInv, Scanning, Done, Lose, Hears
<1>2. ScanInv'
  BY DEF TypeOK, ScanInv, Scanning, Done, Lose, Hears
<1>3. PlaceInv'
  BY DEF TypeOK, ScanInv, Scanning, PlaceInv, IsCandidate, HearInv, Hears, Done, Lose
<1>4. HearInv'
  BY DEF TypeOK, ScanInv, Scanning, PlaceInv, IsCandidate, HearInv, Hears, Done, Lose
<1>5. ReachInv'
  BY DEF TypeOK, ScanInv, Scanning, PlaceInv, IsCandidate, HearInv, Hears, ReachInv, Excused,
         Done, Lose
<1>6. EndsAgree'
  BY DEF TypeOK, ScanInv, Scanning, HearInv, Hears, EndsAgree, Done, Lose
<1>7. FailureHasCause'
  BY DEF TypeOK, ScanInv, Scanning, PlaceInv, IsCandidate, ReachInv, Excused, Hears,
         FailureHasCause, Done, Lose
<1> QED
  BY <1>1, <1>2, <1>3, <1>4, <1>5, <1>6, <1>7

LEMMA CreateModuleInv == IInv /\ CreateModule => IInv'
<1> SUFFICES ASSUME IInv, CreateModule PROVE IInv'
  OBVIOUS
<1> USE RatesAssumption, AttemptsAssumption DEF IInv, CreateModule, rates, locals, AutoBaud
<1>1. TypeOK'
  BY DEF TypeOK, ScanInv, Scanning, Hears
<1>2. ScanInv'
  BY DEF TypeOK, ScanInv, Scanning, Hears
<1>3. PlaceInv'
  BY DEF TypeOK, ScanInv, Scanning, PlaceInv, IsCandidate, HearInv, Hears
<1>4. HearInv'
  BY DEF TypeOK, ScanInv, Scanning, PlaceInv, IsCandidate, HearInv, Hears
<1>5. ReachInv'
  BY DEF TypeOK, ScanInv, Scanning, PlaceInv, IsCandidate, HearInv, Hears, ReachInv, Excused
<1>6. EndsAgree'
  BY DEF TypeOK, ScanInv, Scanning, HearInv, Hears, EndsAgree
<1>7. FailureHasCause'
  BY DEF TypeOK, ScanInv, Scanning, PlaceInv, IsCandidate, ReachInv, Excused, Hears,
         FailureHasCause
<1> QED
  BY <1>1, <1>2, <1>3, <1>4, <1>5, <1>6, <1>7

LEMMA AlignAfterIdentifyInv == IInv /\ AlignAfterIdentify => IInv'
<1> SUFFICES ASSUME IInv, AlignAfterIdentify PROVE IInv'
  OBVIOUS
<1> USE RatesAssumption, AttemptsAssumption DEF IInv, AlignAfterIdentify, rates, locals, AutoBaud
<1>0. requested = 0 \/ requested > 0
  BY DEF TypeOK
<1>1. TypeOK'
  BY DEF TypeOK, ScanInv, Scanning, Done
<1>2. ScanInv'
  BY DEF TypeOK, ScanInv, Scanning, Done
<1>3. PlaceInv'
  <2>1. CASE requested = 0 \/ host = requested
    BY <2>1 DEF PlaceInv, Scanning, Done, IsCandidate
  <2>2. CASE requested > 0 /\ host # requested
    BY <2>2 DEF PlaceInv, Scanning, IsCandidate
  <2> QED
    BY <1>0, <2>1, <2>2
<1>4. HearInv'
  BY DEF TypeOK, ScanInv, Scanning, PlaceInv, IsCandidate, HearInv, Hears, Done
<1>5. ReachInv'
  BY DEF TypeOK, ScanInv, Scanning, PlaceInv, IsCandidate, HearInv, Hears, ReachInv, Excused,
         Done
<1>6. EndsAgree'
  BY DEF TypeOK, ScanInv, Scanning, HearInv, Hears, EndsAgree, Done
<1>7. FailureHasCause'
  BY DEF TypeOK, ScanInv, Scanning, PlaceInv, IsCandidate, ReachInv, Excused, Hears,
         FailureHasCause, Done
<1> QED
  BY <1>1, <1>2, <1>3, <1>4, <1>5, <1>6, <1>7

LEMMA AskSupportedInv == IInv /\ AskSupported => IInv'
<1> SUFFICES ASSUME IInv, AskSupported PROVE IInv'
  OBVIOUS
<1> USE RatesAssumption, AttemptsAssumption DEF IInv, AskSupported, rates, locals, AutoBaud
<1>1. TypeOK'
  BY DEF TypeOK, ScanInv, Scanning, Hears
<1>2. ScanInv'
  BY DEF TypeOK, ScanInv, Scanning, Hears
<1>3. PlaceInv'
  BY DEF TypeOK, ScanInv, Scanning, PlaceInv, IsCandidate, HearInv, Hears
<1>4. HearInv'
  BY DEF TypeOK, ScanInv, Scanning, PlaceInv, IsCandidate, HearInv, Hears
<1>5. ReachInv'
  BY DEF TypeOK, ScanInv, Scanning, PlaceInv, IsCandidate, HearInv, Hears, ReachInv, Excused
<1>6. EndsAgree'
  BY DEF TypeOK, ScanInv, Scanning, HearInv, Hears, EndsAgree
<1>7. FailureHasCause'
  BY DEF TypeOK, ScanInv, Scanning, PlaceInv, IsCandidate, ReachInv, Excused, Hears,
         FailureHasCause
<1> QED
  BY <1>1, <1>2, <1>3, <1>4, <1>5, <1>6, <1>7

LEMMA AskUnsupportedInv == IInv /\ AskUnsupported => IInv'
<1> SUFFICES ASSUME IInv, AskUnsupported PROVE IInv'
  OBVIOUS
<1> USE RatesAssumption, AttemptsAssumption DEF IInv, AskUnsupported, rates, locals, AutoBaud
<1>1. TypeOK'
  BY DEF TypeOK, ScanInv, Scanning, Done, Lose
<1>2. ScanInv'
  BY DEF TypeOK, ScanInv, Scanning, Done, Lose
<1>3. PlaceInv'
  BY DEF TypeOK, ScanInv, Scanning, PlaceInv, IsCandidate, HearInv, Hears, Done, Lose
<1>4. HearInv'
  BY DEF TypeOK, ScanInv, Scanning, PlaceInv, IsCandidate, HearInv, Hears, Done, Lose
<1>5. ReachInv'
  BY DEF TypeOK, ScanInv, Scanning, PlaceInv, IsCandidate, HearInv, Hears, ReachInv, Excused,
         Done, Lose
<1>6. EndsAgree'
  BY DEF TypeOK, ScanInv, Scanning, HearInv, Hears, EndsAgree, Done, Lose
<1>7. FailureHasCause'
  BY DEF TypeOK, ScanInv, Scanning, PlaceInv, IsCandidate, ReachInv, Excused, Hears,
         FailureHasCause, Done, Lose
<1> QED
  BY <1>1, <1>2, <1>3, <1>4, <1>5, <1>6, <1>7

LEMMA SetAcknowledgedInv == IInv /\ SetAcknowledged => IInv'
<1> SUFFICES ASSUME IInv, SetAcknowledged PROVE IInv'
  OBVIOUS
<1> USE RatesAssumption, AttemptsAssumption DEF IInv, SetAcknowledged, rates, locals, AutoBaud
<1>1. TypeOK'
  BY DEF TypeOK, ScanInv, Scanning, Hears
<1>2. ScanInv'
  BY DEF TypeOK, ScanInv, Scanning, Hears
<1>3. PlaceInv'
  <2>1. module' \in {requested, current, AutoBaud}
    BY DEF PlaceInv, HearInv, Hears
  <2> QED
    BY <2>1 DEF ScanInv, PlaceInv, Scanning, IsCandidate
<1>4. HearInv'
  BY DEF TypeOK, ScanInv, Scanning, PlaceInv, IsCandidate, HearInv, Hears
<1>5. ReachInv'
  BY DEF TypeOK, ScanInv, Scanning, PlaceInv, IsCandidate, HearInv, Hears, ReachInv, Excused
<1>6. EndsAgree'
  BY DEF TypeOK, ScanInv, Scanning, HearInv, Hears, EndsAgree
<1>7. FailureHasCause'
  BY DEF TypeOK, ScanInv, Scanning, PlaceInv, IsCandidate, ReachInv, Excused, Hears,
         FailureHasCause
<1> QED
  BY <1>1, <1>2, <1>3, <1>4, <1>5, <1>6, <1>7

LEMMA SetFailsInv == IInv /\ SetFails => IInv'
<1> SUFFICES ASSUME IInv, SetFails PROVE IInv'
  OBVIOUS
<1> USE RatesAssumption, AttemptsAssumption DEF IInv, SetFails, rates, locals, AutoBaud
<1>1. TypeOK'
  <2>1. lost' \in BOOLEAN
    BY DEF TypeOK
  <2> QED
    BY <2>1 DEF TypeOK, Done
<1>2. ScanInv'
  BY DEF TypeOK, ScanInv, Scanning, Done, Hears
<1>3. PlaceInv'
  BY DEF TypeOK, ScanInv, Scanning, PlaceInv, IsCandidate, HearInv, Hears, Done
<1>4. HearInv'
  BY DEF TypeOK, ScanInv, Scanning, PlaceInv, IsCandidate, HearInv, Hears, Done
<1>5. ReachInv'
  BY DEF TypeOK, ScanInv, Scanning, PlaceInv, IsCandidate, HearInv, Hears, ReachInv, Excused,
         Done
<1>6. EndsAgree'
  BY DEF TypeOK, ScanInv, Scanning, HearInv, Hears, EndsAgree, Done
<1>7. FailureHasCause'
  BY DEF TypeOK, ScanInv, Scanning, PlaceInv, IsCandidate, ReachInv, Excused, Hears,
         FailureHasCause, Done
<1> QED
  BY <1>1, <1>2, <1>3, <1>4, <1>5, <1>6, <1>7

LEMMA FollowModuleInv == IInv /\ FollowModule => IInv'
<1> SUFFICES ASSUME IInv, FollowModule PROVE IInv'
  OBVIOUS
<1> USE RatesAssumption, AttemptsAssumption DEF IInv, FollowModule, rates, locals, AutoBaud
<1>1. TypeOK'
  BY DEF TypeOK, ScanInv, Scanning, Done
<1>2. ScanInv'
  BY DEF TypeOK, ScanInv, Scanning, Done
<1>3. PlaceInv'
  BY DEF TypeOK, ScanInv, Scanning, PlaceInv, IsCandidate, HearInv, Hears, Done
<1>4. HearInv'
  BY DEF TypeOK, ScanInv, Scanning, PlaceInv, IsCandidate, HearInv, Hears, Done
<1>5. ReachInv'
  BY DEF TypeOK, ScanInv, Scanning, PlaceInv, IsCandidate, HearInv, Hears, ReachInv, Excused,
         Done
<1>6. EndsAgree'
  BY DEF TypeOK, ScanInv, Scanning, HearInv, Hears, EndsAgree, Done
<1>7. FailureHasCause'
  BY DEF TypeOK, ScanInv, Scanning, PlaceInv, IsCandidate, ReachInv, Excused, Hears,
         FailureHasCause, Done
<1> QED
  BY <1>1, <1>2, <1>3, <1>4, <1>5, <1>6, <1>7

LEMMA ConfirmedInv == IInv /\ Confirmed => IInv'
<1> SUFFICES ASSUME IInv, Confirmed PROVE IInv'
  OBVIOUS
<1> USE RatesAssumption, AttemptsAssumption DEF IInv, Confirmed, rates, locals, AutoBaud
<1>1. TypeOK'
  BY DEF TypeOK, ScanInv, Scanning, Done
<1>2. ScanInv'
  BY DEF TypeOK, ScanInv, Scanning, Done
<1>3. PlaceInv'
  BY DEF TypeOK, ScanInv, Scanning, PlaceInv, IsCandidate, HearInv, Hears, Done
<1>4. HearInv'
  BY DEF TypeOK, ScanInv, Scanning, PlaceInv, IsCandidate, HearInv, Hears, Done
<1>5. ReachInv'
  BY DEF TypeOK, ScanInv, Scanning, PlaceInv, IsCandidate, HearInv, Hears, ReachInv, Excused,
         Done
<1>6. EndsAgree'
  BY DEF TypeOK, ScanInv, Scanning, HearInv, Hears, EndsAgree, Done
<1>7. FailureHasCause'
  BY DEF TypeOK, ScanInv, Scanning, PlaceInv, IsCandidate, ReachInv, Excused, Hears,
         FailureHasCause, Done
<1> QED
  BY <1>1, <1>2, <1>3, <1>4, <1>5, <1>6, <1>7

LEMMA NotConfirmedInv == IInv /\ NotConfirmed => IInv'
<1> SUFFICES ASSUME IInv, NotConfirmed PROVE IInv'
  OBVIOUS
<1> USE RatesAssumption, AttemptsAssumption DEF IInv, NotConfirmed, rates, locals, AutoBaud
<1>1. TypeOK'
  BY DEF TypeOK, ScanInv, Scanning
<1>2. ScanInv'
  BY DEF TypeOK, ScanInv, Scanning
<1>3. PlaceInv'
  BY DEF TypeOK, ScanInv, Scanning, PlaceInv, IsCandidate, HearInv, Hears
<1>4. HearInv'
  BY DEF TypeOK, ScanInv, Scanning, PlaceInv, IsCandidate, HearInv, Hears
<1>5. ReachInv'
  BY DEF TypeOK, ScanInv, Scanning, PlaceInv, IsCandidate, HearInv, Hears, ReachInv, Excused
<1>6. EndsAgree'
  BY DEF TypeOK, ScanInv, Scanning, HearInv, Hears, EndsAgree
<1>7. FailureHasCause'
  BY DEF TypeOK, ScanInv, Scanning, PlaceInv, IsCandidate, ReachInv, Excused, Hears,
         FailureHasCause
<1> QED
  BY <1>1, <1>2, <1>3, <1>4, <1>5, <1>6, <1>7

LEMMA GoBackInv == IInv /\ GoBack => IInv'
<1> SUFFICES ASSUME IInv, GoBack PROVE IInv'
  OBVIOUS
<1> USE RatesAssumption, AttemptsAssumption DEF IInv, GoBack, rates, locals, AutoBaud
<1>0. ASSUME requested \in Rates
      PROVE  LET c == Candidates(requested)
             IN /\ c \in Seq(Rates) /\ c # <<>>
                /\ \A i \in DOMAIN c : IsCandidate(c[i], requested)
                /\ \A x : IsCandidate(x, requested) => \E i \in DOMAIN c : c[i] = x
  BY <1>0, CandidatesFacts
<1>1. TypeOK'
  <2>1. host = requested /\ requested \in Rates
    BY DEF ScanInv, TypeOK
  <2>2. todo' \in Seq(Rates) /\ entry' \in Rates
    BY <1>0, <2>1 DEF Search
  <2>3. module' \in Rates \cup {AutoBaud}
    BY DEF TypeOK
  <2> QED
    BY <2>2, <2>3 DEF TypeOK, Search
<1>2. ScanInv'
  BY <1>0 DEF TypeOK, ScanInv, Scanning, Search, Hears
<1>3. PlaceInv'
  BY <1>0 DEF TypeOK, ScanInv, Scanning, PlaceInv, IsCandidate, HearInv, Hears, Search
<1>4. HearInv'
  BY DEF TypeOK, ScanInv, Scanning, PlaceInv, IsCandidate, HearInv, Hears, Search
<1>5. ReachInv'
  <2>1. /\ host = requested /\ requested \in Rates
        /\ todo' = Candidates(requested) /\ pc' = "move"
    BY DEF ScanInv, TypeOK, Search
  <2>2. module' = AutoBaud \/ IsCandidate(module', requested)
    BY DEF PlaceInv, IsCandidate
  <2>3. \E i \in DOMAIN todo' : TRUE
    BY <1>0, <2>1 DEF IsCandidate
  <2>4. \E i \in DOMAIN todo' : module' = AutoBaud \/ todo'[i] = module'
    BY <1>0, <2>1, <2>2, <2>3
  <2> QED
    BY <2>1, <2>4 DEF ReachInv
<1>6. EndsAgree'
  BY DEF TypeOK, ScanInv, Scanning, HearInv, Hears, EndsAgree, Search
<1>7. FailureHasCause'
  BY DEF TypeOK, ScanInv, Scanning, PlaceInv, IsCandidate, ReachInv, Excused, Hears,
         FailureHasCause, Search
<1> QED
  BY <1>1, <1>2, <1>3, <1>4, <1>5, <1>6, <1>7

LEMMA LandInv == IInv /\ Land => IInv'
<1> SUFFICES ASSUME IInv, Land PROVE IInv'
  OBVIOUS
<1> USE RatesAssumption, AttemptsAssumption DEF IInv, Land, rates, locals, AutoBaud
<1>1. TypeOK'
  BY DEF TypeOK, ScanInv, Scanning, Done
<1>2. ScanInv'
  BY DEF TypeOK, ScanInv, Scanning, Done
<1>3. PlaceInv'
  BY DEF TypeOK, ScanInv, Scanning, PlaceInv, IsCandidate, HearInv, Hears, Done
<1>4. HearInv'
  BY DEF TypeOK, ScanInv, Scanning, PlaceInv, IsCandidate, HearInv, Hears, Done
<1>5. ReachInv'
  BY DEF TypeOK, ScanInv, Scanning, PlaceInv, IsCandidate, HearInv, Hears, ReachInv, Excused,
         Done
<1>6. EndsAgree'
  BY DEF TypeOK, ScanInv, Scanning, HearInv, Hears, EndsAgree, Done
<1>7. FailureHasCause'
  BY DEF TypeOK, ScanInv, Scanning, PlaceInv, IsCandidate, ReachInv, Excused, Hears,
         FailureHasCause, Done
<1> QED
  BY <1>1, <1>2, <1>3, <1>4, <1>5, <1>6, <1>7

\* Every step of the search, the identification and the switch keeps it.
LEMMA NextInv == IInv /\ [Next]_vars => IInv'
<1>1. ASSUME IInv, UNCHANGED vars PROVE IInv'
  <2> USE <1>1 DEF vars, rates, locals, IInv
  <2>1. TypeOK' /\ ScanInv'
    BY DEF TypeOK, ScanInv, Scanning
  <2>2. PlaceInv' /\ HearInv'
    BY DEF PlaceInv, HearInv, Scanning, Hears
  <2>3. ReachInv' /\ EndsAgree' /\ FailureHasCause'
    BY DEF ReachInv, Excused, Scanning, EndsAgree, FailureHasCause, Hears
  <2> QED
    BY <2>1, <2>2, <2>3
<1> QED
  BY <1>1, AlignBeforeIdentifyInv, MoveHostToInv, QueryAnsweredInv, QuerySilentInv,
     SearchFailsInv, DetectInv, CreateModuleInv, AlignAfterIdentifyInv, AskSupportedInv,
     AskUnsupportedInv, SetAcknowledgedInv, SetFailsInv, FollowModuleInv, ConfirmedInv,
     NotConfirmedInv, GoBackInv, LandInv DEF Next

-----------------------------------------------------------------------------
(***************************************************************************)
(* The theorems.                                                           *)
(***************************************************************************)
\* The invariant holds throughout bring-up.
LEMMA Invariance == Spec => []IInv
  BY InitInv, NextInv, PTL DEF Spec

\* The state of bring-up (BringUp, FindModuleBaudRate, SetModuleBaudRate) keeps its
\* types for any rates and number of attempts.
THEOREM TypeCorrect == Spec => []TypeOK
<1>1. IInv => TypeOK
  BY DEF IInv
<1> QED
  BY <1>1, Invariance, PTL

\* Whatever rates there are and whatever is lost, when BringUp succeeds the module
\* hears the host, but for the two ways that EndsAgree names.
THEOREM EndsSafe == Spec => []EndsAgree
<1>1. IInv => EndsAgree
  BY DEF IInv
<1> QED
  BY <1>1, Invariance, PTL

\* BringUp fails only for a lost answer, a host that cannot move or a module at no
\* candidate: FindModuleBaudRate passes over no rate at which the module answers.
THEOREM FailureExcused == Spec => []FailureHasCause
<1>1. IInv => FailureHasCause
  BY DEF IInv
<1> QED
  BY <1>1, Invariance, PTL
=============================================================================
