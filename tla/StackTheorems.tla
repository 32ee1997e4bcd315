--------------------------- MODULE StackTheorems ----------------------------
(***************************************************************************)
(* Call stacks as sequences, innermost call first: where the frames of a   *)
(* given kind are, counted from the bottom, and what a push, a pop and a   *)
(* change of the innermost call do to that.  A depth keeps its frame while *)
(* calls come and go above it.                                             *)
(***************************************************************************)
EXTENDS Integers, Sequences, TLAPS

\* The depths at which stack s has a frame in H.
Depths(s, H) == {d \in 0 .. (Len(s) - 1) : s[Len(s) - d] \in H}

\* Every frame of s is in F.
LEMMA StackType ==
    ASSUME NEW F, NEW s \in Seq(F), s # <<>>
    PROVE  /\ Len(s) \in Nat /\ Len(s) > 0
           /\ Head(s) = s[1] /\ Head(s) \in F
           /\ Tail(s) \in Seq(F)
           /\ \A H : Len(s) - 1 \in Depths(s, H) <=> Head(s) \in H
<1>1. Len(s) \in Nat /\ Len(s) > 0 /\ Head(s) = s[1] /\ Head(s) \in F /\ Tail(s) \in Seq(F)
  OBVIOUS
<1> QED  BY <1>1 DEF Depths

LEMMA StackGrows ==
    ASSUME NEW F, NEW G, F \subseteq G, NEW s \in Seq(F)
    PROVE  s \in Seq(G)
  OBVIOUS

\* A stack whose frames are all in a smaller set.
LEMMA StackOf ==
    ASSUME NEW F, NEW G, NEW s \in Seq(F), \A i \in 1 .. Len(s) : s[i] \in G
    PROVE  s \in Seq(G)
<1>1. Len(s) \in Nat /\ s = [i \in 1 .. Len(s) |-> s[i]]
  OBVIOUS
<1>2. s \in [1 .. Len(s) -> G]
  BY <1>1
<1> QED  BY <1>1, <1>2

\* The innermost call returns.
LEMMA Popped ==
    ASSUME NEW F, NEW s \in Seq(F), s # <<>>
    PROVE  /\ Tail(s) \in Seq(F)
           /\ Len(Tail(s)) = Len(s) - 1
           /\ \A i \in 1 .. Len(Tail(s)) : Tail(s)[i] = s[i + 1]
           /\ \A H : Depths(Tail(s), H) = Depths(s, H) \ {Len(s) - 1}
<1>1. /\ Tail(s) \in Seq(F) /\ Len(Tail(s)) = Len(s) - 1 /\ Len(s) \in Nat /\ Len(s) > 0
      /\ \A i \in 1 .. Len(Tail(s)) : Tail(s)[i] = s[i + 1]
  OBVIOUS
<1>2. ASSUME NEW H
      PROVE  Depths(Tail(s), H) = Depths(s, H) \ {Len(s) - 1}
  <2>1. ASSUME NEW d \in 0 .. (Len(s) - 2)
        PROVE  Tail(s)[Len(Tail(s)) - d] = s[Len(s) - d]
    BY <1>1
  <2> QED  BY <1>1, <2>1 DEF Depths
<1> QED  BY <1>1, <1>2

\* A call is made.
LEMMA Pushed ==
    ASSUME NEW F, NEW s \in Seq(F), NEW g \in F
    PROVE  /\ <<g>> \o s \in Seq(F)
           /\ <<g>> \o s # <<>> /\ Head(<<g>> \o s) = g
           /\ Len(<<g>> \o s) = Len(s) + 1 /\ Len(s) \in Nat
           /\ (<<g>> \o s)[1] = g
           /\ \A i \in 1 .. Len(s) : (<<g>> \o s)[i + 1] = s[i]
           /\ \A H : Depths(<<g>> \o s, H) = Depths(s, H) \cup (IF g \in H THEN {Len(s)} ELSE {})
<1> DEFINE u == <<g>> \o s
<1>1. /\ u \in Seq(F) /\ u # <<>> /\ Head(u) = g /\ Len(u) = Len(s) + 1 /\ Len(s) \in Nat
      /\ u[1] = g /\ \A i \in 1 .. Len(s) : u[i + 1] = s[i]
  OBVIOUS
<1> HIDE DEF u
<1>2. ASSUME NEW H
      PROVE  Depths(u, H) = Depths(s, H) \cup (IF g \in H THEN {Len(s)} ELSE {})
  <2>1. ASSUME NEW d \in 0 .. (Len(s) - 1)
        PROVE  u[Len(u) - d] = s[Len(s) - d]
    <3>1. Len(s) - d \in 1 .. Len(s) /\ Len(u) - d = (Len(s) - d) + 1
      BY <1>1
    <3> QED  BY <1>1, <3>1
  <2>2. u[Len(u) - Len(s)] = g
    BY <1>1
  <2> QED  BY <1>1, <2>1, <2>2 DEF Depths
<1>3. QED  BY <1>1, <1>2 DEF u

\* The innermost call goes on.
LEMMA Replaced ==
    ASSUME NEW F, NEW s \in Seq(F), s # <<>>, NEW g \in F
    PROVE  /\ <<g>> \o Tail(s) \in Seq(F)
           /\ <<g>> \o Tail(s) # <<>> /\ Head(<<g>> \o Tail(s)) = g
           /\ Len(<<g>> \o Tail(s)) = Len(s) /\ Len(s) \in Nat
           /\ (<<g>> \o Tail(s))[1] = g
           /\ \A H : Depths(<<g>> \o Tail(s), H) =
                         (Depths(s, H) \ {Len(s) - 1}) \cup (IF g \in H THEN {Len(s) - 1} ELSE {})
<1> DEFINE r == Tail(s)
<1>1. r \in Seq(F) /\ Len(r) = Len(s) - 1 /\ Len(s) \in Nat
  BY Popped
<1>2. \A H : Depths(r, H) = Depths(s, H) \ {Len(s) - 1}
  BY Popped
<1> HIDE DEF r
<1>3. /\ <<g>> \o r \in Seq(F) /\ <<g>> \o r # <<>> /\ Head(<<g>> \o r) = g
      /\ Len(<<g>> \o r) = Len(r) + 1 /\ (<<g>> \o r)[1] = g
  BY <1>1, Pushed
<1>4. ASSUME NEW H
      PROVE  Depths(<<g>> \o r, H) =
                 (Depths(s, H) \ {Len(s) - 1}) \cup (IF g \in H THEN {Len(s) - 1} ELSE {})
  <2>1. Depths(<<g>> \o r, H) = Depths(r, H) \cup (IF g \in H THEN {Len(r)} ELSE {})
    BY <1>1, Pushed
  <2> QED  BY <1>1, <1>2, <2>1
<1> QED  BY <1>1, <1>3, <1>4 DEF r

\* The innermost call goes on as g and makes another, h.
LEMMA ReplacedPushed ==
    ASSUME NEW F, NEW s \in Seq(F), s # <<>>, NEW g \in F, NEW h \in F
    PROVE  /\ <<h, g>> \o Tail(s) \in Seq(F) /\ Len(s) \in Nat
           /\ \A H : Depths(<<h, g>> \o Tail(s), H) =
                         (Depths(s, H) \ {Len(s) - 1}) \cup (IF g \in H THEN {Len(s) - 1} ELSE {})
                             \cup (IF h \in H THEN {Len(s)} ELSE {})
<1> DEFINE r == <<g>> \o Tail(s)
<1>1. /\ r \in Seq(F) /\ Len(r) = Len(s) /\ Len(s) \in Nat /\ Tail(s) \in Seq(F)
      /\ \A H : Depths(r, H) =
                    (Depths(s, H) \ {Len(s) - 1}) \cup (IF g \in H THEN {Len(s) - 1} ELSE {})
  BY Replaced
<1>2. <<h, g>> \o Tail(s) = <<h>> \o r
  <2> DEFINE u == <<h, g>> \o Tail(s)
             v == <<h>> \o r
  <2>1. /\ u \in Seq(F) /\ Len(u) = Len(Tail(s)) + 2
        /\ \A i \in 1 .. Len(u) : u[i] = IF i = 1 THEN h ELSE IF i = 2 THEN g ELSE Tail(s)[i - 2]
    BY <1>1
  <2>2. \A i \in 1 .. Len(r) : r[i] = IF i = 1 THEN g ELSE Tail(s)[i - 1]
    BY <1>1
  <2>3. Len(Tail(s)) = Len(s) - 1
    OBVIOUS
  <2> HIDE DEF r
  <2>4. /\ v \in Seq(F) /\ Len(v) = Len(r) + 1
        /\ \A i \in 1 .. Len(v) : v[i] = IF i = 1 THEN h ELSE r[i - 1]
    BY <1>1
  <2> HIDE DEF u, v
  <2>5. Len(u) = Len(v)
    BY <1>1, <2>1, <2>3, <2>4
  <2>6. ASSUME NEW i \in 1 .. Len(u)
        PROVE  u[i] = v[i]
    <3>1. CASE i = 1
      BY <2>1, <2>4, <2>5, <3>1
    <3>2. CASE i > 1
      <4>1. i - 1 \in 1 .. Len(r) /\ i \in 1 .. Len(v) /\ (i - 1) - 1 = i - 2
        BY <1>1, <2>1, <2>3, <2>5, <3>2
      <4>2. v[i] = r[i - 1]
        BY <2>4, <3>2, <4>1
      <4>3. r[i - 1] = IF i - 1 = 1 THEN g ELSE Tail(s)[(i - 1) - 1]
        BY <2>2, <4>1
      <4>4. i - 1 = 1 <=> i = 2
        OBVIOUS
      <4> QED  BY <2>1, <3>2, <4>1, <4>2, <4>3, <4>4
    <3> QED  BY <2>1, <3>1, <3>2
  <2>7. u = [i \in 1 .. Len(u) |-> u[i]] /\ v = [i \in 1 .. Len(v) |-> v[i]]
    BY <2>1, <2>4
  <2>8. u = v
    BY <2>5, <2>6, <2>7
  <2> QED  BY <2>8 DEF u, v
<1> HIDE DEF r
<1>3. /\ <<h>> \o r \in Seq(F)
      /\ \A H : Depths(<<h>> \o r, H) = Depths(r, H) \cup (IF h \in H THEN {Len(r)} ELSE {})
  BY <1>1, Pushed
<1> QED  BY <1>1, <1>2, <1>3

\* A call that is alone on its stack.
LEMMA Single ==
    ASSUME NEW F, NEW g \in F
    PROVE  /\ <<g>> \in Seq(F) /\ <<g>> # <<>> /\ Head(<<g>>) = g /\ Len(<<g>>) = 1
           /\ \A H : Depths(<<g>>, H) = IF g \in H THEN {0} ELSE {}
<1>1. <<g>> \in Seq(F) /\ <<g>> # <<>> /\ Head(<<g>>) = g /\ Len(<<g>>) = 1 /\ <<g>>[1] = g
  OBVIOUS
<1> QED  BY <1>1 DEF Depths

LEMMA Alone ==
    ASSUME NEW F, NEW g \in F
    PROVE  <<g>> \o <<>> = <<g>>
<1> DEFINE s == <<g>> \o <<>>
<1>1. s \in Seq(F) /\ Len(s) = 1 /\ s[1] = g
  OBVIOUS
<1>2. <<g>> = [i \in 1 .. 1 |-> g]
  OBVIOUS
<1> HIDE DEF s
<1>3. s = [i \in 1 .. 1 |-> s[i]]
  BY <1>1
<1>4. \A i \in 1 .. 1 : s[i] = g
  BY <1>1
<1> QED  BY <1>2, <1>3, <1>4 DEF s

\* Two calls.
LEMMA Two ==
    ASSUME NEW F, NEW g \in F, NEW h \in F
    PROVE  <<g, h>> = <<g>> \o <<h>>
<1> DEFINE s == <<g>> \o <<h>>
<1>1. s \in Seq(F) /\ Len(s) = 2 /\ s[1] = g /\ s[2] = h
  OBVIOUS
<1>2. <<g, h>> \in Seq(F) /\ Len(<<g, h>>) = 2 /\ <<g, h>>[1] = g /\ <<g, h>>[2] = h
  OBVIOUS
<1> HIDE DEF s
<1>3. s = [i \in 1 .. 2 |-> s[i]]
  BY <1>1
<1>4. <<g, h>> = [i \in 1 .. 2 |-> <<g, h>>[i]]
  OBVIOUS
<1>5. \A i \in 1 .. 2 : s[i] = <<g, h>>[i]
  BY <1>1, <1>2
<1> QED  BY <1>3, <1>4, <1>5 DEF s

LEMMA Empty ==
    ASSUME NEW F
    PROVE  /\ <<>> \in Seq(F) /\ Len(<<>>) = 0
           /\ \A H : Depths(<<>>, H) = {}
<1>1. <<>> \in Seq(F) /\ Len(<<>>) = 0
  OBVIOUS
<1> QED  BY <1>1 DEF Depths

LEMMA NoCalls ==
    ASSUME NEW F, NEW s \in Seq(F), Len(s) = 0
    PROVE  s = <<>>
  OBVIOUS

\* What is only at the bottom is alone when it is on top.
LEMMA BottomOnTop ==
    ASSUME NEW F, NEW s \in Seq(F), s # <<>>, NEW B, Depths(s, B) \subseteq {0}, Head(s) \in B
    PROVE  Len(s) = 1 /\ Tail(s) = <<>> /\ s = <<Head(s)>>
<1>1. Len(s) - 1 \in Depths(s, B) /\ Len(s) \in Nat
  BY StackType
<1>2. Len(s) = 1
  <2>1. Len(s) - 1 \in {0}
    BY <1>1
  <2> QED  BY <1>1, <2>1
<1>3. Tail(s) = <<>>
  <2>1. Tail(s) \in Seq(F) /\ Len(Tail(s)) = 0
    BY <1>2
  <2> QED  BY <2>1, NoCalls
<1>4. s = <<s[1]>> /\ Head(s) = s[1]
  BY <1>2
<1> QED  BY <1>2, <1>3, <1>4
=============================================================================
