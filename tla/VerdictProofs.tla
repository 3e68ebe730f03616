--------------------------- MODULE VerdictProofs ---------------------------
(***************************************************************************)
(* What a cascade of checks answers: the code of a check that fails. The   *)
(* choice of the first failing check exists because every set of naturals  *)
(* has a least element.  Cascades one after another answer one inside the *)
(* other, and one of a few checks is a nested IF.                          *)
(***************************************************************************)
EXTENDS Verdicts, SequenceTheorems, WellFoundedInduction, TLAPS

\* The order of the naturals, as a relation.
LessThan == {p \in Nat \X Nat : p[1] < p[2]}

\* A non-empty set of naturals has a least element.
LEMMA LeastNatural ==
    ASSUME NEW S \in SUBSET Nat, S # {}
    PROVE  \E i \in S : \A j \in S : i <= j
<1>1. IsWellFoundedOn(LessThan, Nat)
  BY NatLessThanWellFounded DEF OpToRel, LessThan
<1>2. PICK i \in S : \A j \in S : <<j, i>> \notin LessThan
  BY <1>1, WFMin
<1>3. \A j \in S : i <= j
  <2> TAKE j \in S
  <2>1. i \in Nat /\ j \in Nat
    OBVIOUS
  <2>2. j < i => <<j, i>> \in LessThan
    BY <2>1 DEF LessThan
  <2> QED BY <1>2, <2>1, <2>2
<1> QED BY <1>3

\* When some check fails, the verdict is the code of a check that fails (the
\* early returns of approval.ts and of the verifiers).
LEMMA FirstRefusalFails ==
    ASSUME NEW checks, NEW granted, DOMAIN checks \in SUBSET Nat,
           \E i \in DOMAIN checks : ~checks[i][1]
    PROVE  \E i \in DOMAIN checks : ~checks[i][1] /\ FirstRefusal(checks, granted) = checks[i][2]
<1> DEFINE failed == {i \in DOMAIN checks : ~checks[i][1]}
<1>1. \E i \in failed : \A j \in failed : i <= j
  BY LeastNatural
<1>2. (CHOOSE i \in failed : \A j \in failed : i <= j) \in failed
  BY <1>1
<1>3. failed # {}
  OBVIOUS
<1> QED BY <1>2, <1>3 DEF FirstRefusal

\* A verdict is the one of a cascade without a failing check, or the code of a
\* failing check before which all held.
LEMMA FirstRefusalFirst ==
    ASSUME NEW checks, NEW granted, DOMAIN checks \in SUBSET Nat
    PROVE  \/ /\ \A i \in DOMAIN checks : checks[i][1]
              /\ FirstRefusal(checks, granted) = granted
           \/ \E i \in DOMAIN checks :
              /\ ~checks[i][1] /\ FirstRefusal(checks, granted) = checks[i][2]
              /\ \A j \in DOMAIN checks : j < i => checks[j][1]
<1> DEFINE failed == {i \in DOMAIN checks : ~checks[i][1]}
           first == CHOOSE i \in failed : \A j \in failed : i <= j
<1>1. CASE failed = {}
  BY <1>1 DEF FirstRefusal
<1>2. CASE failed # {}
  <2>1. \E i \in failed : \A j \in failed : i <= j
    BY <1>2, LeastNatural
  <2>2. first \in failed /\ \A j \in failed : first <= j
    BY <2>1
  <2>3. FirstRefusal(checks, granted) = checks[first][2]
    BY <1>2 DEF FirstRefusal
  <2>4. \A j \in DOMAIN checks : j < first => checks[j][1]
    <3> HIDE DEF first
    <3> QED BY <2>2
  <2> QED BY <2>2, <2>3, <2>4
<1> QED BY <1>1, <1>2
-----------------------------------------------------------------------------
(* Cascades put together.                                                  *)

\* A cascade is a sequence of checks.
IsCascade(c) == \E S : c \in Seq(S)

LEMMA CascadeDomain ==
    ASSUME NEW c, IsCascade(c)
    PROVE  Len(c) \in Nat /\ DOMAIN c = 1 .. Len(c) /\ DOMAIN c \in SUBSET Nat
BY DEF IsCascade

\* The first check that fails decides.
LEMMA FirstRefusalIs ==
    ASSUME NEW checks, NEW granted, DOMAIN checks \in SUBSET Nat, NEW i \in DOMAIN checks,
           ~checks[i][1], \A j \in DOMAIN checks : j < i => checks[j][1]
    PROVE  FirstRefusal(checks, granted) = checks[i][2]
<1>1. PICK k \in DOMAIN checks :
         /\ ~checks[k][1] /\ FirstRefusal(checks, granted) = checks[k][2]
         /\ \A j \in DOMAIN checks : j < k => checks[j][1]
  BY FirstRefusalFirst
<1>2. k \in Nat /\ i \in Nat /\ ~(k < i) /\ ~(i < k)
  BY <1>1
<1> QED BY <1>1, <1>2

LEMMA AllPass ==
    ASSUME NEW checks, NEW granted, DOMAIN checks \in SUBSET Nat, \A i \in DOMAIN checks : checks[i][1]
    PROVE  FirstRefusal(checks, granted) = granted
BY FirstRefusalFirst

\* A cascade followed by another is the first one, which grants what the second answers.
LEMMA CascadeThen ==
    ASSUME NEW c, NEW d, NEW granted, IsCascade(c), IsCascade(d)
    PROVE  /\ IsCascade(c \o d)
           /\ FirstRefusal(c \o d, granted) = FirstRefusal(c, FirstRefusal(d, granted))
<1>1. PICK S : c \in Seq(S)
  BY DEF IsCascade
<1>2. PICK T : d \in Seq(T)
  BY DEF IsCascade
<1>3. c \in Seq(S \cup T) /\ d \in Seq(S \cup T)
  BY <1>1, <1>2
<1>4. PICK e : e = c \o d
  OBVIOUS
<1>5. /\ e \in Seq(S \cup T) /\ Len(e) = Len(c) + Len(d)
      /\ \A i \in 1 .. Len(c) : e[i] = c[i]
      /\ \A i \in 1 .. Len(d) : e[Len(c) + i] = d[i]
  BY <1>3, <1>4, ConcatProperties
<1>6. IsCascade(e)
  BY <1>5 DEF IsCascade
<1>7. /\ Len(c) \in Nat /\ DOMAIN c = 1 .. Len(c) /\ DOMAIN c \in SUBSET Nat
      /\ Len(d) \in Nat /\ DOMAIN d = 1 .. Len(d) /\ DOMAIN d \in SUBSET Nat
      /\ DOMAIN e = 1 .. Len(c) + Len(d) /\ DOMAIN e \in SUBSET Nat
  BY <1>5, <1>6, CascadeDomain
<1>8. FirstRefusal(e, granted) = FirstRefusal(c, FirstRefusal(d, granted))
  <2>1. CASE \E i \in DOMAIN c : ~c[i][1]
    <3>1. PICK i \in DOMAIN c :
             /\ ~c[i][1] /\ FirstRefusal(c, FirstRefusal(d, granted)) = c[i][2]
             /\ \A j \in DOMAIN c : j < i => c[j][1]
      BY <1>7, <2>1, FirstRefusalFirst
    <3>2. i \in DOMAIN e /\ e[i] = c[i] /\ \A j \in DOMAIN e : j < i => e[j][1]
      BY <1>5, <1>7, <3>1
    <3> QED BY <1>7, <3>1, <3>2, FirstRefusalIs
  <2>2. CASE (\A i \in DOMAIN c : c[i][1]) /\ \E i \in DOMAIN d : ~d[i][1]
    <3>1. PICK i \in DOMAIN d :
             /\ ~d[i][1] /\ FirstRefusal(d, granted) = d[i][2]
             /\ \A j \in DOMAIN d : j < i => d[j][1]
      BY <1>7, <2>2, FirstRefusalFirst
    <3>2. PICK k : k = Len(c) + i
      OBVIOUS
    <3>3. k \in DOMAIN e /\ e[k] = d[i]
      <4>1. e[Len(c) + i] = d[i]
        BY <1>5, <1>7
      <4> QED BY <1>7, <3>2, <4>1
    <3>4. \A j \in DOMAIN e : j < k => e[j][1]
      <4> SUFFICES ASSUME NEW j \in DOMAIN e, j < k
                   PROVE  e[j][1]
        OBVIOUS
      <4>1. CASE j <= Len(c)
        BY <1>5, <1>7, <2>2, <4>1
      <4>2. CASE j > Len(c)
        <5>1. PICK m : m = j - Len(c)
          OBVIOUS
        <5>2. m \in 1 .. Len(d) /\ m < i /\ j = Len(c) + m
          BY <1>7, <3>2, <4>2, <5>1
        <5>3. e[Len(c) + m] = d[m] /\ d[m][1]
          BY <1>5, <1>7, <3>1, <5>2
        <5> QED BY <5>2, <5>3
      <4> QED BY <1>7, <4>1, <4>2
    <3>5. FirstRefusal(e, granted) = d[i][2]
      BY <1>7, <3>1, <3>3, <3>4, FirstRefusalIs, ZenonT(60)
    <3>6. FirstRefusal(c, FirstRefusal(d, granted)) = FirstRefusal(d, granted)
      BY <1>7, <2>2, AllPass
    <3> QED BY <3>1, <3>5, <3>6
  <2>3. CASE (\A i \in DOMAIN c : c[i][1]) /\ (\A i \in DOMAIN d : d[i][1])
    <3>1. \A j \in DOMAIN e : e[j][1]
      <4> TAKE j \in DOMAIN e
      <4>1. CASE j <= Len(c)
        BY <1>5, <1>7, <2>3, <4>1
      <4>2. CASE j > Len(c)
        <5>1. PICK m : m = j - Len(c)
          OBVIOUS
        <5>2. m \in 1 .. Len(d) /\ j = Len(c) + m
          BY <1>7, <4>2, <5>1
        <5>3. e[Len(c) + m] = d[m] /\ d[m][1]
          BY <1>5, <1>7, <2>3, <5>2
        <5> QED BY <5>2, <5>3
      <4> QED BY <1>7, <4>1, <4>2
    <3>2. /\ FirstRefusal(e, granted) = granted /\ FirstRefusal(d, granted) = granted
          /\ FirstRefusal(c, FirstRefusal(d, granted)) = FirstRefusal(d, granted)
      BY <1>7, <2>3, <3>1, AllPass
    <3> QED BY <3>2
  <2> QED BY <2>1, <2>2, <2>3
<1> QED BY <1>4, <1>6, <1>8

\* One check, and two.
LEMMA OneCheck ==
    ASSUME NEW p, NEW a, NEW granted
    PROVE  /\ IsCascade(<<<<p, a>>>>)
           /\ FirstRefusal(<<<<p, a>>>>, granted) = IF p THEN granted ELSE a
<1>1. PICK c : c = <<<<p, a>>>>
  OBVIOUS
<1>2. c \in Seq({<<p, a>>}) /\ DOMAIN c = {1} /\ c[1] = <<p, a>>
  BY <1>1
<1>3. IsCascade(c) /\ DOMAIN c \in SUBSET Nat
  BY <1>2 DEF IsCascade
<1>4. c[1][1] = p /\ c[1][2] = a
  BY <1>2
<1>5. CASE p
  <2>1. \A i \in DOMAIN c : c[i][1]
    BY <1>2, <1>4, <1>5
  <2>2. FirstRefusal(c, granted) = granted
    BY <1>3, <2>1, AllPass
  <2> QED BY <1>1, <1>3, <1>5, <2>2
<1>6. CASE ~p
  <2>1. ~c[1][1] /\ 1 \in DOMAIN c /\ \A j \in DOMAIN c : j < 1 => c[j][1]
    BY <1>2, <1>4, <1>6
  <2>2. FirstRefusal(c, granted) = a
    BY <1>3, <1>4, <2>1, FirstRefusalIs
  <2> QED BY <1>1, <1>3, <1>6, <2>2
<1> QED BY <1>5, <1>6

\* A check, and the rest.
LEMMA FirstThenRest ==
    ASSUME NEW p, NEW a, NEW d, NEW granted, IsCascade(d)
    PROVE  /\ IsCascade(<<<<p, a>>>> \o d)
           /\ FirstRefusal(<<<<p, a>>>> \o d, granted) = IF p THEN FirstRefusal(d, granted) ELSE a
<1>1. IsCascade(<<<<p, a>>>>)
  BY OneCheck
<1>2. FirstRefusal(<<<<p, a>>>>, FirstRefusal(d, granted)) = IF p THEN FirstRefusal(d, granted) ELSE a
  BY OneCheck
<1>3. /\ IsCascade(<<<<p, a>>>> \o d)
      /\ FirstRefusal(<<<<p, a>>>> \o d, granted) = FirstRefusal(<<<<p, a>>>>, FirstRefusal(d, granted))
  BY <1>1, CascadeThen
<1> QED BY <1>2, <1>3

LEMMA TwoChecks ==
    ASSUME NEW p1, NEW a1, NEW p2, NEW a2, NEW granted
    PROVE  /\ IsCascade(<<<<p1, a1>>, <<p2, a2>>>>)
           /\ FirstRefusal(<<<<p1, a1>>, <<p2, a2>>>>, granted) =
                 IF p1 THEN IF p2 THEN granted ELSE a2 ELSE a1
<1> DEFINE d == <<<<p2, a2>>>>
<1>1. <<<<p1, a1>>, <<p2, a2>>>> = <<<<p1, a1>>>> \o d
  OBVIOUS
<1>2. IsCascade(d) /\ FirstRefusal(d, granted) = IF p2 THEN granted ELSE a2
  BY OneCheck
<1> HIDE DEF d
<1>3. /\ IsCascade(<<<<p1, a1>>>> \o d)
      /\ FirstRefusal(<<<<p1, a1>>>> \o d, granted) = IF p1 THEN FirstRefusal(d, granted) ELSE a1
  BY <1>2, FirstThenRest
<1> QED BY <1>1, <1>2, <1>3

LEMMA ThreeChecks ==
    ASSUME NEW p1, NEW a1, NEW p2, NEW a2, NEW p3, NEW a3, NEW granted
    PROVE  /\ IsCascade(<<<<p1, a1>>, <<p2, a2>>, <<p3, a3>>>>)
           /\ FirstRefusal(<<<<p1, a1>>, <<p2, a2>>, <<p3, a3>>>>, granted) =
                 IF p1 THEN IF p2 THEN IF p3 THEN granted ELSE a3 ELSE a2 ELSE a1
<1> DEFINE d == <<<<p2, a2>>, <<p3, a3>>>>
<1>1. <<<<p1, a1>>, <<p2, a2>>, <<p3, a3>>>> = <<<<p1, a1>>>> \o d
  OBVIOUS
<1>2. IsCascade(d) /\ FirstRefusal(d, granted) = IF p2 THEN IF p3 THEN granted ELSE a3 ELSE a2
  BY TwoChecks
<1> HIDE DEF d
<1>3. /\ IsCascade(<<<<p1, a1>>>> \o d)
      /\ FirstRefusal(<<<<p1, a1>>>> \o d, granted) = IF p1 THEN FirstRefusal(d, granted) ELSE a1
  BY <1>2, FirstThenRest
<1> QED BY <1>1, <1>2, <1>3

LEMMA FourChecks ==
    ASSUME NEW p1, NEW a1, NEW p2, NEW a2, NEW p3, NEW a3, NEW p4, NEW a4, NEW granted
    PROVE  /\ IsCascade(<<<<p1, a1>>, <<p2, a2>>, <<p3, a3>>, <<p4, a4>>>>)
           /\ FirstRefusal(<<<<p1, a1>>, <<p2, a2>>, <<p3, a3>>, <<p4, a4>>>>, granted) =
                 IF p1 THEN IF p2 THEN IF p3 THEN IF p4 THEN granted ELSE a4 ELSE a3 ELSE a2 ELSE a1
<1> DEFINE d == <<<<p2, a2>>, <<p3, a3>>, <<p4, a4>>>>
<1>1. <<<<p1, a1>>, <<p2, a2>>, <<p3, a3>>, <<p4, a4>>>> = <<<<p1, a1>>>> \o d
  OBVIOUS
<1>2. IsCascade(d) /\ FirstRefusal(d, granted) = IF p2 THEN IF p3 THEN IF p4 THEN granted ELSE a4 ELSE a3 ELSE a2
  BY ThreeChecks
<1> HIDE DEF d
<1>3. /\ IsCascade(<<<<p1, a1>>>> \o d)
      /\ FirstRefusal(<<<<p1, a1>>>> \o d, granted) = IF p1 THEN FirstRefusal(d, granted) ELSE a1
  BY <1>2, FirstThenRest
<1> QED BY <1>1, <1>2, <1>3

LEMMA FiveChecks ==
    ASSUME NEW p1, NEW a1, NEW p2, NEW a2, NEW p3, NEW a3, NEW p4, NEW a4, NEW p5, NEW a5, NEW granted
    PROVE  /\ IsCascade(<<<<p1, a1>>, <<p2, a2>>, <<p3, a3>>, <<p4, a4>>, <<p5, a5>>>>)
           /\ FirstRefusal(<<<<p1, a1>>, <<p2, a2>>, <<p3, a3>>, <<p4, a4>>, <<p5, a5>>>>, granted) =
                 IF p1 THEN IF p2 THEN IF p3 THEN IF p4 THEN IF p5 THEN granted ELSE a5 ELSE a4 ELSE a3 ELSE a2 ELSE a1
<1> DEFINE d == <<<<p2, a2>>, <<p3, a3>>, <<p4, a4>>, <<p5, a5>>>>
<1>1. <<<<p1, a1>>, <<p2, a2>>, <<p3, a3>>, <<p4, a4>>, <<p5, a5>>>> = <<<<p1, a1>>>> \o d
  OBVIOUS
<1>2. IsCascade(d) /\ FirstRefusal(d, granted) = IF p2 THEN IF p3 THEN IF p4 THEN IF p5 THEN granted ELSE a5 ELSE a4 ELSE a3 ELSE a2
  BY FourChecks
<1> HIDE DEF d
<1>3. /\ IsCascade(<<<<p1, a1>>>> \o d)
      /\ FirstRefusal(<<<<p1, a1>>>> \o d, granted) = IF p1 THEN FirstRefusal(d, granted) ELSE a1
  BY <1>2, FirstThenRest
<1> QED BY <1>1, <1>2, <1>3

\* A cascade grants what follows it, whatever it is, or answers a code of its own.
LEMMA GrantsOrRefuses ==
    ASSUME NEW c, IsCascade(c)
    PROVE  \/ (\A i \in DOMAIN c : c[i][1]) /\ \A x : FirstRefusal(c, x) = x
           \/ \E i \in DOMAIN c : ~c[i][1] /\ \A x : FirstRefusal(c, x) = c[i][2]
<1>1. DOMAIN c \in SUBSET Nat
  BY CascadeDomain
<1>2. CASE \A i \in DOMAIN c : c[i][1]
  BY <1>1, <1>2, AllPass
<1>3. CASE \E i \in DOMAIN c : ~c[i][1]
  <2>1. PICK i \in DOMAIN c : ~c[i][1] /\ \A j \in DOMAIN c : j < i => c[j][1]
    BY <1>1, <1>3, FirstRefusalFirst
  <2>2. \A x : FirstRefusal(c, x) = c[i][2]
    BY <1>1, <2>1, FirstRefusalIs
  <2> QED BY <2>1, <2>2
<1> QED BY <1>2, <1>3

\* Cascades one after another.
LEMMA FourCascades ==
    ASSUME NEW c1, NEW c2, NEW c3, NEW c4, NEW g,
           IsCascade(c1), IsCascade(c2), IsCascade(c3), IsCascade(c4)
    PROVE  /\ IsCascade(c1 \o c2 \o c3 \o c4)
           /\ FirstRefusal(c1 \o c2 \o c3 \o c4, g) =
                FirstRefusal(c1, FirstRefusal(c2, FirstRefusal(c3, FirstRefusal(c4, g))))
<1>1. IsCascade(c1 \o c2) /\ \A x : FirstRefusal(c1 \o c2, x) = FirstRefusal(c1, FirstRefusal(c2, x))
  BY CascadeThen
<1>2. PICK d : d = c1 \o c2
  OBVIOUS
<1>3. IsCascade(d \o c3) /\ \A x : FirstRefusal(d \o c3, x) = FirstRefusal(d, FirstRefusal(c3, x))
  BY <1>1, <1>2, CascadeThen
<1>4. PICK e : e = d \o c3
  OBVIOUS
<1>5. IsCascade(e \o c4) /\ FirstRefusal(e \o c4, g) = FirstRefusal(e, FirstRefusal(c4, g))
  BY <1>3, <1>4, CascadeThen
<1> QED BY <1>1, <1>2, <1>3, <1>4, <1>5

LEMMA FiveCascades ==
    ASSUME NEW c1, NEW c2, NEW c3, NEW c4, NEW c5, NEW g,
           IsCascade(c1), IsCascade(c2), IsCascade(c3), IsCascade(c4), IsCascade(c5)
    PROVE  /\ IsCascade(c1 \o c2 \o c3 \o c4 \o c5)
           /\ FirstRefusal(c1 \o c2 \o c3 \o c4 \o c5, g) =
                FirstRefusal(c1, FirstRefusal(c2, FirstRefusal(c3, FirstRefusal(c4, FirstRefusal(c5, g)))))
<1>1. PICK e : e = c1 \o c2 \o c3 \o c4
  OBVIOUS
<1>2. IsCascade(e) /\ \A x : FirstRefusal(e, x) =
        FirstRefusal(c1, FirstRefusal(c2, FirstRefusal(c3, FirstRefusal(c4, x))))
  BY <1>1, FourCascades
<1>3. IsCascade(e \o c5) /\ FirstRefusal(e \o c5, g) = FirstRefusal(e, FirstRefusal(c5, g))
  BY <1>2, CascadeThen
<1> QED BY <1>1, <1>2, <1>3

LEMMA NoChecks == IsCascade(<<>>) /\ \A x : FirstRefusal(<<>>, x) = x
<1>1. PICK c : c = <<>>
  OBVIOUS
<1>2. c \in Seq({}) /\ DOMAIN c = {}
  BY <1>1
<1>3. IsCascade(c)
  BY <1>2 DEF IsCascade
<1>4. \A x : FirstRefusal(c, x) = x
  BY <1>2, <1>3, GrantsOrRefuses
<1> QED BY <1>1, <1>3, <1>4
=============================================================================
