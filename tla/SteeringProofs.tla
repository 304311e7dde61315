--------------------------- MODULE SteeringProofs ---------------------------
(* Theorems about Steering, for every set of commands the operator sends,    *)
(* every way a sender may be slow or die, and every bound.                   *)
EXTENDS Steering, Integers, TLAPS, WellFoundedInduction

------------------------------------------------------------------------------
(* The inductive invariants.                                                 *)

\* A sequence of places in the order of sending, and one that is before another.
Up(s) == \A i, j \in DOMAIN s : i < j => s[i] < s[j]
Below(s, t) == \A i \in DOMAIN s : \A j \in DOMAIN t : s[i] < t[j]

\* What t holds, s holds, in the same order.
Within(t, s) ==
    /\ Up(s) => Up(t)
    /\ \A i \in DOMAIN t : \E j \in DOMAIN s : t[i] = s[j]

\* The five pieces of the pipeline are in the order of sending, and so are they among
\* each other; what a sender has written and not renamed yet comes after all of them.
PiecesUp == Up(delivered) /\ Up(pending) /\ Up(batch) /\ Up(deferred) /\ Up(inbox)
PiecesBelow ==
    /\ Below(delivered, pending) /\ Below(delivered, batch) /\ Below(delivered, deferred)
    /\ Below(delivered, inbox)
    /\ Below(pending, batch) /\ Below(pending, deferred) /\ Below(pending, inbox)
    /\ Below(batch, deferred) /\ Below(batch, inbox)
    /\ Below(deferred, inbox)
SentLast ==
    sending # 0 =>
        /\ sending = Len(log)
        /\ Below(delivered, <<sending>>) /\ Below(pending, <<sending>>)
        /\ Below(batch, <<sending>>) /\ Below(deferred, <<sending>>)
        /\ Below(inbox, <<sending>>)
Ordered == PiecesUp /\ PiecesBelow /\ SentLast

\* Past its purge a run holds nothing but what was sent to it, and what one late sender was writing when
\* the bus was purged.
Past == pc \notin {"down", "booting", "ending"}
Mine(late, s) == \A i \in DOMAIN s : log[s[i]].run = run \/ s[i] = late
OwnBut(late) ==
    /\ late # 0 => "slow" \in SendFaults
    /\ sending # 0 => log[sending].run = run \/ sending = late
    /\ Mine(late, delivered) /\ Mine(late, pending) /\ Mine(late, batch)
    /\ Mine(late, deferred) /\ Mine(late, inbox)
Fresh ==
    /\ sending # 0 => "slow" \in SendFaults
    /\ pc \in {"down", "booting", "baseline", "ending"} => pending = <<>>
    /\ pc \in {"booting", "baseline"} => delivered = <<>>
    /\ Past => \E late \in Nat : OwnBut(late)

------------------------------------------------------------------------------
(* Lemmas about sequences of places.                                         *)

\* A set of numbers that is not empty has one that follows none of it.
LEMMA Least ==
  ASSUME NEW S \in SUBSET Nat, S # {}
  PROVE  \E n \in S : \A m \in S : n <= m
<1> DEFINE less == {ss \in Nat \X Nat : ss[1] < ss[2]}
<1>1. IsWellFoundedOn(less, Nat)
  BY NatLessThanWellFounded DEF OpToRel
<1>2. PICK n \in S : \A m \in S : <<m, n>> \notin less
  <2> HIDE DEF less
  <2> QED BY <1>1, WFMin
<1>3. \A m \in S : n <= m
  <2> SUFFICES ASSUME NEW m \in S, m < n PROVE FALSE
    OBVIOUS
  <2> QED BY <1>2
<1> QED BY <1>3

\* Two pieces one behind the other are in order together.
LEMMA UpConcat ==
  ASSUME NEW s \in Seq(Nat), NEW t \in Seq(Nat), Up(s), Up(t), Below(s, t)
  PROVE  Up(s \o t)
<1>1. /\ Len(s \o t) = Len(s) + Len(t) /\ s \o t \in Seq(Nat)
      /\ \A i \in 1 .. Len(s) : (s \o t)[i] = s[i]
      /\ \A i \in Len(s) + 1 .. Len(s) + Len(t) : (s \o t)[i] = t[i - Len(s)]
  OBVIOUS
<1>2. ASSUME NEW i \in DOMAIN (s \o t), NEW j \in DOMAIN (s \o t), i < j
      PROVE  (s \o t)[i] < (s \o t)[j]
  <2>1. i \in 1 .. Len(s) + Len(t) /\ j \in 1 .. Len(s) + Len(t)
    BY <1>1
  <2>2. CASE j <= Len(s)
    BY <1>1, <1>2, <2>1, <2>2 DEF Up
  <2>3. CASE i <= Len(s) /\ j > Len(s)
    BY <1>1, <1>2, <2>1, <2>3 DEF Below
  <2>4. CASE i > Len(s)
    BY <1>1, <1>2, <2>1, <2>4 DEF Up
  <2> QED BY <2>1, <2>2, <2>3, <2>4
<1> QED BY <1>2 DEF Up

\* What is before two pieces, or behind them, is so for both together.
LEMMA BelowConcat ==
  ASSUME NEW s \in Seq(Nat), NEW t \in Seq(Nat), NEW r \in Seq(Nat)
  PROVE  /\ Below(r, s) /\ Below(r, t) => Below(r, s \o t)
         /\ Below(s, r) /\ Below(t, r) => Below(s \o t, r)
<1>1. /\ Len(s \o t) = Len(s) + Len(t) /\ s \o t \in Seq(Nat)
      /\ \A i \in 1 .. Len(s) : (s \o t)[i] = s[i]
      /\ \A i \in Len(s) + 1 .. Len(s) + Len(t) : (s \o t)[i] = t[i - Len(s)]
  OBVIOUS
<1>2. ASSUME NEW i \in DOMAIN (s \o t)
      PROVE  \/ i \in DOMAIN s /\ (s \o t)[i] = s[i]
             \/ i - Len(s) \in DOMAIN t /\ (s \o t)[i] = t[i - Len(s)]
  BY <1>1
<1> QED BY <1>2 DEF Below

\* A command sent later than all of a piece goes behind it.
LEMMA UpAppend ==
  ASSUME NEW s \in Seq(Nat), NEW n \in Nat, Up(s), \A i \in DOMAIN s : s[i] < n
  PROVE  Up(Append(s, n)) /\ \A r : Below(r, s) /\ Below(r, <<n>>) => Below(r, Append(s, n))
<1>1. /\ Append(s, n) \in Seq(Nat) /\ Len(Append(s, n)) = Len(s) + 1
      /\ \A i \in 1 .. Len(s) : Append(s, n)[i] = s[i]
      /\ Append(s, n)[Len(s) + 1] = n
  OBVIOUS
<1>2. DOMAIN Append(s, n) = 1 .. Len(s) + 1 /\ DOMAIN s = 1 .. Len(s)
  BY <1>1
<1>3. Up(Append(s, n))
  BY <1>1, <1>2 DEF Up
<1>4. ASSUME NEW r, Below(r, s), Below(r, <<n>>) PROVE Below(r, Append(s, n))
  <2>1. \A i \in DOMAIN r : r[i] < n
    BY <1>4 DEF Below
  <2> QED BY <1>1, <1>2, <1>4, <2>1 DEF Below
<1> QED BY <1>3, <1>4

\* What is left of a piece stands where the piece stood.
LEMMA WithinBelow ==
  ASSUME NEW s, NEW t, Within(t, s)
  PROVE  \A r : (Below(r, s) => Below(r, t)) /\ (Below(s, r) => Below(t, r))
BY DEF Within, Below

\* The rest of a piece is within it, and behind its head.
LEMMA TailWithin ==
  ASSUME NEW s \in Seq(Nat), s # <<>>
  PROVE  /\ Within(Tail(s), s) /\ Within(<<Head(s)>>, s)
         /\ Up(s) => Below(<<Head(s)>>, Tail(s))
<1>1. /\ Tail(s) \in Seq(Nat) /\ Len(Tail(s)) = Len(s) - 1 /\ Head(s) = s[1]
      /\ \A i \in 1 .. Len(s) - 1 : Tail(s)[i] = s[i + 1]
  OBVIOUS
<1>2. \A i \in DOMAIN Tail(s) : i + 1 \in DOMAIN s /\ Tail(s)[i] = s[i + 1] /\ i \in Nat /\ i >= 1
  BY <1>1
<1>3. 1 \in DOMAIN s
  BY <1>1
<1>4. DOMAIN <<Head(s)>> = {1} /\ <<Head(s)>>[1] = s[1]
  BY <1>1
<1>5. Up(s) => Up(Tail(s))
  BY <1>2 DEF Up
<1>6. Up(<<Head(s)>>)
  BY <1>4 DEF Up
<1>7. Up(s) => Below(<<Head(s)>>, Tail(s))
  BY <1>2, <1>3, <1>4 DEF Up, Below
<1> QED BY <1>2, <1>3, <1>4, <1>5, <1>6, <1>7 DEF Within

\* The part of a piece up to its first command of some kinds is within it.
LEMMA BeforeWithin ==
  ASSUME NEW s \in Seq(Nat), NEW kinds
  PROVE  Before(kinds, s) \in Seq(Nat) /\ Within(Before(kinds, s), s)
<1>1. CASE ~ Has(kinds, s)
  BY <1>1 DEF Before, Within
<1>2. CASE Has(kinds, s)
  <2> DEFINE first(i) == Is(s[i], kinds) /\ \A j \in 1 .. i - 1 : ~ Is(s[j], kinds)
             S == {i \in DOMAIN s : Is(s[i], kinds)}
             k == CHOOSE i \in DOMAIN s : first(i)
  <2>1. S \in SUBSET Nat /\ S # {}
    BY <1>2 DEF Has
  <2>2. PICK n \in S : \A m \in S : n <= m
    <3> HIDE DEF S
    <3> QED BY <2>1, Least
  <2>3. n \in DOMAIN s /\ first(n)
    BY <2>2
  <2>4. k \in DOMAIN s
    <3> HIDE DEF first
    <3> QED BY <2>3
  <2>5. Before(kinds, s) = SubSeq(s, 1, k - 1)
    BY <1>2 DEF Before
  <2> HIDE DEF k
  <2>6. /\ Before(kinds, s) \in Seq(Nat) /\ Len(Before(kinds, s)) = k - 1
        /\ \A i \in 1 .. k - 1 : Before(kinds, s)[i] = s[i]
    BY <2>4, <2>5
  <2>7. \A i \in DOMAIN Before(kinds, s) : i \in DOMAIN s /\ Before(kinds, s)[i] = s[i]
    BY <2>4, <2>6
  <2> QED BY <2>6, <2>7 DEF Within, Up
<1> QED BY <1>1, <1>2

\* One turn of the recursion of Only: what is kept of the first i commands, from what is
\* kept of the first i - 1.
Turn(kinds, s, i, before) ==
    IF i = 0 THEN <<>> ELSE IF Is(s[i], kinds) THEN Append(before, s[i]) ELSE before

\* A set of numbers that is not empty holds one whose predecessor it does not hold.
LEMMA LeastFails ==
  ASSUME NEW S \in SUBSET Nat, S # {}
  PROVE  \E n \in S : n = 0 \/ n - 1 \notin S
<1>1. PICK n \in S : \A m \in S : n <= m
  BY Least
<1> QED BY <1>1

\* The recursion of Only has a solution up to every place: the least place without one
\* would have one, by one more turn.
LEMMA TurnsSolved ==
  ASSUME NEW kinds, NEW s \in Seq(Nat), NEW n \in 0 .. Len(s)
  PROVE  \E F : DOMAIN F = 0 .. n /\ \A i \in 0 .. n : F[i] = Turn(kinds, s, i, F[i - 1])
<1> DEFINE Q(m) == \E F : DOMAIN F = 0 .. m /\ \A i \in 0 .. m : F[i] = Turn(kinds, s, i, F[i - 1])
           S == {m \in 0 .. Len(s) : ~Q(m)}
<1> SUFFICES ASSUME S # {} PROVE FALSE
  OBVIOUS
<1>1. PICK m \in S : m = 0 \/ m - 1 \notin S
  <2>1. S \in SUBSET Nat
    OBVIOUS
  <2> HIDE DEF S
  <2> QED BY <2>1, LeastFails
<1>2. CASE m = 0
  <2> DEFINE G == [i \in 0 .. 0 |-> <<>>]
  <2>1. DOMAIN G = 0 .. 0 /\ \A i \in 0 .. 0 : G[i] = Turn(kinds, s, i, G[i - 1])
    BY DEF Turn
  <2>2. Q(0)
    BY <2>1
  <2> QED BY <1>2, <2>2
<1>3. CASE m # 0
  <2>1. Q(m - 1)
    BY <1>1, <1>3
  <2>2. PICK F : DOMAIN F = 0 .. m - 1 /\ \A i \in 0 .. m - 1 : F[i] = Turn(kinds, s, i, F[i - 1])
    BY <2>1
  <2> DEFINE G == [i \in 0 .. m |-> IF i < m THEN F[i] ELSE Turn(kinds, s, m, F[m - 1])]
  <2>3. DOMAIN G = 0 .. m
    OBVIOUS
  <2>4. \A i \in 0 .. m - 1 : G[i] = F[i]
    BY <1>3
  <2>5. G[m] = Turn(kinds, s, m, F[m - 1])
    OBVIOUS
  <2> HIDE DEF G
  <2>6. m \in Nat /\ m >= 1
    BY <1>3
  <2>7. ASSUME NEW i \in 0 .. m PROVE G[i] = Turn(kinds, s, i, G[i - 1])
    <3>1. CASE i = m
      BY <2>4, <2>5, <2>6, <3>1
    <3>2. CASE i # m
      <4>1. i \in 0 .. m - 1 /\ (i # 0 => i - 1 \in 0 .. m - 1)
        BY <2>6, <3>2
      <4> QED BY <2>2, <2>4, <4>1 DEF Turn
    <3> QED BY <3>1, <3>2
  <2>8. Q(m)
    BY <2>3, <2>7
  <2> QED BY <2>8
<1> QED BY <1>2, <1>3

\* Only is where such a solution ends.
LEMMA OnlySolved ==
  ASSUME NEW kinds, NEW s \in Seq(Nat)
  PROVE  \E F : /\ DOMAIN F = 0 .. Len(s) /\ Only(kinds, s) = F[Len(s)]
                /\ \A i \in 0 .. Len(s) : F[i] = Turn(kinds, s, i, F[i - 1])
<1> DEFINE P(F) ==
             F = [i \in 0 .. Len(s) |->
                    IF i = 0 THEN <<>>
                    ELSE IF Is(s[i], kinds) THEN Append(F[i - 1], s[i]) ELSE F[i - 1]]
           H == CHOOSE F : P(F)
<1>1. \E F : P(F)
  <2>1. Len(s) \in 0 .. Len(s)
    OBVIOUS
  <2>2. PICK F : DOMAIN F = 0 .. Len(s) /\ \A i \in 0 .. Len(s) : F[i] = Turn(kinds, s, i, F[i - 1])
    BY <2>1, TurnsSolved
  <2> DEFINE G == [i \in 0 .. Len(s) |-> F[i]]
  <2>3. G = [i \in 0 .. Len(s) |->
               IF i = 0 THEN <<>>
               ELSE IF Is(s[i], kinds) THEN Append(G[i - 1], s[i]) ELSE G[i - 1]]
    <3>1. \A i \in 0 .. Len(s) : i # 0 => i - 1 \in 0 .. Len(s)
      OBVIOUS
    <3> QED BY <2>2, <3>1 DEF Turn
  <2> HIDE DEF G
  <2> QED BY <2>3
<1>2. P(H)
  <2> HIDE DEF P
  <2> QED BY <1>1
<1>3. Only(kinds, s) = H[Len(s)]
  BY DEF Only
<1>4. DOMAIN H = 0 .. Len(s) /\ \A i \in 0 .. Len(s) : H[i] = Turn(kinds, s, i, H[i - 1])
  <2> HIDE DEF H
  <2> QED BY <1>2 DEF Turn
<1> HIDE DEF H
<1> QED BY <1>3, <1>4

\* The commands of some kinds are within the piece they are picked from: at every turn
\* what is kept so far comes from the places passed so far.
LEMMA OnlyWithin ==
  ASSUME NEW kinds, NEW s \in Seq(Nat)
  PROVE  Only(kinds, s) \in Seq(Nat) /\ Within(Only(kinds, s), s)
<1>1. PICK F : /\ DOMAIN F = 0 .. Len(s) /\ Only(kinds, s) = F[Len(s)]
               /\ \A i \in 0 .. Len(s) : F[i] = Turn(kinds, s, i, F[i - 1])
  BY OnlySolved
<1> DEFINE Q(i) == /\ F[i] \in Seq(Nat)
                   /\ \A k \in DOMAIN F[i] : \E j \in 1 .. i : F[i][k] = s[j]
                   /\ Up(s) => Up(F[i])
           S == {i \in 0 .. Len(s) : ~Q(i)}
<1>2. S = {}
  <2> SUFFICES ASSUME S # {} PROVE FALSE
    OBVIOUS
  <2>1. PICK m \in S : m = 0 \/ m - 1 \notin S
    <3>1. S \in SUBSET Nat
      OBVIOUS
    <3> HIDE DEF S
    <3> QED BY <3>1, LeastFails
  <2>2. CASE m = 0
    <3>1. F[0] = <<>>
      BY <1>1 DEF Turn
    <3>2. Q(0)
      BY <3>1 DEF Up
    <3> QED BY <2>2, <3>2
  <2>3. CASE m # 0
    <3>1. Q(m - 1) /\ m \in 1 .. Len(s) /\ m - 1 \in 0 .. Len(s)
      BY <2>1, <2>3
    <3>2. CASE ~ Is(s[m], kinds)
      <4>1. F[m] = F[m - 1]
        BY <1>1, <3>1, <3>2 DEF Turn
      <4>2. Q(m)
        BY <3>1, <4>1
      <4> QED BY <4>2
    <3>3. CASE Is(s[m], kinds)
      <4> DEFINE g == F[m - 1]
      <4>1. F[m] = Append(g, s[m])
        BY <1>1, <3>1, <3>3 DEF Turn
      <4>2. /\ g \in Seq(Nat) /\ s[m] \in Nat /\ (Up(s) => Up(g))
            /\ \A k \in DOMAIN g : \E j \in 1 .. m - 1 : g[k] = s[j]
        BY <3>1
      <4> HIDE DEF g
      <4>3. /\ F[m] \in Seq(Nat) /\ DOMAIN F[m] = 1 .. Len(g) + 1 /\ DOMAIN g = 1 .. Len(g)
            /\ \A k \in 1 .. Len(g) : F[m][k] = g[k]
            /\ F[m][Len(g) + 1] = s[m]
        <5>1. g \in Seq(Nat) /\ s[m] \in Nat
          BY <4>2
        <5> QED BY <4>1, <5>1
      <4>4. ASSUME NEW k \in DOMAIN F[m] PROVE \E j \in 1 .. m : F[m][k] = s[j]
        <5>1. CASE k = Len(g) + 1
          BY <3>1, <4>3, <5>1
        <5>2. CASE k # Len(g) + 1
          <6>1. k \in 1 .. Len(g) /\ F[m][k] = g[k] /\ k \in DOMAIN g
            <7>1. Len(g) \in Nat
              BY <4>2
            <7>2. k \in 1 .. Len(g) + 1
              BY <4>3
            <7>3. k \in 1 .. Len(g)
              BY <5>2, <7>1, <7>2
            <7> QED BY <4>3, <7>3
          <6>2. PICK j \in 1 .. m - 1 : g[k] = s[j]
            BY <4>2, <6>1
          <6>3. j \in 1 .. m /\ F[m][k] = s[j]
            BY <3>1, <6>1, <6>2
          <6> QED BY <6>3
        <5> QED BY <5>1, <5>2
      <4>5. ASSUME Up(s) PROVE Up(F[m])
        <5>1. ASSUME NEW k \in DOMAIN g PROVE g[k] < s[m]
          <6>1. PICK j \in 1 .. m - 1 : g[k] = s[j]
            BY <4>2
          <6>2. j \in DOMAIN s /\ m \in DOMAIN s /\ j < m
            BY <3>1
          <6> QED BY <4>5, <6>1, <6>2 DEF Up
        <5>2. g \in Seq(Nat) /\ s[m] \in Nat /\ Up(g)
          BY <4>2, <4>5
        <5> QED BY <4>1, <5>1, <5>2, UpAppend
      <4>6. Q(m)
        BY <4>3, <4>4, <4>5
      <4> QED BY <4>6
    <3> QED BY <3>2, <3>3
  <2> QED BY <2>2, <2>3
<1>3. Q(Len(s))
  <2>1. Len(s) \in 0 .. Len(s)
    OBVIOUS
  <2> QED BY <1>2, <2>1
<1>4. \A j \in 1 .. Len(s) : j \in DOMAIN s
  OBVIOUS
<1> HIDE DEF S
<1> QED BY <1>1, <1>3, <1>4 DEF Within

------------------------------------------------------------------------------
(* Type correctness.                                                         *)

\* A run that is not down was started.
Started == pc # "down" => run # 0
Typed == TypeOK /\ Started

\* The bounds of an instance are natural numbers.
LEMMA Bounds ==
  MinGap \in Nat /\ MaxWait \in Nat /\ MaxSends \in Nat /\ MaxRun \in Nat
BY ConfigAssumption

\* What is within a piece was sent, when the piece was.
LEMMA WithinPlaces ==
  ASSUME NEW P, NEW s \in Seq(P), NEW t \in Seq(Nat), Within(t, s)
  PROVE  t \in Seq(P)
<1>1. \A i \in DOMAIN t : t[i] \in P
  <2>1. \A j \in DOMAIN s : s[j] \in P
    OBVIOUS
  <2> QED BY <2>1 DEF Within
<1>2. DOMAIN t = 1 .. Len(t) /\ Len(t) \in Nat /\ t = [i \in 1 .. Len(t) |-> t[i]]
  OBVIOUS
<1> QED BY <1>1, <1>2

\* What was sent stays sent.
LEMMA Monotone ==
  ASSUME NEW S, NEW T, S \subseteq T, NEW s \in Seq(S)
  PROVE  s \in Seq(T)
<1>1. DOMAIN s = 1 .. Len(s) /\ Len(s) \in Nat /\ s = [i \in 1 .. Len(s) |-> s[i]]
  OBVIOUS
<1>2. \A i \in 1 .. Len(s) : s[i] \in T
  OBVIOUS
<1> QED BY <1>1, <1>2

\* The five pieces are sequences of numbers.
LEMMA Numbers ==
  ASSUME TypeOK
  PROVE  /\ delivered \in Seq(Nat) /\ pending \in Seq(Nat) /\ batch \in Seq(Nat)
         /\ deferred \in Seq(Nat) /\ inbox \in Seq(Nat)
         /\ Len(log) \in Nat /\ log \in Seq([cmd : Commands, run : 1 .. MaxRun])
<1>1. Place \subseteq Nat /\ Len(log) \in Nat
  BY DEF TypeOK, Place
<1> QED BY <1>1, Monotone DEF TypeOK

\* Emptying the process's memory leaves it typed.
LEMMA Forgotten ==
  ASSUME Forget
  PROVE  /\ batch' \in Seq(Place') /\ pending' \in Seq(Place') /\ deferred' \in Seq(Place')
         /\ woken' \in BOOLEAN /\ left' \in 0 .. MaxWait /\ gap' \in 0 .. MinGap
         /\ skip' \in BOOLEAN /\ halt' \in BOOLEAN /\ met' \in BOOLEAN
         /\ batch' = <<>> /\ deferred' = <<>> /\ pending' = <<>>
<1>1. batch' = <<>> /\ deferred' = <<>> /\ pending' = <<>> /\ left' = 0 /\ gap' = 0
  BY DEF Forget
<1>2. woken' = FALSE /\ skip' = FALSE /\ halt' = FALSE /\ met' = FALSE
  BY DEF Forget
<1>3. 0 \in 0 .. MaxWait /\ 0 \in 0 .. MinGap
  BY Bounds
<1>4. batch' \in Seq(Place') /\ pending' \in Seq(Place') /\ deferred' \in Seq(Place')
  BY <1>1
<1> QED BY <1>1, <1>2, <1>3, <1>4

\* Nothing was sent and nothing is held at first.
LEMMA TypedInit == Init => Typed
<1> SUFFICES ASSUME Init PROVE Typed
  OBVIOUS
<1>1. log = <<>> /\ Len(log) = 0 /\ Place = {}
  BY DEF Init, Place
<1>2. /\ log \in Seq([cmd : Commands, run : 1 .. MaxRun]) /\ Len(log) \in 0 .. MaxSends
      /\ inbox \in Seq(Place) /\ batch \in Seq(Place) /\ pending \in Seq(Place)
      /\ deferred \in Seq(Place) /\ delivered \in Seq(Place)
  <2>1. Len(log) \in 0 .. MaxSends
    BY <1>1, Bounds
  <2> QED BY <2>1 DEF Init
<1>3. /\ sending \in 0 .. Len(log) /\ tmps \subseteq Place /\ sending \in tmps \cup {0}
      /\ run \in 0 .. MaxRun /\ left \in 0 .. MaxWait /\ gap \in 0 .. MinGap
  BY <1>1, Bounds DEF Init
<1>4. pc = "down" /\ outcome = "none" /\ batch = <<>> /\ deferred = <<>>
  BY DEF Init
<1>5. /\ interrupted \in BOOLEAN /\ woken \in BOOLEAN
      /\ skip \in BOOLEAN /\ halt \in BOOLEAN /\ met \in BOOLEAN
  BY DEF Init
<1> QED BY <1>2, <1>3, <1>4, <1>5 DEF Typed, TypeOK, Started, Phases, Outcomes

\* One more command is sent.
LEMMA SendTyped ==
  ASSUME Typed, NEW cmd \in Commands, Send(cmd)
  PROVE  Typed'
<1> USE DEF Typed
<1>0. /\ log \in Seq([cmd : Commands, run : 1 .. MaxRun]) /\ Len(log) \in Nat
      /\ [cmd |-> cmd, run |-> run] \in [cmd : Commands, run : 1 .. MaxRun]
      /\ log' = Append(log, [cmd |-> cmd, run |-> run])
  BY Bounds DEF Send, Listening, TypeOK, Started
<1>1. /\ log' \in Seq([cmd : Commands, run : 1 .. MaxRun]) /\ Len(log') = Len(log) + 1
  BY <1>0
<1>2. Place \subseteq Place' /\ Len(log') \in Place' /\ Len(log') \in Nat
  BY <1>0, <1>1 DEF Place
<1>3. /\ inbox \in Seq(Place') /\ batch \in Seq(Place') /\ pending \in Seq(Place')
      /\ deferred \in Seq(Place') /\ delivered \in Seq(Place')
  BY <1>2, Monotone DEF TypeOK
<1>4. Len(log') \in 0 .. MaxSends
  BY <1>0, <1>1, Bounds DEF Send
<1>5. inbox' \in Seq(Place')
  <2> DEFINE P == Place'
             n == Len(log')
  <2>1. inbox' = inbox \/ inbox' = Append(inbox, n)
    BY DEF Send
  <2>2. inbox \in Seq(P) /\ n \in P
    BY <1>2, <1>3
  <2> HIDE DEF P, n
  <2>3. Append(inbox, n) \in Seq(P)
    BY <2>2
  <2>4. inbox' \in Seq(P)
    BY <2>1, <2>2, <2>3
  <2> QED BY <2>4 DEF P
<1>6. sending' \in 0 .. Len(log') /\ tmps' \subseteq Place' /\ sending' \in tmps' \cup {0}
  <2>1. /\ sending \in 0 .. Len(log) /\ tmps \subseteq Place /\ sending \in tmps \cup {0}
    BY DEF TypeOK
  <2>2. \/ sending' = Len(log') /\ tmps' = tmps \cup {Len(log')}
        \/ sending' = sending /\ tmps' = tmps
    BY DEF Send
  <2>3. sending' \in 0 .. Len(log')
    BY <1>0, <1>1, <2>1, <2>2
  <2> QED BY <1>2, <2>1, <2>2, <2>3
<1>7. UNCHANGED <<pc, run, interrupted, procVars, outcome, delivered>>
  BY DEF Send
<1> QED BY <1>1, <1>3, <1>4, <1>5, <1>6, <1>7 DEF TypeOK, Started, procVars

\* The sender renames, or dies.
LEMMA SenderTyped ==
  ASSUME Typed, Rename \/ SenderDies
  PROVE  Typed'
<1> USE DEF Typed
<1>1. log' = log /\ Place' = Place
  BY DEF Rename, SenderDies, Place
<1>2. inbox' \in Seq(Place)
  <2>1. sending # 0 => sending \in Place
    BY DEF TypeOK
  <2>2. inbox \in Seq(Place)
    BY DEF TypeOK
  <2>3. inbox' = inbox \/ (sending # 0 /\ inbox' = Append(inbox, sending))
    BY DEF Rename, SenderDies
  <2> QED BY <2>1, <2>2, <2>3
<1>3. sending' \in 0 .. Len(log) /\ tmps' \subseteq Place /\ sending' \in tmps' \cup {0}
  <2>1. sending' = 0 /\ (tmps' = tmps \/ tmps' = tmps \ {sending})
    BY DEF Rename, SenderDies
  <2>2. tmps \subseteq Place /\ Len(log) \in Nat
    BY DEF TypeOK
  <2> QED BY <2>1, <2>2
<1>4. UNCHANGED <<pc, run, interrupted, procVars, outcome, delivered>>
  BY DEF Rename, SenderDies
<1> QED BY <1>1, <1>2, <1>3, <1>4 DEF TypeOK, Started, procVars

\* The process's own actions leave alone what the senders wrote.
Own ==
    \/ Interrupt \/ Start \/ Refused \/ Purge \/ Baseline \/ Exit \/ Crash
    \/ Halted \/ BusDrain \/ Apply \/ Drained \/ Paused \/ Pick
    \/ WorkerExits \/ Gate \/ CheckRunStop \/ (\E c \in BOOLEAN : Poll(c)) \/ Requeue

\* Every step is the operator's, a sender's, the process's own or none.
LEMMA Steps ==
  ASSUME [Next]_vars
  PROVE  \/ \E cmd \in Commands : Send(cmd)
         \/ Rename \/ SenderDies \/ Own \/ UNCHANGED vars
BY SendableAssumption DEF Next, Loop, Operator, Own

\* No action of the process touches the log or a sender's file.
LEMMA OwnFrame ==
  ASSUME Own
  PROVE  log' = log /\ sending' = sending /\ tmps' = tmps /\ Place' = Place
<1>1. ASSUME Interrupt PROVE log' = log /\ sending' = sending /\ tmps' = tmps
  BY <1>1 DEF Interrupt, busVars
<1>2. ASSUME Start PROVE log' = log /\ sending' = sending /\ tmps' = tmps
  BY <1>2 DEF Start, busVars
<1>3. ASSUME Refused PROVE log' = log /\ sending' = sending /\ tmps' = tmps
  BY <1>3 DEF Refused, busVars
<1>4. ASSUME Purge PROVE log' = log /\ sending' = sending /\ tmps' = tmps
  BY <1>4 DEF Purge, busVars
<1>5. ASSUME Baseline PROVE log' = log /\ sending' = sending /\ tmps' = tmps
  BY <1>5 DEF Baseline, busVars
<1>6. ASSUME Exit PROVE log' = log /\ sending' = sending /\ tmps' = tmps
  BY <1>6 DEF Exit, busVars
<1>7. ASSUME Crash PROVE log' = log /\ sending' = sending /\ tmps' = tmps
  BY <1>7 DEF Crash, busVars
<1>8. ASSUME Halted PROVE log' = log /\ sending' = sending /\ tmps' = tmps
  BY <1>8 DEF Halted, busVars
<1>9. ASSUME BusDrain PROVE log' = log /\ sending' = sending /\ tmps' = tmps
  BY <1>9 DEF BusDrain, busVars
<1>10. ASSUME Apply PROVE log' = log /\ sending' = sending /\ tmps' = tmps
  BY <1>10 DEF Apply, busVars
<1>11. ASSUME Drained PROVE log' = log /\ sending' = sending /\ tmps' = tmps
  BY <1>11 DEF Drained, busVars
<1>12. ASSUME Paused PROVE log' = log /\ sending' = sending /\ tmps' = tmps
  BY <1>12 DEF Paused, busVars
<1>13. ASSUME Pick PROVE log' = log /\ sending' = sending /\ tmps' = tmps
  BY <1>13 DEF Pick, busVars
<1>14. ASSUME WorkerExits PROVE log' = log /\ sending' = sending /\ tmps' = tmps
  BY <1>14 DEF WorkerExits, busVars
<1>15. ASSUME Gate PROVE log' = log /\ sending' = sending /\ tmps' = tmps
  BY <1>15 DEF Gate, busVars
<1>16. ASSUME CheckRunStop PROVE log' = log /\ sending' = sending /\ tmps' = tmps
  BY <1>16 DEF CheckRunStop, busVars
<1>17. ASSUME NEW c \in BOOLEAN, Poll(c) PROVE log' = log /\ sending' = sending /\ tmps' = tmps
  BY <1>17 DEF Poll, busVars
<1>18. ASSUME Requeue PROVE log' = log /\ sending' = sending /\ tmps' = tmps
  BY <1>18 DEF Requeue, busVars
<1>30. log' = log /\ sending' = sending /\ tmps' = tmps
  BY <1>1, <1>2, <1>3, <1>4, <1>5, <1>6, <1>7, <1>8, <1>9, <1>10, <1>11, <1>12, <1>13, <1>14, <1>15, <1>16, <1>17, <1>18 DEF Own
<1> QED BY <1>30 DEF Place

\* The process's memory and its phase stay typed whatever it does.
LEMMA OwnTyped ==
  ASSUME Typed, Own
  PROVE  Typed'
<1> USE DEF Typed
<1>1. log' = log /\ sending' = sending /\ tmps' = tmps /\ Place' = Place
  BY OwnFrame
<1>2. pc' \in Phases /\ run' \in 0 .. MaxRun /\ (pc' # "down" => run' # 0)
  <2>1. CASE Interrupt
    BY Bounds, <2>1 DEF Interrupt, TypeOK, Started, Phases, Ends, procVars, busVars
  <2>2. CASE Start
    BY Bounds, <2>2 DEF Start, TypeOK, Started, Phases, Ends, procVars, busVars
  <2>3. CASE Refused
    BY Bounds, <2>3 DEF Refused, TypeOK, Started, Phases, Ends, procVars, busVars
  <2>4. CASE Purge
    BY Bounds, <2>4 DEF Purge, TypeOK, Started, Phases, Ends, procVars, busVars
  <2>5. CASE Baseline
    BY Bounds, <2>5 DEF Baseline, TypeOK, Started, Phases, Ends, procVars, busVars
  <2>6. CASE Exit
    BY Bounds, <2>6 DEF Exit, TypeOK, Started, Phases, Ends, procVars, busVars
  <2>7. CASE Crash
    BY Bounds, <2>7 DEF Crash, TypeOK, Started, Phases, Ends, procVars, busVars
  <2>8. CASE Halted
    BY Bounds, <2>8 DEF Halted, TypeOK, Started, Phases, Ends, procVars, busVars
  <2>9. CASE BusDrain
    BY Bounds, <2>9 DEF BusDrain, TypeOK, Started, Phases, Ends, procVars, busVars
  <2>10. CASE Apply
    BY Bounds, <2>10 DEF Apply, TypeOK, Started, Phases, Ends, procVars, busVars
  <2>11. CASE Drained
    BY Bounds, <2>11 DEF Drained, TypeOK, Started, Phases, Ends, procVars, busVars
  <2>12. CASE Paused
    BY Bounds, <2>12 DEF Paused, TypeOK, Started, Phases, Ends, procVars, busVars
  <2>13. CASE Pick
    BY Bounds, <2>13 DEF Pick, TypeOK, Started, Phases, Ends, procVars, busVars
  <2>14. CASE WorkerExits
    BY Bounds, <2>14 DEF WorkerExits, TypeOK, Started, Phases, Ends, procVars, busVars
  <2>15. CASE Gate
    BY Bounds, <2>15 DEF Gate, TypeOK, Started, Phases, Ends, procVars, busVars
  <2>16. CASE CheckRunStop
    BY Bounds, <2>16 DEF CheckRunStop, TypeOK, Started, Phases, Ends, procVars, busVars
  <2>17. ASSUME NEW c \in BOOLEAN, Poll(c) PROVE pc' \in Phases /\ run' \in 0 .. MaxRun /\ (pc' # "down" => run' # 0)
    BY Bounds, <2>17 DEF Poll, TypeOK, Started, Phases, Ends, procVars, busVars
  <2>18. CASE Requeue
    BY Bounds, <2>18 DEF Requeue, TypeOK, Started, Phases, Ends, procVars, busVars
  <2> QED BY <2>1, <2>2, <2>3, <2>4, <2>5, <2>6, <2>7, <2>8, <2>9, <2>10, <2>11, <2>12, <2>13, <2>14, <2>15, <2>16, <2>17, <2>18 DEF Own
<1>3. outcome' \in Outcomes /\ interrupted' \in BOOLEAN
  <2>1. CASE Interrupt
    BY <2>1 DEF Interrupt, TypeOK, Outcomes, Ends, Decide
  <2>2. CASE Start
    BY <2>2 DEF Start, TypeOK, Outcomes, Ends, Decide
  <2>3. CASE Refused
    BY <2>3 DEF Refused, TypeOK, Outcomes, Ends, Decide
  <2>4. CASE Purge
    BY <2>4 DEF Purge, TypeOK, Outcomes, Ends, Decide
  <2>5. CASE Baseline
    BY <2>5 DEF Baseline, TypeOK, Outcomes, Ends, Decide
  <2>6. CASE Exit
    BY <2>6 DEF Exit, TypeOK, Outcomes, Ends, Decide
  <2>7. CASE Crash
    BY <2>7 DEF Crash, TypeOK, Outcomes, Ends, Decide
  <2>8. CASE Halted
    BY <2>8 DEF Halted, TypeOK, Outcomes, Ends, Decide
  <2>9. CASE BusDrain
    BY <2>9 DEF BusDrain, TypeOK, Outcomes, Ends, Decide
  <2>10. CASE Apply
    BY <2>10 DEF Apply, TypeOK, Outcomes, Ends, Decide
  <2>11. CASE Drained
    BY <2>11 DEF Drained, TypeOK, Outcomes, Ends, Decide
  <2>12. CASE Paused
    BY <2>12 DEF Paused, TypeOK, Outcomes, Ends, Decide
  <2>13. CASE Pick
    BY <2>13 DEF Pick, TypeOK, Outcomes, Ends, Decide
  <2>14. CASE WorkerExits
    BY <2>14 DEF WorkerExits, TypeOK, Outcomes, Ends, Decide
  <2>15. CASE Gate
    BY <2>15 DEF Gate, TypeOK, Outcomes, Ends, Decide
  <2>16. CASE CheckRunStop
    BY <2>16 DEF CheckRunStop, TypeOK, Outcomes, Ends, Decide
  <2>17. ASSUME NEW c \in BOOLEAN, Poll(c) PROVE outcome' \in Outcomes /\ interrupted' \in BOOLEAN
    BY <2>17 DEF Poll, TypeOK, Outcomes, Ends, Decide
  <2>18. CASE Requeue
    BY <2>18 DEF Requeue, TypeOK, Outcomes, Ends, Decide
  <2> QED BY <2>1, <2>2, <2>3, <2>4, <2>5, <2>6, <2>7, <2>8, <2>9, <2>10, <2>11, <2>12, <2>13, <2>14, <2>15, <2>16, <2>17, <2>18 DEF Own
<1>4. left' \in 0 .. MaxWait /\ gap' \in 0 .. MinGap
  <2>1. CASE Interrupt
    BY Bounds, Forgotten, <2>1 DEF Interrupt, TypeOK, Ends, procVars, waitVars, Fewer
  <2>2. CASE Start
    BY Bounds, Forgotten, <2>2 DEF Start, TypeOK, Ends, procVars, waitVars, Fewer
  <2>3. CASE Refused
    BY Bounds, Forgotten, <2>3 DEF Refused, TypeOK, Ends, procVars, waitVars, Fewer
  <2>4. CASE Purge
    BY Bounds, Forgotten, <2>4 DEF Purge, TypeOK, Ends, procVars, waitVars, Fewer
  <2>5. CASE Baseline
    BY Bounds, Forgotten, <2>5 DEF Baseline, TypeOK, Ends, procVars, waitVars, Fewer
  <2>6. CASE Exit
    BY Bounds, Forgotten, <2>6 DEF Exit, TypeOK, Ends, procVars, waitVars, Fewer
  <2>7. CASE Crash
    BY Bounds, Forgotten, <2>7 DEF Crash, TypeOK, Ends, procVars, waitVars, Fewer
  <2>8. CASE Halted
    BY Bounds, Forgotten, <2>8 DEF Halted, TypeOK, Ends, procVars, waitVars, Fewer
  <2>9. CASE BusDrain
    BY Bounds, Forgotten, <2>9 DEF BusDrain, TypeOK, Ends, procVars, waitVars, Fewer
  <2>10. CASE Apply
    BY Bounds, Forgotten, <2>10 DEF Apply, TypeOK, Ends, procVars, waitVars, Fewer
  <2>11. CASE Drained
    BY Bounds, Forgotten, <2>11 DEF Drained, TypeOK, Ends, procVars, waitVars, Fewer
  <2>12. CASE Paused
    BY Bounds, Forgotten, <2>12 DEF Paused, TypeOK, Ends, procVars, waitVars, Fewer
  <2>13. CASE Pick
    BY Bounds, Forgotten, <2>13 DEF Pick, TypeOK, Ends, procVars, waitVars, Fewer
  <2>14. CASE WorkerExits
    <3>1. CASE batch' = <<>> /\ left' = 0 /\ gap' = 0
      BY <3>1, Bounds
    <3>2. CASE left' \in 0 .. MaxWait /\ gap' = MinGap
      BY <3>2, Bounds
    <3>3. CASE left' = left /\ gap' = gap
      BY <3>3 DEF TypeOK
    <3> QED BY <2>14, <3>1, <3>2, <3>3 DEF WorkerExits, Ends, Forget, waitVars
  <2>15. CASE Gate
    BY Bounds, Forgotten, <2>15 DEF Gate, TypeOK, Ends, procVars, waitVars, Fewer
  <2>16. CASE CheckRunStop
    BY Bounds, Forgotten, <2>16 DEF CheckRunStop, TypeOK, Ends, procVars, waitVars, Fewer
  <2>17. ASSUME NEW c \in BOOLEAN, Poll(c) PROVE left' \in 0 .. MaxWait /\ gap' \in 0 .. MinGap
    <3>1. /\ left' = left \/ left' = Fewer(left)
          /\ gap' = gap \/ gap' = Fewer(gap)
      BY <2>17 DEF Poll, waitVars
    <3>2. left \in 0 .. MaxWait /\ gap \in 0 .. MinGap
      BY DEF TypeOK
    <3> QED BY <3>1, <3>2, Bounds DEF Fewer
  <2>18. CASE Requeue
    BY Bounds, Forgotten, <2>18 DEF Requeue, TypeOK, Ends, procVars, waitVars, Fewer
  <2> QED BY <2>1, <2>2, <2>3, <2>4, <2>5, <2>6, <2>7, <2>8, <2>9, <2>10, <2>11, <2>12, <2>13, <2>14, <2>15, <2>16, <2>17, <2>18 DEF Own
<1>9. woken' \in BOOLEAN
  <2>1. CASE Interrupt
    BY Forgotten, <2>1 DEF Interrupt, TypeOK, Ends, procVars, waitVars
  <2>2. CASE Start
    BY Forgotten, <2>2 DEF Start, TypeOK, Ends, procVars, waitVars
  <2>3. CASE Refused
    BY Forgotten, <2>3 DEF Refused, TypeOK, Ends, procVars, waitVars
  <2>4. CASE Purge
    BY Forgotten, <2>4 DEF Purge, TypeOK, Ends, procVars, waitVars
  <2>5. CASE Baseline
    BY Forgotten, <2>5 DEF Baseline, TypeOK, Ends, procVars, waitVars
  <2>6. CASE Exit
    BY Forgotten, <2>6 DEF Exit, TypeOK, Ends, procVars, waitVars
  <2>7. CASE Crash
    BY Forgotten, <2>7 DEF Crash, TypeOK, Ends, procVars, waitVars
  <2>8. CASE Halted
    BY Forgotten, <2>8 DEF Halted, TypeOK, Ends, procVars, waitVars
  <2>9. CASE BusDrain
    BY Forgotten, <2>9 DEF BusDrain, TypeOK, Ends, procVars, waitVars
  <2>10. CASE Apply
    BY Forgotten, <2>10 DEF Apply, TypeOK, Ends, procVars, waitVars
  <2>11. CASE Drained
    BY Forgotten, <2>11 DEF Drained, TypeOK, Ends, procVars, waitVars
  <2>12. CASE Paused
    BY Forgotten, <2>12 DEF Paused, TypeOK, Ends, procVars, waitVars
  <2>13. CASE Pick
    BY Forgotten, <2>13 DEF Pick, TypeOK, Ends, procVars, waitVars
  <2>14. CASE WorkerExits
    BY Forgotten, <2>14 DEF WorkerExits, TypeOK, Ends, procVars, waitVars
  <2>15. CASE Gate
    BY Forgotten, <2>15 DEF Gate, TypeOK, Ends, procVars, waitVars
  <2>16. CASE CheckRunStop
    BY Forgotten, <2>16 DEF CheckRunStop, TypeOK, Ends, procVars, waitVars
  <2>17. ASSUME NEW c \in BOOLEAN, Poll(c) PROVE woken' \in BOOLEAN
    <3>1. woken' \in {woken, (woken \/ Has({"wake", "resume"}, Before({"stop"}, inbox)))}
      BY <2>17 DEF Poll, waitVars
    <3>2. (woken \/ Has({"wake", "resume"}, Before({"stop"}, inbox))) \in BOOLEAN
      OBVIOUS
    <3> QED BY <3>1, <3>2 DEF TypeOK
  <2>18. CASE Requeue
    BY Forgotten, <2>18 DEF Requeue, TypeOK, Ends, procVars, waitVars
  <2> QED BY <2>1, <2>2, <2>3, <2>4, <2>5, <2>6, <2>7, <2>8, <2>9, <2>10, <2>11, <2>12, <2>13, <2>14, <2>15, <2>16, <2>17, <2>18 DEF Own
<1>5. skip' \in BOOLEAN /\ halt' \in BOOLEAN /\ met' \in BOOLEAN
  <2>1. CASE Interrupt
    BY ConfigAssumption, Forgotten, <2>1 DEF Interrupt, TypeOK, Ends, procVars, sessionVars
  <2>2. CASE Start
    BY ConfigAssumption, Forgotten, <2>2 DEF Start, TypeOK, Ends, procVars, sessionVars
  <2>3. CASE Refused
    BY ConfigAssumption, Forgotten, <2>3 DEF Refused, TypeOK, Ends, procVars, sessionVars
  <2>4. CASE Purge
    BY ConfigAssumption, Forgotten, <2>4 DEF Purge, TypeOK, Ends, procVars, sessionVars
  <2>5. CASE Baseline
    BY ConfigAssumption, Forgotten, <2>5 DEF Baseline, TypeOK, Ends, procVars, sessionVars
  <2>6. CASE Exit
    BY ConfigAssumption, Forgotten, <2>6 DEF Exit, TypeOK, Ends, procVars, sessionVars
  <2>7. CASE Crash
    BY ConfigAssumption, Forgotten, <2>7 DEF Crash, TypeOK, Ends, procVars, sessionVars
  <2>8. CASE Halted
    BY ConfigAssumption, Forgotten, <2>8 DEF Halted, TypeOK, Ends, procVars, sessionVars
  <2>9. CASE BusDrain
    BY ConfigAssumption, Forgotten, <2>9 DEF BusDrain, TypeOK, Ends, procVars, sessionVars
  <2>10. CASE Apply
    BY ConfigAssumption, Forgotten, <2>10 DEF Apply, TypeOK, Ends, procVars, sessionVars
  <2>11. CASE Drained
    BY ConfigAssumption, Forgotten, <2>11 DEF Drained, TypeOK, Ends, procVars, sessionVars
  <2>12. CASE Paused
    BY ConfigAssumption, Forgotten, <2>12 DEF Paused, TypeOK, Ends, procVars, sessionVars
  <2>13. CASE Pick
    BY ConfigAssumption, Forgotten, <2>13 DEF Pick, TypeOK, Ends, procVars, sessionVars
  <2>14. CASE WorkerExits
    BY ConfigAssumption, Forgotten, <2>14 DEF WorkerExits, TypeOK, Ends, procVars, sessionVars
  <2>15. CASE Gate
    BY ConfigAssumption, Forgotten, <2>15 DEF Gate, TypeOK, Ends, procVars, sessionVars
  <2>16. CASE CheckRunStop
    BY ConfigAssumption, Forgotten, <2>16 DEF CheckRunStop, TypeOK, Ends, procVars, sessionVars
  <2>17. ASSUME NEW c \in BOOLEAN, Poll(c) PROVE skip' \in BOOLEAN /\ halt' \in BOOLEAN /\ met' \in BOOLEAN
    BY ConfigAssumption, Forgotten, <2>17 DEF Poll, TypeOK, Ends, procVars, sessionVars
  <2>18. CASE Requeue
    BY ConfigAssumption, Forgotten, <2>18 DEF Requeue, TypeOK, Ends, procVars, sessionVars
  <2> QED BY <2>1, <2>2, <2>3, <2>4, <2>5, <2>6, <2>7, <2>8, <2>9, <2>10, <2>11, <2>12, <2>13, <2>14, <2>15, <2>16, <2>17, <2>18 DEF Own
<1>6. inbox' \in Seq(Place) /\ delivered' \in Seq(Place)
  <2>1. CASE Interrupt
    BY <2>1 DEF Interrupt, TypeOK, busVars, Purged, Requeued
  <2>2. CASE Start
    BY <2>2 DEF Start, TypeOK, busVars, Purged, Requeued
  <2>3. CASE Refused
    BY <2>3 DEF Refused, TypeOK, busVars, Purged, Requeued
  <2>4. CASE Purge
    BY <2>4 DEF Purge, TypeOK, busVars, Purged, Requeued
  <2>5. CASE Baseline
    BY <2>5 DEF Baseline, TypeOK, busVars, Purged, Requeued
  <2>6. CASE Exit
    BY <2>6 DEF Exit, TypeOK, busVars, Purged, Requeued
  <2>7. CASE Crash
    BY <2>7 DEF Crash, TypeOK, busVars, Purged, Requeued
  <2>8. CASE Halted
    BY <2>8 DEF Halted, TypeOK, busVars, Purged, Requeued
  <2>9. CASE BusDrain
    BY <2>9 DEF BusDrain, TypeOK, busVars, Purged, Requeued
  <2>10. CASE Apply
    BY <2>10 DEF Apply, TypeOK, busVars, Purged, Requeued
  <2>11. CASE Drained
    BY <2>11 DEF Drained, TypeOK, busVars, Purged, Requeued
  <2>12. CASE Paused
    BY <2>12 DEF Paused, TypeOK, busVars, Purged, Requeued
  <2>13. CASE Pick
    <3>1. (delivered' = delivered \/ delivered' = delivered \o pending) /\ inbox' = inbox
      BY <2>13 DEF Pick, busVars
    <3>2. delivered \in Seq(Place) /\ pending \in Seq(Place) /\ inbox \in Seq(Place)
      BY DEF TypeOK
    <3>3. delivered \o pending \in Seq(Place)
      BY <3>2
    <3>4. delivered' \in Seq(Place) /\ inbox' \in Seq(Place)
      <4> HIDE DEF Place
      <4>1. CASE delivered' = delivered
        BY <3>1, <3>2, <4>1
      <4>2. CASE delivered' = delivered \o pending
        BY <3>1, <3>2, <3>3, <4>2
      <4> QED BY <3>1, <4>1, <4>2
    <3> QED BY <3>4
  <2>14. CASE WorkerExits
    BY <2>14 DEF WorkerExits, TypeOK, busVars, Purged, Requeued
  <2>15. CASE Gate
    BY <2>15 DEF Gate, TypeOK, busVars, Purged, Requeued
  <2>16. CASE CheckRunStop
    BY <2>16 DEF CheckRunStop, TypeOK, busVars, Purged, Requeued
  <2>17. ASSUME NEW c \in BOOLEAN, Poll(c) PROVE inbox' \in Seq(Place) /\ delivered' \in Seq(Place)
    BY <2>17 DEF Poll, TypeOK, busVars, Purged, Requeued
  <2>18. CASE Requeue
    BY <2>18 DEF Requeue, TypeOK, busVars, Purged, Requeued
  <2> QED BY <2>1, <2>2, <2>3, <2>4, <2>5, <2>6, <2>7, <2>8, <2>9, <2>10, <2>11, <2>12, <2>13, <2>14, <2>15, <2>16, <2>17, <2>18 DEF Own
<1>7. batch' \in Seq(Place) /\ pending' \in Seq(Place) /\ deferred' \in Seq(Place)
  <2>1. CASE Interrupt
    BY <1>1, Forgotten, <2>1 DEF Interrupt, TypeOK, Ends, procVars
  <2>2. CASE Start
    BY <1>1, Forgotten, <2>2 DEF Start, TypeOK, Ends, procVars
  <2>3. CASE Refused
    BY <1>1, Forgotten, <2>3 DEF Refused, TypeOK, Ends, procVars
  <2>4. CASE Purge
    BY <1>1, Forgotten, <2>4 DEF Purge, TypeOK, Ends, procVars
  <2>5. CASE Baseline
    BY <1>1, Forgotten, <2>5 DEF Baseline, TypeOK, Ends, procVars
  <2>6. CASE Exit
    BY <1>1, Forgotten, <2>6 DEF Exit, TypeOK, Ends, procVars
  <2>7. CASE Crash
    BY <1>1, Forgotten, <2>7 DEF Crash, TypeOK, Ends, procVars
  <2>8. CASE Halted
    BY <1>1, Forgotten, <2>8 DEF Halted, TypeOK, Ends, procVars
  <2>9. CASE BusDrain
    BY <1>1, Forgotten, <2>9 DEF BusDrain, TypeOK, Ends, procVars
  <2>10. CASE Apply
    <3>1. CASE Is(Head(batch), {"stop"})
      BY <1>1, <2>10, <3>1, Forgotten DEF Apply, Ends
    <3>2. CASE ~ Is(Head(batch), {"stop"})
      <4>1. batch \in Seq(Place) /\ batch # <<>> /\ pending \in Seq(Place) /\ deferred \in Seq(Place)
        BY <2>10 DEF TypeOK, Apply
      <4>2. Head(batch) \in Place /\ Tail(batch) \in Seq(Place)
        BY <4>1
      <4>3. batch' = Tail(batch) /\ pending' \in {Append(pending, Head(batch)), pending} /\ deferred' = deferred
        BY <2>10, <3>2 DEF Apply
      <4> QED BY <4>1, <4>2, <4>3
    <3> QED BY <3>1, <3>2
  <2>11. CASE Drained
    BY <1>1, Forgotten, <2>11 DEF Drained, TypeOK, Ends, procVars
  <2>12. CASE Paused
    BY <1>1, Forgotten, <2>12 DEF Paused, TypeOK, Ends, procVars
  <2>13. CASE Pick
    BY <1>1, Forgotten, <2>13 DEF Pick, TypeOK, Ends, procVars
  <2>14. CASE WorkerExits
    BY <1>1, Forgotten, <2>14 DEF WorkerExits, TypeOK, Ends, procVars
  <2>15. CASE Gate
    BY <1>1, Forgotten, <2>15 DEF Gate, TypeOK, Ends, procVars
  <2>16. CASE CheckRunStop
    BY <1>1, Forgotten, <2>16 DEF CheckRunStop, TypeOK, Ends, procVars
  <2>17. ASSUME NEW c \in BOOLEAN, Poll(c) PROVE batch' \in Seq(Place) /\ pending' \in Seq(Place) /\ deferred' \in Seq(Place)
    <3>1. CASE interrupted \/ c
      BY <2>17, <3>1 DEF Poll, TypeOK
    <3>2. CASE ~(interrupted \/ c)
      <4> DEFINE taken == Before({"stop"}, inbox)
                 kept == Only(Commands \ {"wake", "resume"}, taken)
      <4>1. inbox \in Seq(Nat) /\ inbox \in Seq(Place)
        BY Numbers DEF TypeOK
      <4>2. taken \in Seq(Nat) /\ Within(taken, inbox)
        BY <4>1, BeforeWithin
      <4>3. taken \in Seq(Place)
        BY <4>1, <4>2, WithinPlaces
      <4>4. kept \in Seq(Nat) /\ Within(kept, taken)
        BY <4>2, OnlyWithin
      <4>5. kept \in Seq(Place)
        BY <4>3, <4>4, WithinPlaces
      <4>6. deferred' = deferred \o kept /\ batch' = batch /\ pending' = pending
        BY <2>17, <3>2 DEF Poll
      <4> QED BY <4>5, <4>6 DEF TypeOK
    <3> QED BY <3>1, <3>2
  <2>18. CASE Requeue
    BY <1>1, Forgotten, <2>18 DEF Requeue, TypeOK, Ends, procVars
  <2> QED BY <2>1, <2>2, <2>3, <2>4, <2>5, <2>6, <2>7, <2>8, <2>9, <2>10, <2>11, <2>12, <2>13, <2>14, <2>15, <2>16, <2>17, <2>18 DEF Own
<1>8. (batch' # <<>> => pc' \in {"drain", "paused"}) /\ (deferred' # <<>> => pc' \in {"waiting", "requeue"})
  <2>1. CASE Interrupt
    BY Forgotten, <2>1 DEF Interrupt, TypeOK, Ends, procVars
  <2>2. CASE Start
    BY Forgotten, <2>2 DEF Start, TypeOK, Ends, procVars
  <2>3. CASE Refused
    BY Forgotten, <2>3 DEF Refused, TypeOK, Ends, procVars
  <2>4. CASE Purge
    BY Forgotten, <2>4 DEF Purge, TypeOK, Ends, procVars
  <2>5. CASE Baseline
    BY Forgotten, <2>5 DEF Baseline, TypeOK, Ends, procVars
  <2>6. CASE Exit
    BY Forgotten, <2>6 DEF Exit, TypeOK, Ends, procVars
  <2>7. CASE Crash
    BY Forgotten, <2>7 DEF Crash, TypeOK, Ends, procVars
  <2>8. CASE Halted
    BY Forgotten, <2>8 DEF Halted, TypeOK, Ends, procVars
  <2>9. CASE BusDrain
    BY Forgotten, <2>9 DEF BusDrain, TypeOK, Ends, procVars
  <2>10. CASE Apply
    BY Forgotten, <2>10 DEF Apply, TypeOK, Ends, procVars
  <2>11. CASE Drained
    BY Forgotten, <2>11 DEF Drained, TypeOK, Ends, procVars
  <2>12. CASE Paused
    BY Forgotten, <2>12 DEF Paused, TypeOK, Ends, procVars
  <2>13. CASE Pick
    BY Forgotten, <2>13 DEF Pick, TypeOK, Ends, procVars
  <2>14. CASE WorkerExits
    BY Forgotten, <2>14 DEF WorkerExits, TypeOK, Ends, procVars
  <2>15. CASE Gate
    BY Forgotten, <2>15 DEF Gate, TypeOK, Ends, procVars
  <2>16. CASE CheckRunStop
    BY Forgotten, <2>16 DEF CheckRunStop, TypeOK, Ends, procVars
  <2>17. ASSUME NEW c \in BOOLEAN, Poll(c) PROVE (batch' # <<>> => pc' \in {"drain", "paused"}) /\ (deferred' # <<>> => pc' \in {"waiting", "requeue"})
    BY Forgotten, <2>17 DEF Poll, TypeOK, Ends, procVars
  <2>18. CASE Requeue
    BY Forgotten, <2>18 DEF Requeue, TypeOK, Ends, procVars
  <2> QED BY <2>1, <2>2, <2>3, <2>4, <2>5, <2>6, <2>7, <2>8, <2>9, <2>10, <2>11, <2>12, <2>13, <2>14, <2>15, <2>16, <2>17, <2>18 DEF Own
<1> QED BY <1>1, <1>2, <1>3, <1>4, <1>5, <1>6, <1>7, <1>8, <1>9 DEF TypeOK, Started

\* Every step keeps the shape of the state.
LEMMA TypedNext == Typed /\ [Next]_vars => Typed'
<1> SUFFICES ASSUME Typed, [Next]_vars PROVE Typed'
  OBVIOUS
<1>1. CASE UNCHANGED vars
  BY <1>1 DEF vars, busVars, procVars, Typed, TypeOK, Started, Place
<1> QED BY <1>1, Steps, SendTyped, SenderTyped, OwnTyped


------------------------------------------------------------------------------
(* The order of sending.                                                     *)

\* A piece that is unchanged or emptied is within what it was.
LEMMA WithinSelf ==
  ASSUME NEW s \in Seq(Nat)
  PROVE  Within(s, s) /\ Within(<<>>, s)
BY DEF Within, Up

\* An empty piece is before and behind everything.
LEMMA EmptyBelow == \A r : Below(r, <<>>) /\ Below(<<>>, r) /\ Up(<<>>)
BY DEF Below, Up

\* Dropping commands of any piece, while no sender gains one, keeps the order.
LEMMA Shrinks ==
  ASSUME TypeOK, Ordered, log' = log, sending' \in {sending, 0},
         Within(delivered', delivered), Within(pending', pending), Within(batch', batch),
         Within(deferred', deferred), Within(inbox', inbox)
  PROVE  Ordered'
<1>1. PiecesUp'
  BY DEF Ordered, PiecesUp, Within
<1>2. PiecesBelow'
  <2>1. /\ \A r : (Below(r, pending) => Below(r, pending')) /\ (Below(delivered, r) => Below(delivered', r))
        /\ \A r : (Below(r, batch) => Below(r, batch')) /\ (Below(pending, r) => Below(pending', r))
        /\ \A r : (Below(r, deferred) => Below(r, deferred')) /\ (Below(batch, r) => Below(batch', r))
        /\ \A r : (Below(r, inbox) => Below(r, inbox')) /\ (Below(deferred, r) => Below(deferred', r))
    BY WithinBelow
  <2> QED BY <2>1 DEF Ordered, PiecesBelow
<1>3. SentLast'
  <2>1. CASE sending' = 0
    BY <2>1 DEF SentLast
  <2>2. CASE sending' = sending
    <3>1. \A r : /\ Below(delivered, r) => Below(delivered', r)
                 /\ Below(pending, r) => Below(pending', r)
                 /\ Below(batch, r) => Below(batch', r)
                 /\ Below(deferred, r) => Below(deferred', r)
                 /\ Below(inbox, r) => Below(inbox', r)
      BY WithinBelow
    <3> QED BY <2>2, <3>1 DEF Ordered, SentLast
  <2> QED BY <2>1, <2>2
<1> QED BY <1>1, <1>2, <1>3 DEF Ordered

\* Nothing is out of order where nothing was sent.
LEMMA OrderedInit == Init => Ordered
<1> SUFFICES ASSUME Init PROVE Ordered
  OBVIOUS
<1>1. /\ delivered = <<>> /\ pending = <<>> /\ batch = <<>> /\ deferred = <<>> /\ inbox = <<>>
      /\ sending = 0
  BY DEF Init
<1> QED BY <1>1, EmptyBelow DEF Ordered, PiecesUp, PiecesBelow, SentLast

\* A command that is sent comes last, in the inbox or with its sender.
LEMMA SendOrdered ==
  ASSUME Typed, Ordered, NEW cmd \in Commands, Send(cmd)
  PROVE  Ordered'
<1> DEFINE n == Len(log')
<1>1. n = Len(log) + 1 /\ n \in Nat /\ Len(log) \in Nat
  BY Numbers DEF Typed, Send
<1>2. /\ delivered' = delivered /\ pending' = pending /\ batch' = batch /\ deferred' = deferred
      /\ sending = 0
  BY DEF Send, procVars
<1>3. \/ inbox' = inbox /\ sending' = n
      \/ inbox' = Append(inbox, n) /\ sending' = sending
  BY DEF Send
<1>4. ASSUME NEW s \in Seq(Place) PROVE Below(s, <<n>>) /\ \A i \in DOMAIN s : s[i] < n
  <2>1. \A i \in DOMAIN s : s[i] \in Place
    OBVIOUS
  <2>2. \A i \in DOMAIN s : s[i] < n
    BY <1>1, <2>1 DEF Place
  <2>3. DOMAIN <<n>> = {1} /\ <<n>>[1] = n
    OBVIOUS
  <2> HIDE DEF n
  <2> QED BY <2>2, <2>3 DEF Below
<1>5. /\ Below(delivered, <<n>>) /\ Below(pending, <<n>>) /\ Below(batch, <<n>>)
      /\ Below(deferred, <<n>>) /\ Below(inbox, <<n>>) /\ \A i \in DOMAIN inbox : inbox[i] < n
  BY <1>4 DEF Typed, TypeOK
<1> HIDE DEF n
<1>6. CASE inbox' = inbox /\ sending' = n
  <2>1. Len(log') = n
    BY DEF n
  <2> QED BY <1>2, <1>5, <1>6, <2>1 DEF Ordered, PiecesUp, PiecesBelow, SentLast
<1>7. CASE inbox' = Append(inbox, n) /\ sending' = sending
  <2>1. inbox \in Seq(Nat) /\ Up(inbox)
    BY Numbers DEF Typed, Ordered, PiecesUp
  <2>2. /\ Up(inbox')
        /\ \A r : Below(r, inbox) /\ Below(r, <<n>>) => Below(r, inbox')
    BY <1>1, <1>5, <1>7, <2>1, UpAppend
  <2> QED BY <1>2, <1>5, <1>7, <2>2 DEF Ordered, PiecesUp, PiecesBelow, SentLast
<1> QED BY <1>3, <1>6, <1>7

\* A command that is renamed comes last in the inbox; a sender that dies leaves nothing.
LEMMA SenderOrdered ==
  ASSUME Typed, Ordered, Rename \/ SenderDies
  PROVE  Ordered'
<1>0. /\ delivered' = delivered /\ pending' = pending /\ batch' = batch /\ deferred' = deferred
      /\ sending' = 0 /\ log' = log
  BY DEF Rename, SenderDies, procVars
<1>1. CASE SenderDies
  <2>1. inbox' = inbox
    BY <1>1 DEF SenderDies
  <2> QED BY <1>0, <2>1 DEF Ordered, PiecesUp, PiecesBelow, SentLast
<1>2. CASE Rename
  <2>1. sending # 0 /\ inbox' = Append(inbox, sending)
    BY <1>2 DEF Rename
  <2>2. inbox \in Seq(Nat) /\ sending \in Nat /\ Up(inbox)
    BY Numbers DEF Typed, TypeOK, Ordered, PiecesUp
  <2>3. \A i \in DOMAIN inbox : inbox[i] < sending
    <3>1. Below(inbox, <<sending>>) /\ 1 \in DOMAIN <<sending>> /\ <<sending>>[1] = sending
      BY <2>1 DEF Ordered, SentLast
    <3> QED BY <3>1 DEF Below
  <2>4. Up(inbox') /\ \A r : Below(r, inbox) /\ Below(r, <<sending>>) => Below(r, inbox')
    BY <2>1, <2>2, <2>3, UpAppend
  <2> QED BY <1>0, <2>1, <2>4 DEF Ordered, PiecesUp, PiecesBelow, SentLast
<1> QED BY <1>1, <1>2

\* The actions that drop commands, or move none.
Drops ==
    \/ Interrupt \/ Start \/ Refused \/ Purge \/ Baseline \/ Exit \/ Crash
    \/ Halted \/ Drained \/ Paused \/ WorkerExits \/ Gate \/ CheckRunStop

\* They empty a piece or leave it alone.
LEMMA DropsShrink ==
  ASSUME Drops
  PROVE  /\ delivered' = delivered \/ delivered' = <<>>
         /\ pending' = pending \/ pending' = <<>>
         /\ batch' = batch \/ batch' = <<>>
         /\ deferred' = deferred \/ deferred' = <<>>
         /\ inbox' = inbox \/ inbox' = <<>>
<1>1. CASE Interrupt
  BY <1>1 DEF Interrupt, Ends, Forget, procVars, busVars, Purged
<1>2. CASE Start
  BY <1>2 DEF Start, Ends, Forget, procVars, busVars, Purged
<1>3. CASE Refused
  BY <1>3 DEF Refused, Ends, Forget, procVars, busVars, Purged
<1>4. CASE Purge
  BY <1>4 DEF Purge, Ends, Forget, procVars, busVars, Purged
<1>5. CASE Baseline
  BY <1>5 DEF Baseline, Ends, Forget, procVars, busVars, Purged
<1>6. CASE Exit
  BY <1>6 DEF Exit, Ends, Forget, procVars, busVars, Purged
<1>7. CASE Crash
  BY <1>7 DEF Crash, Ends, Forget, procVars, busVars, Purged
<1>8. CASE Halted
  BY <1>8 DEF Halted, Ends, Forget, procVars, busVars, Purged
<1>9. CASE Drained
  BY <1>9 DEF Drained, Ends, Forget, procVars, busVars, Purged
<1>10. CASE Paused
  BY <1>10 DEF Paused, Ends, Forget, procVars, busVars, Purged
<1>11. CASE WorkerExits
  BY <1>11 DEF WorkerExits, Ends, Forget, procVars, busVars, Purged
<1>12. CASE Gate
  BY <1>12 DEF Gate, Ends, Forget, procVars, busVars, Purged
<1>13. CASE CheckRunStop
  BY <1>13 DEF CheckRunStop, Ends, Forget, procVars, busVars, Purged
<1> QED BY <1>1, <1>2, <1>3, <1>4, <1>5, <1>6, <1>7, <1>8, <1>9, <1>10, <1>11, <1>12, <1>13 DEF Drops

\* They keep the order.
LEMMA DropsOrdered ==
  ASSUME Typed, Ordered, Drops
  PROVE  Ordered'
<1> DEFINE smaller(t, s) == t = s \/ t = <<>>
<1>1. /\ smaller(delivered', delivered) /\ smaller(pending', pending) /\ smaller(batch', batch)
      /\ smaller(deferred', deferred) /\ smaller(inbox', inbox)
  BY DropsShrink
<1>2. /\ delivered \in Seq(Nat) /\ pending \in Seq(Nat) /\ batch \in Seq(Nat)
      /\ deferred \in Seq(Nat) /\ inbox \in Seq(Nat)
  BY Numbers DEF Typed
<1>3. /\ Within(delivered', delivered) /\ Within(pending', pending) /\ Within(batch', batch)
      /\ Within(deferred', deferred) /\ Within(inbox', inbox)
  BY <1>1, <1>2, WithinSelf
<1>4. log' = log /\ sending' = sending
  BY OwnFrame DEF Drops, Own
<1> QED BY <1>3, <1>4, Shrinks DEF Typed

\* The boundary takes the inbox as its batch: at the top of the loop nothing is held that
\* would be behind it.
LEMMA BusDrainOrdered ==
  ASSUME Typed, Ordered, BusDrain
  PROVE  Ordered'
<1>1. batch = <<>> /\ deferred = <<>>
  BY DEF Typed, TypeOK, BusDrain
<1>2. /\ delivered' = delivered /\ pending' = pending /\ deferred' = <<>> /\ batch' = inbox
      /\ inbox' = <<>> /\ sending' = sending /\ log' = log
  BY <1>1 DEF BusDrain
<1> QED BY <1>2, EmptyBelow DEF Ordered, PiecesUp, PiecesBelow, SentLast

\* An instruction goes from the head of the batch to the end of what is pending.
LEMMA ApplyOrdered ==
  ASSUME Typed, Ordered, Apply
  PROVE  Ordered'
<1> DEFINE n == Head(batch)
<1>1. /\ delivered \in Seq(Nat) /\ pending \in Seq(Nat) /\ batch \in Seq(Nat)
      /\ deferred \in Seq(Nat) /\ inbox \in Seq(Nat) /\ batch # <<>>
  BY Numbers DEF Typed, Apply
<1>2. log' = log /\ sending' = sending /\ inbox' = inbox /\ delivered' = delivered
  BY DEF Apply, busVars
<1>3. CASE Is(n, {"stop"})
  <2>1. batch' = <<>> /\ pending' = <<>> /\ deferred' = <<>>
    BY <1>3 DEF Apply, Ends, Forget
  <2> QED BY <1>1, <1>2, <2>1, WithinSelf, Shrinks DEF Typed
<1>4. CASE ~ Is(n, {"stop"})
  <2>1. /\ batch' = Tail(batch) /\ deferred' = deferred
        /\ pending' = pending \/ pending' = Append(pending, n)
    BY <1>4 DEF Apply
  <2>2. /\ Within(batch', batch) /\ Within(<<n>>, batch)
        /\ Up(batch) => Below(<<n>>, batch')
    BY <1>1, <2>1, TailWithin
  <2>3. CASE pending' = pending
    BY <1>1, <1>2, <2>1, <2>2, <2>3, WithinSelf, Shrinks DEF Typed
  <2>4. CASE pending' = Append(pending, n)
    <3>1. n \in Nat /\ n = batch[1] /\ 1 \in DOMAIN batch
      BY <1>1
    <3> HIDE DEF n
    <3>2. Up(pending) /\ \A i \in DOMAIN pending : pending[i] < n
      BY <3>1 DEF Ordered, PiecesUp, PiecesBelow, Below
    <3>3. /\ Up(pending')
          /\ \A r : Below(r, pending) /\ Below(r, <<n>>) => Below(r, pending')
      BY <1>1, <2>4, <3>1, <3>2, UpAppend
    <3>4. \A r : /\ Below(r, batch) => Below(r, batch') /\ Below(r, <<n>>)
                 /\ Below(batch, r) => Below(batch', r) /\ Below(<<n>>, r)
      BY <2>2, WithinBelow
    <3>5. ASSUME NEW r, Below(pending, r), Below(<<n>>, r) PROVE Below(pending', r)
      <4>1. pending' \in Seq(Nat) /\ <<n>> \in Seq(Nat) /\ pending' = pending \o <<n>>
        BY <1>1, <2>4, <3>1
      <4>2. \A i \in DOMAIN pending' : \/ i \in DOMAIN pending /\ pending'[i] = pending[i]
                                       \/ pending'[i] = n
        <5>1. /\ DOMAIN pending' = 1 .. Len(pending) + 1 /\ DOMAIN pending = 1 .. Len(pending)
              /\ Len(pending) \in Nat
              /\ \A i \in 1 .. Len(pending) : pending'[i] = pending[i]
              /\ pending'[Len(pending) + 1] = n
          BY <1>1, <2>4, <3>1
        <5> QED BY <5>1
      <4>3. 1 \in DOMAIN <<n>> /\ <<n>>[1] = n
        OBVIOUS
      <4> QED BY <3>5, <4>2, <4>3 DEF Below
    <3>6. PiecesUp'
      BY <1>2, <2>1, <2>2, <3>3 DEF Ordered, PiecesUp, Within
    <3>7. PiecesBelow'
      <4>1. Below(delivered, pending') /\ Below(delivered, batch')
        BY <3>3, <3>4 DEF Ordered, PiecesBelow
      <4>2. Below(pending', batch')
        <5>1. Below(pending, batch')
          BY <3>4 DEF Ordered, PiecesBelow
        <5>2. Below(<<n>>, batch')
          BY <2>2 DEF Ordered, PiecesUp
        <5> QED BY <3>5, <5>1, <5>2
      <4>3. Below(pending', deferred) /\ Below(pending', inbox)
        BY <3>4, <3>5 DEF Ordered, PiecesBelow
      <4>4. Below(batch', deferred) /\ Below(batch', inbox)
        BY <3>4 DEF Ordered, PiecesBelow
      <4> QED BY <1>2, <2>1, <4>1, <4>2, <4>3, <4>4 DEF Ordered, PiecesBelow
    <3>8. SentLast'
      <4>1. ASSUME sending # 0 PROVE Below(pending', <<sending>>) /\ Below(batch', <<sending>>)
        BY <3>4, <3>5, <4>1 DEF Ordered, SentLast
      <4> QED BY <1>2, <2>1, <4>1 DEF Ordered, SentLast
    <3> QED BY <3>6, <3>7, <3>8 DEF Ordered
  <2> QED BY <2>1, <2>3, <2>4
<1> QED BY <1>3, <1>4

\* The brief takes what is pending behind what was delivered before.
LEMMA PickOrdered ==
  ASSUME Typed, Ordered, Pick
  PROVE  Ordered'
<1>1. /\ delivered \in Seq(Nat) /\ pending \in Seq(Nat) /\ batch \in Seq(Nat)
      /\ deferred \in Seq(Nat) /\ inbox \in Seq(Nat)
  BY Numbers DEF Typed
<1>2. log' = log /\ sending' = sending /\ inbox' = inbox
  BY DEF Pick, busVars
<1>3. CASE batch' = <<>> /\ pending' = <<>> /\ deferred' = <<>> /\ delivered' = delivered
  BY <1>1, <1>2, <1>3, WithinSelf, Shrinks DEF Typed
<1>4. CASE /\ batch' = batch /\ pending' = <<>> /\ deferred' = deferred
           /\ delivered' = delivered \o pending
  <2>1. Up(delivered')
    BY <1>1, <1>4, UpConcat DEF Ordered, PiecesUp, PiecesBelow
  <2>2. /\ Below(delivered', batch) /\ Below(delivered', deferred) /\ Below(delivered', inbox)
    BY <1>1, <1>4, BelowConcat DEF Ordered, PiecesBelow
  <2>3. sending # 0 => Below(delivered', <<sending>>)
    <3>1. sending \in Nat /\ <<sending>> \in Seq(Nat)
      BY DEF Typed, TypeOK
    <3> QED BY <1>1, <1>4, <3>1, BelowConcat DEF Ordered, SentLast
  <2> QED BY <1>2, <1>4, <2>1, <2>2, <2>3, EmptyBelow DEF Ordered, PiecesUp, PiecesBelow, SentLast
<1> QED BY <1>3, <1>4 DEF Pick, Ends, Forget

\* A turn of the wait keeps what it does not act on behind what it kept before.
LEMMA PollOrdered ==
  ASSUME Typed, Ordered, NEW c \in BOOLEAN, Poll(c)
  PROVE  Ordered'
<1> DEFINE taken == Before({"stop"}, inbox)
           kept == Only(Commands \ {"wake", "resume"}, taken)
<1>1. /\ delivered \in Seq(Nat) /\ pending \in Seq(Nat) /\ batch \in Seq(Nat)
      /\ deferred \in Seq(Nat) /\ inbox \in Seq(Nat)
  BY Numbers DEF Typed
<1>2. /\ log' = log /\ sending' = sending /\ delivered' = delivered /\ pending' = pending
      /\ batch' = batch
  BY DEF Poll
<1>3. CASE inbox' = inbox /\ deferred' = deferred
  BY <1>1, <1>2, <1>3, WithinSelf, Shrinks DEF Typed
<1>4. CASE inbox' = <<>> /\ deferred' = deferred \o kept
  <2>0. taken \in Seq(Nat) /\ Within(taken, inbox)
    BY <1>1, BeforeWithin
  <2>1. kept \in Seq(Nat) /\ Within(kept, taken) /\ Within(taken, inbox)
    BY <2>0, OnlyWithin
  <2> HIDE DEF kept, taken
  <2>2. /\ Up(inbox) => Up(kept)
        /\ \A r : (Below(r, inbox) => Below(r, kept)) /\ (Below(inbox, r) => Below(kept, r))
    <3>1. (Up(inbox) => Up(taken)) /\ (Up(taken) => Up(kept))
      BY <2>1 DEF Within
    <3>2. \A r : (Below(r, inbox) => Below(r, taken)) /\ (Below(inbox, r) => Below(taken, r))
      BY <2>1, WithinBelow
    <3>3. \A r : (Below(r, taken) => Below(r, kept)) /\ (Below(taken, r) => Below(kept, r))
      BY <2>1, WithinBelow
    <3> QED BY <3>1, <3>2, <3>3
  <2>3. Up(deferred')
    BY <1>1, <1>4, <2>1, <2>2, UpConcat DEF Ordered, PiecesUp, PiecesBelow
  <2>4. Below(delivered, deferred') /\ Below(pending, deferred') /\ Below(batch, deferred')
    BY <1>1, <1>4, <2>1, <2>2, BelowConcat DEF Ordered, PiecesBelow
  <2>5. sending # 0 => Below(deferred', <<sending>>)
    <3>1. sending \in Nat /\ <<sending>> \in Seq(Nat)
      BY DEF Typed, TypeOK
    <3> QED BY <1>1, <1>4, <2>1, <2>2, <3>1, BelowConcat DEF Ordered, SentLast
  <2> QED BY <1>2, <1>4, <2>3, <2>4, <2>5, EmptyBelow DEF Ordered, PiecesUp, PiecesBelow, SentLast
<1> QED BY <1>3, <1>4 DEF Poll

\* What the wait kept goes back ahead of what was sent meanwhile.
LEMMA RequeueOrdered ==
  ASSUME Typed, Ordered, Requeue
  PROVE  Ordered'
<1>1. /\ delivered \in Seq(Nat) /\ pending \in Seq(Nat) /\ batch \in Seq(Nat)
      /\ deferred \in Seq(Nat) /\ inbox \in Seq(Nat)
  BY Numbers DEF Typed
<1>2. /\ log' = log /\ sending' = sending /\ delivered' = delivered /\ deferred' = <<>>
      /\ inbox' = deferred \o inbox
      /\ (pending' = pending \/ pending' = <<>>) /\ (batch' = batch \/ batch' = <<>>)
  BY DEF Requeue, Requeued, Ends, Forget
<1>3. Up(inbox')
  BY <1>1, <1>2, UpConcat DEF Ordered, PiecesUp, PiecesBelow
<1>4. Below(delivered, inbox') /\ Below(pending, inbox') /\ Below(batch, inbox')
  BY <1>1, <1>2, BelowConcat DEF Ordered, PiecesBelow
<1>5. sending # 0 => Below(inbox', <<sending>>)
  <2>1. sending \in Nat /\ <<sending>> \in Seq(Nat)
    BY DEF Typed, TypeOK
  <2> QED BY <1>1, <1>2, <2>1, BelowConcat DEF Ordered, SentLast
<1>6. PiecesUp'
  BY <1>2, <1>3, EmptyBelow DEF Ordered, PiecesUp
<1>7. PiecesBelow'
  BY <1>2, <1>4, EmptyBelow DEF Ordered, PiecesBelow
<1>8. SentLast'
  BY <1>2, <1>5, EmptyBelow DEF Ordered, SentLast
<1> QED BY <1>6, <1>7, <1>8 DEF Ordered

\* Every step keeps the order.
LEMMA OrderedNext == Typed /\ Ordered /\ [Next]_vars => Ordered'
<1> SUFFICES ASSUME Typed, Ordered, [Next]_vars PROVE Ordered'
  OBVIOUS
<1>1. CASE UNCHANGED vars
  BY <1>1 DEF vars, busVars, procVars, Ordered, PiecesUp, PiecesBelow, SentLast
<1>2. CASE Own
  <2>1. Drops \/ BusDrain \/ Apply \/ Pick \/ (\E c \in BOOLEAN : Poll(c)) \/ Requeue
    BY <1>2 DEF Own, Drops
  <2> QED BY <2>1, DropsOrdered, BusDrainOrdered, ApplyOrdered, PickOrdered, PollOrdered, RequeueOrdered
<1> QED BY <1>1, <1>2, Steps, SendOrdered, SenderOrdered

\* Pieces that are in order make a pipeline that is.
LEMMA PipelineUp ==
  ASSUME Typed, Ordered
  PROVE  InSendOrder
<1>1. /\ delivered \in Seq(Nat) /\ pending \in Seq(Nat) /\ batch \in Seq(Nat)
      /\ deferred \in Seq(Nat) /\ inbox \in Seq(Nat)
  BY Numbers DEF Typed
<1> DEFINE s == delivered \o pending
           t == s \o batch
           u == t \o deferred
<1>2. /\ s \in Seq(Nat) /\ Up(s) /\ Below(s, batch) /\ Below(s, deferred) /\ Below(s, inbox)
  BY <1>1, UpConcat, BelowConcat DEF Ordered, PiecesUp, PiecesBelow
<1> HIDE DEF s
<1>3. t \in Seq(Nat) /\ Up(t) /\ Below(t, deferred) /\ Below(t, inbox)
  BY <1>1, <1>2, UpConcat, BelowConcat DEF Ordered, PiecesUp, PiecesBelow
<1> HIDE DEF t
<1>4. u \in Seq(Nat) /\ Up(u) /\ Below(u, inbox)
  BY <1>1, <1>3, UpConcat, BelowConcat DEF Ordered, PiecesUp, PiecesBelow
<1> HIDE DEF u
<1>5. u \o inbox \in Seq(Nat) /\ Up(u \o inbox)
  BY <1>1, <1>4, UpConcat DEF Ordered, PiecesUp
<1>6. Pipeline = u \o inbox
  BY DEF Pipeline, u, t, s
<1>7. DOMAIN (u \o inbox) = 1 .. Len(u \o inbox)
  BY <1>5
<1> QED BY <1>5, <1>6, <1>7 DEF InSendOrder, Up

------------------------------------------------------------------------------
(* What a run holds.                                                         *)

\* A run holds nothing at first.
LEMMA FreshInit == Init => Fresh
BY DEF Init, Fresh, Past

\* What is within a piece of a run's commands is so too.
LEMMA WithinMine ==
  ASSUME NEW late, NEW s, NEW t, Within(t, s), Mine(late, s)
  PROVE  Mine(late, t)
BY DEF Within, Mine

\* Two pieces of a run's commands make one.
LEMMA MineConcat ==
  ASSUME NEW late, NEW s \in Seq(Nat), NEW t \in Seq(Nat), Mine(late, s), Mine(late, t)
  PROVE  Mine(late, s \o t)
<1>1. /\ Len(s \o t) = Len(s) + Len(t) /\ s \o t \in Seq(Nat)
      /\ \A i \in 1 .. Len(s) : (s \o t)[i] = s[i]
      /\ \A i \in Len(s) + 1 .. Len(s) + Len(t) : (s \o t)[i] = t[i - Len(s)]
  OBVIOUS
<1>2. ASSUME NEW i \in DOMAIN (s \o t)
      PROVE  \/ i \in DOMAIN s /\ (s \o t)[i] = s[i]
             \/ i - Len(s) \in DOMAIN t /\ (s \o t)[i] = t[i - Len(s)]
  BY <1>1
<1> QED BY <1>2 DEF Mine

\* One more command of the run makes a longer piece.
LEMMA MineAppend ==
  ASSUME NEW late, NEW s \in Seq(Nat), NEW n \in Nat, Mine(late, s), log[n].run = run \/ n = late
  PROVE  Mine(late, Append(s, n))
<1>1. /\ DOMAIN Append(s, n) = 1 .. Len(s) + 1 /\ DOMAIN s = 1 .. Len(s) /\ Len(s) \in Nat
      /\ \A i \in 1 .. Len(s) : Append(s, n)[i] = s[i]
      /\ Append(s, n)[Len(s) + 1] = n
  OBVIOUS
<1>2. \A i \in DOMAIN Append(s, n) : i \in DOMAIN s \/ i = Len(s) + 1
  BY <1>1
<1> QED BY <1>1, <1>2 DEF Mine

\* What is sent is sent to the run that is up.
LEMMA SendFresh ==
  ASSUME Typed, Typed', Fresh, NEW cmd \in Commands, Send(cmd)
  PROVE  Fresh'
<1> DEFINE n == Len(log')
<1>1. /\ UNCHANGED <<pc, run, delivered, pending, batch, deferred>> /\ sending = 0
      /\ log' = Append(log, [cmd |-> cmd, run |-> run])
  BY DEF Send, procVars
<1>2. log \in Seq([cmd : Commands, run : 1 .. MaxRun])
  BY DEF Typed, TypeOK
<1>3. /\ n \in Nat /\ n = Len(log) + 1 /\ log'[n].run = run
      /\ \A k \in 1 .. Len(log) : log'[k] = log[k]
  BY <1>1, <1>2
<1>4. \/ inbox' = inbox /\ sending' = n /\ "slow" \in SendFaults
      \/ inbox' = Append(inbox, n) /\ sending' = 0
  BY <1>1 DEF Send
<1> HIDE DEF n
<1>5. ASSUME Past, NEW late \in Nat, OwnBut(late)
      PROVE  OwnBut(late)'
  <2>1. ASSUME NEW s \in Seq(Place), Mine(late, s)
        PROVE  \A i \in DOMAIN s : log'[s[i]].run = run' \/ s[i] = late
    <3>1. \A i \in DOMAIN s : s[i] \in 1 .. Len(log)
      BY DEF Place
    <3> QED BY <1>1, <1>3, <2>1, <3>1 DEF Mine
  <2>2. /\ delivered \in Seq(Place) /\ pending \in Seq(Place) /\ batch \in Seq(Place)
        /\ deferred \in Seq(Place) /\ inbox \in Seq(Place)
    BY DEF Typed, TypeOK
  <2>3. /\ Mine(late, delivered)' /\ Mine(late, pending)' /\ Mine(late, batch)' /\ Mine(late, deferred)'
    BY <1>1, <1>5, <2>1, <2>2 DEF OwnBut, Mine
  <2>4. \A i \in DOMAIN inbox : log'[inbox[i]].run = run' \/ inbox[i] = late
    BY <1>5, <2>1, <2>2 DEF OwnBut
  <2>5. Mine(late, inbox)'
    <3>1. CASE inbox' = inbox
      BY <2>4, <3>1 DEF Mine
    <3>2. CASE inbox' = Append(inbox, n)
      <4>1. inbox \in Seq(Nat)
        BY Numbers DEF Typed
      <4>2. /\ DOMAIN inbox' = 1 .. Len(inbox) + 1 /\ DOMAIN inbox = 1 .. Len(inbox)
            /\ Len(inbox) \in Nat
            /\ \A i \in 1 .. Len(inbox) : inbox'[i] = inbox[i]
            /\ inbox'[Len(inbox) + 1] = n
        BY <1>3, <3>2, <4>1
      <4>3. \A i \in DOMAIN inbox' : i \in DOMAIN inbox \/ i = Len(inbox) + 1
        BY <4>2
      <4> QED BY <1>1, <1>3, <2>4, <4>2, <4>3 DEF Mine
    <3> QED BY <1>4, <3>1, <3>2
  <2>6. sending' # 0 => log'[sending'].run = run' \/ sending' = late
    BY <1>1, <1>3, <1>4
  <2> QED BY <1>5, <2>3, <2>5, <2>6 DEF OwnBut
<1>6. Past' => Past
  BY <1>1 DEF Past
<1> QED BY <1>1, <1>4, <1>5, <1>6 DEF Fresh

\* What a sender renames was sent to the run that is up, or it is the late one's.
LEMMA SenderFresh ==
  ASSUME Typed, Fresh, Rename \/ SenderDies
  PROVE  Fresh'
<1>1. /\ UNCHANGED <<log, pc, run, delivered, pending, batch, deferred>> /\ sending' = 0
      /\ inbox' = inbox \/ (sending # 0 /\ inbox' = Append(inbox, sending))
  BY DEF Rename, SenderDies, procVars
<1>2. inbox \in Seq(Nat) /\ sending \in Nat
  BY Numbers DEF Typed, TypeOK
<1>3. ASSUME NEW late \in Nat, OwnBut(late)
      PROVE  OwnBut(late)'
  <2>1. Mine(late, inbox')
    <3>1. CASE inbox' = inbox
      BY <1>3, <3>1 DEF OwnBut
    <3>2. CASE sending # 0 /\ inbox' = Append(inbox, sending)
      <4>1. log[sending].run = run \/ sending = late
        BY <1>3, <3>2 DEF OwnBut
      <4> QED BY <1>2, <1>3, <3>2, <4>1, MineAppend DEF OwnBut
    <3> QED BY <1>1, <3>1, <3>2
  <2> QED BY <1>1, <1>3, <2>1 DEF OwnBut, Mine
<1>4. Past' => Past
  BY <1>1 DEF Past
<1> QED BY <1>1, <1>3, <1>4 DEF Fresh

\* A run that is up gains no other command than the late one, whatever it does: the purge is what makes
\* it so, and only a start changes the run.
LEMMA OwnFresh ==
  ASSUME Typed, Fresh, Own
  PROVE  Fresh'
<1>1. log' = log /\ sending' = sending
  BY OwnFrame
<1>3. /\ pc' \in {"down", "booting", "baseline", "ending"} => pending' = <<>>
      /\ pc' \in {"booting", "baseline"} => delivered' = <<>>
  <2>1. CASE Interrupt
    BY <2>1 DEF Interrupt, Fresh, procVars, busVars, Ends, Forget
  <2>2. CASE Start
    BY <2>2 DEF Start, Fresh, procVars, busVars, Ends, Forget
  <2>3. CASE Refused
    BY <2>3 DEF Refused, Fresh, procVars, busVars, Ends, Forget
  <2>4. CASE Purge
    BY <2>4 DEF Purge, Fresh, procVars, busVars, Ends, Forget
  <2>5. CASE Baseline
    BY <2>5 DEF Baseline, Fresh, procVars, busVars, Ends, Forget
  <2>6. CASE Exit
    BY <2>6 DEF Exit, Fresh, procVars, busVars, Ends, Forget
  <2>7. CASE Crash
    BY <2>7 DEF Crash, Fresh, procVars, busVars, Ends, Forget
  <2>8. CASE Halted
    BY <2>8 DEF Halted, Fresh, procVars, busVars, Ends, Forget
  <2>9. CASE BusDrain
    BY <2>9 DEF BusDrain, Fresh, procVars, busVars, Ends, Forget
  <2>10. CASE Apply
    BY <2>10 DEF Apply, Fresh, procVars, busVars, Ends, Forget
  <2>11. CASE Drained
    BY <2>11 DEF Drained, Fresh, procVars, busVars, Ends, Forget
  <2>12. CASE Paused
    BY <2>12 DEF Paused, Fresh, procVars, busVars, Ends, Forget
  <2>13. CASE Pick
    BY <2>13 DEF Pick, Fresh, procVars, busVars, Ends, Forget
  <2>14. CASE WorkerExits
    BY <2>14 DEF WorkerExits, Fresh, procVars, busVars, Ends, Forget
  <2>15. CASE Gate
    BY <2>15 DEF Gate, Fresh, procVars, busVars, Ends, Forget
  <2>16. CASE CheckRunStop
    BY <2>16 DEF CheckRunStop, Fresh, procVars, busVars, Ends, Forget
  <2>17. ASSUME NEW c \in BOOLEAN, Poll(c) PROVE (pc' \in {"down", "booting", "baseline", "ending"} => pending' = <<>>) /\ (pc' \in {"booting", "baseline"} => delivered' = <<>>)
    BY <2>17 DEF Poll, Fresh, procVars, busVars, Ends, Forget
  <2>18. CASE Requeue
    BY <2>18 DEF Requeue, Fresh, procVars, busVars, Ends, Forget
  <2> QED BY <2>1, <2>2, <2>3, <2>4, <2>5, <2>6, <2>7, <2>8, <2>9, <2>10, <2>11, <2>12, <2>13, <2>14, <2>15, <2>16, <2>17, <2>18 DEF Own
<1>4. ASSUME Past'
      PROVE  \E late \in Nat : OwnBut(late)'
  <2>1. CASE Start \/ Crash \/ Exit \/ Refused \/ Halted
    BY <1>4, <2>1 DEF Past, Start, Crash, Exit, Refused, Halted, Ends
  <2>2. CASE Purge
    <3>1. /\ delivered' = <<>> /\ pending' = <<>> /\ batch' = <<>> /\ deferred' = <<>>
          /\ inbox' = <<>>
      BY <2>2 DEF Purge, Purged, Fresh, Typed, TypeOK, procVars
    <3>2. sending \in Nat
      BY Numbers DEF Typed, TypeOK
    <3>3. OwnBut(sending)'
      BY <1>1, <3>1 DEF Mine, OwnBut, Fresh
    <3>4. sending' = sending
      BY <1>1
    <3> QED BY <3>2, <3>3, <3>4
  <2>3. CASE ~(Start \/ Crash \/ Exit \/ Refused \/ Halted \/ Purge)
    <3>1. Past /\ run' = run
      <4>1. CASE Interrupt
        BY <1>4, <4>1 DEF Past, Interrupt, procVars, busVars, Ends
      <4>2. CASE Baseline
        BY <1>4, <4>2 DEF Past, Baseline, procVars, busVars, Ends
      <4>3. CASE BusDrain
        BY <1>4, <4>3 DEF Past, BusDrain, procVars, busVars, Ends
      <4>4. CASE Apply
        BY <1>4, <4>4 DEF Past, Apply, procVars, busVars, Ends
      <4>5. CASE Drained
        BY <1>4, <4>5 DEF Past, Drained, procVars, busVars, Ends
      <4>6. CASE Paused
        BY <1>4, <4>6 DEF Past, Paused, procVars, busVars, Ends
      <4>7. CASE Pick
        BY <1>4, <4>7 DEF Past, Pick, procVars, busVars, Ends
      <4>8. CASE WorkerExits
        BY <1>4, <4>8 DEF Past, WorkerExits, procVars, busVars, Ends
      <4>9. CASE Gate
        BY <1>4, <4>9 DEF Past, Gate, procVars, busVars, Ends
      <4>10. CASE CheckRunStop
        BY <1>4, <4>10 DEF Past, CheckRunStop, procVars, busVars, Ends
      <4>11. ASSUME NEW c \in BOOLEAN, Poll(c) PROVE Past /\ run' = run
        BY <1>4, <4>11 DEF Past, Poll, procVars, busVars, Ends
      <4>12. CASE Requeue
        BY <1>4, <4>12 DEF Past, Requeue, procVars, busVars, Ends
      <4> QED BY <2>3, <4>1, <4>2, <4>3, <4>4, <4>5, <4>6, <4>7, <4>8, <4>9, <4>10, <4>11, <4>12 DEF Own
    <3>l. PICK late \in Nat : OwnBut(late)
      BY <3>1 DEF Fresh
    <3>2. Mine(late, delivered) /\ Mine(late, pending) /\ Mine(late, batch) /\ Mine(late, deferred) /\ Mine(late, inbox)
      BY <3>l DEF OwnBut
    <3>3. /\ delivered \in Seq(Nat) /\ pending \in Seq(Nat) /\ batch \in Seq(Nat)
          /\ deferred \in Seq(Nat) /\ inbox \in Seq(Nat)
      BY Numbers DEF Typed
    <3>4. Mine(late, <<>>)
      BY DEF Mine
    <3>5. /\ Mine(late, delivered') /\ Mine(late, pending') /\ Mine(late, batch')
          /\ Mine(late, deferred') /\ Mine(late, inbox')
      <4>1. CASE Drops
        <5> DEFINE smaller(t, s) == t = s \/ t = <<>>
        <5>1. /\ smaller(delivered', delivered) /\ smaller(pending', pending) /\ smaller(batch', batch)
              /\ smaller(deferred', deferred) /\ smaller(inbox', inbox)
          BY <4>1, DropsShrink
        <5> QED BY <3>2, <3>4, <5>1
      <4>2. CASE BusDrain
        BY <3>2, <3>4, <4>2 DEF BusDrain
      <4>3. CASE Apply
        <5>1. /\ batch' = Tail(batch) /\ batch # <<>> /\ deferred' = deferred /\ inbox' = inbox
              /\ delivered' = delivered
              /\ pending' = pending \/ pending' = Append(pending, Head(batch))
          BY <1>4, <4>3 DEF Past, Apply, Ends, busVars
        <5>2. Within(Tail(batch), batch) /\ Within(<<Head(batch)>>, batch)
          BY <3>3, <5>1, TailWithin
        <5>3. Mine(late, Tail(batch)) /\ Mine(late, <<Head(batch)>>)
          BY <3>2, <5>2, WithinMine
        <5>4. Mine(late, Append(pending, Head(batch)))
          <6>1. Head(batch) \in Nat /\ Append(pending, Head(batch)) = pending \o <<Head(batch)>>
            BY <3>3, <5>1
          <6>2. <<Head(batch)>> \in Seq(Nat)
            BY <6>1
          <6> QED BY <3>2, <3>3, <5>3, <6>1, <6>2, MineConcat
        <5> QED BY <3>2, <5>1, <5>3, <5>4
      <4>4. CASE Pick
        <5>1. Mine(late, delivered \o pending)
          BY <3>2, <3>3, MineConcat
        <5> QED BY <1>4, <3>2, <3>4, <4>4, <5>1 DEF Past, Pick, Ends, busVars
      <4>5. ASSUME NEW c \in BOOLEAN, Poll(c)
            PROVE  /\ Mine(late, delivered') /\ Mine(late, pending') /\ Mine(late, batch')
                   /\ Mine(late, deferred') /\ Mine(late, inbox')
        <5> DEFINE taken == Before({"stop"}, inbox)
                   kept == Only(Commands \ {"wake", "resume"}, taken)
        <5>1. taken \in Seq(Nat) /\ Within(taken, inbox)
          BY <3>3, BeforeWithin
        <5>2. kept \in Seq(Nat) /\ Within(kept, taken)
          BY <5>1, OnlyWithin
        <5>3. Mine(late, taken)
          BY <3>2, <5>1, WithinMine
        <5>4. Mine(late, kept)
          BY <5>2, <5>3, WithinMine
        <5>5. Mine(late, deferred \o kept)
          BY <3>2, <3>3, <5>2, <5>4, MineConcat
        <5> QED BY <3>2, <3>4, <4>5, <5>5 DEF Poll
      <4>6. CASE Requeue
        <5>1. Mine(late, deferred \o inbox)
          BY <3>2, <3>3, MineConcat
        <5> QED BY <1>4, <3>2, <3>4, <4>6, <5>1 DEF Past, Requeue, Requeued, Ends
      <4>7. Drops \/ BusDrain \/ Apply \/ Pick \/ (\E c \in BOOLEAN : Poll(c)) \/ Requeue
        BY DEF Own, Drops
      <4> QED BY <4>1, <4>2, <4>3, <4>4, <4>5, <4>6, <4>7
    <3>6. OwnBut(late)'
      BY <1>1, <3>1, <3>l, <3>5 DEF Mine, OwnBut
    <3> QED BY <3>6
  <2> QED BY <2>1, <2>2, <2>3
<1> QED BY <1>1, <1>3, <1>4 DEF Fresh

\* Every step keeps a run to its own commands.
LEMMA FreshNext == Typed /\ Typed' /\ Fresh /\ [Next]_vars => Fresh'
<1> SUFFICES ASSUME Typed, Typed', Fresh, [Next]_vars PROVE Fresh'
  OBVIOUS
<1>1. CASE UNCHANGED vars
  BY <1>1 DEF vars, busVars, procVars, Fresh, Past, OwnBut, Mine
<1> QED BY <1>1, Steps, SendFresh, SenderFresh, OwnFresh

\* Pieces of a run's commands make a pipeline of them.
LEMMA PipelineMine ==
  ASSUME Typed, Ordered, Fresh
  PROVE  OnlyTheLateAreStale
<1> SUFFICES ASSUME Past, NEW i \in 1 .. Len(Pipeline), NEW j \in 1 .. Len(Pipeline),
                    log[Pipeline[i]].run # run, log[Pipeline[j]].run # run
             PROVE  i = j /\ "slow" \in SendFaults
  BY DEF OnlyTheLateAreStale, Past
<1>1. /\ delivered \in Seq(Nat) /\ pending \in Seq(Nat) /\ batch \in Seq(Nat)
      /\ deferred \in Seq(Nat) /\ inbox \in Seq(Nat)
  BY Numbers DEF Typed
<1>l. PICK late \in Nat : OwnBut(late)
  BY DEF Fresh
<1>2. /\ Mine(late, delivered) /\ Mine(late, pending) /\ Mine(late, batch)
      /\ Mine(late, deferred) /\ Mine(late, inbox)
  BY <1>l DEF OwnBut
<1> DEFINE s == delivered \o pending
           t == s \o batch
           u == t \o deferred
<1>3. s \in Seq(Nat) /\ Mine(late, s)
  BY <1>1, <1>2, MineConcat
<1> HIDE DEF s
<1>4. t \in Seq(Nat) /\ Mine(late, t)
  BY <1>1, <1>2, <1>3, MineConcat
<1> HIDE DEF t
<1>5. u \in Seq(Nat) /\ Mine(late, u)
  BY <1>1, <1>2, <1>4, MineConcat
<1> HIDE DEF u
<1>6. u \o inbox \in Seq(Nat) /\ Mine(late, u \o inbox)
  BY <1>1, <1>2, <1>5, MineConcat
<1>7. Pipeline = u \o inbox
  BY DEF Pipeline, u, t, s
<1>8. Pipeline \in Seq(Nat) /\ Mine(late, Pipeline)
  BY <1>6, <1>7
<1>9. Pipeline[i] = late /\ Pipeline[j] = late
  BY <1>8 DEF Mine
<1>10. i = j
  <2>1. InSendOrder
    BY PipelineUp
  <2>2. ~(Pipeline[i] < Pipeline[j]) /\ ~(Pipeline[j] < Pipeline[i])
    BY <1>9
  <2>3. ~(i < j) /\ ~(j < i)
    BY <2>1, <2>2 DEF InSendOrder
  <2> QED BY <2>3
<1>11. late # 0
  <2>1. /\ delivered \in Seq(Place) /\ pending \in Seq(Place) /\ batch \in Seq(Place)
        /\ deferred \in Seq(Place) /\ inbox \in Seq(Place)
    BY DEF Typed, TypeOK
  <2>2. Pipeline \in Seq(Place)
    BY <2>1 DEF Pipeline
  <2>3. Pipeline[i] \in Place
    BY <2>2
  <2> QED BY <1>9, <2>3 DEF Place
<1> QED BY <1>l, <1>10, <1>11 DEF OwnBut

------------------------------------------------------------------------------
(* The theorems.                                                             *)

\* The state keeps its shape: what the run holds was sent, and only the phase that works on a
\* piece of it holds any.
THEOREM TypeCorrect == Spec => []TypeOK
<1>1. Typed => TypeOK
  BY DEF Typed
<1> QED BY <1>1, TypedInit, TypedNext, PTL DEF Spec

\* Commands are worked on in the order they were sent and none twice, whatever the bounds:
\* drains, pauses, rate-limit waits, requeues, crashes and restarts included.
THEOREM SendOrderKept == Spec => []InSendOrder
<1> QED BY TypedInit, TypedNext, OrderedInit, OrderedNext, PipelineUp, PTL DEF Spec

\* A run past its purge holds at most one command of an earlier run, and only one that was being written
\* when the bus was purged.
THEOREM PurgeLeavesTheLate == Spec => []OnlyTheLateAreStale
<1>1. Typed /\ Fresh /\ [Next]_vars => Typed' /\ Fresh'
  BY TypedNext, FreshNext
<1> QED BY <1>1, TypedInit, FreshInit, OrderedInit, OrderedNext, PipelineMine, PTL DEF Spec
=============================================================================
