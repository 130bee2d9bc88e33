------------------------------- MODULE Lemmas -------------------------------
(***************************************************************************)
(* Facts about numbers and sequences that the proofs of several components *)
(* need and the library does not state.                                    *)
(*                                                                         *)
(* Every set of natural numbers has a least element: this is induction     *)
(* without an operator as a parameter.  A fact about all n is proved of    *)
(* the least n for which it fails.                                         *)
(***************************************************************************)
EXTENDS Integers, Sequences, FiniteSets, FiniteSetTheorems, SequenceTheorems,
        SequencesExt, TLAPS

(* The sets 0..m are finite, and strict inclusion of finite sets is        *)
(* well founded.                                                           *)
LEMMA LeastNat ==
  ASSUME NEW T, T \subseteq Nat, T # {}
  PROVE  \E x \in T : \A y \in T : x <= y
<1> DEFINE R == StrictSubsetOrdering(Nat)
           F == FiniteSubsetsOf(Nat)
           Below == {0..m : m \in T}
<1>1. IsWellFoundedOn(R, F)
  BY FS_StrictSubsetOrderingWellFounded
<1>2. Below \subseteq F
  <2>1. \A m \in Nat : IsFiniteSet(0..m)
    BY FS_Interval
  <2> QED
    BY <2>1 DEF FiniteSubsetsOf
<1>3. Below # {}
  OBVIOUS
<1> HIDE DEF Below, R, F
<1>4. \E x \in Below : \A y \in Below : ~(<<y, x>> \in R)
  BY <1>1, <1>2, <1>3, WFMin
<1>5. PICK x \in T : \A y \in Below : ~(<<y, 0..x>> \in R)
  BY <1>4 DEF Below
<1>6. ASSUME NEW y \in T, y < x PROVE FALSE
  <2>1. /\ 0..y \subseteq 0..x
        /\ x \in 0..x /\ x \notin 0..y
        /\ <<0..y, 0..x>> \in (SUBSET Nat) \X (SUBSET Nat)
    BY <1>6
  <2>2. <<0..y, 0..x>> \in R
    BY <2>1 DEF R, StrictSubsetOrdering
  <2> QED
    BY <1>5, <2>2 DEF Below
<1> QED
  BY <1>5, <1>6

(* A set of positions has a last one, which is its Max, and a first one,   *)
(* which is its Min.                                                       *)
LEMMA MaxOfPositions ==
  ASSUME NEW n \in Nat, NEW S, S \subseteq 1..n, S # {}
  PROVE  Max(S) \in S /\ \A y \in S : y <= Max(S)
<1> DEFINE T == {n - i : i \in S}
<1>1. T \subseteq Nat /\ T # {}
  OBVIOUS
<1> HIDE DEF T
<1>2. PICK t \in T : \A u \in T : t <= u
  BY <1>1, LeastNat
<1>3. PICK x \in S : t = n - x
  BY <1>2 DEF T
<1>4. ASSUME NEW y \in S PROVE x >= y
  <2>1. n - x <= n - y
    BY <1>2, <1>3 DEF T
  <2> QED
    BY <2>1
<1>5. \E z \in S : \A y \in S : z >= y
  BY <1>4
<1>6. Max(S) \in S /\ \A y \in S : Max(S) >= y
  BY <1>5 DEF Max
<1> QED
  BY <1>6

LEMMA SeqWider ==
  ASSUME NEW S, NEW T, S \subseteq T, NEW s \in Seq(S)
  PROVE  s \in Seq(T)
OBVIOUS

(* FlattenSeq is a recursive function of the number of sequences joined.   *)
IsJoined(f, ss, n) ==
  f = [i \in 1..n |-> IF i = 1 THEN ss[i] ELSE f[i - 1] \o ss[i]]

LEMMA JoinedExists ==
  ASSUME NEW ss, NEW n \in Nat
  PROVE  \E f : IsJoined(f, ss, n)
<1> DEFINE T == {m \in Nat : ~ \E f : IsJoined(f, ss, m)}
<1>1. SUFFICES ASSUME T # {} PROVE FALSE
  OBVIOUS
<1>2. PICK m \in T : \A k \in T : m <= k
  BY <1>1, LeastNat
<1>3. m # 0
  <2>1. IsJoined([i \in 1..0 |-> <<>>], ss, 0)
    BY DEF IsJoined
  <2> QED
    BY <1>2, <2>1
<1>4. PICK g : IsJoined(g, ss, m - 1)
  BY <1>2, <1>3
<1> DEFINE h == [i \in 1..m |-> IF i = 1 THEN ss[i] ELSE g[i - 1] \o ss[i]]
<1>5. ASSUME NEW i \in 1..m, i # 1 PROVE h[i - 1] = g[i - 1]
  <2>1. m \in Nat /\ i - 1 \in 1..m-1 /\ i - 1 \in 1..m
    BY <1>2, <1>5
  <2> QED
    BY <1>4, <2>1 DEF IsJoined
<1>6. h = [i \in 1..m |-> IF i = 1 THEN ss[i] ELSE h[i - 1] \o ss[i]]
  <2> HIDE DEF T
  <2>1. \A i \in 1..m : (IF i = 1 THEN ss[i] ELSE g[i - 1] \o ss[i])
                          = (IF i = 1 THEN ss[i] ELSE h[i - 1] \o ss[i])
    BY <1>5
  <2> QED
    BY <2>1
<1> QED
  BY <1>2, <1>6 DEF IsJoined

LEMMA FlattenIsJoined ==
  ASSUME NEW ss, Len(ss) \in Nat \ {0}
  PROVE  \E f : IsJoined(f, ss, Len(ss)) /\ FlattenSeq(ss) = f[Len(ss)]
<1>1. FlattenSeq(ss) = (CHOOSE f : IsJoined(f, ss, Len(ss)))[Len(ss)]
  BY DEF FlattenSeq, IsJoined
<1>2. \E f : IsJoined(f, ss, Len(ss))
  BY JoinedExists
<1> DEFINE f == CHOOSE f : IsJoined(f, ss, Len(ss))
<1>3. IsJoined(f, ss, Len(ss))
  BY <1>2
<1> QED
  BY <1>1, <1>3

LEMMA JoinedIsSeq ==
  ASSUME NEW S, NEW ss \in Seq(Seq(S)), NEW f, IsJoined(f, ss, Len(ss)), NEW n \in 1..Len(ss)
  PROVE  f[n] \in Seq(S)
<1> DEFINE T == {m \in 1..Len(ss) : f[m] \notin Seq(S)}
<1>1. SUFFICES ASSUME T # {} PROVE FALSE
  OBVIOUS
<1>2. PICK m \in T : \A k \in T : m <= k
  <2>1. T \subseteq Nat
    OBVIOUS
  <2> QED
    BY <1>1, <2>1, LeastNat
<1>3. m \in Nat /\ m \in 1..Len(ss) /\ ss[m] \in Seq(S)
  BY <1>2
<1>4. f[m] = IF m = 1 THEN ss[m] ELSE f[m - 1] \o ss[m]
  BY <1>3 DEF IsJoined
<1>5. m # 1 => m - 1 \in 1..Len(ss) /\ ~(m <= m - 1)
  BY <1>3
<1>6. m # 1 => f[m - 1] \in Seq(S)
  BY <1>2, <1>5
<1>7. f[m] \in Seq(S)
  <2>1. CASE m = 1
    BY <1>3, <1>4, <2>1
  <2>2. CASE m # 1
    <3> DEFINE a == f[m - 1]
               b == ss[m]
    <3>1. a \in Seq(S) /\ b \in Seq(S) /\ f[m] = a \o b
      BY <1>3, <1>4, <1>6, <2>2
    <3> HIDE DEF a, b
    <3> QED
      BY <3>1
  <2> QED
    BY <2>1, <2>2
<1> QED
  BY <1>2, <1>7

(* Joining one sequence more.                                              *)
LEMMA FlattenAppend ==
  ASSUME NEW S, NEW ss \in Seq(Seq(S)), NEW x \in Seq(S)
  PROVE  /\ FlattenSeq(ss) \in Seq(S)
         /\ FlattenSeq(Append(ss, x)) = FlattenSeq(ss) \o x
<1> DEFINE tt == Append(ss, x)
           n == Len(ss)
<1>1. /\ n \in Nat /\ tt \in Seq(Seq(S)) /\ Len(tt) = n + 1 /\ tt[n + 1] = x
      /\ \A i \in 1..n : tt[i] = ss[i]
  OBVIOUS
<1>2. PICK g : IsJoined(g, tt, n + 1) /\ FlattenSeq(tt) = g[n + 1]
  <2>1. Len(tt) \in Nat \ {0}
    BY <1>1
  <2> HIDE DEF tt
  <2> QED
    BY <1>1, <2>1, FlattenIsJoined
<1> HIDE DEF tt, n
<1>3. CASE n = 0
  <2>1. FlattenSeq(ss) = ss /\ ss = <<>>
    BY <1>3 DEF FlattenSeq, n
  <2>2. 1 \in 1..n+1 /\ n + 1 = 1
    BY <1>3
  <2>3. g[1] = tt[1]
    BY <1>2, <2>2 DEF IsJoined
  <2>4. g[n + 1] = x
    BY <1>1, <2>2, <2>3
  <2>5. <<>> \o x = x
    OBVIOUS
  <2> QED
    BY <1>2, <2>1, <2>4, <2>5 DEF tt
<1>4. CASE n # 0
  <2>1. PICK f : IsJoined(f, ss, n) /\ FlattenSeq(ss) = f[n]
    BY <1>1, <1>4, FlattenIsJoined DEF n
  <2>2. \A i \in 1..n : f[i] = g[i]
    <3> DEFINE T == {m \in 1..n : f[m] # g[m]}
    <3>1. SUFFICES ASSUME T # {} PROVE FALSE
      OBVIOUS
    <3>2. PICK m \in T : \A k \in T : m <= k
      <4>1. T \subseteq Nat
        OBVIOUS
      <4> QED
        BY <3>1, <4>1, LeastNat
    <3>3. m \in 1..n /\ m \in 1..n+1 /\ tt[m] = ss[m] /\ m \in Nat
      BY <1>1, <3>2
    <3>4. /\ f[m] = IF m = 1 THEN ss[m] ELSE f[m - 1] \o ss[m]
          /\ g[m] = IF m = 1 THEN tt[m] ELSE g[m - 1] \o tt[m]
      BY <1>2, <2>1, <3>3 DEF IsJoined
    <3>5. m # 1 => m - 1 \in 1..n /\ ~(m <= m - 1)
      BY <1>1, <3>3
    <3>6. m # 1 => f[m - 1] = g[m - 1]
      BY <3>2, <3>5
    <3> QED
      BY <3>2, <3>3, <3>4, <3>6
  <2>3. n + 1 \in 1..n+1 /\ n \in 1..n /\ (n + 1) - 1 = n /\ n + 1 # 1
    BY <1>1, <1>4
  <2>4. g[n + 1] = g[n] \o x
    BY <1>1, <1>2, <2>3 DEF IsJoined
  <2>5. f[n] \in Seq(S)
    BY <2>1, <2>3, JoinedIsSeq DEF n
  <2> QED
    BY <1>2, <2>1, <2>2, <2>3, <2>4, <2>5 DEF tt
<1> QED
  BY <1>3, <1>4

LEMMA FlattenEmpty == FlattenSeq(<<>>) = <<>>
BY DEF FlattenSeq

(* Appending to a sequence, and joining sequences one element at a time.   *)
LEMMA ConcatAppend ==
  ASSUME NEW S, NEW s \in Seq(S), NEW t \in Seq(S), NEW x \in S
  PROVE  /\ s \o <<>> = s
         /\ s \o <<x>> = Append(s, x)
         /\ s \o Append(t, x) = Append(s \o t, x)
<1>1. s \o <<>> = s
  OBVIOUS
<1>2. s \o <<x>> = Append(s, x)
  OBVIOUS
<1>3. s \o Append(t, x) = Append(s \o t, x)
  <2> DEFINE u == s \o Append(t, x)
             v == Append(s \o t, x)
  <2>1. /\ Append(t, x) \in Seq(S) /\ Len(Append(t, x)) = Len(t) + 1
        /\ Append(t, x)[Len(t) + 1] = x /\ \A i \in 1..Len(t) : Append(t, x)[i] = t[i]
    OBVIOUS
  <2>2. /\ s \o t \in Seq(S) /\ Len(s \o t) = Len(s) + Len(t)
        /\ \A i \in 1..Len(s) : (s \o t)[i] = s[i]
        /\ \A i \in 1..Len(t) : (s \o t)[Len(s) + i] = t[i]
    OBVIOUS
  <2>3. /\ u \in Seq(S) /\ Len(u) = Len(s) + Len(t) + 1
        /\ \A i \in 1..Len(s) : u[i] = s[i]
        /\ \A i \in 1..Len(t) + 1 : u[Len(s) + i] = Append(t, x)[i]
    BY <2>1
  <2>4. /\ v \in Seq(S) /\ Len(v) = Len(s) + Len(t) + 1
        /\ \A i \in 1..Len(s) + Len(t) : v[i] = (s \o t)[i]
        /\ v[Len(s) + Len(t) + 1] = x
    BY <2>2
  <2>5. Len(s) \in Nat /\ Len(t) \in Nat
    OBVIOUS
  <2> HIDE DEF u, v
  <2>6. ASSUME NEW i \in 1..Len(u) PROVE u[i] = v[i]
    <3>1. CASE i \in 1..Len(s)
      <4>1. i \in 1..Len(s) + Len(t)
        BY <2>5, <3>1
      <4> QED
        BY <2>2, <2>3, <2>4, <3>1, <4>1
    <3>2. CASE i \notin 1..Len(s)
      <4>1. i - Len(s) \in 1..Len(t) + 1 /\ i = Len(s) + (i - Len(s))
        BY <2>3, <2>5, <3>2
      <4>2. u[i] = Append(t, x)[i - Len(s)]
        BY <2>3, <4>1
      <4>3. CASE i - Len(s) \in 1..Len(t)
        <5>1. u[i] = t[i - Len(s)]
          BY <2>1, <4>2, <4>3
        <5>2. i \in 1..Len(s) + Len(t) /\ (s \o t)[i] = t[i - Len(s)]
          BY <2>2, <2>5, <4>1, <4>3
        <5> QED
          BY <2>4, <5>1, <5>2
      <4>4. CASE i - Len(s) = Len(t) + 1
        <5>1. i = Len(s) + Len(t) + 1
          BY <2>5, <4>1, <4>4
        <5> QED
          BY <2>1, <2>4, <4>2, <4>4, <5>1
      <4> QED
        BY <2>5, <4>1, <4>3, <4>4
    <3> QED
      BY <3>1, <3>2
  <2>7. u = v
    BY <2>3, <2>4, <2>6, SeqEqual
  <2> QED
    BY <2>7 DEF u, v
<1> QED
  BY <1>1, <1>2, <1>3

(* The two parts of a concatenation.                                       *)
LEMMA ConcatParts ==
  ASSUME NEW S, NEW s \in Seq(S), NEW t \in Seq(S)
  PROVE  /\ s \o t \in Seq(S) /\ Len(s \o t) = Len(s) + Len(t)
         /\ \A i \in 1..Len(s) : (s \o t)[i] = s[i]
         /\ \A i \in 1..Len(t) : (s \o t)[Len(s) + i] = t[i]
OBVIOUS

LEMMA PrefixConcat ==
  ASSUME NEW S, NEW s \in Seq(S), NEW t \in Seq(S)
  PROVE  IsPrefix(s, s \o t) /\ IsPrefix(s, s)
<1> DEFINE u == s \o t
<1>1. /\ u \in Seq(S) /\ Len(u) = Len(s) + Len(t) /\ Len(s) \in Nat /\ Len(t) \in Nat
      /\ \A i \in 1..Len(s) : u[i] = s[i]
  BY ConcatParts
<1> HIDE DEF u
<1>2. Len(s) <= Len(u)
  BY <1>1
<1>3. SubSeq(s, 1, Len(s)) = SubSeq(u, 1, Len(s))
  <2> DEFINE a == SubSeq(s, 1, Len(s))
             b == SubSeq(u, 1, Len(s))
  <2>1. a \in Seq(S) /\ Len(a) = Len(s) /\ \A i \in 1..Len(s) : a[i] = s[i]
    OBVIOUS
  <2>2. b \in Seq(S) /\ Len(b) = Len(s) /\ \A i \in 1..Len(s) : b[i] = u[i]
    BY <1>1
  <2> HIDE DEF a, b
  <2>3. a = b
    BY <1>1, <2>1, <2>2, SeqEqual
  <2> QED
    BY <2>3 DEF a, b
<1>4. IsPrefix(s, u) /\ IsPrefix(s, s)
  BY <1>1, <1>2, <1>3 DEF IsPrefix
<1> QED
  BY <1>4 DEF u
=============================================================================
