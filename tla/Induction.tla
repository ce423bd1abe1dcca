------------------------------ MODULE Induction ------------------------------
(***************************************************************************)
(* The principle behind every induction in the proofs, and what it gives   *)
(* for a selection from a sequence.                                        *)
(***************************************************************************)
EXTENDS Integers, SequencesExt, Selection, SequenceTheorems, FiniteSetTheorems,
        WellFoundedInduction, TLAPS

\* A set of natural numbers that is not empty has a least element.
THEOREM NatHasLeast ==
    ASSUME NEW I \in SUBSET Nat, I # {}
    PROVE  \E i \in I : \A j \in I : i <= j
<1> DEFINE T == {1 .. i : i \in I}
<1>1. T \subseteq FiniteSubsetsOf(Nat) /\ T # {}
  <2>1. ASSUME NEW i \in I PROVE 1 .. i \in FiniteSubsetsOf(Nat)
    <3>1. IsFiniteSet(1 .. i)
      BY FS_Interval
    <3> QED
      BY <3>1 DEF FiniteSubsetsOf
  <2> QED
    BY <2>1
<1>2. IsWellFoundedOn(StrictSubsetOrdering(Nat), FiniteSubsetsOf(Nat))
  BY FS_StrictSubsetOrderingWellFounded
<1>3. PICK X \in T : \A Y \in T : ~(<<Y, X>> \in StrictSubsetOrdering(Nat))
  <2> HIDE DEF T
  <2> QED BY <1>1, <1>2, WFMin
<1>4. PICK i \in I : X = 1 .. i
  OBVIOUS
<1>5. \A j \in I : i <= j
  <2> SUFFICES ASSUME NEW j \in I, j < i PROVE FALSE
    OBVIOUS
  <2>1. 1 .. j \subseteq 1 .. i /\ i \in 1 .. i /\ i \notin 1 .. j
    OBVIOUS
  <2>2. 1 .. j \in SUBSET Nat /\ 1 .. i \in SUBSET Nat
    OBVIOUS
  <2>3. <<1 .. j, 1 .. i>> \in StrictSubsetOrdering(Nat)
    BY <2>1, <2>2 DEF StrictSubsetOrdering
  <2> QED
    BY <1>3, <1>4, <2>3
<1> QED
  BY <1>5

\* A sequence is one of its own elements.
LEMMA SeqToSet ==
    ASSUME NEW S, NEW s \in Seq(S)
    PROVE  s \in Seq(ToSet(s))
<1>1. Len(s) \in Nat /\ s \in [1 .. Len(s) -> S] /\ DOMAIN s = 1 .. Len(s)
  BY LenProperties
<1>2. s \in [1 .. Len(s) -> ToSet(s)]
  BY <1>1 DEF ToSet
<1> QED
  BY <1>1, <1>2, SeqDef

\* The places of r, which is p and then q.
JoinPlaces(r, p, q) ==
    /\ Len(p) \in Nat /\ Len(q) \in Nat /\ Len(r) = Len(p) + Len(q)
    /\ DOMAIN p = 1 .. Len(p) /\ DOMAIN q = 1 .. Len(q) /\ DOMAIN r = 1 .. Len(p) + Len(q)
    /\ \A i \in 1 .. Len(p) : i \in 1 .. Len(p) + Len(q) /\ r[i] = p[i]
    /\ \A i \in 1 .. Len(q) : Len(p) + i \in 1 .. Len(p) + Len(q) /\ r[Len(p) + i] = q[i]
    /\ \A k \in 1 .. Len(p) + Len(q) : k \in 1 .. Len(p) \/ \E i \in 1 .. Len(q) : k = Len(p) + i

LEMMA ConcatPlaces ==
    ASSUME NEW S, NEW p \in Seq(S), NEW q \in Seq(S), NEW r, r = p \o q
    PROVE  r \in Seq(S) /\ JoinPlaces(r, p, q)
<1>1. /\ Len(p) \in Nat /\ DOMAIN p = 1 .. Len(p)
      /\ Len(q) \in Nat /\ DOMAIN q = 1 .. Len(q)
  BY LenProperties
<1>2. /\ r \in Seq(S) /\ Len(r) = Len(p) + Len(q)
      /\ \A i \in 1 .. Len(p) + Len(q) : r[i] = IF i <= Len(p) THEN p[i] ELSE q[i - Len(p)]
  BY ConcatProperties
<1>3. DOMAIN r = 1 .. Len(p) + Len(q)
  BY <1>2, LenProperties
<1> DEFINE m == Len(p)
           n == Len(q)
<1>4. m \in Nat /\ n \in Nat
  BY <1>1
<1>5. /\ DOMAIN p = 1 .. m /\ DOMAIN q = 1 .. n /\ DOMAIN r = 1 .. m + n
      /\ \A i \in 1 .. m + n : r[i] = IF i <= m THEN p[i] ELSE q[i - m]
  BY <1>1, <1>2, <1>3
<1> HIDE DEF m, n
<1>6. \A i \in 1 .. m : i \in 1 .. m + n /\ r[i] = p[i]
  BY <1>4, <1>5
<1>7. \A i \in 1 .. n : m + i \in 1 .. m + n /\ r[m + i] = q[i]
  <2> SUFFICES ASSUME NEW i \in 1 .. n PROVE m + i \in 1 .. m + n /\ r[m + i] = q[i]
    OBVIOUS
  <2>1. m + i \in 1 .. m + n /\ ~(m + i <= m) /\ (m + i) - m = i
    BY <1>4
  <2> QED
    BY <1>5, <2>1
<1>8. \A k \in 1 .. m + n : k \in 1 .. m \/ \E i \in 1 .. n : k = m + i
  <2> SUFFICES ASSUME NEW k \in 1 .. m + n, k \notin 1 .. m PROVE \E i \in 1 .. n : k = m + i
    OBVIOUS
  <2> DEFINE i == k - m
  <2>1. k \in Int /\ 1 <= k /\ k <= m + n /\ ~(k <= m)
    BY <1>4
  <2>2. i \in 1 .. n /\ k = m + i
    BY <1>4, <2>1
  <2> HIDE DEF i
  <2> QED
    BY <2>2
<1> QED
  BY <1>1, <1>2, <1>3, <1>6, <1>7, <1>8 DEF m, n, JoinPlaces

LEMMA ConcatSet ==
    ASSUME NEW S, NEW p \in Seq(S), NEW q \in Seq(S)
    PROVE  ToSet(p \o q) = ToSet(p) \cup ToSet(q)
<1> DEFINE r == p \o q
           m == Len(p)
           n == Len(q)
<1>1. /\ r \in Seq(S) /\ DOMAIN p = 1 .. m /\ DOMAIN q = 1 .. n /\ DOMAIN r = 1 .. m + n
      /\ \A i \in 1 .. m : i \in 1 .. m + n /\ r[i] = p[i]
      /\ \A i \in 1 .. n : m + i \in 1 .. m + n /\ r[m + i] = q[i]
      /\ \A k \in 1 .. m + n : k \in 1 .. m \/ \E i \in 1 .. n : k = m + i
  <2>1. p \o q \in Seq(S) /\ JoinPlaces(p \o q, p, q)
    BY ConcatPlaces
  <2> QED
    BY <2>1 DEF JoinPlaces
<1> HIDE DEF r, m, n
<1>2. ToSet(p) = {p[i] : i \in 1 .. m} /\ ToSet(q) = {q[i] : i \in 1 .. n}
      /\ ToSet(r) = {r[i] : i \in 1 .. m + n}
  BY <1>1 DEF ToSet
<1>3. ASSUME NEW k \in 1 .. m + n PROVE r[k] \in ToSet(p) \cup ToSet(q)
  <2>1. CASE k \in 1 .. m
    BY <1>1, <1>2, <2>1
  <2>2. CASE k \notin 1 .. m
    <3>1. PICK i \in 1 .. n : k = m + i
      BY <1>1, <2>2
    <3> QED
      BY <1>1, <1>2, <3>1
  <2> QED
    BY <2>1, <2>2
<1>4. \A x \in ToSet(p) : x \in ToSet(r)
  BY <1>1, <1>2
<1>5. \A x \in ToSet(q) : x \in ToSet(r)
  BY <1>1, <1>2
<1>6. ToSet(r) \subseteq ToSet(p) \cup ToSet(q)
  BY <1>2, <1>3
<1> QED
  BY <1>4, <1>5, <1>6 DEF r

LEMMA ConcatInjective ==
    ASSUME NEW S, NEW p \in Seq(S), NEW q \in Seq(S), IsInjective(p), IsInjective(q),
           ToSet(p) \cap ToSet(q) = {}
    PROVE  IsInjective(p \o q)
<1> DEFINE r == p \o q
           m == Len(p)
           n == Len(q)
<1>1. /\ r \in Seq(S) /\ DOMAIN p = 1 .. m /\ DOMAIN q = 1 .. n /\ DOMAIN r = 1 .. m + n
      /\ \A i \in 1 .. m : i \in 1 .. m + n /\ r[i] = p[i]
      /\ \A i \in 1 .. n : m + i \in 1 .. m + n /\ r[m + i] = q[i]
      /\ \A k \in 1 .. m + n : k \in 1 .. m \/ \E i \in 1 .. n : k = m + i
  <2>1. p \o q \in Seq(S) /\ JoinPlaces(p \o q, p, q)
    BY ConcatPlaces
  <2> QED
    BY <2>1 DEF JoinPlaces
<1> HIDE DEF r, m, n
<1>2. \A i, j \in 1 .. m : p[i] = p[j] => i = j
  BY <1>1 DEF IsInjective
<1>3. \A i, j \in 1 .. n : q[i] = q[j] => i = j
  BY <1>1 DEF IsInjective
<1>4. \A i \in 1 .. m : \A j \in 1 .. n : p[i] # q[j]
  BY <1>1 DEF ToSet
<1>5. ASSUME NEW i \in 1 .. m + n, NEW j \in 1 .. m + n, r[i] = r[j] PROVE i = j
  <2>1. CASE i \in 1 .. m /\ j \in 1 .. m
    BY <1>1, <1>2, <1>5, <2>1
  <2>2. CASE i \notin 1 .. m /\ j \notin 1 .. m
    <3>1. PICK a \in 1 .. n : i = m + a
      BY <1>1, <2>2
    <3>2. PICK c \in 1 .. n : j = m + c
      BY <1>1, <2>2
    <3>3. q[a] = q[c]
      BY <1>1, <1>5, <3>1, <3>2
    <3> QED
      BY <1>3, <3>1, <3>2, <3>3
  <2>3. ASSUME NEW a \in 1 .. m, NEW c \in 1 .. m + n, c \notin 1 .. m PROVE r[a] # r[c]
    <3>1. PICK d \in 1 .. n : c = m + d
      BY <1>1, <2>3
    <3> QED
      BY <1>1, <1>4, <3>1
  <2> QED
    BY <1>5, <2>1, <2>2, <2>3
<1> QED
  <2>1. IsInjective(r)
    BY <1>1, <1>5 DEF IsInjective
  <2> QED
    BY <2>1 DEF r

LEMMA ConcatFacts ==
    ASSUME NEW S, NEW p \in Seq(S), NEW q \in Seq(S), NEW r, r = p \o q
    PROVE  /\ r \in Seq(S) /\ Len(p) \in Nat /\ Len(q) \in Nat
           /\ Len(r) = Len(p) + Len(q)
           /\ \A i \in 1 .. Len(p) : r[i] = p[i]
           /\ \A i \in 1 .. Len(q) : r[Len(p) + i] = q[i]
BY ConcatPlaces DEF JoinPlaces

LEMMA ConcatHeadTail ==
    ASSUME NEW S, NEW p \in Seq(S), NEW q \in Seq(S), p # <<>>
    PROVE  p \o q # <<>> /\ Head(p \o q) = Head(p) /\ Tail(p \o q) = Tail(p) \o q
<1> DEFINE m == Len(p)
           n == Len(q)
           r == p \o q
           t == Tail(p) \o q
<1>1. /\ m \in Nat /\ m # 0 /\ Head(p) = p[1] /\ Tail(p) \in Seq(S) /\ Len(Tail(p)) = m - 1
      /\ \A i \in 1 .. Len(Tail(p)) : Tail(p)[i] = p[i + 1]
  BY LenProperties, EmptySeq, HeadTailProperties
<1>2. r \in Seq(S) /\ JoinPlaces(r, p, q) /\ t \in Seq(S) /\ JoinPlaces(t, Tail(p), q)
  BY <1>1, ConcatPlaces
<1> HIDE DEF r, t
<1>3. /\ n \in Nat /\ Len(r) = m + n /\ Len(t) = (m - 1) + n
      /\ \A i \in 1 .. m : r[i] = p[i]
      /\ \A j \in 1 .. n : r[m + j] = q[j]
      /\ \A i \in 1 .. m - 1 : t[i] = p[i + 1]
      /\ \A j \in 1 .. n : t[(m - 1) + j] = q[j]
      /\ \A k \in 1 .. (m - 1) + n : k \in 1 .. m - 1 \/ \E j \in 1 .. n : k = (m - 1) + j
  BY <1>1, <1>2 DEF JoinPlaces
<1> HIDE DEF m, n
<1>4. r # <<>> /\ Head(r) = Head(p)
  <2>1. Len(r) # 0 /\ 1 \in 1 .. m
    BY <1>1, <1>3
  <2>2. r # <<>>
    BY <1>2, <2>1, EmptySeq
  <2>3. Head(r) = r[1]
    BY <1>2, <2>2, HeadTailProperties
  <2> QED
    BY <1>1, <1>3, <2>1, <2>2, <2>3
<1>5. /\ Tail(r) \in Seq(S) /\ Len(Tail(r)) = Len(r) - 1
      /\ \A i \in 1 .. Len(Tail(r)) : Tail(r)[i] = r[i + 1]
  BY <1>2, <1>4, HeadTailProperties
<1>6. Len(Tail(r)) = (m - 1) + n
  BY <1>1, <1>3, <1>5
<1>7. ASSUME NEW k \in 1 .. (m - 1) + n PROVE Tail(r)[k] = t[k]
  <2>1. Tail(r)[k] = r[k + 1]
    BY <1>5, <1>6
  <2>2. CASE k \in 1 .. m - 1
    <3>1. k + 1 \in 1 .. m
      BY <1>1, <2>2
    <3> QED
      BY <1>3, <2>1, <2>2, <3>1
  <2>3. CASE k \notin 1 .. m - 1
    <3>1. PICK j \in 1 .. n : k = (m - 1) + j
      BY <1>3, <2>3
    <3>2. k + 1 = m + j
      BY <1>1, <3>1
    <3>3. r[m + j] = q[j] /\ t[(m - 1) + j] = q[j]
      BY <1>3
    <3> QED
      BY <2>1, <3>1, <3>2, <3>3
  <2> QED
    BY <2>2, <2>3
<1>8. Tail(r) = t
  BY <1>2, <1>3, <1>5, <1>6, <1>7, SeqEqual
<1> QED
  BY <1>4, <1>8 DEF r, t

\* What Selected in the definition of SelectIn is.
Step(F, s, S, n) ==
    IF n = 0 THEN <<>>
    ELSE IF s[n] \in S THEN Append(F[n - 1], s[n]) ELSE F[n - 1]
Selected(s, S) == CHOOSE F : F = [n \in 0 .. Len(s) |-> Step(F, s, S, n)]

LEMMA SelectInSelected ==
    ASSUME NEW s, NEW S
    PROVE  SelectIn(s, S) = Selected(s, S)[Len(s)]
BY DEF SelectIn, Selected, Step

LEMMA SelectedDefined ==
    ASSUME NEW s, NEW S, Len(s) \in Nat
    PROVE  /\ Selected(s, S)[0] = <<>>
           /\ \A n \in 1 .. Len(s) :
                 Selected(s, S)[n] = IF s[n] \in S THEN Append(Selected(s, S)[n - 1], s[n])
                                     ELSE Selected(s, S)[n - 1]
<1> DEFINE IsUpTo(n, F) == F = [i \in 0 .. n |-> Step(F, s, S, i)]
           Bad == {n \in 0 .. Len(s) : ~ \E F : IsUpTo(n, F)}
<1>1. Bad = {}
  <2> SUFFICES ASSUME Bad # {} PROVE FALSE
    OBVIOUS
  <2>1. PICK n \in Bad : \A m \in Bad : n <= m
    <3>1. Bad \in SUBSET Nat
      OBVIOUS
    <3> HIDE DEF Bad
    <3> QED
      BY <3>1, NatHasLeast
  <2>2. CASE n = 0
    <3>1. IsUpTo(0, [i \in 0 .. 0 |-> <<>>])
      BY DEF Step
    <3> QED
      BY <3>1, <2>1, <2>2
  <2>3. CASE n # 0
    <3>1. n \in 1 .. Len(s) /\ n - 1 \in 0 .. Len(s) /\ n - 1 \notin Bad
      BY <2>1, <2>3
    <3>2. PICK F : IsUpTo(n - 1, F)
      BY <3>1
    <3> DEFINE G == [i \in 0 .. n |-> IF i = n THEN Step(F, s, S, n) ELSE F[i]]
    <3>3. \A i \in 0 .. n : G[i] = Step(G, s, S, i)
      <4> SUFFICES ASSUME NEW i \in 0 .. n PROVE G[i] = Step(G, s, S, i)
        OBVIOUS
      <4>1. n \in Nat /\ i \in Nat /\ i <= n /\ n <= Len(s)
        BY <3>1
      <4>2. i # 0 => i - 1 \in 0 .. n /\ i - 1 # n
        BY <4>1
      <4>3. i # 0 => G[i - 1] = F[i - 1]
        BY <4>2
      <4>4. G[i] = IF i = n THEN Step(F, s, S, n) ELSE F[i]
        OBVIOUS
      <4>5. i # n => F[i] = Step(F, s, S, i)
        <5>1. i # n => i \in 0 .. n - 1
          BY <4>1
        <5> QED
          BY <5>1, <3>2
      <4> HIDE DEF G
      <4> QED
        BY <4>3, <4>4, <4>5 DEF Step
    <3>4. IsUpTo(n, G)
      <4>1. G = [i \in 0 .. n |-> G[i]]
        OBVIOUS
      <4> HIDE DEF G
      <4> QED
        BY <4>1, <3>3
    <3> QED
      BY <3>4, <2>1
  <2> QED
    BY <2>2, <2>3
<1>2. \E F : IsUpTo(Len(s), F)
  BY <1>1
<1>3. Selected(s, S) = [n \in 0 .. Len(s) |-> Step(Selected(s, S), s, S, n)]
  BY <1>2 DEF Selected
<1>4. \A n \in 0 .. Len(s) : Selected(s, S)[n] = Step(Selected(s, S), s, S, n)
  BY <1>3
<1>5. 0 \in 0 .. Len(s) /\ \A n \in 1 .. Len(s) : n \in 0 .. Len(s) /\ n # 0
  OBVIOUS
<1> QED
  BY <1>4, <1>5 DEF Step

\* A selection has the elements of s that are in S, and each once if s has.
LEMMA SelectInFacts ==
    ASSUME NEW T, NEW s \in Seq(T), NEW S
    PROVE  /\ SelectIn(s, S) \in Seq(T)
           /\ ToSet(SelectIn(s, S)) = ToSet(s) \cap S
           /\ IsInjective(s) => IsInjective(SelectIn(s, S))
<1> DEFINE F == Selected(s, S)
           Upto(n) == {s[i] : i \in 1 .. n}
           Good(n) == /\ F[n] \in Seq(T)
                      /\ ToSet(F[n]) = Upto(n) \cap S
                      /\ IsInjective(s) => IsInjective(F[n])
           Bad == {n \in 0 .. Len(s) : ~Good(n)}
<1>1. Len(s) \in Nat /\ DOMAIN s = 1 .. Len(s) /\ \A i \in 1 .. Len(s) : s[i] \in T
  BY LenProperties, ElementOfSeq
<1>2. /\ F[0] = <<>>
      /\ \A n \in 1 .. Len(s) :
            F[n] = IF s[n] \in S THEN Append(F[n - 1], s[n]) ELSE F[n - 1]
  BY <1>1, SelectedDefined
<1> HIDE DEF F
<1>3. Good(0)
  <2>1. F[0] \in Seq(T) /\ ToSet(F[0]) = {} /\ IsInjective(F[0])
    BY <1>2 DEF ToSet, IsInjective
  <2>2. Upto(0) = {}
    OBVIOUS
  <2> QED
    BY <2>1, <2>2
<1>4. ASSUME NEW n \in 1 .. Len(s), Good(n - 1) PROVE Good(n)
  <2> DEFINE p == F[n - 1]
             e == s[n]
  <2>1. /\ p \in Seq(T) /\ ToSet(p) = Upto(n - 1) \cap S
        /\ IsInjective(s) => IsInjective(p)
    BY <1>4
  <2>2. e \in T /\ Upto(n) = Upto(n - 1) \cup {e}
    <3>1. 1 .. n = 1 .. (n - 1) \cup {n}
      BY <1>1
    <3> QED
      BY <3>1, <1>1
  <2>3. CASE e \notin S
    <3>1. F[n] = p
      BY <2>3, <1>2
    <3> HIDE DEF p, e, Upto
    <3> QED
      BY <3>1, <2>1, <2>2, <2>3
  <2>4. CASE e \in S
    <3>1. F[n] = Append(p, e)
      BY <2>4, <1>2
    <3>2. IsInjective(s) => e \notin Upto(n - 1)
      <4> SUFFICES ASSUME IsInjective(s), NEW i \in 1 .. (n - 1), s[i] = s[n] PROVE FALSE
        OBVIOUS
      <4>1. i \in 1 .. Len(s) /\ i # n
        BY <1>1
      <4> QED
        BY <4>1, <1>1 DEF IsInjective
    <3> HIDE DEF p, e, Upto
    <3>3. /\ F[n] \in Seq(T) /\ Len(F[n]) = Len(p) + 1
          /\ \A i \in 1 .. Len(p) : F[n][i] = p[i]
          /\ F[n][Len(p) + 1] = e
      BY <3>1, <2>1, <2>2, AppendProperties
    <3>4. /\ Len(p) \in Nat /\ DOMAIN p = 1 .. Len(p)
          /\ DOMAIN F[n] = 1 .. (Len(p) + 1)
      BY <3>3, <2>1, LenProperties
    <3>5. 1 .. (Len(p) + 1) = 1 .. Len(p) \cup {Len(p) + 1}
      BY <3>4
    <3>6. ToSet(F[n]) = ToSet(p) \cup {e}
      BY <3>3, <3>4, <3>5 DEF ToSet
    <3>7. IsInjective(s) => IsInjective(F[n])
      <4> SUFFICES ASSUME IsInjective(s), NEW i \in DOMAIN F[n], NEW j \in DOMAIN F[n],
                          F[n][i] = F[n][j]
                   PROVE  i = j
        BY DEF IsInjective
      <4>1. e \notin ToSet(p)
        BY <3>2, <2>1
      <4>2. \A k \in 1 .. Len(p) : F[n][k] # e
        BY <4>1, <3>3, <3>4 DEF ToSet
      <4> QED
        BY <4>2, <3>3, <3>4, <3>5, <2>1 DEF IsInjective
    <3> QED
      BY <3>3, <3>6, <3>7, <2>1, <2>2, <2>4
  <2> QED
    BY <2>3, <2>4
<1>5. Bad = {}
  <2> SUFFICES ASSUME Bad # {} PROVE FALSE
    OBVIOUS
  <2>1. PICK n \in Bad : \A m \in Bad : n <= m
    <3>1. Bad \in SUBSET Nat
      OBVIOUS
    <3> HIDE DEF Bad
    <3> QED
      BY <3>1, NatHasLeast
  <2> HIDE DEF Good
  <2>2. n # 0
    BY <2>1, <1>3
  <2>3. n \in 1 .. Len(s) /\ n - 1 \in 0 .. Len(s) /\ ~(n <= n - 1)
    BY <2>1, <2>2, <1>1
  <2>4. Good(n - 1)
    BY <2>1, <2>3
  <2> QED
    BY <2>1, <2>3, <2>4, <1>4
<1>6. Good(Len(s))
  <2> HIDE DEF Good
  <2>1. Len(s) \in 0 .. Len(s)
    BY <1>1
  <2> QED
    BY <2>1, <1>5
<1>7. ToSet(s) = Upto(Len(s))
  BY <1>1 DEF ToSet
<1> QED
  BY <1>6, <1>7, SelectInSelected DEF F
=============================================================================
