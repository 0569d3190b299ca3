---------------------- MODULE MessageCompilationProofs ----------------------
(***************************************************************************)
(* What compiling a proposed transaction produces, for every list of       *)
(* instructions over every set of addresses.  The lemmas serve both the    *)
(* proofs about stored messages and the proofs about what they cost.       *)
(***************************************************************************)
EXTENDS MessageCompilation, FiniteSetTheorems, SequenceTheorems, WellFoundedInduction,
        TLAPS

(***************************************************************************)
(* Induction and recursion.                                                *)
(***************************************************************************)

\* A set that holds 0 and, with each natural number, the next holds them all.
LEMMA Induction ==
  ASSUME NEW S, 0 \in S, \A n \in Nat : n \in S => n + 1 \in S
  PROVE  Nat \subseteq S
<1> DEFINE T == Nat \ S
           R == OpToRel(<, Nat)
<1>1. ASSUME T # {} PROVE FALSE
  <2>1. T \subseteq Nat /\ IsWellFoundedOn(R, Nat)
    BY NatLessThanWellFounded
  <2>2. \E x \in T : \A y \in T : ~ (<<y, x>> \in R)
    <3> HIDE DEF T, R
    <3> QED BY <1>1, <2>1, WFMin
  <2>3. PICK x \in T : \A y \in T : ~ (<<y, x>> \in R)
    BY <2>2
  <2>4. x \in Nat /\ x # 0 /\ x - 1 \in Nat
    OBVIOUS
  <2>5. x - 1 \in T
    BY <2>4
  <2>6. <<x - 1, x>> \in R
    BY <2>4 DEF OpToRel
  <2> QED BY <2>3, <2>5, <2>6
<1> QED BY <1>1

\* A first value and a step define a function on the numbers up to a bound.
LEMMA Recursion ==
  ASSUME NEW A, NEW base \in A, NEW N \in Nat, NEW step \in [1 .. N -> [A -> A]]
  PROVE  \E f \in [0 .. N -> A] :
           f[0] = base /\ \A n \in 1 .. N : f[n] = step[n][f[n - 1]]
<1> DEFINE Defines(f, k) ==
             f[0] = base /\ \A n \in 1 .. k : f[n] = step[n][f[n - 1]]
           S == {k \in Nat : k <= N => \E f \in [0 .. k -> A] : Defines(f, k)}
<1>1. 0 \in S
  <2>1. Defines([n \in 0 .. 0 |-> base], 0) /\ [n \in 0 .. 0 |-> base] \in [0 .. 0 -> A]
    OBVIOUS
  <2> QED BY <2>1
<1>2. ASSUME NEW k \in Nat, k \in S PROVE k + 1 \in S
  <2> SUFFICES ASSUME k + 1 <= N PROVE \E g \in [0 .. k + 1 -> A] : Defines(g, k + 1)
    OBVIOUS
  <2>1. PICK f \in [0 .. k -> A] : Defines(f, k)
    BY <1>2
  <2> DEFINE g == [n \in 0 .. k + 1 |->
                     IF n = k + 1 THEN step[k + 1][f[k]] ELSE f[n]]
  <2>2. g \in [0 .. k + 1 -> A]
    OBVIOUS
  <2>3. Defines(g, k + 1)
    <3>1. g[0] = base
      BY <2>1
    <3>2. ASSUME NEW n \in 1 .. k + 1 PROVE g[n] = step[n][g[n - 1]]
      BY <2>1
    <3> QED BY <3>1, <3>2
  <2> QED BY <2>2, <2>3
<1> QED
  <2> HIDE DEF S
  <2>1. N \in S
    BY <1>1, <1>2, Induction
  <2> QED BY <2>1 DEF S

(***************************************************************************)
(* Sums.                                                                   *)
(***************************************************************************)

\* The partial sums of a sequence, the last of which is its total.
LEMMA Sums ==
  ASSUME NEW s, s \in Seq(Nat)
  PROVE  \E sum \in [0 .. Len(s) -> Nat] :
           /\ sum[0] = 0
           /\ \A n \in 1 .. Len(s) : sum[n] = sum[n - 1] + s[n]
           /\ Total(s) = sum[Len(s)]
<1> DEFINE N == Len(s)
           Is(f) == f = [n \in 0 .. N |-> IF n = 0 THEN 0 ELSE f[n - 1] + s[n]]
           sum == CHOOSE f : Is(f)
           step == [n \in 1 .. N |-> [a \in Nat |-> a + s[n]]]
<1>1. N \in Nat /\ \A n \in 1 .. N : s[n] \in Nat
  BY LenProperties, ElementOfSeq
<1>2. \E f : Is(f)
  <2> DEFINE A == Nat
             base == 0
  <2>1. base \in A /\ step \in [1 .. N -> [A -> A]]
    BY <1>1
  <2>2. PICK f \in [0 .. N -> A] :
          f[0] = base /\ \A n \in 1 .. N : f[n] = step[n][f[n - 1]]
    <3> HIDE DEF step, N, A, base
    <3>1. N \in Nat
      BY <1>1
    <3>2. base \in A
      BY <2>1
    <3>3. step \in [1 .. N -> [A -> A]]
      BY <2>1
    <3> QED BY ONLY <3>1, <3>2, <3>3, Recursion, SMT
  <2>3. ASSUME NEW n \in 1 .. N PROVE f[n] = f[n - 1] + s[n]
    <3>1. n - 1 \in 0 .. N /\ f[n - 1] \in Nat
      <4> HIDE DEF N
      <4> QED BY <1>1, <2>2
    <3>2. step[n][f[n - 1]] = f[n - 1] + s[n]
      <4> HIDE DEF N
      <4> QED BY <3>1
    <3> QED
      <4> HIDE DEF step, N
      <4> QED BY <2>2, <3>2
  <2>4. Is(f)
    <3> HIDE DEF N, step
    <3>1. ASSUME NEW n \in 0 .. N
          PROVE  f[n] = IF n = 0 THEN 0 ELSE f[n - 1] + s[n]
      <4>1. n = 0 \/ n \in 1 .. N
        BY <1>1
      <4> QED BY <2>2, <2>3, <4>1
    <3> QED BY <2>2, <3>1
  <2> QED BY <2>4
<1>3. Is(sum)
  <2> HIDE DEF Is
  <2> QED BY <1>2
<1>4. Total(s) = sum[N]
  BY DEF Total
<1>5. sum[0] = 0 /\ \A n \in 1 .. N : sum[n] = sum[n - 1] + s[n]
  <2> HIDE DEF sum, N
  <2> QED BY <1>1, <1>3
<1>6. \A n \in 0 .. N : sum[n] \in Nat
  <2> DEFINE S == {n \in Nat : n <= N => sum[n] \in Nat}
  <2> HIDE DEF sum, N
  <2>1. 0 \in S
    BY <1>5
  <2>2. ASSUME NEW n \in Nat, n \in S PROVE n + 1 \in S
    BY <1>1, <1>5, <2>2
  <2>3. Nat \subseteq S
    <3> HIDE DEF S
    <3> QED BY <2>1, <2>2, Induction
  <2> QED BY <1>1, <2>3
<1>7. sum \in [0 .. N -> Nat]
  <2> HIDE DEF sum, N
  <2> QED BY <1>3, <1>6
<1> QED
  <2> HIDE DEF sum
  <2> QED BY <1>4, <1>5, <1>7

\* Whatever starts at 0 and grows by each element ends at the total.
LEMMA TotalIs ==
  ASSUME NEW s \in Seq(Nat), NEW g, g[0] = 0,
         \A n \in 1 .. Len(s) : g[n] = g[n - 1] + s[n]
  PROVE  Total(s) = g[Len(s)] /\ Total(s) \in Nat
<1>1. PICK sum \in [0 .. Len(s) -> Nat] :
        /\ sum[0] = 0
        /\ \A n \in 1 .. Len(s) : sum[n] = sum[n - 1] + s[n]
        /\ Total(s) = sum[Len(s)]
  BY Sums
<1> DEFINE S == {n \in Nat : n <= Len(s) => sum[n] = g[n]}
<1>2. 0 \in S
  BY <1>1
<1>3. ASSUME NEW n \in Nat, n \in S PROVE n + 1 \in S
  BY <1>1, <1>3, LenProperties
<1>4. Nat \subseteq S
  <2> HIDE DEF S
  <2> QED BY <1>2, <1>3, Induction
<1> QED BY <1>1, <1>4, LenProperties

(***************************************************************************)
(* Sequences.                                                              *)
(***************************************************************************)

\* The elements of a sequence by position.
LEMMA Elements ==
  ASSUME NEW S, NEW s, s \in Seq(S)
  PROVE  /\ Len(s) \in Nat /\ DOMAIN s = 1 .. Len(s)
         /\ ToSet(s) = {s[i] : i \in 1 .. Len(s)} /\ ToSet(s) \subseteq S
<1>1. Len(s) \in Nat /\ DOMAIN s = 1 .. Len(s) /\ \A i \in 1 .. Len(s) : s[i] \in S
  BY LenProperties, ElementOfSeq
<1>2. ToSet(s) = {s[i] : i \in 1 .. Len(s)}
  BY ONLY <1>1, Zenon DEF ToSet
<1> QED BY ONLY <1>1, <1>2

\* A sequence is one over any set that holds its elements.
LEMMA Retyped ==
  ASSUME NEW S, NEW s, s \in Seq(S), NEW T, \A i \in 1 .. Len(s) : s[i] \in T
  PROVE  s \in Seq(T)
<1>1. \E n \in Nat : s \in [1 .. n -> T]
  <2>1. Len(s) \in Nat /\ s \in [1 .. Len(s) -> S]
    BY LenProperties
  <2> QED BY <2>1
<1> QED BY <1>1, SeqDef

\* No element appears twice.
Once(t) == \A i, j \in 1 .. Len(t) : t[i] = t[j] => i = j

\* The stages in which OnceEach notes the elements of a sequence.
LEMMA Stages ==
  ASSUME NEW s, NEW S, NEW T, s \in Seq(T)
  PROVE  \E noted \in [0 .. Len(s) -> Seq(T)] :
           /\ noted[0] = <<>>
           /\ \A n \in 1 .. Len(s) :
                noted[n] = IF s[n] \in S \ ToSet(noted[n - 1])
                           THEN Append(noted[n - 1], s[n]) ELSE noted[n - 1]
           /\ OnceEach(s, S) = noted[Len(s)]
<1> DEFINE N == Len(s)
           After(a, n) == IF s[n] \in S \ ToSet(a) THEN Append(a, s[n]) ELSE a
           Is(f) == f = [n \in 0 .. N |-> IF n = 0 THEN <<>> ELSE After(f[n - 1], n)]
           noted == CHOOSE f : Is(f)
           A == Seq(T)
           base == <<>>
           step == [n \in 1 .. N |-> [a \in A |-> After(a, n)]]
<1>1. N \in Nat /\ \A n \in 1 .. N : s[n] \in T
  BY LenProperties, ElementOfSeq
<1>2. \A n \in 1 .. N, a \in A : After(a, n) \in A
  BY <1>1
<1>3. base \in A /\ step \in [1 .. N -> [A -> A]]
  <2> HIDE DEF N, After
  <2>1. base \in A
    OBVIOUS
  <2>2. step \in [1 .. N -> [A -> A]]
    <3> HIDE DEF A
    <3> QED BY <1>2
  <2> QED BY <2>1, <2>2
<1>4. PICK f \in [0 .. N -> A] :
        f[0] = base /\ \A n \in 1 .. N : f[n] = step[n][f[n - 1]]
  <2> HIDE DEF step, N, A, base
  <2>1. N \in Nat
    BY <1>1
  <2>2. base \in A
    BY <1>3
  <2>3. step \in [1 .. N -> [A -> A]]
    BY <1>3
  <2> QED BY ONLY <2>1, <2>2, <2>3, Recursion, SMT
<1>5. ASSUME NEW n \in 0 .. N
      PROVE  f[n] = IF n = 0 THEN <<>> ELSE After(f[n - 1], n)
  <2> HIDE DEF N, A, After
  <2>1. CASE n = 0
    BY <1>4, <2>1
  <2>2. CASE n \in 1 .. N
    <3>1. n - 1 \in 0 .. N /\ f[n - 1] \in A
      BY <1>1, <1>4, <2>2
    <3>2. step[n][f[n - 1]] = After(f[n - 1], n)
      BY <2>2, <3>1
    <3> HIDE DEF step
    <3> QED BY <1>4, <2>2, <3>2
  <2> QED BY <1>1, <2>1, <2>2
<1>6. Is(f)
  <2> HIDE DEF N, A, After
  <2> QED BY <1>5
<1>7. Is(noted)
  <2> HIDE DEF Is
  <2> QED BY <1>6
<1>8. OnceEach(s, S) = noted[N]
  BY DEF OnceEach
<1>9. noted[0] = <<>> /\ \A n \in 1 .. N : noted[n] = After(noted[n - 1], n)
  <2> HIDE DEF noted, N, After
  <2> QED BY <1>1, <1>7
<1>10. \A n \in 0 .. N : noted[n] \in A
  <2> DEFINE G == {n \in Nat : n <= N => noted[n] \in A}
  <2> HIDE DEF noted, N, After, A
  <2>1. 0 \in G
    BY <1>3, <1>9
  <2>2. ASSUME NEW n \in Nat, n \in G PROVE n + 1 \in G
    BY <1>1, <1>2, <1>9, <2>2
  <2>3. Nat \subseteq G
    <3> HIDE DEF G
    <3> QED BY <2>1, <2>2, Induction
  <2> QED BY <1>1, <2>3
<1>11. noted \in [0 .. N -> A]
  <2> HIDE DEF noted, N, After, A
  <2> QED BY <1>7, <1>10
<1> QED
  <2> HIDE DEF noted
  <2> QED BY <1>8, <1>9, <1>11

\* OnceEach keeps the elements of s that are in S, each of them once, and
\* starts where s does if that element is one of them.
LEMMA OnceEachOf ==
  ASSUME NEW s, NEW S, NEW T, s \in Seq(T)
  PROVE  /\ OnceEach(s, S) \in Seq(T)
         /\ ToSet(OnceEach(s, S)) = ToSet(s) \cap S
         /\ Once(OnceEach(s, S))
         /\ s # <<>> /\ s[1] \in S
              => OnceEach(s, S) # <<>> /\ OnceEach(s, S)[1] = s[1]
<1>1. PICK noted \in [0 .. Len(s) -> Seq(T)] :
        /\ noted[0] = <<>>
        /\ \A n \in 1 .. Len(s) :
             noted[n] = IF s[n] \in S \ ToSet(noted[n - 1])
                        THEN Append(noted[n - 1], s[n]) ELSE noted[n - 1]
        /\ OnceEach(s, S) = noted[Len(s)]
  BY Stages
<1>2. Len(s) \in Nat /\ \A n \in 1 .. Len(s) : s[n] \in T
  BY LenProperties, ElementOfSeq
<1> DEFINE Holds(n, t) ==
             /\ t \in Seq(T)
             /\ ToSet(t) = {s[k] : k \in 1 .. n} \cap S
             /\ Once(t)
             /\ n > 0 /\ s[1] \in S => t # <<>> /\ t[1] = s[1]
           G == {n \in Nat : n <= Len(s) => Holds(n, noted[n])}
<1>3. 0 \in G
  BY <1>1 DEF ToSet, Once
<1>4. ASSUME NEW n \in Nat, n \in G PROVE n + 1 \in G
  <2> SUFFICES ASSUME n + 1 <= Len(s) PROVE Holds(n + 1, noted[n + 1])
    OBVIOUS
  <2> DEFINE t == noted[n]
             x == s[n + 1]
             u == noted[n + 1]
  <2>1. Holds(n, t) /\ n + 1 \in 1 .. Len(s) /\ x \in T
    BY <1>2, <1>4
  <2>2. u = IF x \in S \ ToSet(t) THEN Append(t, x) ELSE t
    <3>1. n + 1 \in 1 .. Len(s) /\ (n + 1) - 1 = n
      BY <2>1
    <3> QED BY ONLY <1>1, <3>1
  <2>3. {s[k] : k \in 1 .. n + 1} = {s[k] : k \in 1 .. n} \cup {x}
    <3>1. 1 .. n + 1 = (1 .. n) \cup {n + 1}
      OBVIOUS
    <3> QED BY ONLY <3>1, Zenon DEF x
  <2> HIDE DEF u, x, t
  <2>4. CASE x \in S \ ToSet(t)
    <3>1. u = Append(t, x) /\ t \in Seq(T)
      BY <2>1, <2>2, <2>4
    <3>2. /\ u \in Seq(T) /\ Len(u) = Len(t) + 1 /\ Len(t) \in Nat
          /\ u[Len(t) + 1] = x /\ \A i \in 1 .. Len(t) : u[i] = t[i]
      BY <2>1, <3>1, AppendProperties, LenProperties
    <3>3. /\ ToSet(t) = {t[i] : i \in 1 .. Len(t)}
          /\ ToSet(u) = {u[i] : i \in 1 .. Len(t) + 1}
      <4>1. DOMAIN t = 1 .. Len(t) /\ DOMAIN u = 1 .. Len(u)
        BY <3>1, <3>2, LenProperties
      <4>2. DOMAIN u = 1 .. Len(t) + 1
        BY <3>2, <4>1
      <4> QED BY ONLY <4>1, <4>2, Zenon DEF ToSet
    <3>4. ToSet(u) = ToSet(t) \cup {x}
      <4>1. 1 .. Len(t) + 1 = (1 .. Len(t)) \cup {Len(t) + 1}
        BY <3>2
      <4>2. ToSet(u) = {u[i] : i \in 1 .. Len(t)} \cup {u[Len(t) + 1]}
        BY ONLY <3>3, <4>1, Zenon
      <4>3. {u[i] : i \in 1 .. Len(t)} = {t[i] : i \in 1 .. Len(t)}
        BY ONLY <3>2, Zenon
      <4> QED BY ONLY <3>2, <3>3, <4>2, <4>3, Zenon
    <3>5. ToSet(u) = {s[k] : k \in 1 .. n + 1} \cap S
      BY <2>1, <2>3, <2>4, <3>4
    <3>6. Once(u)
      <4> SUFFICES ASSUME NEW i \in 1 .. Len(u), NEW j \in 1 .. Len(u), u[i] = u[j]
                   PROVE  i = j
        BY DEF Once
      <4>1. \A k \in 1 .. Len(t) : t[k] # x
        BY ONLY <2>4, <3>3, Zenon
      <4>2. Once(t)
        BY <2>1
      <4>3. /\ i \in 1 .. Len(t) \/ i = Len(t) + 1
            /\ j \in 1 .. Len(t) \/ j = Len(t) + 1
        BY <3>2
      <4> QED BY ONLY <3>2, <4>1, <4>2, <4>3, u[i] = u[j], Zenon DEF Once
    <3>7. ASSUME s[1] \in S PROVE u # <<>> /\ u[1] = s[1]
      <4>1. CASE n = 0
        <5>1. x = s[1]
          BY <4>1 DEF x
        <5>2. Len(t) = 0
          <6>1. ToSet(t) = {}
            BY <2>1, <4>1
          <6>2. t[1] \notin {t[i] : i \in 1 .. Len(t)}
            BY ONLY <3>3, <6>1
          <6> QED BY ONLY <3>2, <6>2
        <5>3. u[1] = s[1] /\ Len(u) = 1
          BY ONLY <3>2, <5>1, <5>2
        <5> QED BY ONLY <5>3, EmptySeq
      <4>2. CASE n > 0
        <5>1. t # <<>> /\ t[1] = s[1]
          BY <2>1, <3>7, <4>2
        <5>2. 1 \in 1 .. Len(t)
          BY <3>1, <5>1
        <5> QED BY <3>2, <5>1, <5>2
      <4> QED BY <4>1, <4>2
    <3> QED BY <3>2, <3>5, <3>6, <3>7 DEF u
  <2>5. CASE x \notin S \ ToSet(t)
    <3>1. u = t
      BY <2>2, <2>5
    <3>2. ToSet(u) = {s[k] : k \in 1 .. n + 1} \cap S
      BY <2>1, <2>3, <2>5, <3>1
    <3>3. ASSUME s[1] \in S PROVE u # <<>> /\ u[1] = s[1]
      <4>1. n > 0
        <5>1. n = 0 => x = s[1] /\ ToSet(t) = {}
          BY <2>1 DEF x
        <5> QED BY <2>5, <3>3, <5>1
      <4> QED BY <2>1, <3>1, <3>3, <4>1
    <3> QED BY <2>1, <3>1, <3>2, <3>3 DEF u
  <2> QED BY <2>4, <2>5
<1>5. Holds(Len(s), OnceEach(s, S))
  <2>1. Nat \subseteq G
    <3> HIDE DEF G
    <3> QED BY <1>3, <1>4, Induction
  <2> HIDE DEF Holds
  <2> QED BY <1>1, <1>2, <2>1
<1>6. ToSet(s) = {s[k] : k \in 1 .. Len(s)}
  BY DEF ToSet
<1>7. s # <<>> => Len(s) > 0
  BY <1>2
<1> QED BY <1>5, <1>6, <1>7

\* The sequences that flattening the first n sequences of ss gives, and where each
\* of them begins: at the end of those before it.
LEMMA Flattening ==
  ASSUME NEW A, NEW ss, ss \in Seq(Seq(A))
  PROVE  \E f \in [0 .. Len(ss) -> Seq(A)] :
           /\ f[0] = <<>>
           /\ \A n \in 1 .. Len(ss) : f[n] = f[n - 1] \o ss[n]
           /\ FlattenSeq(ss) = f[Len(ss)]
<1> DEFINE N == Len(ss)
           B == Seq(A)
           base == <<>>
           step == [n \in 1 .. N |-> [a \in B |-> a \o ss[n]]]
           Is(h) == h = [i \in 1 .. N |-> IF i = 1 THEN ss[i] ELSE h[i - 1] \o ss[i]]
           flatten == CHOOSE h : Is(h)
<1>1. N \in Nat /\ \A n \in 1 .. N : ss[n] \in B
  BY LenProperties, ElementOfSeq
<1>2. \A n \in 1 .. N, a \in B : a \o ss[n] \in B
  BY <1>1, ConcatProperties
<1>3. base \in B /\ step \in [1 .. N -> [B -> B]]
  <2>1. base \in B
    OBVIOUS
  <2>2. step \in [1 .. N -> [B -> B]]
    <3> HIDE DEF N, B
    <3> QED BY <1>2
  <2> QED BY <2>1, <2>2
<1>4. PICK f \in [0 .. N -> B] :
        f[0] = base /\ \A n \in 1 .. N : f[n] = step[n][f[n - 1]]
  <2> HIDE DEF step, N, B, base
  <2>1. N \in Nat
    BY <1>1
  <2>2. base \in B
    BY <1>3
  <2>3. step \in [1 .. N -> [B -> B]]
    BY <1>3
  <2> QED BY ONLY <2>1, <2>2, <2>3, Recursion, SMT
<1>5. ASSUME NEW n \in 1 .. N PROVE f[n] = f[n - 1] \o ss[n]
  <2> HIDE DEF N, B
  <2>1. n - 1 \in 0 .. N /\ f[n - 1] \in B
    BY <1>1, <1>4
  <2>2. step[n][f[n - 1]] = f[n - 1] \o ss[n]
    BY <2>1
  <2> HIDE DEF step
  <2> QED BY <1>4, <2>2
<1>6. ASSUME N # 0 PROVE FlattenSeq(ss) = f[N]
  <2> DEFINE h == [i \in 1 .. N |-> f[i]]
  <2>1. f[1] = ss[1]
    <3>1. 1 \in 1 .. N /\ 1 - 1 = 0
      <4> HIDE DEF N
      <4> QED BY <1>1, <1>6
    <3>2. f[1] = f[0] \o ss[1]
      <4> HIDE DEF N, B
      <4> QED BY ONLY <1>5, <3>1
    <3>3. ss[1] \in Seq(A) /\ f[0] = <<>>
      <4> HIDE DEF N
      <4> QED BY <1>1, <1>4, <3>1
    <3> QED BY ONLY <3>2, <3>3, ConcatEmptySeq
  <2>2. Is(h)
    <3> HIDE DEF N, B
    <3>1. ASSUME NEW i \in 1 .. N
          PROVE  f[i] = IF i = 1 THEN ss[i] ELSE h[i - 1] \o ss[i]
      <4>1. i # 1 => i - 1 \in 1 .. N
        BY <1>1
      <4> QED BY <1>5, <2>1, <4>1
    <3> HIDE DEF h
    <3>2. h = [i \in 1 .. N |-> f[i]]
      BY DEF h
    <3> QED BY <3>1, <3>2
  <2>3. Is(flatten)
    <3> HIDE DEF Is
    <3> QED BY <2>2
  <2>4. FlattenSeq(ss) = flatten[N]
    BY <1>6 DEF FlattenSeq
  <2>5. \A i \in 1 .. N : flatten[i] = IF i = 1 THEN ss[i] ELSE flatten[i - 1] \o ss[i]
    <3> HIDE DEF flatten, N
    <3> QED BY <2>3
  <2> DEFINE G == {n \in Nat : n + 1 <= N => flatten[n + 1] = f[n + 1]}
  <2>6. 0 \in G
    <3> HIDE DEF flatten, N
    <3> QED BY <1>1, <2>1, <2>5
  <2>7. ASSUME NEW n \in Nat, n \in G PROVE n + 1 \in G
    <3> SUFFICES ASSUME (n + 1) + 1 <= N PROVE flatten[(n + 1) + 1] = f[(n + 1) + 1]
      OBVIOUS
    <3> HIDE DEF flatten, N
    <3> DEFINE k == (n + 1) + 1
    <3>1. k \in 1 .. N /\ k # 1 /\ k - 1 = n + 1 /\ n + 1 <= N
      BY <1>1
    <3>2. flatten[k - 1] = f[k - 1]
      BY <2>7, <3>1
    <3> HIDE DEF k
    <3>3. flatten[k] = flatten[k - 1] \o ss[k] /\ f[k] = f[k - 1] \o ss[k]
      BY ONLY <1>5, <2>5, <3>1
    <3>4. flatten[k] = f[k]
      BY ONLY <3>2, <3>3
    <3> QED BY <3>4 DEF k
  <2>8. N - 1 \in Nat /\ (N - 1) + 1 = N
    BY <1>1, <1>6
  <2>9. N - 1 \in G
    <3> HIDE DEF G, N
    <3> QED BY <2>6, <2>7, <2>8, Induction
  <2>10. flatten[N] = f[N]
    <3> HIDE DEF flatten, N
    <3> QED BY <1>1, <2>8, <2>9
  <2> QED BY <2>4, <2>10
<1>7. ASSUME N = 0 PROVE FlattenSeq(ss) = f[N]
  BY <1>4, <1>7, EmptySeq DEF FlattenSeq
<1> QED BY <1>4, <1>5, <1>6, <1>7

\* Flattening puts the j-th element of the l-th sequence j places after the end of
\* those before it.
LEMMA Flattened ==
  ASSUME NEW A, NEW ss, ss \in Seq(Seq(A))
  PROVE  /\ FlattenSeq(ss) \in Seq(A)
         /\ \E end \in [0 .. Len(ss) -> Nat] :
              /\ end[0] = 0 /\ end[Len(ss)] = Len(FlattenSeq(ss))
              /\ \A n \in 1 .. Len(ss) : end[n] = end[n - 1] + Len(ss[n])
              /\ \A l \in 1 .. Len(ss) : \A j \in 1 .. Len(ss[l]) :
                   /\ end[l - 1] + j \in 1 .. Len(FlattenSeq(ss))
                   /\ FlattenSeq(ss)[end[l - 1] + j] = ss[l][j]
<1>1. PICK f \in [0 .. Len(ss) -> Seq(A)] :
        /\ f[0] = <<>>
        /\ \A n \in 1 .. Len(ss) : f[n] = f[n - 1] \o ss[n]
        /\ FlattenSeq(ss) = f[Len(ss)]
  BY Flattening
<1> DEFINE N == Len(ss)
           end == [n \in 0 .. N |-> Len(f[n])]
<1>2. N \in Nat /\ \A n \in 1 .. N : ss[n] \in Seq(A) /\ Len(ss[n]) \in Nat
  <2>1. N \in Nat /\ \A n \in 1 .. N : ss[n] \in Seq(A)
    BY LenProperties, ElementOfSeq
  <2> HIDE DEF N
  <2> QED BY <2>1, LenProperties
<1> HIDE DEF N
<1>3. f \in [0 .. N -> Seq(A)]
  BY DEF N
<1>4. end \in [0 .. N -> Nat]
  BY <1>3, LenProperties
<1>5. ASSUME NEW n \in 1 .. N
      PROVE  /\ n - 1 \in 0 .. N /\ n \in 0 .. N
             /\ end[n] = end[n - 1] + Len(ss[n])
             /\ \A i \in 1 .. end[n - 1] : f[n][i] = f[n - 1][i]
             /\ \A j \in 1 .. Len(ss[n]) : f[n][end[n - 1] + j] = ss[n][j]
  <2>1. n - 1 \in 0 .. N /\ n \in 0 .. N
    BY <1>2
  <2>2. f[n] = f[n - 1] \o ss[n] /\ f[n - 1] \in Seq(A) /\ ss[n] \in Seq(A)
    BY <1>1, <1>2, <1>3, <2>1 DEF N
  <2>3. /\ Len(f[n]) = Len(f[n - 1]) + Len(ss[n])
        /\ \A i \in 1 .. Len(f[n - 1]) + Len(ss[n]) :
             f[n][i] = IF i <= Len(f[n - 1]) THEN f[n - 1][i]
                       ELSE ss[n][i - Len(f[n - 1])]
    BY ONLY <2>2, ConcatProperties
  <2> DEFINE e == end[n - 1]
             m == Len(ss[n])
  <2>4. end[n] = Len(f[n]) /\ e = Len(f[n - 1]) /\ e \in Nat /\ m \in Nat
    BY <1>2, <1>4, <2>1
  <2>5. /\ end[n] = e + m
        /\ \A i \in 1 .. e + m : f[n][i] = IF i <= e THEN f[n - 1][i] ELSE ss[n][i - e]
    <3> HIDE DEF end
    <3> QED BY ONLY <2>3, <2>4
  <2> HIDE DEF end, e, m
  <2>6. ASSUME NEW i \in 1 .. e PROVE f[n][i] = f[n - 1][i]
    <3>1. i \in 1 .. e + m /\ i <= e
      BY <2>4
    <3> QED BY ONLY <2>5, <3>1
  <2>7. ASSUME NEW j \in 1 .. m PROVE f[n][e + j] = ss[n][j]
    <3>1. e + j \in 1 .. e + m /\ ~ (e + j <= e) /\ (e + j) - e = j
      BY <2>4
    <3> QED BY ONLY <2>5, <3>1
  <2> QED BY <2>1, <2>5, <2>6, <2>7 DEF e, m
<1> DEFINE Placed(n) == \A l \in 1 .. n : \A j \in 1 .. Len(ss[l]) :
                          /\ end[l - 1] + j \in 1 .. end[n]
                          /\ f[n][end[l - 1] + j] = ss[l][j]
           G == {n \in Nat : n <= N => Placed(n)}
<1> HIDE DEF end
<1>6. 0 \in G
  OBVIOUS
<1>7. ASSUME NEW n \in Nat, n \in G PROVE n + 1 \in G
  <2> SUFFICES ASSUME n + 1 <= N PROVE Placed(n + 1)
    OBVIOUS
  <2>1. Placed(n) /\ n + 1 \in 1 .. N /\ (n + 1) - 1 = n
    BY <1>2, <1>7
  <2>2. /\ end[n + 1] = end[n] + Len(ss[n + 1])
        /\ \A i \in 1 .. end[n] : f[n + 1][i] = f[n][i]
        /\ \A j \in 1 .. Len(ss[n + 1]) : f[n + 1][end[n] + j] = ss[n + 1][j]
        /\ end[n] \in Nat /\ Len(ss[n + 1]) \in Nat
    BY <1>2, <1>4, <1>5, <2>1, SMTT(20)
  <2>3. ASSUME NEW l \in 1 .. n + 1, NEW j \in 1 .. Len(ss[l])
        PROVE  /\ end[l - 1] + j \in 1 .. end[n + 1]
               /\ f[n + 1][end[l - 1] + j] = ss[l][j]
    <3>1. CASE l = n + 1
      <4>1. l - 1 = n /\ j \in 1 .. Len(ss[n + 1])
        BY <3>1
      <4>2. end[n] + j \in 1 .. end[n + 1]
        BY <2>2, <4>1
      <4> QED BY <2>2, <3>1, <4>1, <4>2
    <3>2. CASE l \in 1 .. n
      <4>1. end[l - 1] + j \in 1 .. end[n] /\ f[n][end[l - 1] + j] = ss[l][j]
        BY <2>1, <3>2
      <4>2. end[l - 1] + j \in 1 .. end[n + 1]
        BY <2>2, <4>1, SMTT(20)
      <4> QED BY <2>2, <4>1, <4>2
    <3> QED BY <3>1, <3>2
  <2> QED BY <2>3
<1>8. Placed(N)
  <2>1. Nat \subseteq G
    <3> HIDE DEF G
    <3> QED BY <1>6, <1>7, Induction
  <2> HIDE DEF Placed
  <2> QED BY <1>2, <2>1
<1>9. FlattenSeq(ss) = f[N] /\ f[N] \in Seq(A)
  BY <1>1, <1>2, <1>3, SMTT(20) DEF N
<1>10. end[0] = 0 /\ end[N] = Len(f[N])
  BY <1>1, <1>2, EmptySeq DEF end
<1>11. /\ end[0] = 0 /\ end[N] = Len(FlattenSeq(ss))
       /\ \A n \in 1 .. N : end[n] = end[n - 1] + Len(ss[n])
       /\ \A l \in 1 .. N : \A j \in 1 .. Len(ss[l]) :
            /\ end[l - 1] + j \in 1 .. Len(FlattenSeq(ss))
            /\ FlattenSeq(ss)[end[l - 1] + j] = ss[l][j]
  <2>1. \A n \in 1 .. N : end[n] = end[n - 1] + Len(ss[n])
    BY ONLY <1>5
  <2> HIDE DEF Placed
  <2>2. Placed(N) /\ end[N] = Len(FlattenSeq(ss)) /\ FlattenSeq(ss) = f[N] /\ end[0] = 0
    BY <1>8, <1>9, <1>10
  <2> USE DEF Placed
  <2> QED BY ONLY <2>1, <2>2
<1> QED
  <2> HIDE DEF Placed
  <2>1. FlattenSeq(ss) \in Seq(A)
    BY <1>9
  <2> QED BY ONLY <2>1, <1>4, <1>11 DEF N

\* The elements of the flattened sequence are those of the sequences in it.
LEMMA FlattenedSet ==
  ASSUME NEW A, NEW ss, ss \in Seq(Seq(A))
  PROVE  ToSet(FlattenSeq(ss)) = UNION {ToSet(ss[l]) : l \in 1 .. Len(ss)}
<1> DEFINE U == UNION {ToSet(ss[l]) : l \in 1 .. Len(ss)}
           flat == FlattenSeq(ss)
<1>1. \A l \in 1 .. Len(ss) : ss[l] \in Seq(A)
  BY ElementOfSeq
<1>2. \A l \in 1 .. Len(ss) : ToSet(ss[l]) = {ss[l][j] : j \in 1 .. Len(ss[l])}
  BY <1>1, Elements
<1>3. ss \in Seq(Seq(U))
  <2>1. ASSUME NEW l \in 1 .. Len(ss) PROVE ss[l] \in Seq(U)
    <3>1. \A j \in 1 .. Len(ss[l]) : ss[l][j] \in U
      BY <1>2
    <3> HIDE DEF U
    <3> QED BY <1>1, <3>1, Retyped
  <2> HIDE DEF U
  <2> QED BY <2>1, Retyped
<1> HIDE DEF U
<1>4. flat \in Seq(U) /\ flat \in Seq(A)
  BY <1>3, Flattened
<1>5. ToSet(flat) = {flat[i] : i \in 1 .. Len(flat)} /\ ToSet(flat) \subseteq U
  BY <1>4, Elements
<1>6. PICK end \in [0 .. Len(ss) -> Nat] :
        \A l \in 1 .. Len(ss) : \A j \in 1 .. Len(ss[l]) :
          end[l - 1] + j \in 1 .. Len(flat) /\ flat[end[l - 1] + j] = ss[l][j]
  BY Flattened
<1>7. ASSUME NEW l \in 1 .. Len(ss), NEW j \in 1 .. Len(ss[l])
      PROVE  ss[l][j] \in ToSet(flat)
  <2> HIDE DEF flat
  <2> QED BY ONLY <1>5, <1>6
<1>8. U \subseteq ToSet(flat)
  <2> SUFFICES ASSUME NEW x \in U PROVE x \in ToSet(flat)
    OBVIOUS
  <2>1. PICK l \in 1 .. Len(ss) : x \in ToSet(ss[l])
    BY DEF U
  <2>2. PICK j \in 1 .. Len(ss[l]) : x = ss[l][j]
    BY <1>2, <2>1
  <2> QED BY <1>7, <2>2
<1> QED BY <1>5, <1>8 DEF U

\* Two sequences joined.
LEMMA Joined ==
  ASSUME NEW K, NEW a, NEW b, a \in Seq(K), b \in Seq(K)
  PROVE  /\ a \o b \in Seq(K)
         /\ Len(a \o b) = Len(a) + Len(b)
         /\ ToSet(a \o b) = ToSet(a) \cup ToSet(b)
         /\ \A i \in 1 .. Len(a) : (a \o b)[i] = a[i] /\ (a \o b)[i] \in ToSet(a)
         /\ \A i \in Len(a) + 1 .. Len(a) + Len(b) : (a \o b)[i] \in ToSet(b)
         /\ \A j \in 1 .. Len(b) : (a \o b)[Len(a) + j] = b[j]
         /\ Once(a) /\ Once(b) /\ ToSet(a) \cap ToSet(b) = {} => Once(a \o b)
<1> DEFINE t == a \o b
           m == Len(a)
           n == Len(b)
<1>1. /\ m \in Nat /\ ToSet(a) = {a[i] : i \in 1 .. m}
      /\ n \in Nat /\ ToSet(b) = {b[i] : i \in 1 .. n}
  BY Elements
<1>2. /\ t \in Seq(K) /\ Len(t) = m + n
      /\ \A i \in 1 .. m + n : t[i] = IF i <= m THEN a[i] ELSE b[i - m]
  BY ConcatProperties
<1>3. ToSet(t) = {t[i] : i \in 1 .. Len(t)}
  BY <1>2, Elements
<1> HIDE DEF t, m, n
<1>4. ASSUME NEW i \in 1 .. m PROVE i \in 1 .. Len(t) /\ t[i] = a[i]
  <2>1. i \in 1 .. m + n /\ i <= m
    BY <1>1
  <2> QED BY ONLY <1>2, <2>1
<1>5. ASSUME NEW j \in 1 .. n PROVE m + j \in 1 .. Len(t) /\ t[m + j] = b[j]
  <2>1. m + j \in 1 .. m + n /\ ~ (m + j <= m) /\ (m + j) - m = j
    BY <1>1
  <2> QED BY ONLY <1>2, <2>1
<1>6. ASSUME NEW i \in m + 1 .. m + n PROVE i - m \in 1 .. n /\ t[i] = b[i - m]
  <2>1. i - m \in 1 .. n /\ m + (i - m) = i
    BY <1>1
  <2> QED BY <1>5, <2>1
<1>7. \A i \in 1 .. m + n : i \in 1 .. m \/ i \in m + 1 .. m + n
  BY <1>1
<1>8. ToSet(t) = ToSet(a) \cup ToSet(b)
  <2>1. ToSet(a) \subseteq ToSet(t)
    BY <1>1, <1>3, <1>4
  <2>2. ToSet(b) \subseteq ToSet(t)
    BY <1>1, <1>3, <1>5
  <2>3. ASSUME NEW i \in 1 .. m + n PROVE t[i] \in ToSet(a) \cup ToSet(b)
    BY <1>1, <1>4, <1>6, <1>7
  <2>4. ToSet(t) \subseteq ToSet(a) \cup ToSet(b)
    BY <1>2, <1>3, <2>3
  <2> QED BY ONLY <2>1, <2>2, <2>4
<1>9. ASSUME Once(a), Once(b), ToSet(a) \cap ToSet(b) = {} PROVE Once(t)
  <2> SUFFICES ASSUME NEW i \in 1 .. m + n, NEW j \in 1 .. m + n, t[i] = t[j]
               PROVE  i = j
    BY <1>2 DEF Once
  <2>1. CASE i \in 1 .. m /\ j \in 1 .. m
    <3>1. a[i] = a[j]
      BY <1>4, <2>1
    <3> QED BY <1>9, <2>1, <3>1 DEF Once, m
  <2>2. CASE i \in m + 1 .. m + n /\ j \in m + 1 .. m + n
    <3>1. i - m \in 1 .. n /\ j - m \in 1 .. n /\ b[i - m] = b[j - m]
      BY <1>6, <2>2
    <3>2. i - m = j - m
      BY <1>9, <3>1 DEF Once, n
    <3> QED BY <1>1, <2>2, <3>2
  <2>3. \A k \in 1 .. m : t[k] \in ToSet(a)
    BY <1>1, <1>4
  <2>4. \A k \in m + 1 .. m + n : t[k] \in ToSet(b)
    BY <1>1, <1>6
  <2>5. CASE i \in 1 .. m /\ j \in m + 1 .. m + n
    BY <1>9, <2>3, <2>4, <2>5
  <2>6. CASE i \in m + 1 .. m + n /\ j \in 1 .. m
    BY <1>9, <2>3, <2>4, <2>6
  <2> QED BY <1>7, <2>1, <2>2, <2>5, <2>6
<1>10. \A i \in 1 .. m : t[i] = a[i] /\ t[i] \in ToSet(a)
  BY <1>1, <1>4
<1>11. \A i \in m + 1 .. m + n : t[i] \in ToSet(b)
  BY <1>1, <1>6
<1>12. \A j \in 1 .. n : t[m + j] = b[j]
  BY <1>5
<1> QED BY ONLY <1>2, <1>8, <1>9, <1>10, <1>11, <1>12 DEF t, m, n

(***************************************************************************)
(* The compiled message.                                                   *)
(***************************************************************************)

\* The keys a message is compiled to: the payer, the programs, their accounts.
KeysOf(payer, instructions) ==
  {payer} \cup {instruction.program : instruction \in ToSet(instructions)}
    \cup {meta.address : meta \in Metas(instructions)}

\* What the instructions are made of, by position.
LEMMA InstructionTypes ==
  ASSUME NEW K, NEW ins, ins \in Seq(InstructionOver(K))
  PROVE  /\ Len(ins) \in Nat /\ DOMAIN ins = 1 .. Len(ins)
         /\ \A i \in 1 .. Len(ins) :
              /\ ins[i].program \in K /\ ins[i].data \in Nat
              /\ ins[i].accounts \in Seq([address : K, role : Role])
              /\ Len(ins[i].accounts) \in Nat
              /\ DOMAIN ins[i].accounts = 1 .. Len(ins[i].accounts)
              /\ \A j \in 1 .. Len(ins[i].accounts) :
                   ins[i].accounts[j].address \in K /\ ins[i].accounts[j].role \in Role
<1>1. Len(ins) \in Nat /\ DOMAIN ins = 1 .. Len(ins)
  BY Elements
<1>2. ASSUME NEW i \in 1 .. Len(ins)
      PROVE  /\ ins[i].program \in K /\ ins[i].data \in Nat
             /\ ins[i].accounts \in Seq([address : K, role : Role])
  <2>1. ins[i] \in InstructionOver(K)
    BY ElementOfSeq
  <2> QED BY <2>1 DEF InstructionOver
<1>3. ASSUME NEW i \in 1 .. Len(ins)
      PROVE  /\ Len(ins[i].accounts) \in Nat
             /\ DOMAIN ins[i].accounts = 1 .. Len(ins[i].accounts)
  BY ONLY <1>2, Elements
<1>4. ASSUME NEW i \in 1 .. Len(ins), NEW j \in 1 .. Len(ins[i].accounts)
      PROVE  ins[i].accounts[j].address \in K /\ ins[i].accounts[j].role \in Role
  <2>1. ins[i].accounts[j] \in [address : K, role : Role]
    BY <1>2, ElementOfSeq
  <2> QED BY <2>1
<1> QED BY ONLY <1>1, <1>2, <1>3, <1>4

\* The instructions and their metas, by position.
LEMMA MetasAt ==
  ASSUME NEW K, NEW ins, ins \in Seq(InstructionOver(K))
  PROVE  /\ \A i \in 1 .. Len(ins) : ins[i] \in ToSet(ins)
         /\ \A instruction \in ToSet(ins) : \E i \in 1 .. Len(ins) : instruction = ins[i]
         /\ \A i \in 1 .. Len(ins) : \A j \in 1 .. Len(ins[i].accounts) :
              ins[i].accounts[j] \in Metas(ins)
         /\ \A meta \in Metas(ins) :
              \E i \in 1 .. Len(ins) : \E j \in 1 .. Len(ins[i].accounts) :
                meta = ins[i].accounts[j]
         /\ \A meta \in Metas(ins) : meta.address \in K /\ meta.role \in Role
<1>1. ToSet(ins) = {ins[i] : i \in 1 .. Len(ins)}
  BY Elements
<1>2. ASSUME NEW i \in 1 .. Len(ins)
      PROVE  ToSet(ins[i].accounts) = {ins[i].accounts[j] : j \in 1 .. Len(ins[i].accounts)}
  <2> DEFINE a == ins[i].accounts
             M == [address : K, role : Role]
  <2>1. a \in Seq(M)
    BY InstructionTypes
  <2> HIDE DEF a, M
  <2>2. ToSet(a) = {a[j] : j \in 1 .. Len(a)}
    BY ONLY <2>1, Elements
  <2> QED BY <2>2 DEF a, M
<1>3. ASSUME NEW i \in 1 .. Len(ins), NEW j \in 1 .. Len(ins[i].accounts)
      PROVE  ins[i].accounts[j] \in Metas(ins)
  <2>1. ins[i].accounts[j] \in ToSet(ins[i].accounts)
    BY <1>2
  <2>2. ToSet(ins[i].accounts)
          \in {ToSet(instruction.accounts) : instruction \in ToSet(ins)}
    BY <1>1
  <2> QED BY <2>1, <2>2 DEF Metas
<1>4. ASSUME NEW meta \in Metas(ins)
      PROVE  /\ \E i \in 1 .. Len(ins) : \E j \in 1 .. Len(ins[i].accounts) :
                  meta = ins[i].accounts[j]
             /\ meta.address \in K /\ meta.role \in Role
  <2>1. PICK instruction \in ToSet(ins) : meta \in ToSet(instruction.accounts)
    BY DEF Metas
  <2>2. PICK i \in 1 .. Len(ins) : instruction = ins[i]
    BY <1>1
  <2>3. PICK j \in 1 .. Len(ins[i].accounts) : meta = ins[i].accounts[j]
    BY <1>2, <2>1, <2>2
  <2>4. meta.address \in K /\ meta.role \in Role
    BY <2>3, InstructionTypes
  <2> QED BY <2>3, <2>4
<1>5. /\ \A i \in 1 .. Len(ins) : ins[i] \in ToSet(ins)
      /\ \A instruction \in ToSet(ins) : \E i \in 1 .. Len(ins) : instruction = ins[i]
  BY <1>1
<1> QED BY ONLY <1>3, <1>4, <1>5

\* The keys mentioned are the message's keys, the payer first.
LEMMA MentionedOf ==
  ASSUME NEW K, NEW payer, payer \in K, NEW ins, ins \in Seq(InstructionOver(K))
  PROVE  LET mentioned == Mentioned(payer, ins)
         IN  /\ mentioned \in Seq(K) /\ mentioned # <<>> /\ mentioned[1] = payer
             /\ ToSet(mentioned) = KeysOf(payer, ins)
             /\ KeysOf(payer, ins) \subseteq K
<1> DEFINE of(instruction) ==
             <<instruction.program>>
               \o [j \in DOMAIN instruction.accounts |-> instruction.accounts[j].address]
           addresses(i) == [j \in 1 .. Len(ins[i].accounts) |-> ins[i].accounts[j].address]
           ss == [i \in DOMAIN ins |-> of(ins[i])]
           rest == FlattenSeq(ss)
<1>1. Mentioned(payer, ins) = <<payer>> \o rest
  BY DEF Mentioned
<1>2. Len(ins) \in Nat /\ DOMAIN ins = 1 .. Len(ins)
  BY InstructionTypes
<1>3. ASSUME NEW i \in 1 .. Len(ins)
      PROVE  /\ of(ins[i]) \in Seq(K)
             /\ ToSet(of(ins[i]))
                  = {ins[i].program}
                      \cup {ins[i].accounts[j].address : j \in 1 .. Len(ins[i].accounts)}
  <2> DEFINE n == Len(ins[i].accounts)
             first == <<ins[i].program>>
             others == addresses(i)
  <2>1. /\ n \in Nat /\ DOMAIN ins[i].accounts = 1 .. n /\ ins[i].program \in K
        /\ \A j \in 1 .. n : ins[i].accounts[j].address \in K
    BY InstructionTypes
  <2>2. of(ins[i]) = first \o others
    BY <2>1
  <2>3. others \in Seq(K) /\ Len(others) = n
    <3> HIDE DEF n
    <3>1. others \in [1 .. n -> K]
      BY <2>1 DEF n
    <3> HIDE DEF others
    <3>2. others \in Seq(K)
      BY <2>1, <3>1, SeqDef
    <3> QED BY <2>1, <3>1, <3>2, LenProperties
  <2>4. ToSet(others) = {ins[i].accounts[j].address : j \in 1 .. n}
    <3>1. ToSet(others) = {others[j] : j \in 1 .. n}
      <4> HIDE DEF others, n
      <4> QED BY ONLY <2>3, Elements
    <3> QED BY <3>1
  <2>5. first \in Seq(K) /\ ToSet(first) = {ins[i].program}
    BY <2>1 DEF ToSet
  <2> HIDE DEF first, others, n, of
  <2>6. first \o others \in Seq(K) /\ ToSet(first \o others) = ToSet(first) \cup ToSet(others)
    BY ONLY <2>3, <2>5, Joined
  <2> QED BY ONLY <2>2, <2>4, <2>5, <2>6 DEF n
<1>4. ss \in Seq(Seq(K)) /\ Len(ss) = Len(ins) /\ \A i \in 1 .. Len(ins) : ss[i] = of(ins[i])
  <2>1. \A i \in 1 .. Len(ins) : ss[i] = of(ins[i])
    BY <1>2
  <2>2. ss \in [1 .. Len(ins) -> Seq(K)]
    <3> HIDE DEF of
    <3> QED BY <1>2, <1>3
  <2> HIDE DEF ss, of
  <2>3. ss \in Seq(Seq(K))
    BY <1>2, <2>2, SeqDef
  <2>4. Len(ss) = Len(ins)
    BY <1>2, <2>2, <2>3, LenProperties
  <2> QED BY <2>1, <2>3, <2>4
<1>5. rest \in Seq(K) /\ ToSet(rest) = UNION {ToSet(of(ins[i])) : i \in 1 .. Len(ins)}
  <2> HIDE DEF ss, of
  <2>1. rest \in Seq(K) /\ ToSet(rest) = UNION {ToSet(ss[l]) : l \in 1 .. Len(ss)}
    BY <1>4, Flattened, FlattenedSet
  <2>2. {ToSet(ss[l]) : l \in 1 .. Len(ss)} = {ToSet(of(ins[i])) : i \in 1 .. Len(ins)}
    BY <1>4
  <2> QED BY <2>1, <2>2
<1>6. <<payer>> \in Seq(K) /\ Len(<<payer>>) = 1 /\ <<payer>>[1] = payer
      /\ ToSet(<<payer>>) = {payer}
  BY DEF ToSet
<1> DEFINE head == <<payer>>
           whole == Mentioned(payer, ins)
<1>7. /\ whole = head \o rest
      /\ head \in Seq(K) /\ Len(head) = 1 /\ head[1] = payer /\ ToSet(head) = {payer}
  BY <1>1, <1>6
<1>8. whole \in Seq(K) /\ ToSet(whole) = {payer} \cup ToSet(rest) /\ Len(rest) \in Nat
      /\ whole[1] = payer /\ Len(whole) = 1 + Len(rest)
  <2> HIDE DEF head, rest, whole
  <2>1. head \in Seq(K) /\ rest \in Seq(K)
    BY <1>5, <1>7
  <2>2. /\ head \o rest \in Seq(K)
        /\ Len(head \o rest) = Len(head) + Len(rest)
        /\ ToSet(head \o rest) = ToSet(head) \cup ToSet(rest)
        /\ \A i \in 1 .. Len(head) : (head \o rest)[i] = head[i]
    BY ONLY <2>1, Joined
  <2>3. 1 \in 1 .. Len(head) /\ Len(rest) \in Nat
    BY <1>7, <2>1, Elements
  <2> QED BY ONLY <1>7, <2>2, <2>3
<1>9. whole # <<>>
  <2> HIDE DEF whole, rest
  <2> QED BY <1>8, EmptySeq
<1>10. KeysOf(payer, ins) \subseteq K
  <2>1. ASSUME NEW instruction \in ToSet(ins) PROVE instruction.program \in K
    <3>1. PICK i \in 1 .. Len(ins) : instruction = ins[i]
      BY MetasAt
    <3> QED BY <3>1, InstructionTypes
  <2>2. \A meta \in Metas(ins) : meta.address \in K
    BY MetasAt
  <2> QED BY ONLY <2>1, <2>2, payer \in K DEF KeysOf
<1>11. ASSUME NEW key
       PROVE  key \in KeysOf(payer, ins) <=> key \in {payer} \cup ToSet(rest)
  <2> DEFINE Program == \E i \in 1 .. Len(ins) : key = ins[i].program
             Account == \E i \in 1 .. Len(ins) : \E j \in 1 .. Len(ins[i].accounts) :
                          key = ins[i].accounts[j].address
  <2>1. (\E instruction \in ToSet(ins) : key = instruction.program) <=> Program
    BY MetasAt
  <2>2. (\E meta \in Metas(ins) : key = meta.address) <=> Account
    BY MetasAt
  <2>3. key \in ToSet(rest) <=> \E i \in 1 .. Len(ins) : key \in ToSet(of(ins[i]))
    <3> HIDE DEF rest, of
    <3> QED BY <1>5
  <2>4. key \in ToSet(rest) <=> Program \/ Account
    <3> HIDE DEF rest, of
    <3> QED BY ONLY <1>3, <2>3
  <2>5. key \in KeysOf(payer, ins)
          <=> \/ key = payer
              \/ \E instruction \in ToSet(ins) : key = instruction.program
              \/ \E meta \in Metas(ins) : key = meta.address
    BY DEF KeysOf
  <2> HIDE DEF rest, Program, Account
  <2> QED BY ONLY <2>1, <2>2, <2>4, <2>5
<1> HIDE DEF rest
<1>12. ToSet(whole) = KeysOf(payer, ins)
  <2> HIDE DEF whole
  <2> QED BY <1>8, <1>11
<1> QED BY <1>8, <1>9, <1>10, <1>12

\* Every key has a role, and the payer the strongest.
LEMMA RoleOfKeys ==
  ASSUME NEW payer, NEW ins
  PROVE  /\ \A key : RoleOf(payer, ins, key) \in Role
         /\ RoleOf(payer, ins, payer) = [signer |-> TRUE, writable |-> TRUE]
<1>1. ASSUME NEW key PROVE RoleOf(payer, ins, key) \in Role
  BY DEF RoleOf, Role
<1>2. RoleOf(payer, ins, payer) = [signer |-> TRUE, writable |-> TRUE]
  BY DEF RoleOf
<1> QED BY <1>1, <1>2

\* A group holds the keys of its role, each once.
LEMMA GroupOf ==
  ASSUME NEW K, NEW payer, payer \in K, NEW ins, ins \in Seq(InstructionOver(K)), NEW role
  PROVE  LET group == Group(payer, ins, role)
         IN  /\ group \in Seq(K) /\ Once(group)
             /\ \A key : key \in ToSet(group)
                           <=> key \in KeysOf(payer, ins) /\ RoleOf(payer, ins, key) = role
<1> DEFINE mentioned == Mentioned(payer, ins)
           S == {key \in ToSet(mentioned) : RoleOf(payer, ins, key) = role}
           group == Group(payer, ins, role)
<1>1. group = OnceEach(mentioned, S)
  BY DEF Group
<1>2. mentioned \in Seq(K) /\ ToSet(mentioned) = KeysOf(payer, ins)
  BY MentionedOf
<1>3. \A key : key \in S <=> key \in KeysOf(payer, ins) /\ RoleOf(payer, ins, key) = role
  BY <1>2
<1>4. S \subseteq ToSet(mentioned)
  OBVIOUS
<1> HIDE DEF mentioned, S, group
<1>5. group \in Seq(K) /\ Once(group) /\ ToSet(group) = ToSet(mentioned) \cap S
  BY ONLY <1>1, <1>2, OnceEachOf
<1> QED BY <1>3, <1>4, <1>5 DEF group

\* The payer comes first in its own group, as it is mentioned first.
LEMMA PayerLeads ==
  ASSUME NEW K, NEW payer, payer \in K, NEW ins, ins \in Seq(InstructionOver(K)), NEW role,
         RoleOf(payer, ins, payer) = role
  PROVE  Group(payer, ins, role) # <<>> /\ Group(payer, ins, role)[1] = payer
<1> DEFINE mentioned == Mentioned(payer, ins)
           S == {key \in ToSet(mentioned) : RoleOf(payer, ins, key) = role}
           group == Group(payer, ins, role)
<1>1. group = OnceEach(mentioned, S)
  BY DEF Group
<1>2. /\ mentioned \in Seq(K) /\ mentioned # <<>> /\ mentioned[1] = payer
      /\ ToSet(mentioned) = KeysOf(payer, ins)
  BY MentionedOf
<1>3. mentioned[1] \in S
  BY <1>2 DEF KeysOf
<1> HIDE DEF mentioned, S
<1>4. OnceEach(mentioned, S) # <<>> /\ OnceEach(mentioned, S)[1] = mentioned[1]
  BY ONLY <1>2, <1>3, OnceEachOf
<1> QED BY <1>1, <1>2, <1>4

\* The groups of two roles share no key.
LEMMA GroupsDisjoint ==
  ASSUME NEW K, NEW payer, payer \in K, NEW ins, ins \in Seq(InstructionOver(K)),
         NEW role, NEW other, role # other
  PROVE  ToSet(Group(payer, ins, role)) \cap ToSet(Group(payer, ins, other)) = {}
<1>1. \A key \in ToSet(Group(payer, ins, role)) : RoleOf(payer, ins, key) = role
  BY GroupOf
<1>2. \A key \in ToSet(Group(payer, ins, other)) : RoleOf(payer, ins, key) = other
  BY GroupOf
<1> QED BY <1>1, <1>2

\* The keys of a compiled message, group after group, and its header: every key
\* appears once, the payer first, and the header gives each, by position, its role.
LEMMA CompiledKeys ==
  ASSUME NEW K, NEW payer, payer \in K, NEW ins, ins \in Seq(InstructionOver(K)),
         NEW ephemeral, NEW lookups
  PROVE  LET m == Compiled(payer, ins, ephemeral, lookups)
         IN  /\ m.accountKeys \in Seq(K) /\ Once(m.accountKeys)
             /\ ToSet(m.accountKeys) = KeysOf(payer, ins)
             /\ m.accountKeys # <<>> /\ m.accountKeys[1] = payer
             /\ m.numSigners \in Nat /\ m.numWritableSigners \in 1 .. m.numSigners
             /\ m.numWritableNonSigners \in Nat
             /\ m.numSigners + m.numWritableNonSigners <= Len(m.accountKeys)
             /\ \A i \in 1 .. Len(m.accountKeys) :
                  RoleOf(payer, ins, m.accountKeys[i])
                    = [signer |-> i <= m.numSigners,
                       writable |->
                         \/ i <= m.numWritableSigners
                         \/ i \in m.numSigners + 1 .. m.numSigners + m.numWritableNonSigners]
<1> DEFINE role(signer, writable) == [signer |-> signer, writable |-> writable]
           a == Group(payer, ins, role(TRUE, TRUE))
           b == Group(payer, ins, role(TRUE, FALSE))
           c == Group(payer, ins, role(FALSE, TRUE))
           d == Group(payer, ins, role(FALSE, FALSE))
           ab == a \o b
           abc == ab \o c
           keys == abc \o d
           m == Compiled(payer, ins, ephemeral, lookups)
           R(key) == RoleOf(payer, ins, key)
<1>1. /\ m.accountKeys = keys
      /\ m.numSigners = Len(a) + Len(b) /\ m.numWritableSigners = Len(a)
      /\ m.numWritableNonSigners = Len(c)
  BY DEF Compiled, Header
<1>2. /\ a \in Seq(K) /\ Once(a) /\ b \in Seq(K) /\ Once(b)
      /\ c \in Seq(K) /\ Once(c) /\ d \in Seq(K) /\ Once(d)
  BY GroupOf
<1>3. /\ \A key \in ToSet(a) : R(key) = role(TRUE, TRUE)
      /\ \A key \in ToSet(b) : R(key) = role(TRUE, FALSE)
      /\ \A key \in ToSet(c) : R(key) = role(FALSE, TRUE)
      /\ \A key \in ToSet(d) : R(key) = role(FALSE, FALSE)
  BY GroupOf
<1>4. a # <<>> /\ a[1] = payer
  <2>1. RoleOf(payer, ins, payer) = role(TRUE, TRUE)
    BY RoleOfKeys
  <2>2. payer \in K /\ ins \in Seq(InstructionOver(K))
    OBVIOUS
  <2> HIDE DEF role
  <2> QED BY ONLY <2>1, <2>2, PayerLeads
<1>5. ToSet(a) \cup ToSet(b) \cup ToSet(c) \cup ToSet(d) = KeysOf(payer, ins)
  <2>1. \A key :
          /\ key \in ToSet(a) <=> key \in KeysOf(payer, ins) /\ R(key) = role(TRUE, TRUE)
          /\ key \in ToSet(b) <=> key \in KeysOf(payer, ins) /\ R(key) = role(TRUE, FALSE)
          /\ key \in ToSet(c) <=> key \in KeysOf(payer, ins) /\ R(key) = role(FALSE, TRUE)
          /\ key \in ToSet(d) <=> key \in KeysOf(payer, ins) /\ R(key) = role(FALSE, FALSE)
    <3>1. \A held, key : key \in ToSet(Group(payer, ins, held))
                           <=> key \in KeysOf(payer, ins) /\ R(key) = held
      BY GroupOf
    <3> HIDE DEF R, role
    <3> QED BY ONLY <3>1 DEF a, b, c, d
  <2>2. \A key : \/ R(key) = role(TRUE, TRUE) \/ R(key) = role(TRUE, FALSE)
                 \/ R(key) = role(FALSE, TRUE) \/ R(key) = role(FALSE, FALSE)
    <3>1. \A key : R(key) \in Role
      BY RoleOfKeys
    <3> HIDE DEF R
    <3> QED BY ONLY <3>1 DEF Role
  <2> HIDE DEF a, b, c, d, R, role
  <2> QED BY ONLY <2>1, <2>2
<1>6. /\ ToSet(a) \cap ToSet(b) = {} /\ (ToSet(a) \cup ToSet(b)) \cap ToSet(c) = {}
      /\ (ToSet(a) \cup ToSet(b) \cup ToSet(c)) \cap ToSet(d) = {}
  <2>1. /\ role(TRUE, TRUE) # role(TRUE, FALSE) /\ role(TRUE, TRUE) # role(FALSE, TRUE)
        /\ role(TRUE, FALSE) # role(FALSE, TRUE) /\ role(TRUE, TRUE) # role(FALSE, FALSE)
        /\ role(TRUE, FALSE) # role(FALSE, FALSE) /\ role(FALSE, TRUE) # role(FALSE, FALSE)
    OBVIOUS
  <2> HIDE DEF a, b, c, d, R, role
  <2> QED BY ONLY <1>3, <2>1
<1> HIDE DEF a, b, c, d
<1>7. Len(a) \in Nat /\ Len(b) \in Nat /\ Len(c) \in Nat /\ Len(d) \in Nat /\ Len(a) > 0
  <2>1. Len(a) \in Nat /\ Len(b) \in Nat /\ Len(c) \in Nat /\ Len(d) \in Nat
    BY <1>2, LenProperties
  <2>2. Len(a) # 0
    BY <1>2, <1>4, EmptySeq
  <2> QED BY <2>1, <2>2
<1>8. /\ ab \in Seq(K) /\ Len(ab) = Len(a) + Len(b) /\ Once(ab)
      /\ ToSet(ab) = ToSet(a) \cup ToSet(b)
      /\ \A i \in 1 .. Len(a) : ab[i] = a[i] /\ ab[i] \in ToSet(a)
      /\ \A i \in Len(a) + 1 .. Len(a) + Len(b) : ab[i] \in ToSet(b)
  BY ONLY <1>2, <1>6, Joined
<1> HIDE DEF ab
<1>9. /\ abc \in Seq(K) /\ Len(abc) = Len(ab) + Len(c) /\ Once(abc)
      /\ ToSet(abc) = ToSet(ab) \cup ToSet(c)
      /\ \A i \in 1 .. Len(ab) : abc[i] = ab[i]
      /\ \A i \in Len(ab) + 1 .. Len(ab) + Len(c) : abc[i] \in ToSet(c)
  <2>1. /\ ab \in Seq(K) /\ c \in Seq(K) /\ Once(ab) /\ Once(c)
        /\ ToSet(ab) \cap ToSet(c) = {}
    BY ONLY <1>2, <1>6, <1>8
  <2> QED BY ONLY <2>1, Joined
<1> HIDE DEF abc
<1>10. /\ keys \in Seq(K) /\ Len(keys) = Len(abc) + Len(d) /\ Once(keys)
       /\ ToSet(keys) = ToSet(abc) \cup ToSet(d)
       /\ \A i \in 1 .. Len(abc) : keys[i] = abc[i]
       /\ \A i \in Len(abc) + 1 .. Len(abc) + Len(d) : keys[i] \in ToSet(d)
  <2>1. /\ abc \in Seq(K) /\ d \in Seq(K) /\ Once(abc) /\ Once(d)
        /\ ToSet(abc) \cap ToSet(d) = {}
    BY ONLY <1>2, <1>6, <1>8, <1>9
  <2> QED BY ONLY <2>1, Joined
<1> HIDE DEF keys
<1>11. keys # <<>> /\ keys[1] = payer
  <2>1. 1 \in 1 .. Len(a) /\ 1 \in 1 .. Len(ab) /\ 1 \in 1 .. Len(abc) /\ Len(keys) # 0
    BY <1>7, <1>8, <1>9, <1>10
  <2> QED BY <1>4, <1>8, <1>9, <1>10, <2>1, EmptySeq
<1> DEFINE p == Len(a)
           q == Len(a) + Len(b)
           w == Len(c)
<1>12. p \in Nat /\ q \in Nat /\ w \in Nat /\ p \in 1 .. q /\ q + w <= Len(keys)
  BY <1>7, <1>8, <1>9, <1>10
<1>13. ASSUME NEW i \in 1 .. Len(keys)
       PROVE  R(keys[i]) = [signer |-> i <= q, writable |-> i <= p \/ i \in q + 1 .. q + w]
  <2>1. CASE i \in 1 .. p
    <3>1. i \in 1 .. Len(a) /\ i \in 1 .. Len(ab) /\ i \in 1 .. Len(abc)
      BY <1>7, <1>8, <1>9, <2>1
    <3>2. keys[i] \in ToSet(a)
      BY ONLY <1>8, <1>9, <1>10, <3>1
    <3>3. (i <= q) = TRUE /\ (i <= p \/ i \in q + 1 .. q + w) = TRUE
      BY <1>12, <2>1
    <3> HIDE DEF p, q, w, R
    <3> QED BY ONLY <1>3, <3>2, <3>3
  <2>2. CASE i \in p + 1 .. q
    <3>1. i \in Len(a) + 1 .. Len(a) + Len(b) /\ i \in 1 .. Len(ab) /\ i \in 1 .. Len(abc)
      BY <1>7, <1>8, <1>9, <2>2
    <3>2. keys[i] \in ToSet(b)
      BY ONLY <1>8, <1>9, <1>10, <3>1
    <3>3. (i <= q) = TRUE /\ (i <= p \/ i \in q + 1 .. q + w) = FALSE
      BY <1>12, <2>2
    <3> HIDE DEF p, q, w, R
    <3> QED BY ONLY <1>3, <3>2, <3>3
  <2>3. CASE i \in q + 1 .. q + w
    <3>1. i \in Len(ab) + 1 .. Len(ab) + Len(c) /\ i \in 1 .. Len(abc)
      BY <1>7, <1>8, <1>9, <2>3
    <3>2. keys[i] \in ToSet(c)
      BY ONLY <1>9, <1>10, <3>1
    <3>3. (i <= q) = FALSE /\ (i <= p \/ i \in q + 1 .. q + w) = TRUE
      BY <1>12, <2>3
    <3> HIDE DEF p, q, w, R
    <3> QED BY ONLY <1>3, <3>2, <3>3
  <2>4. CASE i > q + w
    <3>1. i \in Len(abc) + 1 .. Len(abc) + Len(d)
      BY <1>7, <1>8, <1>9, <1>10, <2>4
    <3>2. keys[i] \in ToSet(d)
      BY ONLY <1>10, <3>1
    <3>3. (i <= q) = FALSE /\ (i <= p \/ i \in q + 1 .. q + w) = FALSE
      BY <1>12, <2>4
    <3> HIDE DEF p, q, w, R
    <3> QED BY ONLY <1>3, <3>2, <3>3
  <2>5. i \in 1 .. p \/ i \in p + 1 .. q \/ i \in q + 1 .. q + w \/ i > q + w
    BY <1>12
  <2> QED BY ONLY <2>1, <2>2, <2>3, <2>4, <2>5
<1>14. ToSet(keys) = KeysOf(payer, ins)
  BY ONLY <1>5, <1>8, <1>9, <1>10
<1> HIDE DEF m
<1> QED BY ONLY <1>1, <1>10, <1>11, <1>12, <1>13, <1>14 DEF m

\* A compiled instruction names its program and its accounts by their positions.
LEMMA CompiledInstructions ==
  ASSUME NEW K, NEW payer, payer \in K, NEW ins, ins \in Seq(InstructionOver(K)),
         NEW ephemeral, NEW lookups
  PROVE  LET m == Compiled(payer, ins, ephemeral, lookups)
         IN  /\ Len(m.instructions) = Len(ins)
             /\ \A i \in 1 .. Len(ins) :
                  LET ix == m.instructions[i] IN
                  /\ ix.programIdIndex \in 1 .. Len(m.accountKeys)
                  /\ m.accountKeys[ix.programIdIndex] = ins[i].program
                  /\ Len(ix.accountIndexes) = Len(ins[i].accounts)
                  /\ \A j \in 1 .. Len(ins[i].accounts) :
                       /\ ix.accountIndexes[j] \in 1 .. Len(m.accountKeys)
                       /\ m.accountKeys[ix.accountIndexes[j]] = ins[i].accounts[j].address
<1> DEFINE m == Compiled(payer, ins, ephemeral, lookups)
           keys == m.accountKeys
           position(key) == CHOOSE i \in DOMAIN keys : keys[i] = key
<1>1. m.instructions = [i \in DOMAIN ins |-> CompiledInstruction(keys, ins[i])]
  BY DEF Compiled
<1>2. keys \in Seq(K) /\ ToSet(keys) = KeysOf(payer, ins)
  BY CompiledKeys
<1> HIDE DEF m
<1>3. ASSUME NEW key \in KeysOf(payer, ins)
      PROVE  position(key) \in 1 .. Len(keys) /\ keys[position(key)] = key
  <2>1. DOMAIN keys = 1 .. Len(keys) /\ \E i \in DOMAIN keys : keys[i] = key
    <3> HIDE DEF keys
    <3> QED BY <1>2, Elements
  <2>2. position(key) \in DOMAIN keys /\ keys[position(key)] = key
    <3> HIDE DEF keys
    <3> QED BY <2>1
  <2> QED BY <2>1, <2>2
<1> HIDE DEF position
<1>4. Len(ins) \in Nat /\ DOMAIN ins = 1 .. Len(ins)
  BY InstructionTypes
<1>5. Len(m.instructions) = Len(ins)
  BY <1>1, <1>4
<1>6. ASSUME NEW i \in 1 .. Len(ins)
      PROVE  LET ix == m.instructions[i] IN
             /\ ix.programIdIndex \in 1 .. Len(keys)
             /\ keys[ix.programIdIndex] = ins[i].program
             /\ Len(ix.accountIndexes) = Len(ins[i].accounts)
             /\ \A j \in 1 .. Len(ins[i].accounts) :
                  /\ ix.accountIndexes[j] \in 1 .. Len(keys)
                  /\ keys[ix.accountIndexes[j]] = ins[i].accounts[j].address
  <2> DEFINE asked == ins[i].accounts
  <2>1. /\ m.instructions[i].programIdIndex = position(ins[i].program)
        /\ m.instructions[i].accountIndexes
             = [j \in DOMAIN asked |-> position(asked[j].address)]
    <3>1. m.instructions[i] = CompiledInstruction(keys, ins[i])
      BY <1>1, <1>4
    <3>2. CompiledInstruction(keys, ins[i])
            = [programIdIndex |-> position(ins[i].program),
               accountIndexes |-> [j \in DOMAIN asked |-> position(asked[j].address)]]
      <4> HIDE DEF keys
      <4> QED BY DEF CompiledInstruction, position
    <3> QED BY ONLY <3>1, <3>2
  <2>2. Len(asked) \in Nat /\ DOMAIN asked = 1 .. Len(asked)
    BY InstructionTypes
  <2>3. ins[i].program \in KeysOf(payer, ins)
    BY MetasAt DEF KeysOf
  <2>4. ASSUME NEW j \in 1 .. Len(asked) PROVE asked[j].address \in KeysOf(payer, ins)
    <3>1. asked[j] \in Metas(ins)
      BY MetasAt
    <3> QED BY <3>1 DEF KeysOf
  <2> HIDE DEF asked, keys
  <2>5. /\ Len(m.instructions[i].accountIndexes) = Len(asked)
        /\ \A j \in 1 .. Len(asked) :
             m.instructions[i].accountIndexes[j] = position(asked[j].address)
    BY <2>1, <2>2
  <2>6. /\ position(ins[i].program) \in 1 .. Len(keys)
        /\ keys[position(ins[i].program)] = ins[i].program
        /\ \A j \in 1 .. Len(asked) :
             /\ position(asked[j].address) \in 1 .. Len(keys)
             /\ keys[position(asked[j].address)] = asked[j].address
    BY ONLY <1>3, <2>3, <2>4
  <2> QED BY ONLY <2>1, <2>5, <2>6 DEF asked
<1> QED BY ONLY <1>5, <1>6 DEF m, keys

\* A sequence in which nothing appears twice is as long as the set of its elements.
LEMMA Counted ==
  ASSUME NEW T, NEW t, t \in Seq(T), Once(t)
  PROVE  Cardinality(ToSet(t)) = Len(t)
<1> DEFINE n == Len(t)
           S == ToSet(t)
           f == [i \in 1 .. n |-> t[i]]
<1>1. n \in Nat /\ S = {t[i] : i \in 1 .. n}
  BY Elements
<1>2. \A i, j \in 1 .. n : t[i] = t[j] => i = j
  BY DEF Once
<1> HIDE DEF n, S
<1>3. f \in Injection(1 .. n, S)
  BY <1>1, <1>2 DEF Injection, IsInjective
<1>4. f \in Surjection(1 .. n, S)
  BY <1>1 DEF Surjection
<1>5. ExistsBijection(1 .. n, S)
  BY <1>3, <1>4 DEF Bijection, ExistsBijection
<1>6. Cardinality(S) = n
  BY <1>1, <1>5, FS_CountingElements
<1> QED BY <1>6 DEF n, S

\* Nine more for each of the sizes summed.
LEMMA NineMore ==
  ASSUME NEW b, b \in Seq(Nat), NEW s, s \in Seq(Nat), Len(s) = Len(b),
         \A n \in 1 .. Len(b) : s[n] = 9 + b[n]
  PROVE  Total(s) = 9 * Len(b) + Total(b) /\ Total(b) \in Nat /\ Total(s) \in Nat
<1>1. PICK sum \in [0 .. Len(b) -> Nat] :
        /\ sum[0] = 0
        /\ \A n \in 1 .. Len(b) : sum[n] = sum[n - 1] + b[n]
        /\ Total(b) = sum[Len(b)]
  BY Sums
<1> DEFINE N == Len(b)
           g == [n \in 0 .. N |-> sum[n] + 9 * n]
<1>2. N \in Nat /\ \A n \in 1 .. N : b[n] \in Nat
  BY LenProperties, ElementOfSeq
<1>3. \A n \in 0 .. N : g[n] = sum[n] + 9 * n
  OBVIOUS
<1> HIDE DEF g, N
<1>4. g[0] = 0
  BY <1>1, <1>2, <1>3
<1>5. ASSUME NEW n \in 1 .. N PROVE g[n] = g[n - 1] + s[n]
  <2>1. n \in Int /\ n \in 0 .. N /\ n - 1 \in 0 .. N
    BY <1>2
  <2>2. sum[n] = sum[n - 1] + b[n] /\ s[n] = 9 + b[n]
    BY <1>1 DEF N
  <2>3. b[n] \in Nat
    BY <1>2
  <2>4. sum[n - 1] \in Nat
    BY <1>1, <2>1 DEF N
  <2>5. g[n] = sum[n] + 9 * n /\ g[n - 1] = sum[n - 1] + 9 * (n - 1)
    BY <1>3, <2>1
  <2> QED BY ONLY <2>1, <2>2, <2>3, <2>4, <2>5
<1>6. Total(s) = g[Len(s)] /\ Total(s) \in Nat
  <2>1. \A n \in 1 .. Len(s) : g[n] = g[n - 1] + s[n]
    BY <1>5 DEF N
  <2> QED BY <1>4, <2>1, TotalIs
<1>7. Total(s) = sum[N] + 9 * N
  BY <1>2, <1>3, <1>6 DEF N
<1>8. sum[N] \in Nat /\ Total(b) = sum[N]
  BY <1>1, <1>2, SMTT(20) DEF N
<1>9. Total(s) = 9 * N + Total(b)
  BY ONLY <1>2, <1>7, <1>8
<1> QED BY <1>6, <1>8, <1>9 DEF N
=============================================================================
