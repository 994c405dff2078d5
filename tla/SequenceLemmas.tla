---------------------------- MODULE SequenceLemmas ----------------------------
(***************************************************************************)
(* Facts about sequences that the proofs of the components share.          *)
(*                                                                         *)
(* The induction theorems of the library take an operator, which the       *)
(* provers cannot instantiate.  Those here take a set instead and rest on  *)
(* the least element of a set of naturals (WFMin, NatLessThanWellFounded); *)
(* so does the existence of functions that are defined by recursion.       *)
(***************************************************************************)
EXTENDS Filter, TLAPS, WellFoundedInduction, SequenceTheorems

--------------------------------------------------------------------------------
(* Induction and recursion.                                                  *)

\* A set that has 0 and the successor of what it has below N has all up to N.
LEMMA InductionUpTo ==
  ASSUME NEW N \in Nat, NEW P, 0 \in P, \A n \in P : n \in 0 .. N - 1 => n + 1 \in P
  PROVE  0 .. N \subseteq P
<1> DEFINE T == (0 .. N) \ P
<1>1. ASSUME T # {} PROVE FALSE
  <2>1. IsWellFoundedOn(OpToRel(<, Nat), Nat)
    BY NatLessThanWellFounded
  <2>2. T \subseteq Nat
    OBVIOUS
  <2> HIDE DEF T
  <2>3. PICK x \in T : \A y \in T : ~ (<<y, x>> \in OpToRel(<, Nat))
    BY <1>1, <2>1, <2>2, WFMin
  <2>4. \A y \in T : ~ (y < x)
    BY <2>2, <2>3 DEF OpToRel
  <2>5. x # 0 /\ x \in 0 .. N /\ x \notin P
    BY DEF T
  <2>6. x - 1 \in P /\ x - 1 \in 0 .. N - 1 /\ (x - 1) + 1 = x
    BY <2>4, <2>5 DEF T
  <2>7. x \in P
    BY <2>6
  <2> QED BY <2>5, <2>7
<1> QED BY <1>1

\* f is base at 0 and goes on by step.
Recurs(f, N, T, base, step) ==
  /\ f \in [0 .. N -> T]
  /\ f[0] = base
  /\ \A n \in 1 .. N : f[n] = step[n][f[n - 1]]

\* For every base and every step there is such a function.
LEMMA RecursionExists ==
  ASSUME NEW N \in Nat, NEW T, NEW base \in T, NEW step \in [1 .. N -> [T -> T]]
  PROVE  \E f : Recurs(f, N, T, base, step)
<1> DEFINE Good(n) == \E f \in [0 .. n -> T] :
                        f[0] = base /\ \A k \in 1 .. n : f[k] = step[k][f[k - 1]]
           P == {n \in 0 .. N : Good(n)}
<1>1. Good(0)
  <2> DEFINE f == [n \in 0 .. 0 |-> base]
  <2>1. f \in [0 .. 0 -> T] /\ f[0] = base /\ \A k \in 1 .. 0 : f[k] = step[k][f[k - 1]]
    OBVIOUS
  <2> QED BY <2>1
<1>2. ASSUME NEW n \in 0 .. N - 1, Good(n)
      PROVE  Good(n + 1)
  <2>1. PICK f \in [0 .. n -> T] : f[0] = base /\ \A k \in 1 .. n : f[k] = step[k][f[k - 1]]
    BY <1>2
  <2> DEFINE g == [k \in 0 .. n + 1 |-> IF k = n + 1 THEN step[n + 1][f[n]] ELSE f[k]]
  <2>2. g \in [0 .. n + 1 -> T]
    BY <1>2
  <2>3. g[0] = base
    BY <2>1
  <2>4. ASSUME NEW k \in 1 .. n + 1 PROVE g[k] = step[k][g[k - 1]]
    <3>1. CASE k = n + 1
      BY <3>1
    <3>2. CASE k \in 1 .. n
      BY <2>1, <3>2
    <3> QED BY <3>1, <3>2
  <2> QED BY <2>2, <2>3, <2>4
<1> HIDE DEF Good
<1>3. 0 .. N \subseteq P
  <2>1. 0 \in P
    BY <1>1
  <2>2. \A n \in P : n \in 0 .. N - 1 => n + 1 \in P
    BY <1>2
  <2> HIDE DEF P
  <2> QED BY <2>1, <2>2, InductionUpTo
<1>4. Good(N)
  BY <1>3
<1> QED BY <1>4 DEF Good, Recurs

\* A set that has <<>> and stays closed under Append has every sequence.
LEMMA SequenceInduction ==
  ASSUME NEW S, NEW P, <<>> \in P, \A s \in Seq(S), e \in S : s \in P => Append(s, e) \in P
  PROVE  Seq(S) \subseteq P
<1> SUFFICES ASSUME NEW s \in Seq(S) PROVE s \in P
  OBVIOUS
<1> DEFINE N == Len(s)
           front == [n \in 0 .. N |-> SubSeq(s, 1, n)]
           Q == {n \in 0 .. N : front[n] \in P}
<1>1. N \in Nat /\ front[0] = <<>> /\ front[N] = s
  BY SubSeqEmpty, SubSeqFull
<1>2. ASSUME NEW n \in 0 .. N - 1
      PROVE  /\ front[n] \in Seq(S) /\ s[n + 1] \in S
             /\ front[n + 1] = Append(front[n], s[n + 1])
  OBVIOUS
<1> HIDE DEF N, front
<1>3. 0 \in Q
  BY <1>1
<1>4. ASSUME NEW n \in Q, n \in 0 .. N - 1 PROVE n + 1 \in Q
  <2>1. front[n] \in P /\ n + 1 \in 0 .. N
    BY <1>1, <1>4
  <2>2. Append(front[n], s[n + 1]) \in P
    BY <1>2, <1>4, <2>1
  <2> QED BY <1>2, <1>4, <2>1, <2>2
<1>5. 0 .. N \subseteq Q
  <2> HIDE DEF Q
  <2> QED BY <1>1, <1>3, <1>4, InductionUpTo
<1> QED BY <1>1, <1>5

\* A set of naturals with a bound and an element has a greatest one.
LEMMA MaxOfBounded ==
  ASSUME NEW N \in Nat, NEW T \in SUBSET (0 .. N), T # {}
  PROVE  Max(T) \in T /\ \A x \in T : x <= Max(T)
<1> DEFINE P == {n \in 0 .. N : \A U \in SUBSET (0 .. n) :
                   U # {} => \E x \in U : \A y \in U : x >= y}
<1>1. 0 \in P
  <2> SUFFICES ASSUME NEW U \in SUBSET (0 .. 0), U # {}
               PROVE  \E x \in U : \A y \in U : x >= y
    OBVIOUS
  <2>1. \A y \in U : y = 0
    OBVIOUS
  <2>2. PICK x \in U : TRUE
    OBVIOUS
  <2>3. \A y \in U : x >= y
    BY <2>1, <2>2
  <2> QED BY <2>3
<1>2. ASSUME NEW n \in P, n \in 0 .. N - 1 PROVE n + 1 \in P
  <2> SUFFICES ASSUME NEW U \in SUBSET (0 .. n + 1), U # {}
               PROVE  \E x \in U : \A y \in U : x >= y
    BY <1>2
  <2>1. CASE n + 1 \in U
    BY <1>2, <2>1
  <2>2. CASE n + 1 \notin U
    <3>1. U \in SUBSET (0 .. n)
      BY <1>2, <2>2
    <3> QED BY <3>1
  <2> QED BY <2>1, <2>2
<1>3. N \in P
  <2> HIDE DEF P
  <2> QED BY <1>1, <1>2, InductionUpTo
<1>4. \E x \in T : \A y \in T : x >= y
  BY <1>3
<1> QED BY <1>4 DEF Max

--------------------------------------------------------------------------------
(* Folds from the left.                                                      *)

\* The equations of a fold over a set of numbers that takes the largest first
\* (MapThenFoldSet as FoldLeft uses it)
Folds(f, N, base, step) ==
  \A s \in SUBSET (1 .. N) :
    f[s] = IF s = {} THEN base ELSE step[Max(s)][f[s \ {Max(s)}]]

\* There is a function that satisfies them.
LEMMA FoldExists ==
  ASSUME NEW N \in Nat, NEW T, NEW base \in T, NEW step \in [1 .. N -> [T -> T]]
  PROVE  \E f \in [SUBSET (1 .. N) -> T] : Folds(f, N, base, step)
<1> DEFINE Sets == SUBSET (1 .. N)
           F == [Sets -> T]
           start == [s \in Sets |-> base]
           Add(n, f) == [s \in Sets |-> IF n \in s THEN step[n][f[s \ {n}]] ELSE f[s]]
           add == [n \in 1 .. N |-> [f \in F |-> Add(n, f)]]
<1>1. start \in F
  OBVIOUS
<1>2. ASSUME NEW n \in 1 .. N, NEW f \in F PROVE Add(n, f) \in F
  <2>1. ASSUME NEW s \in Sets
        PROVE  (IF n \in s THEN step[n][f[s \ {n}]] ELSE f[s]) \in T
    <3>1. s \ {n} \in Sets
      OBVIOUS
    <3>2. f[s] \in T /\ f[s \ {n}] \in T
      BY <3>1
    <3>3. step[n] \in [T -> T]
      OBVIOUS
    <3> QED BY <3>2, <3>3
  <2> QED BY <2>1
<1>3. add \in [1 .. N -> [F -> F]] /\ \A n \in 1 .. N, f \in F : add[n][f] = Add(n, f)
  <2>1. \A n \in 1 .. N, f \in F : Add(n, f) \in F
    BY <1>2
  <2> HIDE DEF Add, F
  <2> QED BY <2>1
<1> HIDE DEF add, start
<1>4. PICK g : Recurs(g, N, F, start, add)
  BY <1>1, <1>3, RecursionExists
<1>5. /\ \A n \in 0 .. N : g[n] \in F
      /\ g[0] = start
      /\ \A n \in 1 .. N : g[n] = Add(n, g[n - 1])
  <2>1. \A n \in 0 .. N : g[n] \in F
    BY <1>4, Zenon DEF Recurs
  <2>2. ASSUME NEW n \in 1 .. N PROVE g[n] = Add(n, g[n - 1])
    <3>1. n - 1 \in 0 .. N
      OBVIOUS
    <3>2. g[n] = add[n][g[n - 1]]
      BY <1>4, Zenon DEF Recurs
    <3> QED BY <2>1, <3>1, <3>2, <1>3, Zenon
  <2> QED BY <1>4, <2>1, <2>2, Zenon DEF Recurs
<1> DEFINE Good(n) ==
      \A s \in SUBSET (1 .. n) :
        g[n][s] = IF s = {} THEN base ELSE step[Max(s)][g[n][s \ {Max(s)}]]
           P == {n \in 0 .. N : Good(n)}
<1>6. 0 \in P
  <2>1. \A s \in SUBSET (1 .. 0) : s = {} /\ s \in Sets
    OBVIOUS
  <2>2. g[0][{}] = base
    <3>1. {} \in Sets
      OBVIOUS
    <3> QED BY <1>5, <3>1 DEF start
  <2>3. Good(0)
    BY <2>1, <2>2
  <2> HIDE DEF Good
  <2> QED BY <2>3
<1>7. ASSUME NEW n \in P, n \in 0 .. N - 1 PROVE n + 1 \in P
  <2> DEFINE m == n + 1
  <2>1. m \in 1 .. N /\ m - 1 = n /\ m \in 0 .. N /\ n \in 0 .. N
    BY <1>7
  <2> HIDE DEF m
  <2>2. g[m] = Add(m, g[n]) /\ g[n] \in F
    <3> HIDE DEF Add, F
    <3> QED BY <1>5, <2>1
  <2>3. ASSUME NEW s \in SUBSET (1 .. m)
        PROVE  g[m][s] = IF s = {} THEN base ELSE step[Max(s)][g[m][s \ {Max(s)}]]
    <3>1. s \in Sets /\ \A x : s \ {x} \in Sets
      <4>1. 1 .. m \subseteq 1 .. N
        BY <2>1
      <4> QED BY <4>1
    <3>2. g[m][s] = (IF m \in s THEN step[m][g[n][s \ {m}]] ELSE g[n][s])
      BY <2>2, <3>1
    <3>3. CASE m \in s
      <4>1. s # {} /\ s \in SUBSET (0 .. m) /\ m \in Nat
        BY <2>1, <3>3
      <4>2. Max(s) \in s /\ \A x \in s : x <= Max(s)
        BY <4>1, MaxOfBounded
      <4>3. Max(s) = m
        <5>1. Max(s) \in 1 .. m /\ m <= Max(s)
          BY <3>3, <4>2
        <5> QED BY <5>1, <2>1
      <4>4. g[m][s \ {m}] = g[n][s \ {m}]
        BY <2>2, <3>1
      <4> QED BY <3>2, <3>3, <4>1, <4>3, <4>4
    <3>4. CASE m \notin s
      <4>1. s \in SUBSET (1 .. n)
        BY <2>1, <3>4
      <4>2. g[n][s] = IF s = {} THEN base ELSE step[Max(s)][g[n][s \ {Max(s)}]]
        BY <1>7, <4>1
      <4>3. \A x : g[m][s \ {x}] = g[n][s \ {x}]
        <5>1. ASSUME NEW x PROVE g[m][s \ {x}] = g[n][s \ {x}]
          <6>1. m \notin s \ {x} /\ s \ {x} \in Sets
            BY <3>1, <3>4
          <6> QED BY <2>2, <6>1
        <5> QED BY <5>1
      <4> QED BY <3>2, <3>4, <4>2, <4>3
    <3> QED BY <3>3, <3>4
  <2>4. Good(m)
    BY <2>3
  <2> QED BY <2>1, <2>4 DEF m
<1> HIDE DEF P
<1>8. 0 .. N \subseteq P
  BY <1>6, <1>7, InductionUpTo
<1>9. Good(N) /\ g[N] \in F
  <2>1. N \in 0 .. N
    OBVIOUS
  <2>2. N \in P
    BY <1>8, <2>1
  <2> HIDE DEF Good, F
  <2> QED BY <1>5, <2>1, <2>2 DEF P
<1> QED BY <1>9 DEF Folds

\* What is in P[0] at {} and goes on from P[n - 1] at 1 .. n - 1 to P[n] at 1 .. n
\* ends in P[N] at 1 .. N.
LEMMA FoldStays ==
  ASSUME NEW N \in Nat, NEW P, NEW g, g[{}] \in P[0],
         \A n \in 1 .. N : g[1 .. n - 1] \in P[n - 1] => g[1 .. n] \in P[n]
  PROVE  g[1 .. N] \in P[N]
<1> DEFINE Q == {n \in 0 .. N : g[1 .. n] \in P[n]}
<1>1. 0 \in Q
  <2>1. 1 .. 0 = {} /\ 0 \in 0 .. N
    OBVIOUS
  <2> QED BY <2>1
<1>2. ASSUME NEW n \in Q, n \in 0 .. N - 1 PROVE n + 1 \in Q
  <2>1. n + 1 \in 1 .. N /\ (n + 1) - 1 = n /\ n + 1 \in 0 .. N
    BY <1>2
  <2> QED BY <2>1
<1> HIDE DEF Q
<1>3. 0 .. N \subseteq Q
  BY <1>1, <1>2, InductionUpTo
<1> QED BY <1>3 DEF Q

\* The sets the recursion of a fold goes through
LEMMA FoldTakes ==
  ASSUME NEW N \in Nat
  PROVE  /\ \A x \in SUBSET (1 .. N) :
              x # {} => Max(x) \in 1 .. N /\ x \ {Max(x)} \in SUBSET (1 .. N)
         /\ \A n \in 1 .. N : /\ 1 .. n \in SUBSET (1 .. N) /\ 1 .. n # {}
                             /\ Max(1 .. n) = n /\ (1 .. n) \ {n} = 1 .. n - 1
<1>1. ASSUME NEW x \in SUBSET (1 .. N), x # {} PROVE Max(x) \in x
  <2>1. x \in SUBSET (0 .. N)
    OBVIOUS
  <2> QED BY <1>1, <2>1, MaxOfBounded
<1>2. ASSUME NEW n \in 1 .. N
      PROVE  /\ 1 .. n \in SUBSET (1 .. N) /\ 1 .. n # {}
             /\ Max(1 .. n) = n /\ (1 .. n) \ {n} = 1 .. n - 1
  <2>1. 1 .. n \in SUBSET (1 .. N) /\ 1 .. n \in SUBSET (0 .. n) /\ n \in 1 .. n /\ n \in Nat
    OBVIOUS
  <2>2. Max(1 .. n) \in 1 .. n /\ \A x \in 1 .. n : x <= Max(1 .. n)
    BY <2>1, MaxOfBounded
  <2> QED BY <2>1, <2>2
<1> QED BY <1>1, <1>2

--------------------------------------------------------------------------------
(* Short sequences, and the end of a long one. *)

\* Two sequences of one element are a pair
LEMMA JoinTwo ==
  ASSUME NEW a, NEW b
  PROVE  <<a>> \o <<b>> = <<a, b>> /\ Append(<<a>>, b) = <<a, b>>
<1> DEFINE X == {a, b}
           s == <<a>>
           t == <<b>>
           u == s \o t
           v == Append(s, b)
           w == <<a, b>>
<1>1. /\ s \in Seq(X) /\ t \in Seq(X) /\ w \in Seq(X) /\ b \in X
      /\ Len(s) = 1 /\ s[1] = a /\ Len(t) = 1 /\ t[1] = b
      /\ Len(w) = 2 /\ w[1] = a /\ w[2] = b
  OBVIOUS
<1> HIDE DEF X, s, t, w
<1>2. u \in Seq(X) /\ Len(u) = 2 /\ u[1] = a /\ u[2] = b
  <2>1. /\ u \in Seq(X) /\ Len(u) = Len(s) + Len(t)
        /\ \A i \in 1 .. Len(s) + Len(t) : u[i] = IF i <= Len(s) THEN s[i] ELSE t[i - Len(s)]
    BY <1>1, ConcatProperties, Zenon
  <2> HIDE DEF u
  <2> QED BY <1>1, <2>1
<1>3. v \in Seq(X) /\ Len(v) = 2 /\ v[1] = a /\ v[2] = b
  BY <1>1
<1> HIDE DEF u, v
<1>4. \A i \in 1 .. 2 : u[i] = w[i] /\ v[i] = w[i]
  BY <1>1, <1>2, <1>3
<1>5. u = w /\ v = w
  BY <1>1, <1>2, <1>3, <1>4, SeqEqual
<1> QED BY <1>5, Zenon DEF u, v, w, s, t

\* A function on the indices of a short sequence is that sequence
LEMMA MapOne ==
  ASSUME NEW s, DOMAIN s = {1}, NEW f, f = [i \in DOMAIN s |-> f[i]]
  PROVE  f = <<f[1]>>
  OBVIOUS

\* A function on the domain of a pair is a pair.
LEMMA MapTwo ==
  ASSUME NEW s, DOMAIN s = {1, 2}, NEW f, f = [i \in DOMAIN s |-> f[i]]
  PROVE  f = <<f[1], f[2]>>
  OBVIOUS

\* The last element and those before it
LEMMA FrontLast ==
  ASSUME NEW X, NEW s \in Seq(X), s # <<>>
  PROVE  /\ Front(s) \in Seq(X) /\ Last(s) \in X /\ s = Append(Front(s), Last(s))
         /\ Len(Front(s)) = Len(s) - 1
<1>1. Len(s) \in Nat \ {0}
  OBVIOUS
<1>2. Front(s) = SubSeq(s, 1, Len(s) - 1) /\ Last(s) = s[Len(s)]
  BY DEF Front, Last
<1>3. Last(s) \in X
  BY <1>1, <1>2
<1>4. SubSeq(s, 1, Len(s) - 1) \in Seq(X) /\ Len(SubSeq(s, 1, Len(s) - 1)) = Len(s) - 1
  <2> DEFINE n == Len(s) - 1
  <2>1. n \in Nat /\ \A i \in 1 .. n : s[i] \in X
    BY <1>1
  <2> HIDE DEF n
  <2>2. SubSeq(s, 1, n) \in Seq(X)
    BY <2>1
  <2>3. Len(SubSeq(s, 1, n)) = n
    BY <2>1
  <2> QED BY <2>2, <2>3 DEF n
<1>5. \A i \in 1 .. Len(s) - 1 : SubSeq(s, 1, Len(s) - 1)[i] = s[i]
  BY <1>1
<1>6. s = Append(Front(s), Last(s))
  <2> DEFINE f == Front(s)
             e == Last(s)
  <2>1. f \in Seq(X) /\ Len(f) = Len(s) - 1 /\ e = s[Len(s)] /\ \A i \in 1 .. Len(s) - 1 : f[i] = s[i]
    BY <1>2, <1>4, <1>5
  <2> HIDE DEF f, e
  <2> DEFINE t == Append(f, e)
  <2>2. t \in Seq(X) /\ Len(t) = Len(s)
    BY <1>1, <1>3, <2>1 DEF e
  <2>3. \A i \in 1 .. Len(s) : t[i] = s[i]
    BY <1>1, <2>1
  <2> HIDE DEF t
  <2>4. s = t
    BY <2>2, <2>3, SeqEqual
  <2> QED BY <2>4 DEF t, f, e
<1> QED BY <1>2, <1>3, <1>4, <1>6

--------------------------------------------------------------------------------
(* FlattenSeq.                                                               *)

\* f[n] is the first n sequences of ss, joined: in the words of FlattenSeq, and
\* as equations.
Flatten(f, ss, N) ==
  \A n \in 1 .. N : f[n] = IF n = 1 THEN ss[n] ELSE f[n - 1] \o ss[n]

\* The equations of FlattenSeq, of what comes after k elements
Joins(f, ss, N) ==
  f[1] = ss[1] /\ \A n \in 1 .. N - 1 : f[n + 1] = f[n] \o ss[n + 1]

\* What the recursion of FlattenSeq computes satisfies the equations.
LEMMA FlattenJoins ==
  ASSUME NEW N \in Nat \ {0}, NEW ss, NEW f, Flatten(f, ss, N)
  PROVE  Joins(f, ss, N)
<1>1. f[1] = ss[1]
  <2>1. 1 \in 1 .. N
    OBVIOUS
  <2> QED BY <2>1, Zenon DEF Flatten
<1>2. ASSUME NEW n \in 1 .. N - 1, NEW k, k = n + 1 PROVE f[k] = f[n] \o ss[k]
  <2>1. k \in 1 .. N /\ k # 1 /\ k - 1 = n
    BY <1>2
  <2>2. f[k] = f[k - 1] \o ss[k]
    BY <2>1, Zenon DEF Flatten
  <2> QED BY <2>1, <2>2, Zenon
<1> QED BY <1>1, <1>2, Zenon DEF Joins

\* The equations have at most one solution.
LEMMA JoinsUnique ==
  ASSUME NEW N \in Nat \ {0}, NEW ss, NEW f, NEW g, Joins(f, ss, N), Joins(g, ss, N)
  PROVE  f[N] = g[N]
<1> DEFINE P == {n \in 0 .. N : n = 0 \/ f[n] = g[n]}
<1>1. 0 \in P
  OBVIOUS
<1>2. ASSUME NEW n \in P, n \in 0 .. N - 1 PROVE n + 1 \in P
  <2>1. n + 1 \in 0 .. N /\ (n = 0 \/ f[n] = g[n])
    BY <1>2
  <2>2. CASE n = 0
    BY <2>1, <2>2 DEF Joins
  <2>3. CASE n \in 1 .. N - 1
    <3>1. n # 0
      BY <2>3
    <3>2. f[n + 1] = g[n + 1]
      BY <2>1, <2>3, <3>1, Zenon DEF Joins
    <3> QED BY <2>1, <3>2
  <2> QED BY <1>2, <2>2, <2>3
<1> HIDE DEF P
<1>3. 0 .. N \subseteq P
  BY <1>1, <1>2, InductionUpTo
<1> QED BY <1>3 DEF P

\* FlattenSeq is the last value of a function that satisfies them.
LEMMA FlattenRecursion ==
  ASSUME NEW X, NEW ss \in Seq(Seq(X)), ss # <<>>
  PROVE  \E f \in [1 .. Len(ss) -> Seq(X)] :
           Joins(f, ss, Len(ss)) /\ FlattenSeq(ss) = f[Len(ss)]
<1> DEFINE N == Len(ss)
           T == Seq(X)
           base == <<>>
           step == [n \in 1 .. N |-> [t \in T |-> IF n = 1 THEN ss[n] ELSE t \o ss[n]]]
<1>1. N \in Nat \ {0} /\ base \in T /\ step \in [1 .. N -> [T -> T]]
  OBVIOUS
<1>2. \A n \in 1 .. N, t \in T : step[n][t] = IF n = 1 THEN ss[n] ELSE t \o ss[n]
  OBVIOUS
<1> HIDE DEF step, N, T, base
<1>3. PICK f : Recurs(f, N, T, base, step)
  BY <1>1, RecursionExists
<1>4. /\ f \in [0 .. N -> T]
      /\ \A n \in 1 .. N : f[n] = IF n = 1 THEN ss[n] ELSE f[n - 1] \o ss[n]
  <2>1. \A n \in 1 .. N : f[n - 1] \in T
    BY <1>1, <1>3 DEF Recurs
  <2> QED BY <1>2, <1>3, <2>1 DEF Recurs
<1> DEFINE g == [n \in 1 .. N |-> f[n]]
<1>5. g \in [1 .. N -> T] /\ \A n \in 1 .. N : g[n] = IF n = 1 THEN ss[n] ELSE g[n - 1] \o ss[n]
  BY <1>1, <1>4
<1> HIDE DEF g
<1>6. g = [n \in 1 .. N |-> IF n = 1 THEN ss[n] ELSE g[n - 1] \o ss[n]]
  BY <1>5
<1> DEFINE flatten == CHOOSE h : h = [n \in 1 .. N |-> IF n = 1 THEN ss[n] ELSE h[n - 1] \o ss[n]]
<1>7. flatten = [n \in 1 .. N |-> IF n = 1 THEN ss[n] ELSE flatten[n - 1] \o ss[n]]
  BY <1>6
<1>8. FlattenSeq(ss) = flatten[N]
  BY <1>1 DEF FlattenSeq, N
<1> HIDE DEF flatten
<1>9. \A n \in 1 .. N : flatten[n] = IF n = 1 THEN ss[n] ELSE flatten[n - 1] \o ss[n]
  BY <1>7
<1>10. Joins(g, ss, N)
  BY <1>1, <1>5, FlattenJoins DEF Flatten
<1>11. Joins(flatten, ss, N)
  BY <1>1, <1>9, FlattenJoins DEF Flatten
<1>12. flatten[N] = g[N]
  BY <1>1, <1>10, <1>11, JoinsUnique
<1> QED BY <1>5, <1>8, <1>10, <1>12 DEF N, T

\* Sequences over X join to a sequence over X.
LEMMA FlattenType ==
  ASSUME NEW X, NEW ss \in Seq(Seq(X))
  PROVE  FlattenSeq(ss) \in Seq(X)
<1>1. CASE ss = <<>>
  BY <1>1 DEF FlattenSeq
<1>2. CASE ss # <<>>
  <2>1. Len(ss) \in 1 .. Len(ss)
    BY <1>2
  <2>2. PICK f \in [1 .. Len(ss) -> Seq(X)] : FlattenSeq(ss) = f[Len(ss)]
    BY <1>2, FlattenRecursion
  <2> QED BY <2>1, <2>2
<1> QED BY <1>1, <1>2

\* A single sequence joins to itself.
LEMMA FlattenOne ==
  ASSUME NEW X, NEW s \in Seq(X)
  PROVE  FlattenSeq(<<s>>) = s
<1>1. <<s>> \in Seq(Seq(X)) /\ <<s>> # <<>> /\ Len(<<s>>) = 1 /\ <<s>>[1] = s
  OBVIOUS
<1>2. PICK f : Joins(f, <<s>>, Len(<<s>>)) /\ FlattenSeq(<<s>>) = f[Len(<<s>>)]
  BY <1>1, FlattenRecursion
<1> QED BY <1>1, <1>2 DEF Joins

\* A sequence more is joined at the end.
LEMMA FlattenAppend ==
  ASSUME NEW X, NEW ss \in Seq(Seq(X)), NEW s \in Seq(X)
  PROVE  FlattenSeq(Append(ss, s)) = FlattenSeq(ss) \o s
<1>1. CASE ss = <<>>
  <2>1. FlattenSeq(ss) = <<>> /\ Append(ss, s) = <<s>>
    BY <1>1 DEF FlattenSeq
  <2> QED BY <2>1, FlattenOne
<1>2. CASE ss # <<>>
  <2> DEFINE N == Len(ss)
             longer == Append(ss, s)
  <2>1. /\ N \in Nat \ {0} /\ longer \in Seq(Seq(X)) /\ longer # <<>>
        /\ Len(longer) = N + 1 /\ longer[N + 1] = s /\ \A i \in 1 .. N : longer[i] = ss[i]
    BY <1>2
  <2>2. PICK f : Joins(f, ss, N) /\ FlattenSeq(ss) = f[N]
    BY <1>2, FlattenRecursion
  <2>3. PICK h : Joins(h, longer, N + 1) /\ FlattenSeq(longer) = h[N + 1]
    BY <2>1, FlattenRecursion
  <2> HIDE DEF longer
  <2>4. h[N + 1] = h[N] \o s
    <3>1. N \in 1 .. (N + 1) - 1
      BY <2>1
    <3>2. h[N + 1] = h[N] \o longer[N + 1]
      BY <2>3, <3>1, Zenon DEF Joins
    <3> QED BY <2>1, <3>2, Zenon
  <2>5. Joins(h, ss, N)
    <3>1. 1 \in 1 .. N /\ \A n \in 1 .. N - 1 : n \in 1 .. (N + 1) - 1 /\ n + 1 \in 1 .. N
      BY <2>1
    <3> QED BY <2>1, <2>3, <3>1, Zenon DEF Joins
  <2>6. f[N] = h[N]
    BY <2>1, <2>2, <2>5, JoinsUnique
  <2> QED BY <2>2, <2>3, <2>4, <2>6, Zenon DEF longer
<1> QED BY <1>1, <1>2

\* Joining is compatible with concatenation.
LEMMA FlattenConcat ==
  ASSUME NEW X, NEW ss \in Seq(Seq(X)), NEW tt \in Seq(Seq(X))
  PROVE  FlattenSeq(ss \o tt) = FlattenSeq(ss) \o FlattenSeq(tt)
<1> DEFINE Y == Seq(X)
           P == {t \in Seq(Y) : FlattenSeq(ss \o t) = FlattenSeq(ss) \o FlattenSeq(t)}
<1>1. <<>> \in P
  <2>1. FlattenSeq(<<>>) = <<>>
    BY DEF FlattenSeq
  <2>2. FlattenSeq(ss) \in Seq(X)
    BY FlattenType
  <2> HIDE DEF Y
  <2>3. ss \o <<>> = ss /\ FlattenSeq(ss) \o <<>> = FlattenSeq(ss)
    BY <2>2, ConcatEmptySeq
  <2>4. <<>> \in Seq(Y)
    OBVIOUS
  <2> QED BY <2>1, <2>3, <2>4
<1>2. ASSUME NEW t \in Seq(Y), NEW s \in Y, t \in P PROVE Append(t, s) \in P
  <2>1. ss \o Append(t, s) = Append(ss \o t, s) /\ ss \o t \in Seq(Y) /\ Append(t, s) \in Seq(Y)
    OBVIOUS
  <2>2. FlattenSeq(Append(ss \o t, s)) = FlattenSeq(ss \o t) \o s
    BY <2>1, FlattenAppend
  <2>3. FlattenSeq(Append(t, s)) = FlattenSeq(t) \o s
    BY FlattenAppend
  <2>4. (FlattenSeq(ss) \o FlattenSeq(t)) \o s = FlattenSeq(ss) \o (FlattenSeq(t) \o s)
    <3>1. FlattenSeq(ss) \in Seq(X) /\ FlattenSeq(t) \in Seq(X) /\ s \in Seq(X)
      BY FlattenType
    <3> QED BY <3>1, ConcatAssociative
  <2>5. FlattenSeq(ss \o t) = FlattenSeq(ss) \o FlattenSeq(t)
    BY <1>2
  <2> QED BY <2>1, <2>2, <2>3, <2>4, <2>5
<1> HIDE DEF P
<1>3. Seq(Y) \subseteq P
  BY <1>1, <1>2, SequenceInduction
<1> QED BY <1>3 DEF P

--------------------------------------------------------------------------------
(* Kept.                                                                     *)

\* The elements that filter keeps, each as a sequence of its own
Picks(s, S) == [i \in DOMAIN s |-> IF s[i] \in S THEN <<s[i]>> ELSE <<>>]

\* As many of them as the sequence has elements
LEMMA PicksType ==
  ASSUME NEW X, NEW s \in Seq(X), NEW S
  PROVE  Picks(s, S) \in Seq(Seq(X)) /\ Len(Picks(s, S)) = Len(s)
<1> DEFINE Y == Seq(X)
           N == Len(s)
           pick == [i \in 1 .. N |-> IF s[i] \in S THEN <<s[i]>> ELSE <<>>]
<1>1. \A i \in 1 .. N : pick[i] \in Y
  OBVIOUS
<1>2. N \in Nat /\ DOMAIN s = 1 .. N
  OBVIOUS
<1>3. pick \in [1 .. N -> Y]
  BY <1>1
<1> HIDE DEF Y, pick
<1>4. pick \in Seq(Y) /\ Len(pick) = N
  BY <1>2, <1>3
<1> QED BY <1>2, <1>4 DEF Picks, pick, Y

\* What is kept of a sequence over X is one.
LEMMA KeptType ==
  ASSUME NEW X, NEW s \in Seq(X), NEW S
  PROVE  Kept(s, S) \in Seq(X)
  BY PicksType, FlattenType DEF Kept, Picks

\* Nothing is kept of nothing.
LEMMA KeptEmpty ==
  ASSUME NEW S
  PROVE  Kept(<<>>, S) = <<>>
<1>1. Picks(<<>>, S) = <<>>
  BY DEF Picks
<1> QED BY <1>1 DEF Kept, Picks, FlattenSeq

\* Of a single element, itself or nothing
LEMMA KeptOne ==
  ASSUME NEW e, NEW S
  PROVE  Kept(<<e>>, S) = IF e \in S THEN <<e>> ELSE <<>>
<1>1. CASE e \in S
  <2>1. Picks(<<e>>, S) = << <<e>> >>
    BY <1>1 DEF Picks
  <2>2. <<e>> \in Seq({e})
    OBVIOUS
  <2>3. FlattenSeq(<< <<e>> >>) = <<e>>
    BY <2>2, FlattenOne, Zenon
  <2> QED BY <1>1, <2>1, <2>3, Zenon DEF Kept, Picks
<1>2. CASE e \notin S
  <2>1. Picks(<<e>>, S) = << <<>> >>
    BY <1>2 DEF Picks
  <2>2. <<>> \in Seq({e})
    OBVIOUS
  <2>3. FlattenSeq(<< <<>> >>) = <<>>
    BY <2>2, FlattenOne, Zenon
  <2> QED BY <1>2, <2>1, <2>3, Zenon DEF Kept, Picks
<1> QED BY <1>1, <1>2, Zenon

\* Filtering is compatible with concatenation.
LEMMA KeptConcat ==
  ASSUME NEW X, NEW s \in Seq(X), NEW t \in Seq(X), NEW S
  PROVE  Kept(s \o t, S) = Kept(s, S) \o Kept(t, S)
<1> DEFINE u == s \o t
           Y == Seq(X)
<1>1. /\ u \in Seq(X) /\ Len(u) = Len(s) + Len(t)
      /\ \A i \in 1 .. Len(s) + Len(t) : u[i] = IF i <= Len(s) THEN s[i] ELSE t[i - Len(s)]
  BY ConcatProperties
<1> HIDE DEF u
<1>2. Picks(u, S) = Picks(s, S) \o Picks(t, S)
  <2> DEFINE p == Picks(s, S)
             q == Picks(t, S)
             r == Picks(u, S)
  <2>1. p \in Seq(Y) /\ q \in Seq(Y) /\ r \in Seq(Y)
    BY <1>1, PicksType
  <2>2. Len(p) = Len(s) /\ Len(q) = Len(t) /\ Len(r) = Len(s) + Len(t)
    BY <1>1, PicksType
  <2>3. \A i \in 1 .. Len(r) : r[i] = IF i <= Len(s) THEN p[i] ELSE q[i - Len(s)]
    <3> SUFFICES ASSUME NEW i \in 1 .. Len(s) + Len(t)
                 PROVE  r[i] = IF i <= Len(s) THEN p[i] ELSE q[i - Len(s)]
      BY <2>2
    <3>1. r[i] = IF u[i] \in S THEN <<u[i]>> ELSE <<>>
      BY <1>1 DEF Picks
    <3>2. CASE i <= Len(s)
      BY <1>1, <3>1, <3>2 DEF Picks
    <3>3. CASE ~(i <= Len(s))
      BY <1>1, <3>1, <3>3 DEF Picks
    <3> QED BY <3>2, <3>3
  <2> HIDE DEF p, q, r, Y
  <2>4. p \o q \in Seq(Y) /\ Len(p \o q) = Len(r)
    <3>1. p \o q \in Seq(Y) /\ Len(p \o q) = Len(p) + Len(q)
      BY <2>1, ConcatProperties, Zenon
    <3> QED BY <2>2, <3>1, Zenon
  <2>5. \A i \in 1 .. Len(r) : r[i] = (p \o q)[i]
    BY <2>1, <2>2, <2>3
  <2>6. r = p \o q
    BY <2>1, <2>4, <2>5, SeqEqual
  <2> QED BY <2>6 DEF p, q, r
<1>3. FlattenSeq(Picks(s, S) \o Picks(t, S)) = FlattenSeq(Picks(s, S)) \o FlattenSeq(Picks(t, S))
  BY PicksType, FlattenConcat
<1> QED BY <1>2, <1>3, Zenon DEF Kept, Picks, u

\* An element more is kept or not.
LEMMA KeptAppend ==
  ASSUME NEW X, NEW s \in Seq(X), NEW e \in X, NEW S
  PROVE  /\ e \in S => Kept(Append(s, e), S) = Append(Kept(s, S), e)
         /\ e \notin S => Kept(Append(s, e), S) = Kept(s, S)
<1> DEFINE last == <<e>>
<1>1. Append(s, e) = s \o last /\ last \in Seq(X)
  OBVIOUS
<1>2. Kept(s \o last, S) = Kept(s, S) \o Kept(last, S)
  <2>1. last \in Seq(X)
    OBVIOUS
  <2> HIDE DEF last
  <2> QED BY <2>1, KeptConcat
<1>3. Kept(s, S) \in Seq(X)
  BY KeptType
<1>4. CASE e \in S
  <2>1. Kept(<<e>>, S) = <<e>>
    BY <1>4, KeptOne, Zenon
  <2>2. Kept(s, S) \o <<e>> = Append(Kept(s, S), e)
    BY <1>3
  <2> QED BY <1>1, <1>2, <1>4, <2>1, <2>2, Zenon
<1>5. CASE e \notin S
  <2>1. Kept(<<e>>, S) = <<>>
    BY <1>5, KeptOne, Zenon
  <2>2. Kept(s, S) \o <<>> = Kept(s, S)
    BY <1>3, ConcatEmptySeq, Zenon
  <2> QED BY <1>1, <1>2, <1>5, <2>1, <2>2, Zenon
<1> QED BY <1>4, <1>5, Zenon

\* The elements of a concatenation
LEMMA ToSetConcat ==
  ASSUME NEW X, NEW s \in Seq(X), NEW t \in Seq(X)
  PROVE  ToSet(s \o t) = ToSet(s) \cup ToSet(t)
<1>1. ASSUME NEW i \in DOMAIN (s \o t) PROVE (s \o t)[i] \in ToSet(s) \cup ToSet(t)
  BY DEF ToSet
<1>2. ASSUME NEW i \in DOMAIN s PROVE i \in DOMAIN (s \o t) /\ (s \o t)[i] = s[i]
  OBVIOUS
<1>3. ASSUME NEW i \in DOMAIN t
      PROVE  i + Len(s) \in DOMAIN (s \o t) /\ (s \o t)[i + Len(s)] = t[i]
  OBVIOUS
<1>4. ToSet(s \o t) \subseteq ToSet(s) \cup ToSet(t)
  BY <1>1, Zenon DEF ToSet
<1>5. ToSet(s) \subseteq ToSet(s \o t)
  BY <1>2, Zenon DEF ToSet
<1>6. ToSet(t) \subseteq ToSet(s \o t)
  BY <1>3, Zenon DEF ToSet
<1> QED BY <1>4, <1>5, <1>6, Zenon

\* The empty sequence has no elements.
LEMMA ToSetEmpty == ToSet(<<>>) = {}
  BY DEF ToSet

\* Append adds one element.
LEMMA ToSetAppend ==
  ASSUME NEW X, NEW s \in Seq(X), NEW e
  PROVE  ToSet(Append(s, e)) = ToSet(s) \cup {e}
<1>1. ASSUME NEW i \in 1 .. Len(s) + 1 PROVE Append(s, e)[i] \in ToSet(s) \cup {e}
  BY DEF ToSet
<1>2. /\ DOMAIN Append(s, e) = 1 .. Len(s) + 1 /\ DOMAIN s = 1 .. Len(s)
      /\ Append(s, e)[Len(s) + 1] = e /\ Len(s) + 1 \in 1 .. Len(s) + 1
      /\ \A i \in 1 .. Len(s) : i \in 1 .. Len(s) + 1 /\ Append(s, e)[i] = s[i]
  OBVIOUS
<1> QED BY <1>1, <1>2 DEF ToSet

\* What is kept is what was there, out of S.
LEMMA KeptElements ==
  ASSUME NEW X, NEW s \in Seq(X), NEW S
  PROVE  ToSet(Kept(s, S)) = ToSet(s) \cap S
<1> DEFINE P == {t \in Seq(X) : ToSet(Kept(t, S)) = ToSet(t) \cap S}
<1>1. <<>> \in P
  <2>1. ToSet(Kept(<<>>, S)) = ToSet(<<>>) \cap S
    BY KeptEmpty, ToSetEmpty, Zenon
  <2>2. <<>> \in Seq(X)
    OBVIOUS
  <2> QED BY <2>1, <2>2, Zenon
<1>2. ASSUME NEW t \in Seq(X), NEW e \in X, t \in P PROVE Append(t, e) \in P
  <2>1. ToSet(Kept(t, S)) = ToSet(t) \cap S
    BY <1>2, Zenon
  <2>2. Append(t, e) \in Seq(X)
    OBVIOUS
  <2> HIDE DEF P
  <2>3. ToSet(Append(t, e)) = ToSet(t) \cup {e}
    BY ToSetAppend, Zenon
  <2>4. Kept(t, S) \in Seq(X)
    BY KeptType
  <2>5. ToSet(Append(Kept(t, S), e)) = ToSet(Kept(t, S)) \cup {e}
    BY <2>4, ToSetAppend, Zenon
  <2>6. ToSet(Kept(Append(t, e), S)) = ToSet(Append(t, e)) \cap S
    <3>1. CASE e \in S
      <4>1. Kept(Append(t, e), S) = Append(Kept(t, S), e)
        BY <3>1, KeptAppend, Zenon
      <4>2. ToSet(Kept(Append(t, e), S)) = (ToSet(t) \cap S) \cup {e}
        BY <2>1, <2>5, <4>1, Zenon
      <4> QED BY <2>3, <3>1, <4>2, Zenon
    <3>2. CASE e \notin S
      <4>1. Kept(Append(t, e), S) = Kept(t, S)
        BY <3>2, KeptAppend, Zenon
      <4>2. ToSet(Kept(Append(t, e), S)) = ToSet(t) \cap S
        BY <2>1, <4>1, Zenon
      <4> QED BY <2>3, <3>2, <4>2, Zenon
    <3> QED BY <3>1, <3>2, Zenon
  <2> QED BY <2>2, <2>6, Zenon DEF P
<1> HIDE DEF P
<1>3. Seq(X) \subseteq P
  BY <1>1, <1>2, SequenceInduction
<1> QED BY <1>3, Zenon DEF P

\* Nothing is kept of what has nothing of S, and all of what is in S.
LEMMA KeptNone ==
  ASSUME NEW X, NEW s \in Seq(X), NEW S, ToSet(s) \cap S = {}
  PROVE  Kept(s, S) = <<>>
<1>1. Kept(s, S) \in Seq(X) /\ ToSet(Kept(s, S)) = {}
  BY KeptType, KeptElements
<1> HIDE DEF Kept
<1>2. Len(Kept(s, S)) = 0
  BY <1>1 DEF ToSet
<1> QED BY <1>1, <1>2

\* A filter every element passes changes nothing.
LEMMA KeptAll ==
  ASSUME NEW X, NEW s \in Seq(X), NEW S, ToSet(s) \subseteq S
  PROVE  Kept(s, S) = s
<1> DEFINE P == {t \in Seq(X) : ToSet(t) \subseteq S => Kept(t, S) = t}
<1>1. <<>> \in P
  <2>1. <<>> \in Seq(X)
    OBVIOUS
  <2> QED BY <2>1, KeptEmpty, Zenon
<1>2. ASSUME NEW t \in Seq(X), NEW e \in X, t \in P PROVE Append(t, e) \in P
  <2>1. ToSet(t) \subseteq S => Kept(t, S) = t
    BY <1>2, Zenon
  <2>2. Append(t, e) \in Seq(X)
    OBVIOUS
  <2>3. ToSet(Append(t, e)) = ToSet(t) \cup {e}
    BY ToSetAppend, Zenon
  <2>4. ASSUME ToSet(Append(t, e)) \subseteq S PROVE Kept(Append(t, e), S) = Append(t, e)
    <3>1. e \in S
      BY <2>3, <2>4, Zenon
    <3>2. Kept(t, S) = t
      BY <2>1, <2>3, <2>4, Zenon
    <3>3. Kept(Append(t, e), S) = Append(Kept(t, S), e)
      BY <3>1, KeptAppend, Zenon
    <3> QED BY <3>2, <3>3, Zenon
  <2> QED BY <2>2, <2>4, Zenon
<1> HIDE DEF P
<1>3. Seq(X) \subseteq P
  BY <1>1, <1>2, SequenceInduction
<1> QED BY <1>3, Zenon DEF P

\* The element of a sequence of one
LEMMA ToSetOne ==
  ASSUME NEW q
  PROVE  ToSet(<<q>>) = {q}
  BY DEF ToSet

\* The elements of a sequence of two
LEMMA ToSetTwo ==
  ASSUME NEW p, NEW q
  PROVE  ToSet(<<p, q>>) = {p, q}
<1> DEFINE s == <<p, q>>
<1>1. DOMAIN s = {1, 2} /\ s[1] = p /\ s[2] = q
  OBVIOUS
<1> HIDE DEF s
<1>2. ToSet(s) = {p, q}
  BY <1>1 DEF ToSet
<1> QED BY <1>2 DEF s

\* Joining with nothing
LEMMA Joining ==
  ASSUME NEW X, NEW x \in Seq(X), NEW y \in Seq(X), NEW z \in Seq(X)
  PROVE  /\ x \o <<>> = x /\ <<>> \o x = x /\ x \o y \in Seq(X)
         /\ (x \o y) \o z = x \o (y \o z)
         /\ y = <<>> \/ z = <<>> => y \o z = z \o y
<1>1. x \o <<>> = x /\ <<>> \o x = x
  BY ConcatEmptySeq
<1>2. y \o <<>> = y /\ <<>> \o y = y /\ z \o <<>> = z /\ <<>> \o z = z
  BY ConcatEmptySeq
<1>3. (x \o y) \o z = x \o (y \o z)
  BY ConcatAssociative
<1>4. x \o y \in Seq(X)
  OBVIOUS
<1>5. y = <<>> => y \o z = z \o y
  BY <1>2, Zenon
<1>6. z = <<>> => y \o z = z \o y
  BY <1>2, Zenon
<1> QED BY <1>1, <1>3, <1>4, <1>5, <1>6, Zenon

\* Filtering for the messages changes nothing for a class of messages.
LEMMA KeptTwice ==
  ASSUME NEW X, NEW s \in Seq(X), NEW S, NEW T, T \subseteq S
  PROVE  Kept(Kept(s, S), T) = Kept(s, T)
<1> DEFINE P == {t \in Seq(X) : Kept(Kept(t, S), T) = Kept(t, T)}
<1>1. <<>> \in P
  <2>1. <<>> \in Seq(X)
    OBVIOUS
  <2>2. Kept(Kept(<<>>, S), T) = Kept(<<>>, T)
    BY KeptEmpty, Zenon
  <2> QED BY <2>1, <2>2
<1>2. ASSUME NEW t \in Seq(X), NEW e \in X, t \in P PROVE Append(t, e) \in P
  <2> DEFINE u == Append(t, e)
             k == Kept(t, S)
  <2>1. u \in Seq(X)
    OBVIOUS
  <2>2. k \in Seq(X) /\ Kept(k, T) = Kept(t, T)
    BY <1>2, KeptType
  <2>3. /\ e \in S => Kept(u, S) = Append(k, e)
        /\ e \notin S => Kept(u, S) = k
        /\ e \in T => Kept(u, T) = Append(Kept(t, T), e)
        /\ e \notin T => Kept(u, T) = Kept(t, T)
    BY KeptAppend
  <2> HIDE DEF u, k
  <2>4. /\ e \in T => Kept(Append(k, e), T) = Append(Kept(k, T), e)
        /\ e \notin T => Kept(Append(k, e), T) = Kept(k, T)
    BY <2>2, KeptAppend
  <2>5. Kept(Kept(u, S), T) = Kept(u, T)
    <3>1. CASE e \in T
      <4>1. e \in S
        BY <3>1
      <4> QED BY <2>2, <2>3, <2>4, <3>1, <4>1, Zenon
    <3>2. CASE e \notin T /\ e \in S
      BY <2>2, <2>3, <2>4, <3>2, Zenon
    <3>3. CASE e \notin T /\ e \notin S
      BY <2>2, <2>3, <3>3, Zenon
    <3> QED BY <3>1, <3>2, <3>3
  <2> QED BY <2>1, <2>5 DEF u
<1>3. Seq(X) \subseteq P
  <2> HIDE DEF P
  <2> QED BY <1>1, <1>2, SequenceInduction
<1> QED BY <1>3

\* A sequence cut where two were joined
LEMMA CutJoined ==
  ASSUME NEW X, NEW x \in Seq(X), NEW y \in Seq(X)
  PROVE  /\ Len(x) \in 0 .. Len(x \o y)
         /\ SubSeq(x \o y, 1, Len(x)) = x
         /\ ToSet(SubSeq(x \o y, Len(x) + 1, Len(x \o y))) = ToSet(y)
<1> DEFINE u == x \o y
           n == Len(x)
           k == Len(y)
           a == SubSeq(u, 1, n)
           b == SubSeq(u, n + 1, Len(u))
<1>1. /\ n \in Nat /\ k \in Nat /\ u \in Seq(X) /\ Len(u) = n + k
      /\ \A i \in 1 .. n + k : u[i] = IF i <= n THEN x[i] ELSE y[i - n]
  <2>1. /\ u \in Seq(X) /\ Len(u) = n + k
        /\ \A i \in 1 .. Len(x) + Len(y) : u[i] = IF i <= Len(x) THEN x[i] ELSE y[i - Len(x)]
    BY ConcatProperties
  <2> QED BY <2>1
<1> HIDE DEF u
<1>2. /\ a \in Seq(X) /\ Len(a) = n /\ \A i \in 1 .. n : a[i] = u[i]
  BY <1>1
<1>3. /\ b \in Seq(X) /\ Len(b) = k /\ \A i \in 1 .. k : b[i] = u[n + i]
  BY <1>1
<1>4. a = x
  <2> HIDE DEF a
  <2>1. \A i \in 1 .. n : i \in 1 .. n + k /\ i <= n
    BY <1>1
  <2>2. \A i \in 1 .. n : a[i] = x[i]
    BY <1>1, <1>2, <2>1
  <2> QED BY <1>2, <2>2, SeqEqual
<1>5. b = y
  <2> HIDE DEF b
  <2>1. \A i \in 1 .. k : n + i \in 1 .. n + k /\ ~(n + i <= n) /\ (n + i) - n = i
    BY <1>1
  <2>2. \A i \in 1 .. k : b[i] = y[i]
    BY <1>1, <1>3, <2>1
  <2> QED BY <1>3, <2>2, SeqEqual
<1>6. n \in 0 .. Len(u)
  BY <1>1
<1> QED BY <1>4, <1>5, <1>6, Zenon DEF u
================================================================================
