---------------------------- MODULE InductionLemmas ----------------------------
(***************************************************************************)
(* What the other proofs need of data that is computed step by step: least *)
(* and greatest numbers, sums over a set, what is selected from a sequence *)
(* and what sequences are when they are put together.  The provers cannot  *)
(* use an induction rule that takes a predicate, so each lemma looks at a  *)
(* least counterexample instead.  The last part does that once for all:    *)
(* Induction is stated of a set of numbers, and LoopRuns and LoopKeeps of  *)
(* the set of values that a loop may have after each turn.                 *)
(***************************************************************************)
EXTENDS Subsequences, SequencesExt, FiniteSetsExt, FiniteSetTheorems, SequenceTheorems, TLAPS

\* A non-empty set of naturals has a least element.
LEMMA Least ==
  ASSUME NEW T, T \subseteq Nat, T # {}
  PROVE  \E n \in T : \A k \in T : n <= k
<1>1. IsWellFoundedOn({ss \in Nat \X Nat : ss[1] < ss[2]}, Nat)
  BY NatLessThanWellFounded DEF OpToRel
<1>2. PICK n \in T : \A k \in T : <<k, n>> \notin {ss \in Nat \X Nat : ss[1] < ss[2]}
  BY <1>1, WFMin
<1>3. \A k \in T : ~(k < n)
  BY <1>2
<1>. QED
  BY <1>3

\* A finite non-empty set of naturals has a greatest one.
LEMMA Greatest ==
  ASSUME NEW S, S \subseteq Nat, S # {}, IsFiniteSet(S)
  PROVE  \E m \in S : \A k \in S : m >= k
<1> DEFINE Bounded(T) == \E m \in T : \A k \in T : m >= k
           Bad == {n \in Nat : \E T \in SUBSET Nat :
                      T # {} /\ IsFiniteSet(T) /\ Cardinality(T) = n /\ ~Bounded(T)}
<1>1. ASSUME Bad # {} PROVE FALSE
  <2>1. PICK n \in Bad : \A k \in Bad : n <= k
    BY <1>1, Least
  <2>2. PICK T \in SUBSET Nat : T # {} /\ IsFiniteSet(T) /\ Cardinality(T) = n /\ ~Bounded(T)
    BY <2>1
  <2>3. PICK x \in T : TRUE
    BY <2>2
  <2>4. /\ IsFiniteSet(T \ {x}) /\ Cardinality(T \ {x}) = n - 1
        /\ Cardinality(T \ {x}) \in Nat
    BY <2>2, <2>3, FS_RemoveElement, FS_CardinalityType
  <2>5. T \ {x} # {} => Bounded(T \ {x})
    <3>1. n \in Nat /\ n - 1 \in Nat /\ ~(n <= n - 1)
      BY <2>1, <2>4
    <3>2. n - 1 \notin Bad
      BY <2>1, <3>1
    <3>3. T \ {x} \in SUBSET Nat
      BY <2>2
    <3>. HIDE DEF Bounded
    <3>. QED
      BY <2>4, <3>1, <3>2, <3>3
  <2>6. CASE T \ {x} = {}
    BY <2>2, <2>6
  <2>7. CASE T \ {x} # {}
    <3>1. PICK m \in T \ {x} : \A k \in T \ {x} : m >= k
      BY <2>5, <2>7
    <3>2. Bounded(T)
      <4>1. CASE m >= x
        BY <3>1, <4>1
      <4>2. CASE x >= m
        <5>1. \A k \in T : x >= k
          BY <2>2, <3>1, <4>2
        <5>. QED
          BY <5>1
      <4>. QED
        BY <2>2, <3>1, <4>1, <4>2
    <3>. QED
      BY <2>2, <3>2
  <2>. QED
    BY <2>6, <2>7
<1>2. Cardinality(S) \in Nat
  BY FS_CardinalityType
<1>. QED
  BY <1>1, <1>2

LEMMA MaxIs ==
  ASSUME NEW S, S \subseteq Nat, S # {}, IsFiniteSet(S)
  PROVE  Max(S) \in S /\ \A k \in S : Max(S) >= k
  BY Greatest DEF Max

LEMMA MinIs ==
  ASSUME NEW S, S \subseteq Nat, S # {}
  PROVE  Min(S) \in S /\ \A k \in S : Min(S) <= k
  BY Least DEF Min

--------------------------------------------------------------------------------
\* Sums.

\* MapThenSumSet picks one element after another.
Pick(s) == CHOOSE x \in s : TRUE

Plus(f, sum, s) ==
    IF s = {} THEN 0 ELSE f[Pick(s)] + sum[s \ {Pick(s)}]

\* sum[s] is what the function f adds up to over s, for every subset s of S.
Adds(f, S, sum) == sum = [s \in SUBSET S |-> Plus(f, sum, s)]

LEMMA Picked ==
  ASSUME NEW S, IsFiniteSet(S), NEW s \in SUBSET S
  PROVE  /\ Cardinality(s) \in Nat /\ Cardinality(s) <= Cardinality(S)
         /\ s = {} <=> Cardinality(s) = 0
         /\ s # {} => /\ Pick(s) \in s /\ s \ {Pick(s)} \in SUBSET S
                      /\ Cardinality(s \ {Pick(s)}) = Cardinality(s) - 1
<1>1. IsFiniteSet(s) /\ Cardinality(s) <= Cardinality(S)
  BY FS_Subset
<1>2. Cardinality(s) \in Nat /\ (s = {} <=> Cardinality(s) = 0)
  BY <1>1, FS_CardinalityType, FS_EmptySet
<1>3. s # {} => Pick(s) \in s
  BY DEF Pick
<1>. QED
  BY <1>1, <1>2, <1>3, FS_RemoveElement

\* There is such a sum (by induction on the size of the sets it is defined for).
LEMMA SumExists ==
  ASSUME NEW f, NEW S, IsFiniteSet(S)
  PROVE  \E sum : Adds(f, S, sum)
<1> DEFINE Fine(n, sum) ==
             \A s \in SUBSET S : Cardinality(s) <= n => sum[s] = Plus(f, sum, s)
           Bad == {n \in Nat : ~\E sum : Fine(n, sum)}
<1>1. Bad = {}
  <2>1. SUFFICES ASSUME Bad # {} PROVE FALSE
    OBVIOUS
  <2>2. Bad \subseteq Nat
    OBVIOUS
  <2>. HIDE DEF Fine
  <2>3. PICK n \in Bad : \A k \in Bad : n <= k
    <3>. HIDE DEF Bad
    <3>. QED
      BY <2>1, <2>2, Least
  <2>4. CASE n = 0
    <3> DEFINE sum == [s \in SUBSET S |-> 0]
    <3>1. ASSUME NEW s \in SUBSET S, Cardinality(s) <= 0 PROVE sum[s] = Plus(f, sum, s)
      <4>1. Cardinality(s) \in Nat /\ (s = {} <=> Cardinality(s) = 0)
        BY Picked
      <4>2. s = {}
        BY <3>1, <4>1
      <4>. QED
        BY <4>2 DEF Plus
    <3>2. Fine(n, sum)
      BY <2>4, <3>1 DEF Fine
    <3>. QED
      BY <2>3, <3>2
  <2>5. CASE n # 0
    <3>1. n - 1 \in Nat /\ n \in Nat /\ ~(n <= n - 1)
      BY <2>2, <2>3, <2>5
    <3>2. n - 1 \notin Bad
      BY <2>3, <3>1
    <3>3. PICK old : Fine(n - 1, old)
      BY <3>1, <3>2
    <3> DEFINE sum == [s \in SUBSET S |-> Plus(f, old, s)]
    <3>4. ASSUME NEW s \in SUBSET S, Cardinality(s) <= n
          PROVE  sum[s] = Plus(f, sum, s)
      <4>1. CASE s = {}
        BY <4>1 DEF Plus
      <4>2. CASE s # {}
        <5> DEFINE u == s \ {Pick(s)}
        <5>1. u \in SUBSET S /\ Cardinality(u) <= n - 1
          BY <3>1, <3>4, <4>2, Picked
        <5>2. old[u] = Plus(f, old, u)
          BY <3>3, <5>1 DEF Fine
        <5>3. sum[u] = old[u]
          BY <5>1, <5>2
        <5>. QED
          BY <4>2, <5>3 DEF Plus
      <4>. QED
        BY <4>1, <4>2
    <3>5. Fine(n, sum)
      <4>. HIDE DEF sum
      <4>. QED
        BY <3>4 DEF Fine
    <3>. QED
      BY <2>3, <3>5
  <2>. QED
    BY <2>4, <2>5
<1>2. Cardinality(S) \in Nat
  BY Picked
<1>3. PICK old : Fine(Cardinality(S), old)
  BY <1>1, <1>2
<1> DEFINE sum == [s \in SUBSET S |-> old[s]]
<1>4. ASSUME NEW s \in SUBSET S PROVE old[s] = Plus(f, sum, s)
  <2>1. old[s] = Plus(f, old, s)
    BY <1>3, Picked
  <2>2. s # {} => sum[s \ {Pick(s)}] = old[s \ {Pick(s)}]
    BY Picked
  <2>. QED
    BY <2>1, <2>2 DEF Plus
<1>5. sum = [s \in SUBSET S |-> Plus(f, sum, s)]
  BY <1>4
<1>. QED
  BY <1>5 DEF Adds

\* Changing what the function is at one place changes the sum by as much (by induction
\* on the size of the sets summed over).
LEMMA SumChanges ==
  ASSUME NEW S, IsFiniteSet(S), NEW o \in S,
         NEW old, NEW f, Adds(old, S, f),
         NEW new, NEW g, Adds(new, S, g),
         \A n \in S : old[n] \in Int /\ new[n] \in Int,
         \A n \in S \ {o} : new[n] = old[n]
  PROVE  f[S] \in Int /\ g[S] = f[S] + (new[o] - old[o])
<1> DEFINE d == new[o] - old[o]
           Off(s) == f[s] \in Int /\ g[s] = f[s] + (IF o \in s THEN d ELSE 0)
           Bad == {n \in Nat : \E s \in SUBSET S : Cardinality(s) = n /\ ~Off(s)}
<1>3. d \in Int
  OBVIOUS
<1>4. \A s \in SUBSET S : f[s] = Plus(old, f, s) /\ g[s] = Plus(new, g, s)
  <2>1. \A s \in SUBSET S : f[s] = Plus(old, f, s)
    BY DEF Adds
  <2>2. \A s \in SUBSET S : g[s] = Plus(new, g, s)
    BY DEF Adds
  <2>. QED
    BY <2>1, <2>2
<1>5. Bad = {}
  <2>1. SUFFICES ASSUME Bad # {} PROVE FALSE
    OBVIOUS
  <2>2. Bad \subseteq Nat
    OBVIOUS
  <2>3. PICK n \in Bad : \A k \in Bad : n <= k
    <3>. HIDE DEF Bad
    <3>. QED
      BY <2>1, <2>2, Least
  <2>. HIDE DEF Off
  <2>4. PICK s \in SUBSET S : Cardinality(s) = n /\ ~Off(s)
    BY <2>3
  <2>5. CASE s = {}
    <3>1. f[s] = 0 /\ g[s] = 0 /\ o \notin s
      BY <1>4, <2>4, <2>5 DEF Plus
    <3>2. Off(s)
      BY <3>1 DEF Off
    <3>. QED
      BY <2>4, <3>2
  <2>6. CASE s # {}
    <3> DEFINE x == Pick(s)
               u == s \ {x}
    <3>1. /\ x \in s /\ u \in SUBSET S /\ Cardinality(u) = n - 1 /\ Cardinality(u) \in Nat
          /\ n \in Nat
      BY <2>2, <2>3, <2>4, <2>6, Picked
    <3>2. n - 1 \notin Bad
      BY <2>3, <3>1
    <3>3. Off(u)
      BY <3>1, <3>2
    <3>4. f[s] = old[x] + f[u] /\ g[s] = new[x] + g[u]
      BY <1>4, <2>4, <2>6 DEF Plus
    <3>5. old[x] \in Int /\ new[x] \in Int
      BY <2>4, <3>1
    <3>. HIDE DEF x, u
    <3>6. CASE x = o
      <4>1. o \in s /\ o \notin u
        BY <3>1, <3>6 DEF u
      <4>2. g[u] = f[u] /\ f[u] \in Int
        BY <3>3, <4>1 DEF Off
      <4>. QED
        BY <1>3, <2>4, <3>4, <3>5, <3>6, <4>1, <4>2 DEF Off, d
    <3>7. CASE x # o
      <4>1. o \in s <=> o \in u
        BY <3>7 DEF u
      <4>2. new[x] = old[x]
        BY <2>4, <3>1, <3>7
      <4>3. f[u] \in Int /\ g[u] = f[u] + (IF o \in s THEN d ELSE 0)
        BY <3>3, <4>1 DEF Off
      <4>. HIDE DEF d
      <4>. QED
        BY <1>3, <2>4, <3>4, <3>5, <4>2, <4>3 DEF Off
    <3>. QED
      BY <3>6, <3>7
  <2>. QED
    BY <2>5, <2>6
<1>6. Off(S)
  <2>0. S \in SUBSET S
    OBVIOUS
  <2>1. S \in SUBSET S /\ Cardinality(S) \in Nat
    BY <2>0, Picked
  <2>. HIDE DEF Off
  <2>. QED
    BY <1>5, <2>1
<1>. QED
  BY <1>6

\* A sum of integers is one.
LEMMA SumType ==
  ASSUME NEW S, IsFiniteSet(S), NEW f, NEW sum, Adds(f, S, sum), \A n \in S : f[n] \in Int
  PROVE  sum[S] \in Int
<1>1. CASE S = {}
  BY <1>1 DEF Adds, Plus
<1>2. CASE S # {}
  BY <1>2, SumChanges
<1>. QED
  BY <1>1, <1>2


\* Nothing adds up to nothing (again by induction on the size of the sets).
LEMMA SumOfNothing ==
  ASSUME NEW S, IsFiniteSet(S), NEW f, NEW sum, Adds(f, S, sum), \A n \in S : f[n] = 0
  PROVE  sum[S] = 0
<1> DEFINE Bad == {n \in Nat : \E s \in SUBSET S : Cardinality(s) = n /\ sum[s] # 0}
<1>1. Bad = {}
  <2>1. SUFFICES ASSUME Bad # {} PROVE FALSE
    OBVIOUS
  <2>2. PICK n \in Bad : \A k \in Bad : n <= k
    <3>1. Bad \subseteq Nat
      OBVIOUS
    <3>. HIDE DEF Bad
    <3>. QED
      BY <2>1, <3>1, Least
  <2>3. PICK s \in SUBSET S : Cardinality(s) = n /\ sum[s] # 0
    BY <2>2
  <2>4. sum[s] = Plus(f, sum, s)
    BY DEF Adds
  <2>5. s # {} /\ Pick(s) \in s /\ s \ {Pick(s)} \in SUBSET S
        /\ Cardinality(s \ {Pick(s)}) = n - 1 /\ n \in Nat /\ n - 1 \in Nat
    <3>1. s # {}
      BY <2>3, <2>4 DEF Plus
    <3>. QED
      BY <2>3, <3>1, Picked
  <2>6. sum[s \ {Pick(s)}] = 0
    <3>1. n - 1 \notin Bad
      BY <2>2, <2>5
    <3>. QED
      BY <2>5, <3>1
  <2>. QED
    BY <2>3, <2>4, <2>5, <2>6 DEF Plus
<1>2. S \in SUBSET S
  OBVIOUS
<1>3. Cardinality(S) \in Nat
  BY <1>2, Picked
<1>. QED
  BY <1>1, <1>2, <1>3


--------------------------------------------------------------------------------
\* Functions that are defined step by step, from 0 on.

Steps(step, N, V) == \A n \in 1 .. N, v \in V : step[n][v] \in V

\* The function f begins with a and goes on with the steps up to N.
Follows(f, a, step, N) == f[0] = a /\ \A n \in 1 .. N : f[n] = step[n][f[n - 1]]

\* There is one (by induction on how far it goes).
LEMMA RecursionExists ==
  ASSUME NEW V, NEW a \in V, NEW N \in Nat, NEW step, Steps(step, N, V)
  PROVE  \E f \in [0 .. N -> V] : Follows(f, a, step, N)
<1> USE DEF Steps, Follows
<1> DEFINE Goes(m, f) == Follows(f, a, step, m)
           Bad == {m \in 0 .. N : ~\E f \in [0 .. m -> V] : Goes(m, f)}
<1>1. Bad = {}
  <2>1. SUFFICES ASSUME Bad # {} PROVE FALSE
    OBVIOUS
  <2>2. Bad \subseteq Nat
    OBVIOUS
  <2>3. PICK m \in Bad : \A k \in Bad : m <= k
    <3>. HIDE DEF Bad
    <3>. QED
      BY <2>1, <2>2, Least
  <2>4. m \in 0 .. N
    OBVIOUS
  <2>5. CASE m = 0
    <3>1. [n \in 0 .. 0 |-> a] \in [0 .. 0 -> V] /\ Goes(0, [n \in 0 .. 0 |-> a])
      OBVIOUS
    <3>. QED
      BY <2>3, <2>5, <3>1
  <2>6. CASE m # 0
    <3>1. m - 1 \in 0 .. N /\ m - 1 \notin Bad
      <4>1. m - 1 \in 0 .. N /\ ~(m <= m - 1)
        BY <2>4, <2>6
      <4>. HIDE DEF Bad
      <4>. QED
        BY <2>3, <4>1
    <3>2. PICK f \in [0 .. m - 1 -> V] : Goes(m - 1, f)
      BY <3>1
    <3>3. PICK v \in V : v = step[m][f[m - 1]]
      <4>1. m \in 1 .. N /\ f[m - 1] \in V
        BY <2>4, <2>6, <3>2
      <4>. QED
        BY <4>1
    <3>4. PICK g : g = [n \in 0 .. m |-> IF n = m THEN v ELSE f[n]]
      OBVIOUS
    <3>5. g \in [0 .. m -> V] /\ g[0] = a
      BY <2>4, <2>6, <3>2, <3>4
    <3>6. \A n \in 1 .. m : g[n] = step[n][g[n - 1]]
      <4>1. SUFFICES ASSUME NEW n \in 1 .. m PROVE g[n] = step[n][g[n - 1]]
        OBVIOUS
      <4>2. CASE n = m
        <5>1. g[n] = v /\ g[n - 1] = f[m - 1]
          BY <2>4, <2>6, <3>4, <4>2
        <5>. QED
          BY <3>3, <4>2, <5>1
      <4>3. CASE n # m
        <5>1. n \in 1 .. m - 1 /\ g[n] = f[n] /\ g[n - 1] = f[n - 1]
          BY <2>4, <2>6, <3>4, <4>1, <4>3
        <5>. QED
          BY <3>2, <5>1
      <4>. QED
        BY <4>2, <4>3
    <3>. QED
      BY <2>3, <3>5, <3>6
  <2>. QED
    BY <2>5, <2>6
<1>2. N \notin Bad /\ N \in 0 .. N
  BY <1>1
<1>. QED
  BY <1>2

--------------------------------------------------------------------------------
\* Selections.

Selects(s, S, f) ==
    f = [n \in 0 .. Len(s) |->
            IF n = 0 THEN << >>
            ELSE IF s[n] \in S THEN Append(f[n - 1], s[n]) ELSE f[n - 1]]

\* How far two sequences agree, so far do their selections (by induction on how far).
LEMMA SelectsAlike ==
  ASSUME NEW T, NEW s \in Seq(T), NEW t \in Seq(T), NEW S, NEW f, NEW g,
         Selects(s, S, f), Selects(t, S, g),
         NEW m \in Nat, m <= Len(s), m <= Len(t), \A n \in 1 .. m : s[n] = t[n]
  PROVE  \A n \in 0 .. m : f[n] = g[n]
<1> DEFINE Bad == {n \in 0 .. m : f[n] # g[n]}
<1>1. SUFFICES ASSUME Bad # {} PROVE FALSE
  OBVIOUS
<1>2. Bad \subseteq Nat
  OBVIOUS
<1>3. PICK n \in Bad : \A k \in Bad : n <= k
  <2>. HIDE DEF Bad
  <2>. QED
    BY <1>1, <1>2, Least
<1>4. n \in 0 .. m /\ n \in 0 .. Len(s) /\ n \in 0 .. Len(t) /\ f[n] # g[n]
  BY <1>3
<1>5. /\ f[n] = IF n = 0 THEN << >> ELSE IF s[n] \in S THEN Append(f[n - 1], s[n]) ELSE f[n - 1]
      /\ g[n] = IF n = 0 THEN << >> ELSE IF t[n] \in S THEN Append(g[n - 1], t[n]) ELSE g[n - 1]
  <2>. HIDE DEF Bad
  <2>. QED
    BY <1>4 DEF Selects
<1>6. n # 0
  BY <1>4, <1>5
<1>7. n - 1 \in 0 .. m /\ f[n - 1] = g[n - 1] /\ s[n] = t[n]
  BY <1>3, <1>4, <1>6
<1>. QED
  BY <1>4, <1>5, <1>7

LEMMA SelectionIs ==
  ASSUME NEW T, NEW s \in Seq(T), NEW S
  PROVE  \E f \in [0 .. Len(s) -> Seq(S)] : Selects(s, S, f) /\ Selection(s, S) = f[Len(s)]
<1>1. PICK N \in Nat : N = Len(s)
  OBVIOUS
<1>2. PICK step : step = [n \in 1 .. N |-> [v \in Seq(S) |->
                             IF s[n] \in S THEN Append(v, s[n]) ELSE v]]
  OBVIOUS
<1>3. /\ << >> \in Seq(S)
      /\ \A n \in 1 .. N, v \in Seq(S) :
            /\ step[n][v] = IF s[n] \in S THEN Append(v, s[n]) ELSE v
            /\ step[n][v] \in Seq(S)
  BY <1>2
<1>4. PICK V : V = Seq(S)
  OBVIOUS
<1>5. PICK a \in V : a = << >>
  BY <1>3, <1>4
<1>6. PICK f \in [0 .. N -> V] : f[0] = a /\ \A n \in 1 .. N : f[n] = step[n][f[n - 1]]
  <2>1. Steps(step, N, V)
    BY <1>3, <1>4 DEF Steps
  <2>2. PICK f \in [0 .. N -> V] : Follows(f, a, step, N)
    BY <2>1, RecursionExists
  <2>. QED
    BY <2>2 DEF Follows
<1>7. \A n \in 1 .. N : f[n] = IF s[n] \in S THEN Append(f[n - 1], s[n]) ELSE f[n - 1]
  <2>1. SUFFICES ASSUME NEW n \in 1 .. N
                 PROVE  f[n] = IF s[n] \in S THEN Append(f[n - 1], s[n]) ELSE f[n - 1]
    OBVIOUS
  <2>2. PICK before \in Seq(S) : before = f[n - 1]
    BY <1>4
  <2>. QED
    BY <1>3, <1>6, <2>2
<1>8. Selects(s, S, f)
  <2>1. ASSUME NEW n \in 0 .. N
        PROVE  f[n] = IF n = 0 THEN << >>
                      ELSE IF s[n] \in S THEN Append(f[n - 1], s[n]) ELSE f[n - 1]
    <3>1. n = 0 \/ n \in 1 .. N
      OBVIOUS
    <3>. QED
      BY <1>5, <1>6, <1>7, <3>1
  <2>2. f = [n \in 0 .. N |-> f[n]]
    BY <1>6
  <2>. QED
    BY <1>1, <2>1, <2>2 DEF Selects
<1>9. PICK g : Selects(s, S, g) /\ Selection(s, S) = g[Len(s)]
  <2>1. PICK g : g = CHOOSE h : Selects(s, S, h)
    OBVIOUS
  <2>2. Selects(s, S, g)
    BY <1>8, <2>1
  <2>3. Selection(s, S) = g[Len(s)]
    BY <2>1 DEF Selection, Selects
  <2>. QED
    BY <2>2, <2>3
<1>10. f[Len(s)] = g[Len(s)]
  BY <1>1, <1>8, <1>9, SelectsAlike
<1>. QED
  BY <1>1, <1>4, <1>8, <1>9, <1>10

\* One more element is selected, or not.
LEMMA SelectionGrows ==
  ASSUME NEW T, NEW s \in Seq(T), NEW x \in T, NEW S
  PROVE  Selection(Append(s, x), S) =
            IF x \in S THEN Append(Selection(s, S), x) ELSE Selection(s, S)
<1>1. PICK t \in Seq(T) : t = Append(s, x)
  <2>1. Append(s, x) \in Seq(T)
    OBVIOUS
  <2>. QED
    BY <2>1
<1>2. Len(s) \in Nat /\ Len(t) = Len(s) + 1 /\ t[Len(t)] = x /\ \A n \in 1 .. Len(s) : t[n] = s[n]
  BY <1>1
<1>3. PICK f : Selects(s, S, f) /\ Selection(s, S) = f[Len(s)]
  BY SelectionIs
<1>4. PICK g : Selects(t, S, g) /\ Selection(t, S) = g[Len(t)]
  BY SelectionIs
<1>5. f[Len(s)] = g[Len(s)]
  BY <1>2, <1>3, <1>4, SelectsAlike
<1>6. g[Len(t)] = IF x \in S THEN Append(g[Len(t) - 1], x) ELSE g[Len(t) - 1]
  <2>1. Len(t) \in 0 .. Len(t) /\ Len(t) # 0
    BY <1>2
  <2>. QED
    BY <1>2, <1>4, <2>1 DEF Selects
<1>. QED
  BY <1>1, <1>2, <1>3, <1>4, <1>5, <1>6

LEMMA SelectionType ==
  ASSUME NEW T, NEW s \in Seq(T), NEW S
  PROVE  Selection(s, S) \in Seq(S)
<1>1. PICK f \in [0 .. Len(s) -> Seq(S)] : Selects(s, S, f) /\ Selection(s, S) = f[Len(s)]
  BY SelectionIs
<1>2. Len(s) \in 0 .. Len(s)
  OBVIOUS
<1>. QED
  BY <1>1, <1>2

LEMMA SelectionOfNothing ==
  ASSUME NEW S
  PROVE  Selection(<< >>, S) = << >>
<1>1. PICK s \in Seq({}) : s = << >> /\ Len(s) = 0
  <2>1. << >> \in Seq({}) /\ Len(<< >>) = 0
    OBVIOUS
  <2>. QED
    BY <2>1
<1>2. PICK f : Selects(s, S, f) /\ Selection(s, S) = f[Len(s)]
  BY SelectionIs
<1>. QED
  BY <1>1, <1>2 DEF Selects

--------------------------------------------------------------------------------
\* Thinned sequences.

Agree(t, u, m) == m <= Len(t) /\ m <= Len(u) /\ \A n \in 1 .. m : t[n] = u[n]

Next1(s, x, m) == IF m < Len(s) /\ s[m + 1] = x THEN m + 1 ELSE m

Takes(s, t, f) ==
    f = [n \in 0 .. Len(t) |->
            IF n = 0 THEN 0
            ELSE IF f[n - 1] < Len(s) /\ s[f[n - 1] + 1] = t[n] THEN f[n - 1] + 1
            ELSE f[n - 1]]

LEMMA TakesIs ==
  ASSUME NEW s, Len(s) \in Nat, NEW t, Len(t) \in Nat, NEW f, Takes(s, t, f)
  PROVE  f[0] = 0 /\ \A n \in 1 .. Len(t) : f[n] = Next1(s, t[n], f[n - 1])
<1>1. ASSUME NEW n \in 1 .. Len(t) PROVE f[n] = Next1(s, t[n], f[n - 1])
  <2>1. n \in 0 .. Len(t) /\ n # 0
    OBVIOUS
  <2>. QED
    BY <2>1 DEF Takes, Next1
<1>2. 0 \in 0 .. Len(t)
  OBVIOUS
<1>3. f[0] = 0
  BY <1>2 DEF Takes
<1>. QED
  BY <1>1, <1>3

\* What has been taken is a number of elements (by induction on how far).
LEMMA TakesType ==
  ASSUME NEW T, NEW s \in Seq(T), NEW t \in Seq(T), NEW f, Takes(s, t, f)
  PROVE  \A n \in 0 .. Len(t) : f[n] \in 0 .. Len(s)
<1> DEFINE Bad == {n \in 0 .. Len(t) : f[n] \notin 0 .. Len(s)}
<1>1. SUFFICES ASSUME Bad # {} PROVE FALSE
  OBVIOUS
<1>2. Bad \subseteq Nat
  OBVIOUS
<1>3. PICK n \in Bad : \A k \in Bad : n <= k
  <2>. HIDE DEF Bad
  <2>. QED
    BY <1>1, <1>2, Least
<1>4. n \in 0 .. Len(t) /\ f[n] \notin 0 .. Len(s) /\ Len(s) \in Nat /\ Len(t) \in Nat
  BY <1>3
<1>5. n # 0
  BY <1>4, TakesIs
<1>6. n \in 1 .. Len(t) /\ n - 1 \in 0 .. Len(t) /\ ~(n <= n - 1)
  BY <1>4, <1>5
<1>7. f[n - 1] \in 0 .. Len(s)
  BY <1>3, <1>6
<1>8. f[n] = Next1(s, t[n], f[n - 1])
  BY <1>4, <1>6, TakesIs
<1>. QED
  BY <1>4, <1>7, <1>8 DEF Next1

\* How far two sequences agree, so far is the same taken.
LEMMA TakesAlike ==
  ASSUME NEW s, Len(s) \in Nat, NEW t, Len(t) \in Nat, NEW u, Len(u) \in Nat,
         NEW f, NEW g, Takes(s, t, f), Takes(s, u, g),
         NEW m \in Nat, Agree(t, u, m)
  PROVE  \A n \in 0 .. m : f[n] = g[n]
<1> USE DEF Agree
<1> DEFINE Bad == {n \in 0 .. m : f[n] # g[n]}
<1>1. SUFFICES ASSUME Bad # {} PROVE FALSE
  OBVIOUS
<1>2. Bad \subseteq Nat
  OBVIOUS
<1>3. PICK n \in Bad : \A k \in Bad : n <= k
  <2>. HIDE DEF Bad
  <2>. QED
    BY <1>1, <1>2, Least
<1>4. n \in 0 .. m /\ f[n] # g[n]
  BY <1>3
<1>5. n # 0
  BY <1>4, TakesIs
<1>6. n \in 1 .. m /\ n \in 1 .. Len(t) /\ n \in 1 .. Len(u) /\ n - 1 \in 0 .. m /\ ~(n <= n - 1)
  BY <1>4, <1>5
<1>7. f[n - 1] = g[n - 1] /\ t[n] = u[n]
  BY <1>3, <1>6
<1>8. f[n] = Next1(s, t[n], f[n - 1]) /\ g[n] = Next1(s, u[n], g[n - 1])
  BY <1>6, TakesIs
<1>. QED
  BY <1>4, <1>7, <1>8

\* Of a sequence that is one longer the same is taken, until there is one more to take.
LEMMA TakesOneMore ==
  ASSUME NEW T, NEW s \in Seq(T), NEW r \in Seq(T), Len(r) = Len(s) + 1, Agree(s, r, Len(s)),
         NEW t \in Seq(T), NEW f, NEW g, Takes(s, t, f), Takes(r, t, g)
  PROVE  \A n \in 0 .. Len(t) : f[n] = IF g[n] <= Len(s) THEN g[n] ELSE Len(s)
<1> DEFINE Same(n) == f[n] = IF g[n] <= Len(s) THEN g[n] ELSE Len(s)
           Bad == {n \in 0 .. Len(t) : ~Same(n)}
<1>1. SUFFICES ASSUME Bad # {} PROVE FALSE
  OBVIOUS
<1>2. Bad \subseteq Nat
  OBVIOUS
<1>3. PICK n \in Bad : \A k \in Bad : n <= k
  <2>. HIDE DEF Bad
  <2>. QED
    BY <1>1, <1>2, Least
<1>4. n \in 0 .. Len(t) /\ ~Same(n)
  BY <1>3
<1>5. /\ Len(s) \in Nat /\ Len(t) \in Nat /\ Len(r) = Len(s) + 1 /\ Len(r) \in Nat
      /\ \A k \in 1 .. Len(s) : r[k] = s[k]
  BY DEF Agree
<1>6. f[0] = 0 /\ g[0] = 0
  BY <1>5, TakesIs
<1>7. n # 0
  BY <1>4, <1>5, <1>6
<1>8. n \in 1 .. Len(t) /\ n - 1 \in 0 .. Len(t) /\ ~(n <= n - 1)
  BY <1>4, <1>7
<1>9. Same(n - 1)
  <2>1. n - 1 \notin Bad
    <3>. HIDE DEF Bad
    <3>. QED
      BY <1>3, <1>8
  <2>. QED
    BY <1>8, <2>1
<1> HIDE DEF Bad
<1>10. f[n] = Next1(s, t[n], f[n - 1]) /\ g[n] = Next1(r, t[n], g[n - 1])
  <2>1. \A k \in 1 .. Len(t) : f[k] = Next1(s, t[k], f[k - 1])
    BY <1>5, TakesIs
  <2>2. \A k \in 1 .. Len(t) : g[k] = Next1(r, t[k], g[k - 1])
    BY <1>5, TakesIs
  <2>. QED
    BY <1>8, <2>1, <2>2
<1>11. g[n - 1] \in 0 .. Len(r)
  BY <1>8, TakesType
<1>12. CASE g[n - 1] = Len(r)
  BY <1>4, <1>5, <1>9, <1>10, <1>12 DEF Next1
<1>13. CASE g[n - 1] = Len(s)
  BY <1>4, <1>5, <1>9, <1>10, <1>13 DEF Next1
<1>14. CASE g[n - 1] < Len(s)
  <2>1. g[n - 1] + 1 \in 1 .. Len(s) /\ f[n - 1] = g[n - 1]
    BY <1>5, <1>9, <1>11, <1>14
  <2>2. r[g[n - 1] + 1] = s[g[n - 1] + 1]
    BY <1>5, <2>1
  <2>. QED
    BY <1>4, <1>5, <1>10, <1>11, <2>1, <2>2 DEF Next1
<1>. QED
  BY <1>5, <1>11, <1>12, <1>13, <1>14

LEMMA ThinnedIs ==
  ASSUME NEW T, NEW s \in Seq(T), NEW t \in Seq(T)
  PROVE  \E f : Takes(s, t, f) /\ (IsThinned(s, t) <=> f[Len(t)] = Len(s))
<1>1. PICK N, L \in Nat : N = Len(t) /\ L = Len(s)
  OBVIOUS
<1>2. PICK step : step = [n \in 1 .. N |-> [m \in 0 .. L |->
                             IF m < L /\ s[m + 1] = t[n] THEN m + 1 ELSE m]]
  OBVIOUS
<1>3. PICK V : V = 0 .. L
  OBVIOUS
<1>4. \A n \in 1 .. N, m \in V :
          /\ step[n][m] = IF m < L /\ s[m + 1] = t[n] THEN m + 1 ELSE m
          /\ step[n][m] \in V
  BY <1>2, <1>3
<1>5. PICK a \in V : a = 0
  BY <1>3
<1>6. PICK f \in [0 .. N -> V] : f[0] = a /\ \A n \in 1 .. N : f[n] = step[n][f[n - 1]]
  <2>1. Steps(step, N, V)
    BY <1>4 DEF Steps
  <2>2. PICK f \in [0 .. N -> V] : Follows(f, a, step, N)
    BY <2>1, RecursionExists
  <2>. QED
    BY <2>2 DEF Follows
<1>7. Takes(s, t, f)
  <2>1. ASSUME NEW n \in 0 .. N
        PROVE  f[n] = IF n = 0 THEN 0
                      ELSE IF f[n - 1] < L /\ s[f[n - 1] + 1] = t[n] THEN f[n - 1] + 1
                      ELSE f[n - 1]
    <3>1. CASE n = 0
      BY <1>5, <1>6, <3>1
    <3>2. CASE n # 0
      <4>1. n \in 1 .. N /\ f[n - 1] \in V
        BY <1>6, <3>2
      <4>. QED
        BY <1>4, <1>6, <3>2, <4>1
    <3>. QED
      BY <3>1, <3>2
  <2>2. f = [n \in 0 .. N |-> f[n]]
    BY <1>6
  <2>. QED
    BY <1>1, <2>1, <2>2 DEF Takes
<1>8. PICK g : g = CHOOSE h : Takes(s, t, h)
  OBVIOUS
<1>9. Takes(s, t, g)
  BY <1>7, <1>8
<1>10. IsThinned(s, t) <=> g[Len(t)] = Len(s)
  BY <1>8 DEF IsThinned, Takes
<1>. QED
  BY <1>9, <1>10

\* Nothing is left of anything.
LEMMA NothingIsThinned ==
  ASSUME NEW T, NEW t \in Seq(T)
  PROVE  IsThinned(<< >>, t)
<1>1. PICK s \in Seq(T) : s = << >> /\ Len(s) = 0
  <2>1. << >> \in Seq(T) /\ Len(<< >>) = 0
    OBVIOUS
  <2>. QED
    BY <2>1
<1>2. PICK f : Takes(s, t, f) /\ (IsThinned(s, t) <=> f[Len(t)] = Len(s))
  BY ThinnedIs
<1>3. Len(t) \in 0 .. Len(t)
  OBVIOUS
<1>4. f[Len(t)] \in 0 .. 0
  BY <1>1, <1>2, <1>3, TakesType
<1>. QED
  BY <1>1, <1>2, <1>4

\* What is left stays so when there is more to leave out ...
LEMMA ThinnedOfMore ==
  ASSUME NEW T, NEW s \in Seq(T), NEW t \in Seq(T), NEW x \in T, IsThinned(s, t)
  PROVE  IsThinned(s, Append(t, x))
<1>1. PICK u \in Seq(T) : u = Append(t, x)
  <2>1. Append(t, x) \in Seq(T)
    OBVIOUS
  <2>. QED
    BY <2>1
<1>2. /\ Len(t) \in Nat /\ Len(u) \in Nat /\ Len(u) = Len(t) + 1 /\ Len(s) \in Nat
      /\ Agree(t, u, Len(t)) /\ Len(t) \in 0 .. Len(t)
  BY <1>1 DEF Agree
<1>3. PICK f : Takes(s, t, f) /\ f[Len(t)] = Len(s)
  BY ThinnedIs
<1>4. PICK g : Takes(s, u, g) /\ (IsThinned(s, u) <=> g[Len(u)] = Len(s))
  BY ThinnedIs
<1>5. g[Len(t)] = Len(s)
  BY <1>2, <1>3, <1>4, TakesAlike
<1>6. g[Len(u)] = Next1(s, u[Len(u)], g[Len(u) - 1])
  BY <1>2, <1>4, TakesIs
<1>7. g[Len(u)] = Len(s)
  BY <1>2, <1>5, <1>6 DEF Next1
<1>. QED
  BY <1>1, <1>4, <1>7

\* ... or when both have one more ...
LEMMA ThinnedAlike ==
  ASSUME NEW T, NEW s \in Seq(T), NEW t \in Seq(T), NEW x \in T, IsThinned(s, t)
  PROVE  IsThinned(Append(s, x), Append(t, x))
<1>1. PICK r, u \in Seq(T) : r = Append(s, x) /\ u = Append(t, x)
  <2>1. Append(s, x) \in Seq(T) /\ Append(t, x) \in Seq(T)
    OBVIOUS
  <2>. QED
    BY <2>1
<1>2. /\ Len(t) \in Nat /\ Len(u) \in Nat /\ Len(u) = Len(t) + 1 /\ Len(s) \in Nat
      /\ Len(r) \in Nat /\ Len(r) = Len(s) + 1
      /\ u[Len(u)] = x /\ r[Len(r)] = x
      /\ Agree(t, u, Len(t)) /\ Agree(s, r, Len(s)) /\ Len(t) \in 0 .. Len(t)
  BY <1>1 DEF Agree
<1>3. PICK f : Takes(s, t, f) /\ f[Len(t)] = Len(s)
  BY ThinnedIs
<1>4. PICK g : Takes(r, u, g) /\ (IsThinned(r, u) <=> g[Len(u)] = Len(r))
  BY ThinnedIs
<1>5. PICK h : Takes(r, t, h)
  BY ThinnedIs
<1>6. h[Len(t)] \in {Len(s), Len(r)}
  <2>1. Len(t) \in 0 .. Len(t)
    BY <1>2
  <2>2. h[Len(t)] \in 0 .. Len(r)
    BY <1>5, <2>1, TakesType
  <2>3. f[Len(t)] = IF h[Len(t)] <= Len(s) THEN h[Len(t)] ELSE Len(s)
    BY <1>2, <1>3, <1>5, <2>1, TakesOneMore
  <2>. QED
    BY <1>2, <1>3, <2>2, <2>3
<1>7. g[Len(t)] = h[Len(t)]
  BY <1>2, <1>4, <1>5, TakesAlike
<1>8. g[Len(u)] = Next1(r, u[Len(u)], g[Len(u) - 1])
  BY <1>2, <1>4, TakesIs
<1>9. g[Len(u)] = Len(r)
  BY <1>2, <1>6, <1>7, <1>8 DEF Next1
<1>. QED
  BY <1>1, <1>4, <1>9

\* ... or when its last element is left out as well.
LEMMA ThinnedFurther ==
  ASSUME NEW T, NEW s \in Seq(T), NEW t \in Seq(T), NEW x \in T, IsThinned(Append(s, x), t)
  PROVE  IsThinned(s, t)
<1>1. PICK r \in Seq(T) : r = Append(s, x)
  <2>1. Append(s, x) \in Seq(T)
    OBVIOUS
  <2>. QED
    BY <2>1
<1>2. /\ Len(s) \in Nat /\ Len(r) = Len(s) + 1 /\ Len(t) \in Nat /\ Len(t) \in 0 .. Len(t)
      /\ Agree(s, r, Len(s))
  BY <1>1 DEF Agree
<1>3. PICK f : Takes(s, t, f) /\ (IsThinned(s, t) <=> f[Len(t)] = Len(s))
  BY ThinnedIs
<1>4. PICK g : Takes(r, t, g) /\ g[Len(t)] = Len(r)
  BY <1>1, ThinnedIs
<1>5. f[Len(t)] = IF g[Len(t)] <= Len(s) THEN g[Len(t)] ELSE Len(s)
  BY <1>2, <1>3, <1>4, TakesOneMore
<1>. QED
  BY <1>2, <1>3, <1>4, <1>5

--------------------------------------------------------------------------------
\* Sequences put together.

Flattens(ss, f) ==
    f = [i \in 1 .. Len(ss) |-> IF i = 1 THEN ss[i] ELSE f[i - 1] \o ss[i]]

LEMMA FlattensIs ==
  ASSUME NEW ss, Len(ss) \in Nat, NEW f, Flattens(ss, f)
  PROVE  \A i \in 1 .. Len(ss) : f[i] = IF i = 1 THEN ss[i] ELSE f[i - 1] \o ss[i]
  BY DEF Flattens

\* How far two sequences agree, so far they are put together alike (by induction on how far).
LEMMA FlattensAlike ==
  ASSUME NEW T, NEW ss \in Seq(Seq(T)), NEW tt \in Seq(Seq(T)), NEW f, NEW g,
         Flattens(ss, f), Flattens(tt, g), NEW m \in Nat, Agree(ss, tt, m)
  PROVE  \A i \in 1 .. m : f[i] = g[i]
<1> USE DEF Agree
<1> DEFINE Bad == {i \in 1 .. m : f[i] # g[i]}
<1>1. SUFFICES ASSUME Bad # {} PROVE FALSE
  OBVIOUS
<1>2. Bad \subseteq Nat
  OBVIOUS
<1>3. PICK i \in Bad : \A k \in Bad : i <= k
  <2>. HIDE DEF Bad
  <2>. QED
    BY <1>1, <1>2, Least
<1>4. /\ i \in 1 .. m /\ i \in 1 .. Len(ss) /\ i \in 1 .. Len(tt) /\ f[i] # g[i]
      /\ ss[i] = tt[i]
  BY <1>3
<1>5. /\ f[i] = IF i = 1 THEN ss[i] ELSE f[i - 1] \o ss[i]
      /\ g[i] = IF i = 1 THEN tt[i] ELSE g[i - 1] \o tt[i]
  <2>1. Len(ss) \in Nat /\ Len(tt) \in Nat
    OBVIOUS
  <2>. HIDE DEF Bad
  <2>. QED
    BY <1>4, <2>1, FlattensIs
<1>6. i # 1
  BY <1>4, <1>5
<1>7. i - 1 \in 1 .. m /\ ~(i <= i - 1)
  BY <1>4, <1>6
<1>8. f[i - 1] = g[i - 1]
  BY <1>3, <1>7
<1>. QED
  BY <1>4, <1>5, <1>8

LEMMA FlattenIs ==
  ASSUME NEW T, NEW ss \in Seq(Seq(T)), Len(ss) # 0
  PROVE  \E f \in [1 .. Len(ss) -> Seq(T)] : Flattens(ss, f) /\ FlattenSeq(ss) = f[Len(ss)]
<1>1. PICK N \in Nat : N = Len(ss) - 1 /\ Len(ss) = N + 1
  <2>1. Len(ss) - 1 \in Nat /\ Len(ss) = (Len(ss) - 1) + 1
    OBVIOUS
  <2>. QED
    BY <2>1
<1>2. PICK V : V = Seq(T)
  OBVIOUS
<1>3. PICK step : step = [n \in 1 .. N |-> [v \in V |-> v \o ss[n + 1]]]
  OBVIOUS
<1>4. \A n \in 1 .. N, v \in V : step[n][v] = v \o ss[n + 1] /\ step[n][v] \in V
  <2>1. SUFFICES ASSUME NEW n \in 1 .. N, NEW v \in V
                 PROVE  step[n][v] = v \o ss[n + 1] /\ step[n][v] \in V
    OBVIOUS
  <2>2. ss[n + 1] \in Seq(T)
    BY <1>1
  <2>3. v \o ss[n + 1] \in Seq(T)
    BY <1>2, <2>2, ConcatProperties
  <2>. QED
    BY <1>2, <1>3, <2>3
<1>5. PICK a \in V : a = ss[1]
  BY <1>1, <1>2
<1>6. PICK h \in [0 .. N -> V] : h[0] = a /\ \A n \in 1 .. N : h[n] = step[n][h[n - 1]]
  <2>1. Steps(step, N, V)
    BY <1>4 DEF Steps
  <2>2. PICK h \in [0 .. N -> V] : Follows(h, a, step, N)
    BY <2>1, RecursionExists
  <2>. QED
    BY <2>2 DEF Follows
<1>7. PICK f : f = [i \in 1 .. Len(ss) |-> h[i - 1]]
  OBVIOUS
<1>8. f \in [1 .. Len(ss) -> Seq(T)]
  BY <1>1, <1>2, <1>6, <1>7
<1>9. Flattens(ss, f)
  <2>1. ASSUME NEW i \in 1 .. Len(ss)
        PROVE  f[i] = IF i = 1 THEN ss[i] ELSE f[i - 1] \o ss[i]
    <3>1. CASE i = 1
      BY <1>5, <1>6, <1>7, <2>1, <3>1
    <3>2. CASE i # 1
      <4>1. PICK n \in 1 .. N : n = i - 1 /\ i = n + 1
        BY <1>1, <2>1, <3>2
      <4>2. h[n - 1] \in V /\ h[n] = step[n][h[n - 1]]
        BY <1>6, <4>1
      <4>3. h[n] = h[n - 1] \o ss[n + 1]
        BY <1>4, <4>2
      <4>4. f[i] = h[n] /\ f[i - 1] = h[n - 1]
        BY <1>1, <1>7, <2>1, <3>2, <4>1
      <4>. QED
        BY <3>2, <4>1, <4>3, <4>4
    <3>. QED
      BY <3>1, <3>2
  <2>2. f = [i \in 1 .. Len(ss) |-> f[i]]
    BY <1>8
  <2>. QED
    BY <2>1, <2>2 DEF Flattens
<1>10. PICK g : Flattens(ss, g) /\ FlattenSeq(ss) = g[Len(ss)]
  <2>1. PICK g : g = CHOOSE e : Flattens(ss, e)
    OBVIOUS
  <2>2. Flattens(ss, g)
    BY <1>9, <2>1
  <2>3. FlattenSeq(ss) = g[Len(ss)]
    BY <2>1 DEF FlattenSeq, Flattens
  <2>. QED
    BY <2>2, <2>3
<1>11. f[Len(ss)] = g[Len(ss)]
  <2>1. Len(ss) \in Nat /\ Len(ss) \in 1 .. Len(ss) /\ Agree(ss, ss, Len(ss))
    BY <1>1 DEF Agree
  <2>. QED
    BY <1>9, <1>10, <2>1, FlattensAlike
<1>. QED
  BY <1>8, <1>9, <1>10, <1>11

LEMMA FlattenType ==
  ASSUME NEW T, NEW ss \in Seq(Seq(T))
  PROVE  FlattenSeq(ss) \in Seq(T)
<1>1. CASE Len(ss) = 0
  BY <1>1 DEF FlattenSeq
<1>2. CASE Len(ss) # 0
  <2>1. PICK f \in [1 .. Len(ss) -> Seq(T)] : FlattenSeq(ss) = f[Len(ss)]
    BY <1>2, FlattenIs
  <2>2. Len(ss) \in 1 .. Len(ss)
    BY <1>2
  <2>. QED
    BY <2>1, <2>2
<1>. QED
  BY <1>1, <1>2

\* One more sequence at the end comes at the end.
LEMMA FlattenAppend ==
  ASSUME NEW T, NEW ss \in Seq(Seq(T)), NEW s \in Seq(T)
  PROVE  FlattenSeq(Append(ss, s)) = FlattenSeq(ss) \o s
<1>1. PICK tt \in Seq(Seq(T)) : tt = Append(ss, s)
  <2>1. Append(ss, s) \in Seq(Seq(T))
    OBVIOUS
  <2>. QED
    BY <2>1
<1>2. /\ Len(ss) \in Nat /\ Len(tt) = Len(ss) + 1 /\ tt[Len(tt)] = s /\ Len(tt) \in Nat
      /\ Len(tt) # 0 /\ Agree(ss, tt, Len(ss))
  BY <1>1 DEF Agree
<1>3. PICK g : Flattens(tt, g) /\ FlattenSeq(tt) = g[Len(tt)]
  BY <1>2, FlattenIs
<1>4. g[Len(tt)] = IF Len(tt) = 1 THEN s ELSE g[Len(tt) - 1] \o s
  <2>1. Len(tt) \in 1 .. Len(tt)
    BY <1>2
  <2>. QED
    BY <1>2, <1>3, <2>1, FlattensIs
<1>5. CASE Len(ss) = 0
  <2>1. FlattenSeq(ss) = << >>
    BY <1>5 DEF FlattenSeq
  <2>2. << >> \o s = s
    BY ConcatEmptySeq
  <2>. QED
    BY <1>1, <1>2, <1>3, <1>4, <1>5, <2>1, <2>2
<1>6. CASE Len(ss) # 0
  <2>1. PICK f : Flattens(ss, f) /\ FlattenSeq(ss) = f[Len(ss)]
    BY <1>6, FlattenIs
  <2>2. f[Len(ss)] = g[Len(ss)]
    <3>1. Len(ss) \in 1 .. Len(ss)
      BY <1>2, <1>6
    <3>. QED
      BY <1>2, <1>3, <2>1, <3>1, FlattensAlike
  <2>. QED
    BY <1>1, <1>2, <1>3, <1>4, <1>6, <2>1, <2>2
<1>. QED
  BY <1>5, <1>6

LEMMA Associative ==
  ASSUME NEW T, NEW a \in Seq(T), NEW b \in Seq(T), NEW c \in Seq(T)
  PROVE  (a \o b) \o c = a \o (b \o c)
  BY ConcatAssociative, SMTT(30)

\* The beginning comes at the beginning (by induction on what follows it).
LEMMA FlattenBegins ==
  ASSUME NEW T, NEW ss \in Seq(Seq(T)), NEW k \in 0 .. Len(ss)
  PROVE  \E rest \in Seq(T) : FlattenSeq(ss) = FlattenSeq(SubSeq(ss, 1, k)) \o rest
<1> DEFINE Start(n) == SubSeq(ss, 1, n)
           Follows1(n) == \E rest \in Seq(T) : FlattenSeq(Start(n)) = FlattenSeq(Start(k)) \o rest
           Bad == {n \in k .. Len(ss) : ~Follows1(n)}
<1>1. \A n \in 0 .. Len(ss) : Start(n) \in Seq(Seq(T)) /\ Len(Start(n)) = n
  <2>1. SUFFICES ASSUME NEW n \in 0 .. Len(ss)
                 PROVE  Start(n) \in Seq(Seq(T)) /\ Len(Start(n)) = n
    OBVIOUS
  <2>2. \A i \in 1 .. n : ss[i] \in Seq(T)
    BY <2>1
  <2>. QED
    BY <2>1, <2>2, SubSeqProperties
<1>2. \A n \in 0 .. Len(ss) : FlattenSeq(Start(n)) \in Seq(T)
  <2>. HIDE DEF Start
  <2>. QED
    BY <1>1, FlattenType
<1>3. \A n \in 0 .. Len(ss) : n + 1 <= Len(ss) => Start(n + 1) = Append(Start(n), ss[n + 1])
  OBVIOUS
<1>. HIDE DEF Start
<1>4. Bad = {}
  <2>1. SUFFICES ASSUME Bad # {} PROVE FALSE
    OBVIOUS
  <2>2. Bad \subseteq Nat
    OBVIOUS
  <2>3. PICK n \in Bad : \A i \in Bad : n <= i
    <3>. HIDE DEF Bad
    <3>. QED
      BY <2>1, <2>2, Least
  <2>4. CASE n = k
    <3>1. FlattenSeq(Start(k)) \o << >> = FlattenSeq(Start(k))
      BY <1>2, ConcatEmptySeq
    <3>2. << >> \in Seq(T)
      OBVIOUS
    <3>. QED
      BY <2>3, <2>4, <3>1, <3>2
  <2>5. CASE n # k
    <3>1. PICK p \in k .. Len(ss) : n = p + 1 /\ p + 1 <= Len(ss) /\ ~(n <= p) /\ p \in 0 .. Len(ss)
      BY <2>3, <2>5
    <3>2. PICK rest \in Seq(T) : FlattenSeq(Start(p)) = FlattenSeq(Start(k)) \o rest
      BY <2>3, <3>1
    <3>3. ss[n] \in Seq(T)
      BY <3>1
    <3>4. FlattenSeq(Start(n)) = FlattenSeq(Start(p)) \o ss[n]
      BY <1>1, <1>3, <3>1, <3>3, FlattenAppend
    <3>5. (FlattenSeq(Start(k)) \o rest) \o ss[n] = FlattenSeq(Start(k)) \o (rest \o ss[n])
      <4>1. PICK a \in Seq(T) : a = FlattenSeq(Start(k))
        BY <1>2
      <4>2. PICK c \in Seq(T) : c = ss[n]
        BY <3>3
      <4>3. (a \o rest) \o c = a \o (rest \o c)
        BY Associative
      <4>. QED
        BY <4>1, <4>2, <4>3
    <3>6. rest \o ss[n] \in Seq(T)
      BY <3>3, ConcatProperties
    <3>. QED
      BY <2>3, <3>2, <3>4, <3>5, <3>6
  <2>. QED
    BY <2>4, <2>5
<1>5. Follows1(Len(ss))
  <2>1. Len(ss) \in k .. Len(ss)
    OBVIOUS
  <2>. QED
    BY <1>4, <2>1
<1>6. Start(Len(ss)) = ss
  BY DEF Start
<1>. QED
  BY <1>5, <1>6 DEF Start

--------------------------------------------------------------------------------
\* What is selected from texts that are put together.

\* A sequence that is not empty is what comes before its last element, and that.
LEMMA AllButLast ==
  ASSUME NEW T, NEW t \in Seq(T), Len(t) # 0
  PROVE  \E u \in Seq(T), x \in T : t = Append(u, x) /\ Len(t) = Len(u) + 1
<1>1. t # << >>
  OBVIOUS
<1>2. PICK u \in Seq(T), x \in T : t = Append(u, x)
  BY <1>1, SequenceEmptyOrAppend
<1>. QED
  BY <1>2

LEMMA AppendLast ==
  ASSUME NEW T, NEW a \in Seq(T), NEW b \in Seq(T), NEW x \in T
  PROVE  a \o Append(b, x) = Append(a \o b, x)
  OBVIOUS

\* What is selected from two sequences is selected from each of them (by induction on
\* the second).
LEMMA SelectionConcat ==
  ASSUME NEW T, NEW s \in Seq(T), NEW t \in Seq(T), NEW S
  PROVE  Selection(s \o t, S) = Selection(s, S) \o Selection(t, S)
<1> DEFINE Apart(u) == Selection(s \o u, S) = Selection(s, S) \o Selection(u, S)
           Bad == {n \in Nat : \E u \in Seq(T) : Len(u) = n /\ ~Apart(u)}
<1>1. Bad = {}
  <2>1. SUFFICES ASSUME Bad # {} PROVE FALSE
    OBVIOUS
  <2>2. Bad \subseteq Nat
    OBVIOUS
  <2>. HIDE DEF Apart
  <2>3. PICK n \in Bad : \A k \in Bad : n <= k
    <3>. HIDE DEF Bad
    <3>. QED
      BY <2>1, <2>2, Least
  <2>4. PICK u \in Seq(T) : Len(u) = n /\ ~Apart(u)
    BY <2>3
  <2>5. PICK a \in Seq(S) : a = Selection(s, S)
    BY SelectionType
  <2>6. CASE Len(u) = 0
    <3>1. u = << >> /\ s \o u = s /\ a \o << >> = a
      BY <2>6, ConcatEmptySeq
    <3>. QED
      BY <2>4, <2>5, <3>1, SelectionOfNothing DEF Apart
  <2>7. CASE Len(u) # 0
    <3>1. PICK v \in Seq(T), x \in T : u = Append(v, x) /\ Len(u) = Len(v) + 1
      BY <2>7, AllButLast
    <3>2. Len(v) \in Nat /\ Len(v) = n - 1 /\ ~(n <= Len(v))
      BY <2>3, <2>4, <3>1
    <3>3. Apart(v)
      BY <2>3, <3>2
    <3>4. PICK b \in Seq(S) : b = Selection(v, S)
      BY SelectionType
    <3>5. PICK w \in Seq(T) : w = s \o v /\ s \o u = Append(w, x)
      <4>1. s \o v \in Seq(T)
        BY ConcatProperties
      <4>2. s \o u = Append(s \o v, x)
        BY <3>1, AppendLast
      <4>. QED
        BY <4>1, <4>2
    <3>6. Selection(w, S) = a \o b
      BY <2>5, <3>3, <3>4, <3>5 DEF Apart
    <3>7. Selection(u, S) = IF x \in S THEN Append(b, x) ELSE b
      BY <3>1, <3>4, SelectionGrows
    <3>8. Selection(s \o u, S) = IF x \in S THEN Append(a \o b, x) ELSE a \o b
      <4>1. Selection(Append(w, x), S) =
                IF x \in S THEN Append(Selection(w, S), x) ELSE Selection(w, S)
        BY SelectionGrows
      <4>. QED
        BY <3>5, <3>6, <4>1
    <3>9. CASE x \in S
      <4>1. a \o Append(b, x) = Append(a \o b, x)
        BY <3>9, AppendLast
      <4>. QED
        BY <2>4, <2>5, <3>7, <3>8, <3>9, <4>1 DEF Apart
    <3>10. CASE x \notin S
      BY <2>4, <2>5, <3>7, <3>8, <3>10 DEF Apart
    <3>. QED
      BY <3>9, <3>10
  <2>. QED
    BY <2>6, <2>7
<1>2. Len(t) \in Nat
  OBVIOUS
<1>. QED
  BY <1>1, <1>2

LEMMA AppendedSet ==
  ASSUME NEW T, NEW s \in Seq(T), NEW x \in T
  PROVE  ToSet(Append(s, x)) = ToSet(s) \cup {x}
<1>1. PICK t \in Seq(T) : t = Append(s, x)
  BY AppendProperties
<1>2. /\ DOMAIN s = 1 .. Len(s) /\ Len(s) \in Nat
      /\ DOMAIN t = 1 .. (Len(s) + 1)
      /\ t[Len(s) + 1] = x /\ \A i \in 1 .. Len(s) : t[i] = s[i]
  BY <1>1
<1>3. ASSUME NEW y \in ToSet(t) PROVE y \in ToSet(s) \cup {x}
  <2>1. PICK i \in 1 .. (Len(s) + 1) : y = t[i]
    BY <1>2, <1>3 DEF ToSet
  <2>2. i = Len(s) + 1 \/ i \in 1 .. Len(s)
    BY <1>2
  <2>. QED
    BY <1>2, <2>1, <2>2 DEF ToSet
<1>4. ASSUME NEW y \in ToSet(s) \cup {x} PROVE y \in ToSet(t)
  <2>1. CASE y = x
    <3>1. Len(s) + 1 \in 1 .. (Len(s) + 1)
      BY <1>2
    <3>. QED
      BY <1>2, <2>1, <3>1 DEF ToSet
  <2>2. CASE y \in ToSet(s)
    <3>1. PICK i \in 1 .. Len(s) : y = s[i]
      BY <1>2, <2>2 DEF ToSet
    <3>2. i \in 1 .. (Len(s) + 1)
      BY <1>2
    <3>. QED
      BY <1>2, <3>1, <3>2 DEF ToSet
  <2>. QED
    BY <1>4, <2>1, <2>2
<1>. QED
  BY <1>1, <1>3, <1>4

\* Nothing is selected where there is nothing of the kind (by induction on the sequence).
LEMMA NothingSelected ==
  ASSUME NEW T, NEW t \in Seq(T), NEW S
  PROVE  Selection(t, S) = << >> <=> ToSet(t) \cap S = {}
<1> DEFINE None(u) == Selection(u, S) = << >> <=> ToSet(u) \cap S = {}
           Bad == {n \in Nat : \E u \in Seq(T) : Len(u) = n /\ ~None(u)}
<1>1. Bad = {}
  <2>1. SUFFICES ASSUME Bad # {} PROVE FALSE
    OBVIOUS
  <2>2. Bad \subseteq Nat
    OBVIOUS
  <2>. HIDE DEF None
  <2>3. PICK n \in Bad : \A k \in Bad : n <= k
    <3>. HIDE DEF Bad
    <3>. QED
      BY <2>1, <2>2, Least
  <2>4. PICK u \in Seq(T) : Len(u) = n /\ ~None(u)
    BY <2>3
  <2>5. CASE Len(u) = 0
    <3>1. u = << >> /\ ToSet(u) = {}
      BY <2>5 DEF ToSet
    <3>. QED
      BY <2>4, <3>1, SelectionOfNothing DEF None
  <2>6. CASE Len(u) # 0
    <3>1. PICK v \in Seq(T), x \in T : u = Append(v, x) /\ Len(u) = Len(v) + 1
      BY <2>6, AllButLast
    <3>2. Len(v) \in Nat /\ Len(v) = n - 1 /\ ~(n <= Len(v))
      BY <2>3, <2>4, <3>1
    <3>3. None(v)
      BY <2>3, <3>2
    <3>4. PICK b \in Seq(S) : b = Selection(v, S)
      BY SelectionType
    <3>5. Selection(u, S) = IF x \in S THEN Append(b, x) ELSE b
      BY <3>1, <3>4, SelectionGrows
    <3>6. ToSet(u) = ToSet(v) \cup {x}
      BY <3>1, AppendedSet
    <3>7. CASE x \in S
      <4>1. Append(b, x) # << >>
        BY <3>7, AppendProperties, EmptySeq
      <4>. QED
        BY <2>4, <3>5, <3>6, <3>7, <4>1 DEF None
    <3>8. CASE x \notin S
      BY <2>4, <3>3, <3>4, <3>5, <3>6, <3>8 DEF None
    <3>. QED
      BY <3>7, <3>8
  <2>. QED
    BY <2>5, <2>6
<1>2. Len(t) \in Nat
  OBVIOUS
<1>. QED
  BY <1>1, <1>2

\* What is thinned of a longer sequence ends with its last element, or is thinned of the
\* shorter one.
LEMMA ThinnedOfLonger ==
  ASSUME NEW T, NEW s \in Seq(T), NEW t \in Seq(T), NEW x \in T, IsThinned(s, Append(t, x))
  PROVE  \/ IsThinned(s, t)
         \/ \E r \in Seq(T) : s = Append(r, x) /\ IsThinned(r, t)
<1>1. PICK u \in Seq(T) : u = Append(t, x)
  <2>1. Append(t, x) \in Seq(T)
    OBVIOUS
  <2>. QED
    BY <2>1
<1>2. /\ Len(t) \in Nat /\ Len(u) \in Nat /\ Len(u) = Len(t) + 1 /\ Len(s) \in Nat
      /\ u[Len(u)] = x /\ Agree(t, u, Len(t)) /\ Len(t) \in 0 .. Len(t)
  BY <1>1 DEF Agree
<1>3. PICK f : Takes(s, u, f) /\ f[Len(u)] = Len(s)
  BY <1>1, ThinnedIs
<1>4. PICK g : Takes(s, t, g) /\ (IsThinned(s, t) <=> g[Len(t)] = Len(s))
  BY ThinnedIs
<1>5. g[Len(t)] = f[Len(t)]
  BY <1>2, <1>3, <1>4, TakesAlike
<1>6. f[Len(u)] = Next1(s, x, f[Len(t)])
  <2>1. Len(u) \in 1 .. Len(u) /\ Len(u) - 1 = Len(t)
    BY <1>2
  <2>. QED
    BY <1>2, <1>3, <2>1, TakesIs
<1>7. CASE f[Len(t)] = Len(s)
  BY <1>4, <1>5, <1>7
<1>8. CASE f[Len(t)] # Len(s)
  <2>1. g[Len(t)] < Len(s) /\ s[g[Len(t)] + 1] = x /\ g[Len(t)] + 1 = Len(s)
    BY <1>3, <1>5, <1>6, <1>8 DEF Next1
  <2>2. g[Len(t)] \in 0 .. Len(s)
    BY <1>2, <1>4, TakesType
  <2>3. Len(s) # 0
    BY <1>2, <2>1, <2>2
  <2>4. PICK r \in Seq(T), y \in T : s = Append(r, y) /\ Len(s) = Len(r) + 1
    BY <2>3, AllButLast
  <2>5. y = x /\ Agree(r, s, Len(r)) /\ Len(r) \in Nat
    BY <1>2, <2>1, <2>4 DEF Agree
  <2>6. PICK h : Takes(r, t, h) /\ (IsThinned(r, t) <=> h[Len(t)] = Len(r))
    BY ThinnedIs
  <2>7. h[Len(t)] = IF g[Len(t)] <= Len(r) THEN g[Len(t)] ELSE Len(r)
    <3>1. Len(s) = Len(r) + 1 /\ Agree(r, s, Len(r)) /\ Takes(r, t, h) /\ Takes(s, t, g)
      BY <1>4, <2>4, <2>5, <2>6
    <3>2. \A n \in 0 .. Len(t) : h[n] = IF g[n] <= Len(r) THEN g[n] ELSE Len(r)
      BY <3>1, TakesOneMore
    <3>. QED
      BY <1>2, <3>2
  <2>8. h[Len(t)] = Len(r)
    BY <1>2, <2>1, <2>2, <2>4, <2>5, <2>7
  <2>. QED
    BY <2>4, <2>5, <2>6, <2>8
<1>. QED
  BY <1>7, <1>8

\* Of nothing only nothing is thinned.
LEMMA ThinnedOfNothing ==
  ASSUME NEW T, NEW s \in Seq(T), IsThinned(s, << >>)
  PROVE  s = << >>
<1>1. PICK t \in Seq(T) : t = << >> /\ Len(t) = 0
  <2>1. << >> \in Seq(T) /\ Len(<< >>) = 0
    OBVIOUS
  <2>. QED
    BY <2>1
<1>2. PICK f : Takes(s, t, f) /\ f[Len(t)] = Len(s)
  BY <1>1, ThinnedIs
<1>3. f[0] = 0
  BY <1>1, <1>2, TakesIs
<1>4. Len(s) = 0
  BY <1>1, <1>2, <1>3
<1>. QED
  BY <1>4

\* Thinned sequences put together are thinned of what they are thinned of, put together
\* (by induction on the second).
LEMMA ThinnedConcat ==
  ASSUME NEW T, NEW a \in Seq(T), NEW b \in Seq(T), NEW c \in Seq(T), NEW d \in Seq(T),
         IsThinned(a, b), IsThinned(c, d)
  PROVE  IsThinned(a \o c, b \o d)
<1> DEFINE Fits(q, p) == IsThinned(q, p) => IsThinned(a \o q, b \o p)
           Bad == {n \in Nat : \E p, q \in Seq(T) : Len(p) = n /\ ~Fits(q, p)}
<1>1. Bad = {}
  <2>1. SUFFICES ASSUME Bad # {} PROVE FALSE
    OBVIOUS
  <2>2. Bad \subseteq Nat
    OBVIOUS
  <2>. HIDE DEF Fits
  <2>3. PICK n \in Bad : \A k \in Bad : n <= k
    <3>. HIDE DEF Bad
    <3>. QED
      BY <2>1, <2>2, Least
  <2>4. PICK p, q \in Seq(T) : Len(p) = n /\ ~Fits(q, p)
    BY <2>3
  <2>5. IsThinned(q, p) /\ ~IsThinned(a \o q, b \o p)
    BY <2>4 DEF Fits
  <2>6. CASE Len(p) = 0
    <3>1. p = << >> /\ b \o << >> = b /\ a \o << >> = a
      BY <2>6, ConcatEmptySeq
    <3>2. q = << >>
      BY <2>5, <3>1, ThinnedOfNothing
    <3>. QED
      BY <2>5, <3>1, <3>2
  <2>7. CASE Len(p) # 0
    <3>1. PICK v \in Seq(T), x \in T : p = Append(v, x) /\ Len(p) = Len(v) + 1
      BY <2>7, AllButLast
    <3>2. Len(v) \in Nat /\ Len(v) = n - 1 /\ ~(n <= Len(v))
      BY <2>3, <2>4, <3>1
    <3>3. \A w \in Seq(T) : Fits(w, v)
      BY <2>3, <3>2
    <3>4. PICK long \in Seq(T) : long = b \o v /\ b \o p = Append(long, x)
      <4>1. b \o v \in Seq(T)
        BY ConcatProperties
      <4>2. b \o p = Append(b \o v, x)
        BY <3>1, AppendLast
      <4>. QED
        BY <4>1, <4>2
    <3>5. CASE IsThinned(q, v)
      <4>1. PICK short \in Seq(T) : short = a \o q
        BY ConcatProperties
      <4>2. IsThinned(short, long)
        BY <3>3, <3>4, <3>5, <4>1 DEF Fits
      <4>3. IsThinned(short, Append(long, x))
        BY <4>2, ThinnedOfMore
      <4>. QED
        BY <2>5, <3>4, <4>1, <4>3
    <3>6. CASE \E r \in Seq(T) : q = Append(r, x) /\ IsThinned(r, v)
      <4>1. PICK r \in Seq(T) : q = Append(r, x) /\ IsThinned(r, v)
        BY <3>6
      <4>2. PICK short \in Seq(T) : short = a \o r /\ a \o q = Append(short, x)
        <5>1. a \o r \in Seq(T)
          BY ConcatProperties
        <5>2. a \o q = Append(a \o r, x)
          BY <4>1, AppendLast
        <5>. QED
          BY <5>1, <5>2
      <4>3. IsThinned(short, long)
        BY <3>3, <3>4, <4>1, <4>2 DEF Fits
      <4>4. IsThinned(Append(short, x), Append(long, x))
        BY <4>3, ThinnedAlike
      <4>. QED
        BY <2>5, <3>4, <4>2, <4>4
    <3>7. IsThinned(q, Append(v, x))
      BY <2>5, <3>1
    <3>. QED
      BY <3>5, <3>6, <3>7, ThinnedOfLonger
  <2>. QED
    BY <2>6, <2>7
<1>2. Len(d) \in Nat
  OBVIOUS
<1>3. Fits(c, d)
  BY <1>1, <1>2
<1>. QED
  BY <1>3

\* A sequence is thinned of itself (by induction on it).
LEMMA ThinnedSelf ==
  ASSUME NEW T, NEW s \in Seq(T)
  PROVE  IsThinned(s, s)
<1> DEFINE Bad == {n \in Nat : \E u \in Seq(T) : Len(u) = n /\ ~IsThinned(u, u)}
<1>1. Bad = {}
  <2>1. SUFFICES ASSUME Bad # {} PROVE FALSE
    OBVIOUS
  <2>2. Bad \subseteq Nat
    OBVIOUS
  <2>3. PICK n \in Bad : \A k \in Bad : n <= k
    <3>. HIDE DEF Bad
    <3>. QED
      BY <2>1, <2>2, Least
  <2>4. PICK u \in Seq(T) : Len(u) = n /\ ~IsThinned(u, u)
    BY <2>3
  <2>5. CASE Len(u) = 0
    <3>1. u = << >>
      BY <2>5
    <3>2. IsThinned(<< >>, u)
      BY NothingIsThinned
    <3>. QED
      BY <2>4, <3>1, <3>2
  <2>6. CASE Len(u) # 0
    <3>1. PICK v \in Seq(T), x \in T : u = Append(v, x) /\ Len(u) = Len(v) + 1
      BY <2>6, AllButLast
    <3>2. Len(v) \in Nat /\ Len(v) = n - 1 /\ ~(n <= Len(v))
      BY <2>3, <2>4, <3>1
    <3>3. IsThinned(v, v)
      BY <2>3, <3>2
    <3>4. IsThinned(Append(v, x), Append(v, x))
      BY <3>3, ThinnedAlike
    <3>. QED
      BY <2>4, <3>1, <3>4
  <2>. QED
    BY <2>5, <2>6
<1>2. Len(s) \in Nat
  OBVIOUS
<1>. QED
  BY <1>1, <1>2

LEMMA FlattenOfNothing == FlattenSeq(<< >>) = << >>
  BY DEF FlattenSeq

LEMMA FlattenConcatOne ==
  ASSUME NEW T, NEW ss \in Seq(Seq(T)), NEW vv \in Seq(Seq(T)), NEW x \in Seq(T),
         FlattenSeq(ss \o vv) = FlattenSeq(ss) \o FlattenSeq(vv)
  PROVE  FlattenSeq(ss \o Append(vv, x)) = FlattenSeq(ss) \o FlattenSeq(Append(vv, x))
<1>1. PICK ww \in Seq(Seq(T)) : ww = ss \o vv
  BY ConcatProperties
<1>2. ss \o Append(vv, x) = Append(ww, x)
  <2>1. ss \o Append(vv, x) = Append(ss \o vv, x)
    BY AppendLast
  <2>. QED
    BY <1>1, <2>1
<1>3. PICK a, b, c \in Seq(T) : a = FlattenSeq(ss) /\ b = FlattenSeq(vv) /\ c = x
  BY FlattenType
<1>4. FlattenSeq(Append(ww, x)) = FlattenSeq(ww) \o x
          /\ FlattenSeq(Append(vv, x)) = FlattenSeq(vv) \o x
  BY FlattenAppend
<1>5. (a \o b) \o c = a \o (b \o c)
  BY Associative
<1>. QED
  BY <1>1, <1>2, <1>3, <1>4, <1>5

\* Sequences of sequences are put together one after the other (by induction on the
\* second).
LEMMA FlattenConcat ==
  ASSUME NEW T, NEW ss \in Seq(Seq(T)), NEW tt \in Seq(Seq(T))
  PROVE  FlattenSeq(ss \o tt) = FlattenSeq(ss) \o FlattenSeq(tt)
<1> DEFINE Adds1(uu) == FlattenSeq(ss \o uu) = FlattenSeq(ss) \o FlattenSeq(uu)
           Bad == {n \in Nat : \E uu \in Seq(Seq(T)) : Len(uu) = n /\ ~Adds1(uu)}
<1>1. Bad = {}
  <2>1. SUFFICES ASSUME Bad # {} PROVE FALSE
    OBVIOUS
  <2>2. Bad \subseteq Nat
    OBVIOUS
  <2>. HIDE DEF Adds1
  <2>3. PICK n \in Bad : \A k \in Bad : n <= k
    <3>. HIDE DEF Bad
    <3>. QED
      BY <2>1, <2>2, Least
  <2>4. PICK uu \in Seq(Seq(T)) : Len(uu) = n /\ ~Adds1(uu)
    BY <2>3
  <2>5. PICK a \in Seq(T) : a = FlattenSeq(ss)
    BY FlattenType
  <2>6. CASE Len(uu) = 0
    <3>1. uu = << >> /\ ss \o << >> = ss /\ a \o << >> = a
      BY <2>6, ConcatEmptySeq
    <3>. QED
      BY <2>4, <2>5, <3>1, FlattenOfNothing DEF Adds1
  <2>7. CASE Len(uu) # 0
    <3>1. PICK vv \in Seq(Seq(T)), x \in Seq(T) : uu = Append(vv, x) /\ Len(uu) = Len(vv) + 1
      BY <2>7, AllButLast
    <3>2. Len(vv) \in Nat /\ Len(vv) = n - 1 /\ ~(n <= Len(vv))
      BY <2>3, <2>4, <3>1
    <3>3. Adds1(vv)
      BY <2>3, <3>2
    <3>. QED
      BY <2>4, <3>1, <3>3, FlattenConcatOne DEF Adds1
  <2>. QED
    BY <2>6, <2>7
<1>2. Len(tt) \in Nat
  OBVIOUS
<1>. QED
  BY <1>1, <1>2

LEMMA ConcatSet ==
  ASSUME NEW T, NEW s \in Seq(T), NEW t \in Seq(T)
  PROVE  ToSet(s \o t) = ToSet(s) \cup ToSet(t)
<1>1. PICK u \in Seq(T) : u = s \o t
  BY ConcatProperties
<1>2. /\ DOMAIN s = 1 .. Len(s) /\ Len(s) \in Nat
      /\ DOMAIN t = 1 .. Len(t) /\ Len(t) \in Nat
      /\ DOMAIN u = 1 .. (Len(s) + Len(t))
      /\ \A i \in 1 .. Len(s) + Len(t) : u[i] = IF i <= Len(s) THEN s[i] ELSE t[i - Len(s)]
  BY <1>1, ConcatProperties
<1>3. ASSUME NEW y \in ToSet(u) PROVE y \in ToSet(s) \cup ToSet(t)
  <2>1. PICK i \in 1 .. (Len(s) + Len(t)) : y = u[i]
    BY <1>2, <1>3 DEF ToSet
  <2>2. CASE i <= Len(s)
    <3>1. i \in 1 .. Len(s) /\ y = s[i]
      BY <1>2, <2>1, <2>2
    <3>. QED
      BY <1>2, <3>1 DEF ToSet
  <2>3. CASE ~(i <= Len(s))
    <3>1. i - Len(s) \in 1 .. Len(t) /\ y = t[i - Len(s)]
      BY <1>2, <2>1, <2>3
    <3>. QED
      BY <1>2, <3>1 DEF ToSet
  <2>. QED
    BY <2>2, <2>3
<1>4. ASSUME NEW y \in ToSet(s) PROVE y \in ToSet(u)
  <2>1. PICK i \in 1 .. Len(s) : y = s[i]
    BY <1>2, <1>4 DEF ToSet
  <2>2. i \in 1 .. (Len(s) + Len(t)) /\ u[i] = y
    BY <1>2, <2>1
  <2>. QED
    BY <1>2, <2>2 DEF ToSet
<1>5. ASSUME NEW y \in ToSet(t) PROVE y \in ToSet(u)
  <2>1. PICK i \in 1 .. Len(t) : y = t[i]
    BY <1>2, <1>5 DEF ToSet
  <2>2. i + Len(s) \in 1 .. (Len(s) + Len(t)) /\ u[i + Len(s)] = y
    <3>1. i + Len(s) \in 1 .. (Len(s) + Len(t)) /\ ~(i + Len(s) <= Len(s))
              /\ i + Len(s) - Len(s) = i
      BY <1>2
    <3>. QED
      BY <1>2, <2>1, <3>1
  <2>. QED
    BY <1>2, <2>2 DEF ToSet
<1>. QED
  BY <1>1, <1>3, <1>4, <1>5

LEMMA EmptySetOfNothing ==
  ASSUME NEW T, NEW s \in Seq(T)
  PROVE  ToSet(s) = {} <=> s = << >>
<1>1. DOMAIN s = 1 .. Len(s) /\ Len(s) \in Nat
  OBVIOUS
<1>2. CASE Len(s) = 0
  BY <1>1, <1>2 DEF ToSet
<1>3. CASE Len(s) # 0
  <2>1. 1 \in DOMAIN s /\ s # << >>
    BY <1>1, <1>3
  <2>. QED
    BY <2>1 DEF ToSet
<1>. QED
  BY <1>2, <1>3

Members(ss) == UNION {ToSet(s) : s \in ToSet(ss)}

\* What is in sequences that are put together is in one of them (by induction).
LEMMA FlattenedSet ==
  ASSUME NEW T, NEW ss \in Seq(Seq(T))
  PROVE  ToSet(FlattenSeq(ss)) = Members(ss)
<1> DEFINE All(uu) == ToSet(FlattenSeq(uu)) = Members(uu)
           Bad == {n \in Nat : \E uu \in Seq(Seq(T)) : Len(uu) = n /\ ~All(uu)}
<1>1. Bad = {}
  <2>1. SUFFICES ASSUME Bad # {} PROVE FALSE
    OBVIOUS
  <2>2. Bad \subseteq Nat
    OBVIOUS
  <2>. HIDE DEF All
  <2>3. PICK n \in Bad : \A k \in Bad : n <= k
    <3>. HIDE DEF Bad
    <3>. QED
      BY <2>1, <2>2, Least
  <2>4. PICK uu \in Seq(Seq(T)) : Len(uu) = n /\ ~All(uu)
    BY <2>3
  <2>5. CASE Len(uu) = 0
    <3>1. uu = << >> /\ ToSet(uu) = {}
      BY <2>5 DEF ToSet
    <3>2. ToSet(FlattenSeq(uu)) = {}
      BY <3>1, FlattenOfNothing
    <3>. QED
      BY <2>4, <3>1, <3>2 DEF All, Members
  <2>6. CASE Len(uu) # 0
    <3>1. PICK vv \in Seq(Seq(T)), x \in Seq(T) : uu = Append(vv, x) /\ Len(uu) = Len(vv) + 1
      BY <2>6, AllButLast
    <3>2. Len(vv) \in Nat /\ Len(vv) = n - 1 /\ ~(n <= Len(vv))
      BY <2>3, <2>4, <3>1
    <3>3. All(vv)
      BY <2>3, <3>2
    <3>4. ToSet(uu) = ToSet(vv) \cup {x}
      BY <3>1, AppendedSet
    <3>5. ToSet(FlattenSeq(uu)) = ToSet(FlattenSeq(vv)) \cup ToSet(x)
      <4>1. PICK v \in Seq(T) : v = FlattenSeq(vv)
        BY FlattenType
      <4>2. FlattenSeq(uu) = v \o x
        BY <3>1, <4>1, FlattenAppend
      <4>. QED
        BY <4>1, <4>2, ConcatSet
    <3>6. Members(uu) = Members(vv) \cup ToSet(x)
      BY <3>4 DEF Members
    <3>. QED
      BY <2>4, <3>3, <3>5, <3>6 DEF All
  <2>. QED
    BY <2>5, <2>6
<1>2. Len(ss) \in Nat
  OBVIOUS
<1>. QED
  BY <1>1, <1>2

\* From sequences that agree in what is selected, or in that it is thinned.
LEMMA ConcatAlike ==
  ASSUME NEW T, NEW S, NEW a \in Seq(T), NEW b \in Seq(T), NEW u \in Seq(T), NEW v \in Seq(T)
  PROVE  /\ Selection(a, S) = Selection(b, S) /\ Selection(u, S) = Selection(v, S) =>
              Selection(a \o u, S) = Selection(b \o v, S)
         /\ /\ IsThinned(Selection(a, S), Selection(b, S))
            /\ IsThinned(Selection(u, S), Selection(v, S))
            => IsThinned(Selection(a \o u, S), Selection(b \o v, S))
<1>1. Selection(a \o u, S) = Selection(a, S) \o Selection(u, S)
  BY SelectionConcat
<1>2. Selection(b \o v, S) = Selection(b, S) \o Selection(v, S)
  BY SelectionConcat
<1>3. PICK c, d, e, f \in Seq(S) :
          c = Selection(a, S) /\ d = Selection(b, S) /\ e = Selection(u, S) /\ f = Selection(v, S)
  BY SelectionType
<1>4. IsThinned(c, d) /\ IsThinned(e, f) => IsThinned(c \o e, d \o f)
  BY ThinnedConcat
<1>. QED
  BY <1>1, <1>2, <1>3, <1>4

\* Where the same is selected from each of them, the same is selected from all (by induction).
LEMMA FlattenAlikeSelection ==
  ASSUME NEW T, NEW S, NEW ss \in Seq(Seq(T)), NEW tt \in Seq(Seq(T)), Len(ss) = Len(tt),
         \A i \in 1 .. Len(ss) : Selection(ss[i], S) = Selection(tt[i], S)
  PROVE  Selection(FlattenSeq(ss), S) = Selection(FlattenSeq(tt), S)
<1> DEFINE Alike(s, t) == Selection(s, S) = Selection(t, S)
           Pairs(uu, vv) == Len(uu) = Len(vv) /\ \A i \in 1 .. Len(uu) : Alike(uu[i], vv[i])
           Whole(uu, vv) == Alike(FlattenSeq(uu), FlattenSeq(vv))
           Bad == {n \in Nat : \E uu, vv \in Seq(Seq(T)) :
                      Len(uu) = n /\ Pairs(uu, vv) /\ ~Whole(uu, vv)}
<1>1. Bad = {}
  <2>1. SUFFICES ASSUME Bad # {} PROVE FALSE
    OBVIOUS
  <2>2. Bad \subseteq Nat
    OBVIOUS
  <2>. HIDE DEF Alike, Pairs, Whole
  <2>3. PICK n \in Bad : \A k \in Bad : n <= k
    <3>. HIDE DEF Bad
    <3>. QED
      BY <2>1, <2>2, Least
  <2>4. PICK uu, vv \in Seq(Seq(T)) : Len(uu) = n /\ Pairs(uu, vv) /\ ~Whole(uu, vv)
    BY <2>3
  <2>5. Len(vv) = Len(uu)
    BY <2>4 DEF Pairs
  <2>6. CASE Len(uu) = 0
    <3>1. uu = << >> /\ vv = << >>
      BY <2>5, <2>6
    <3>2. Whole(<< >>, << >>)
      BY DEF Whole, Alike
    <3>. QED
      BY <2>4, <3>1, <3>2
  <2>7. CASE Len(uu) # 0
    <3>1. PICK us \in Seq(Seq(T)), u \in Seq(T) : uu = Append(us, u) /\ Len(uu) = Len(us) + 1
      BY <2>7, AllButLast
    <3>2. PICK vs \in Seq(Seq(T)), v \in Seq(T) : vv = Append(vs, v) /\ Len(vv) = Len(vs) + 1
      BY <2>5, <2>7, AllButLast
    <3>3. Len(us) \in Nat /\ Len(us) = n - 1 /\ ~(n <= Len(us)) /\ Len(vs) = Len(us)
      BY <2>3, <2>4, <2>5, <3>1, <3>2
    <3>4. Alike(u, v) /\ Pairs(us, vs)
      <4>1. \A i \in 1 .. Len(uu) : Alike(uu[i], vv[i])
        BY <2>4 DEF Pairs
      <4>2. Len(uu) \in 1 .. Len(uu) /\ uu[Len(uu)] = u /\ vv[Len(uu)] = v
        BY <2>5, <3>1, <3>2, <3>3
      <4>3. \A i \in 1 .. Len(us) : i \in 1 .. Len(uu) /\ uu[i] = us[i] /\ vv[i] = vs[i]
        BY <3>1, <3>2, <3>3
      <4>. QED
        BY <3>3, <4>1, <4>2, <4>3 DEF Pairs
    <3>5. Whole(us, vs)
      BY <2>3, <3>3, <3>4
    <3>6. PICK a, b \in Seq(T) : a = FlattenSeq(us) /\ b = FlattenSeq(vs)
      BY FlattenType
    <3>7. FlattenSeq(uu) = a \o u /\ FlattenSeq(vv) = b \o v
      BY <3>1, <3>2, <3>6, FlattenAppend
    <3>8. Alike(a \o u, b \o v)
      BY <3>4, <3>5, <3>6, ConcatAlike DEF Whole, Alike
    <3>. QED
      BY <2>4, <3>7, <3>8 DEF Whole
  <2>. QED
    BY <2>6, <2>7
<1>2. Len(ss) \in Nat
  OBVIOUS
<1>3. Pairs(ss, tt)
  OBVIOUS
<1>4. Whole(ss, tt)
  <2>. HIDE DEF Whole, Pairs
  <2>. QED
    BY <1>1, <1>2, <1>3
<1>. QED
  BY <1>4

\* Where what is selected from each is thinned, so is what is selected from all (by induction).
LEMMA FlattenAlikeThinned ==
  ASSUME NEW T, NEW S, NEW ss \in Seq(Seq(T)), NEW tt \in Seq(Seq(T)), Len(ss) = Len(tt),
         \A i \in 1 .. Len(ss) : IsThinned(Selection(ss[i], S), Selection(tt[i], S))
  PROVE  IsThinned(Selection(FlattenSeq(ss), S), Selection(FlattenSeq(tt), S))
<1> DEFINE Alike(s, t) == IsThinned(Selection(s, S), Selection(t, S))
           Pairs(uu, vv) == Len(uu) = Len(vv) /\ \A i \in 1 .. Len(uu) : Alike(uu[i], vv[i])
           Whole(uu, vv) == Alike(FlattenSeq(uu), FlattenSeq(vv))
           Bad == {n \in Nat : \E uu, vv \in Seq(Seq(T)) :
                      Len(uu) = n /\ Pairs(uu, vv) /\ ~Whole(uu, vv)}
<1>1. Bad = {}
  <2>1. SUFFICES ASSUME Bad # {} PROVE FALSE
    OBVIOUS
  <2>2. Bad \subseteq Nat
    OBVIOUS
  <2>. HIDE DEF Alike, Pairs, Whole
  <2>3. PICK n \in Bad : \A k \in Bad : n <= k
    <3>. HIDE DEF Bad
    <3>. QED
      BY <2>1, <2>2, Least
  <2>4. PICK uu, vv \in Seq(Seq(T)) : Len(uu) = n /\ Pairs(uu, vv) /\ ~Whole(uu, vv)
    BY <2>3
  <2>5. Len(vv) = Len(uu)
    BY <2>4 DEF Pairs
  <2>6. CASE Len(uu) = 0
    <3>1. uu = << >> /\ vv = << >>
      BY <2>5, <2>6
    <3>2. Whole(<< >>, << >>)
      <4>1. << >> \in Seq(T)
        OBVIOUS
      <4>2. IsThinned(<< >>, << >>)
        BY <4>1, ThinnedSelf
      <4>. QED
        BY <4>2, FlattenOfNothing, SelectionOfNothing DEF Whole, Alike
    <3>. QED
      BY <2>4, <3>1, <3>2
  <2>7. CASE Len(uu) # 0
    <3>1. PICK us \in Seq(Seq(T)), u \in Seq(T) : uu = Append(us, u) /\ Len(uu) = Len(us) + 1
      BY <2>7, AllButLast
    <3>2. PICK vs \in Seq(Seq(T)), v \in Seq(T) : vv = Append(vs, v) /\ Len(vv) = Len(vs) + 1
      BY <2>5, <2>7, AllButLast
    <3>3. Len(us) \in Nat /\ Len(us) = n - 1 /\ ~(n <= Len(us)) /\ Len(vs) = Len(us)
      BY <2>3, <2>4, <2>5, <3>1, <3>2
    <3>4. Alike(u, v) /\ Pairs(us, vs)
      <4>1. \A i \in 1 .. Len(uu) : Alike(uu[i], vv[i])
        BY <2>4 DEF Pairs
      <4>2. Len(uu) \in 1 .. Len(uu) /\ uu[Len(uu)] = u /\ vv[Len(uu)] = v
        BY <2>5, <3>1, <3>2, <3>3
      <4>3. \A i \in 1 .. Len(us) : i \in 1 .. Len(uu) /\ uu[i] = us[i] /\ vv[i] = vs[i]
        BY <3>1, <3>2, <3>3
      <4>. QED
        BY <3>3, <4>1, <4>2, <4>3 DEF Pairs
    <3>5. Whole(us, vs)
      BY <2>3, <3>3, <3>4
    <3>6. PICK a, b \in Seq(T) : a = FlattenSeq(us) /\ b = FlattenSeq(vs)
      BY FlattenType
    <3>7. FlattenSeq(uu) = a \o u /\ FlattenSeq(vv) = b \o v
      BY <3>1, <3>2, <3>6, FlattenAppend
    <3>8. Alike(a \o u, b \o v)
      BY <3>4, <3>5, <3>6, ConcatAlike DEF Whole, Alike
    <3>. QED
      BY <2>4, <3>7, <3>8 DEF Whole
  <2>. QED
    BY <2>6, <2>7
<1>2. Len(ss) \in Nat
  OBVIOUS
<1>3. Pairs(ss, tt)
  OBVIOUS
<1>4. Whole(ss, tt)
  <2>. HIDE DEF Whole, Pairs
  <2>. QED
    BY <1>1, <1>2, <1>3
<1>. QED
  BY <1>4

\* No more is selected than there is (by induction on the length).
LEMMA SelectionLength ==
  ASSUME NEW T, NEW s \in Seq(T), NEW S
  PROVE  Len(Selection(s, S)) <= Len(s)
<1> DEFINE Bad == {n \in Nat : \E t \in Seq(T) : Len(t) = n /\ ~(Len(Selection(t, S)) <= n)}
<1>1. Bad = {}
  <2>1. SUFFICES ASSUME Bad # {} PROVE FALSE
    OBVIOUS
  <2>2. Bad \subseteq Nat
    OBVIOUS
  <2>3. PICK n \in Bad : \A k \in Bad : n <= k
    <3>. HIDE DEF Bad
    <3>. QED
      BY <2>1, <2>2, Least
  <2>4. PICK t \in Seq(T) : Len(t) = n /\ ~(Len(Selection(t, S)) <= n)
    BY <2>3
  <2>5. CASE Len(t) = 0
    <3>1. t = << >>
      BY <2>5
    <3>. QED
      BY <2>4, <3>1, SelectionOfNothing
  <2>6. CASE Len(t) # 0
    <3>1. PICK u \in Seq(T), x \in T : t = Append(u, x) /\ Len(t) = Len(u) + 1
      BY <2>6, AllButLast
    <3>2. Len(u) \in Nat /\ Len(u) = n - 1 /\ ~(n <= Len(u))
      BY <2>3, <2>4, <3>1
    <3>3. Len(Selection(u, S)) <= Len(u)
      BY <2>3, <3>2
    <3>4. PICK r \in Seq(S) : r = Selection(u, S)
      BY SelectionType
    <3>5. Selection(t, S) = IF x \in S THEN Append(r, x) ELSE r
      BY <3>1, <3>4, SelectionGrows
    <3>6. x \in S => Len(Append(r, x)) = Len(r) + 1
      OBVIOUS
    <3>. QED
      BY <2>4, <3>1, <3>2, <3>3, <3>4, <3>5, <3>6
  <2>. QED
    BY <2>5, <2>6
<1>2. Len(s) \in Nat
  OBVIOUS
<1>. QED
  BY <1>1, <1>2

\* The beginning of a sequence and what comes after it.
LEMMA Parts ==
  ASSUME NEW T, NEW s \in Seq(T), NEW b \in Nat, NEW n \in Nat, b <= n, n <= Len(s)
  PROVE  /\ SubSeq(s, b + 1, n) \in Seq(T)
         /\ Len(SubSeq(s, b + 1, n)) = n - b
         /\ \A i \in 1 .. n - b : SubSeq(s, b + 1, n)[i] = s[b + i]
         /\ SubSeq(s, 1, b) \in Seq(T)
         /\ Len(SubSeq(s, 1, b)) = b
         /\ \A i \in 1 .. b : SubSeq(s, 1, b)[i] = s[i]
         /\ SubSeq(s, 1, b) \o SubSeq(s, b + 1, n) = SubSeq(s, 1, n)
<1>1. Len(s) \in Nat /\ \A i \in 1 .. Len(s) : s[i] \in T
  OBVIOUS
<1>2. /\ SubSeq(s, b + 1, n) \in Seq(T)
      /\ Len(SubSeq(s, b + 1, n)) = IF b + 1 <= n THEN n - (b + 1) + 1 ELSE 0
      /\ \A i \in 1 .. n - (b + 1) + 1 : SubSeq(s, b + 1, n)[i] = s[b + 1 + i - 1]
  <2>1. \A i \in b + 1 .. n : s[i] \in T
    BY <1>1
  <2>2. b + 1 \in Int /\ n \in Int
    OBVIOUS
  <2>. QED
    BY <2>1, <2>2, SubSeqProperties
<1>3. (IF b + 1 <= n THEN n - (b + 1) + 1 ELSE 0) = n - b
  OBVIOUS
<1>4. ASSUME NEW i \in 1 .. n - b PROVE SubSeq(s, b + 1, n)[i] = s[b + i]
  <2>1. i \in 1 .. n - (b + 1) + 1 /\ b + 1 + i - 1 = b + i
    OBVIOUS
  <2>2. SubSeq(s, b + 1, n)[i] = s[b + 1 + i - 1]
    BY <1>2, <2>1
  <2>. QED
    BY <2>1, <2>2
<1>5. /\ SubSeq(s, 1, b) \in Seq(T)
      /\ Len(SubSeq(s, 1, b)) = IF 1 <= b THEN b - 1 + 1 ELSE 0
      /\ \A i \in 1 .. b - 1 + 1 : SubSeq(s, 1, b)[i] = s[1 + i - 1]
  <2>1. \A i \in 1 .. b : s[i] \in T
    BY <1>1
  <2>2. 1 \in Int /\ b \in Int
    OBVIOUS
  <2>. QED
    BY <2>1, <2>2, SubSeqProperties
<1>6. (IF 1 <= b THEN b - 1 + 1 ELSE 0) = b
  OBVIOUS
<1>7. ASSUME NEW i \in 1 .. b PROVE SubSeq(s, 1, b)[i] = s[i]
  <2>1. i \in 1 .. b - 1 + 1 /\ 1 + i - 1 = i
    OBVIOUS
  <2>2. SubSeq(s, 1, b)[i] = s[1 + i - 1]
    BY <1>5, <2>1
  <2>. QED
    BY <2>1, <2>2
<1>8. SubSeq(s, 1, b) \o SubSeq(s, b + 1, n) = SubSeq(s, 1, n)
  <2>1. 1 \in 1 .. Len(s) + 1 /\ b \in 1 - 1 .. Len(s) /\ n \in b .. Len(s)
    BY <1>1
  <2>. QED
    BY <2>1, ConcatAdjacentSubSeq
<1>. QED
  BY <1>2, <1>3, <1>4, <1>5, <1>6, <1>7, <1>8

--------------------------------------------------------------------------------
\* Induction up to a number, loops that keep an invariant, and sequences cut and put together.

\* What holds at 0 and goes on from each number to the next holds up to N.
LEMMA Induction ==
  ASSUME NEW N \in Nat, NEW S, 0 \in S, \A n \in 1 .. N : n - 1 \in S => n \in S
  PROVE  \A n \in 0 .. N : n \in S
<1> DEFINE Bad == {n \in 0 .. N : n \notin S}
<1>1. SUFFICES ASSUME Bad # {} PROVE FALSE
  OBVIOUS
<1>2. Bad \subseteq Nat
  OBVIOUS
<1>3. PICK n \in Bad : \A k \in Bad : n <= k
  <2>. HIDE DEF Bad
  <2>. QED
    BY <1>1, <1>2, Least
<1>4. n \in 1 .. N /\ n - 1 \in 0 .. N /\ ~(n <= n - 1)
  BY <1>3
<1>5. n - 1 \in S
  BY <1>3, <1>4
<1>. QED
  BY <1>3, <1>4, <1>5


\* A process that keeps an invariant from each step to the next can be gone through, and
\* keeps it to the end.
Ranges(inv, V, N) == \A n \in 0 .. N : inv[n] \subseteq V
Leads(inv, step, N) == \A n \in 1 .. N : \A v \in inv[n - 1] : step[n][v] \in inv[n]
Runs(h, a, inv, step, N) ==
    h[0] = a /\ \A n \in 1 .. N : h[n - 1] \in inv[n - 1] /\ h[n] = step[n][h[n - 1]]

LEMMA LoopRuns ==
  ASSUME NEW V, NEW N \in Nat, NEW inv, Ranges(inv, V, N), NEW a, a \in inv[0],
         NEW step, Leads(inv, step, N)
  PROVE  \E h \in [0 .. N -> V] : Runs(h, a, inv, step, N)
<1>1. /\ \A n \in 0 .. N : inv[n] \subseteq V
      /\ \A n \in 1 .. N : \A v \in inv[n - 1] : step[n][v] \in inv[n]
  BY DEF Ranges, Leads
<1>2. PICK tame : tame = [n \in 1 .. N |-> [v \in V |->
                             IF v \in inv[n - 1] THEN step[n][v] ELSE a]]
  OBVIOUS
<1>3. a \in V /\ Steps(tame, N, V)
  <2>1. 0 \in 0 .. N /\ a \in V
    BY <1>1
  <2>2. ASSUME NEW n \in 1 .. N, NEW v \in V PROVE tame[n][v] \in V
    <3>1. tame[n][v] = IF v \in inv[n - 1] THEN step[n][v] ELSE a
      BY <1>2
    <3>2. n \in 0 .. N
      OBVIOUS
    <3>. QED
      BY <1>1, <2>1, <3>1, <3>2
  <2>. QED
    BY <2>1, <2>2 DEF Steps
<1>4. PICK h \in [0 .. N -> V] : Follows(h, a, tame, N)
  BY <1>3, RecursionExists
<1>5. h[0] = a /\ \A n \in 1 .. N : h[n] = tame[n][h[n - 1]]
  BY <1>4 DEF Follows
<1>6. \A n \in 1 .. N : h[n - 1] \in inv[n - 1] => h[n] = step[n][h[n - 1]] /\ h[n] \in inv[n]
  <2>1. ASSUME NEW n \in 1 .. N, h[n - 1] \in inv[n - 1]
        PROVE  h[n] = step[n][h[n - 1]] /\ h[n] \in inv[n]
    <3>1. n - 1 \in 0 .. N
      OBVIOUS
    <3>2. h[n - 1] \in V
      BY <3>1
    <3>3. tame[n][h[n - 1]] = step[n][h[n - 1]]
      BY <1>2, <2>1, <3>2
    <3>. QED
      BY <1>1, <1>5, <2>1, <3>3
  <2>. QED
    BY <2>1
<1> DEFINE Kept == {n \in 0 .. N : h[n] \in inv[n]}
<1>7. 0 \in Kept
  BY <1>5
<1>8. \A n \in 1 .. N : n - 1 \in Kept => n \in Kept
  BY <1>6
<1>9. \A n \in 0 .. N : n \in Kept
  <2>. HIDE DEF Kept
  <2>. QED
    BY <1>7, <1>8, Induction
<1>10. \A n \in 1 .. N : h[n - 1] \in inv[n - 1]
  <2>1. \A n \in 1 .. N : n - 1 \in 0 .. N
    OBVIOUS
  <2>. QED
    BY <1>9, <2>1
<1>. QED
  BY <1>5, <1>6, <1>10 DEF Runs

\* A sequence with a length is not the empty one.
LEMMA NotEmpty ==
  ASSUME NEW s, Len(s) # 0
  PROVE  s # << >>
  OBVIOUS

\* What a sequence has in it.
LEMMA InSeq ==
  ASSUME NEW T, NEW s \in Seq(T), NEW n \in 1 .. Len(s)
  PROVE  s[n] \in T
  OBVIOUS

\* What two sequences are put together, one with an element more, and one cut in two.
LEMMA Joint ==
  ASSUME NEW T, NEW a \in Seq(T), NEW b \in Seq(T)
  PROVE  /\ a \o b \in Seq(T) /\ Len(a \o b) = Len(a) + Len(b)
         /\ \A i \in 1 .. Len(a) : (a \o b)[i] = a[i]
         /\ \A i \in 1 .. Len(b) : (a \o b)[Len(a) + i] = b[i]
<1>1. a \o b \in Seq(T)
  BY ConcatProperties
<1>. QED
  BY <1>1

\* A sequence with an element more.
LEMMA OneAppended ==
  ASSUME NEW T, NEW s \in Seq(T), NEW x \in T
  PROVE  /\ Append(s, x) \in Seq(T) /\ Append(s, x) # << >> /\ Len(Append(s, x)) = Len(s) + 1
         /\ Append(s, x)[Len(s) + 1] = x
         /\ \A i \in 1 .. Len(s) : Append(s, x)[i] = s[i]
  BY AppendProperties

\* A sequence cut in two.
LEMMA CutInTwo ==
  ASSUME NEW T, NEW s \in Seq(T), NEW b \in Nat, b <= Len(s)
  PROVE  /\ SubSeq(s, 1, b) \in Seq(T) /\ Len(SubSeq(s, 1, b)) = b
         /\ \A i \in 1 .. b : SubSeq(s, 1, b)[i] = s[i]
         /\ SubSeq(s, b + 1, Len(s)) \in Seq(T) /\ Len(SubSeq(s, b + 1, Len(s))) = Len(s) - b
         /\ \A i \in 1 .. Len(s) - b : SubSeq(s, b + 1, Len(s))[i] = s[b + i]
         /\ SubSeq(s, 1, b) \o SubSeq(s, b + 1, Len(s)) = s
<1>1. PICK n \in Nat : n = Len(s)
  OBVIOUS
<1>2. SubSeq(s, 1, n) = s
  BY <1>1, SubSeqFull
<1>3. b <= n /\ n <= Len(s)
  BY <1>1
<1>4. /\ SubSeq(s, b + 1, n) \in Seq(T) /\ Len(SubSeq(s, b + 1, n)) = n - b
      /\ \A i \in 1 .. n - b : SubSeq(s, b + 1, n)[i] = s[b + i]
      /\ SubSeq(s, 1, b) \in Seq(T) /\ Len(SubSeq(s, 1, b)) = b
      /\ \A i \in 1 .. b : SubSeq(s, 1, b)[i] = s[i]
      /\ SubSeq(s, 1, b) \o SubSeq(s, b + 1, n) = SubSeq(s, 1, n)
  BY <1>3, Parts
<1>. QED
  BY <1>1, <1>2, <1>4

\* The beginnings of a sequence.
LEMMA PrefixGrows ==
  ASSUME NEW T, NEW s \in Seq(T), NEW n \in 1 .. Len(s), NEW m, m = n - 1
  PROVE  SubSeq(s, 1, m) \in Seq(T) /\ SubSeq(s, 1, n) = Append(SubSeq(s, 1, m), s[n])
<1>1. m \in Nat /\ n \in Nat /\ n = m + 1 /\ m <= Len(s) /\ n <= Len(s) /\ s[n] \in T
  OBVIOUS
<1>2. PICK t \in Seq(T) : t = SubSeq(s, 1, n)
  BY <1>1, CutInTwo
<1>3. Len(t) = n /\ \A i \in 1 .. n : t[i] = s[i]
  BY <1>1, <1>2, CutInTwo
<1>4. PICK u \in Seq(T) : u = SubSeq(s, 1, m)
  BY <1>1, CutInTwo
<1>5. Len(u) = m /\ \A i \in 1 .. m : u[i] = s[i]
  BY <1>1, <1>4, CutInTwo
<1>6. t = Append(u, s[n])
  <2>1. Append(u, s[n]) \in Seq(T) /\ Len(Append(u, s[n])) = n
    BY <1>1, <1>5
  <2>2. ASSUME NEW i \in 1 .. n PROVE t[i] = Append(u, s[n])[i]
    BY <1>1, <1>3, <1>5
  <2>. QED
    BY <1>3, <2>1, <2>2, SeqEqual
<1>. QED
  BY <1>2, <1>4, <1>6

\* What comes after the first k of two sequences.
LEMMA RestOfTwo ==
  ASSUME NEW T, NEW a \in Seq(T), NEW b \in Seq(T), NEW k \in 0 .. Len(a)
  PROVE  /\ a \o b \in Seq(T) /\ Len(a \o b) = Len(a) + Len(b)
         /\ SubSeq(a \o b, 1, k) = SubSeq(a, 1, k)
         /\ SubSeq(a, k + 1, Len(a)) \in Seq(T) /\ Len(SubSeq(a, k + 1, Len(a))) = Len(a) - k
         /\ SubSeq(a \o b, k + 1, Len(a \o b)) = SubSeq(a, k + 1, Len(a)) \o b
<1>1. PICK c \in Seq(T) :
          /\ c = a \o b /\ Len(c) = Len(a) + Len(b)
          /\ \A i \in 1 .. Len(a) : c[i] = a[i]
          /\ \A i \in 1 .. Len(b) : c[Len(a) + i] = b[i]
  <2>1. /\ a \o b \in Seq(T)
        /\ Len(a \o b) = Len(a) + Len(b)
        /\ \A i \in 1 .. Len(a) : (a \o b)[i] = a[i]
        /\ \A i \in 1 .. Len(b) : (a \o b)[Len(a) + i] = b[i]
    BY Joint
  <2>. QED
    BY <2>1
<1>2. Len(a) \in Nat /\ Len(b) \in Nat /\ k \in Nat /\ k <= Len(a) /\ k <= Len(c) /\ Len(c) \in Nat
      /\ Len(a) <= Len(a) /\ Len(c) <= Len(c)
  BY <1>1
<1>3. PICK p, r \in Seq(T) :
          /\ p = SubSeq(a, 1, k) /\ r = SubSeq(a, k + 1, Len(a))
          /\ Len(p) = k /\ Len(r) = Len(a) - k
          /\ \A i \in 1 .. k : p[i] = a[i]
          /\ \A i \in 1 .. Len(a) - k : r[i] = a[k + i]
          /\ p \o r = a
  <2>1. /\ SubSeq(a, 1, k) \in Seq(T)
        /\ SubSeq(a, k + 1, Len(a)) \in Seq(T)
        /\ Len(SubSeq(a, 1, k)) = k
        /\ Len(SubSeq(a, k + 1, Len(a))) = Len(a) - k
        /\ \A i \in 1 .. k : SubSeq(a, 1, k)[i] = a[i]
        /\ \A i \in 1 .. Len(a) - k : SubSeq(a, k + 1, Len(a))[i] = a[k + i]
        /\ SubSeq(a, 1, k) \o SubSeq(a, k + 1, Len(a)) = a
    BY <1>2, CutInTwo
  <2>. QED
    BY <2>1
<1>4. PICK q, t \in Seq(T) :
          /\ q = SubSeq(c, 1, k) /\ t = SubSeq(c, k + 1, Len(c))
          /\ Len(q) = k /\ Len(t) = Len(c) - k
          /\ \A i \in 1 .. k : q[i] = c[i]
          /\ \A i \in 1 .. Len(c) - k : t[i] = c[k + i]
          /\ q \o t = c
  <2>1. /\ SubSeq(c, 1, k) \in Seq(T)
        /\ SubSeq(c, k + 1, Len(c)) \in Seq(T)
        /\ Len(SubSeq(c, 1, k)) = k
        /\ Len(SubSeq(c, k + 1, Len(c))) = Len(c) - k
        /\ \A i \in 1 .. k : SubSeq(c, 1, k)[i] = c[i]
        /\ \A i \in 1 .. Len(c) - k : SubSeq(c, k + 1, Len(c))[i] = c[k + i]
        /\ SubSeq(c, 1, k) \o SubSeq(c, k + 1, Len(c)) = c
    BY <1>2, CutInTwo
  <2>. QED
    BY <2>1
<1>5. PICK x, y \in Nat : x = Len(a) /\ y = Len(b) /\ k <= x
  BY <1>2
<1>6. p = q
  <2>1. \A i \in 1 .. k : i \in 1 .. x
    BY <1>2, <1>5
  <2>2. \A i \in 1 .. k : p[i] = q[i]
    BY <1>1, <1>3, <1>4, <1>5, <2>1
  <2>. QED
    BY <1>3, <1>4, <2>2, SeqEqual
<1>7. t = r \o b
  <2>1. PICK u \in Seq(T) : u = r \o b
    BY Joint
  <2>2. /\ Len(u) = Len(r) + Len(b)
        /\ \A i \in 1 .. Len(r) : u[i] = r[i]
        /\ \A i \in 1 .. Len(b) : u[Len(r) + i] = b[i]
    BY <2>1, Joint
  <2>3. Len(r) = x - k /\ Len(c) = x + y /\ Len(t) = (x + y) - k /\ Len(u) = (x - k) + y
    BY <1>1, <1>3, <1>4, <1>5, <2>2
  <2>4. Len(t) = Len(u)
    BY <1>2, <2>3
  <2>5. ASSUME NEW i \in 1 .. Len(t) PROVE t[i] = u[i]
    <3>1. i \in 1 .. (x + y) - k /\ t[i] = c[k + i]
      BY <1>4, <1>5, <2>3
    <3>2. CASE i <= x - k
      <4>1. i \in 1 .. x - k /\ k + i \in 1 .. x
        BY <1>2, <1>5, <3>1, <3>2
      <4>2. c[k + i] = a[k + i] /\ u[i] = r[i] /\ r[i] = a[k + i]
        BY <1>1, <1>3, <1>5, <2>2, <2>3, <4>1
      <4>. QED
        BY <3>1, <4>2
    <3>3. CASE ~(i <= x - k)
      <4>1. PICK j \in 1 .. y : i = (x - k) + j /\ k + i = x + j
        <5>1. i - (x - k) \in 1 .. y /\ i = (x - k) + (i - (x - k)) /\ k + i = x + (i - (x - k))
          BY <1>2, <1>5, <3>1, <3>3
        <5>. QED
          BY <5>1
      <4>2. c[x + j] = b[j] /\ u[(x - k) + j] = b[j]
        BY <1>1, <1>5, <2>2, <2>3, <4>1
      <4>. QED
        BY <3>1, <4>1, <4>2
    <3>. QED
      BY <3>2, <3>3
  <2>. QED
    BY <2>1, <2>4, <2>5, SeqEqual
<1>8. Len(r) = Len(a) - k /\ p = SubSeq(c, 1, k) /\ t = SubSeq(c, k + 1, Len(c)) /\ t = r \o b
  BY <1>3, <1>4, <1>6, <1>7
<1>. QED
  BY <1>1, <1>3, <1>8

\* The last ones of two sequences.
LEMMA EndOfTwo ==
  ASSUME NEW T, NEW a \in Seq(T), NEW b \in Seq(T)
  PROVE  /\ Len(a \o b) - Len(b) + 1 = Len(a) + 1
         /\ SubSeq(a \o b, Len(a) + 1, Len(a \o b)) = b
         /\ SubSeq(a \o b, 1, Len(a)) = a
<1>1. Len(a) \in 0 .. Len(a) /\ Len(a) \in Nat /\ Len(b) \in Nat
  OBVIOUS
<1>2. SubSeq(a, 1, Len(a)) = a /\ SubSeq(a, Len(a) + 1, Len(a)) = << >> /\ << >> \o b = b
  BY <1>1, SubSeqFull, SubSeqEmpty, ConcatEmptySeq
<1>. QED
  BY <1>1, <1>2, RestOfTwo

\* A computation that keeps an invariant from each turn to the next ends in it.
LEMMA LoopKeeps ==
  ASSUME NEW N \in Nat, NEW inv, NEW g, g[0] \in inv[0],
         \A n \in 1 .. N : g[n - 1] \in inv[n - 1] => g[n] \in inv[n]
  PROVE  g[N] \in inv[N]
<1> DEFINE Kept == {n \in 0 .. N : g[n] \in inv[n]}
<1>1. 0 \in Kept /\ \A n \in 1 .. N : n - 1 \in Kept => n \in Kept
  OBVIOUS
<1>2. \A n \in 0 .. N : n \in Kept
  <2>. HIDE DEF Kept
  <2>. QED
    BY <1>1, Induction
<1>. QED
  BY <1>2

\* A sequence as a function.
LEMMA AsFunction ==
  ASSUME NEW T, NEW s \in Seq(T)
  PROVE  s \in [1 .. Len(s) -> T]
  OBVIOUS

\* What the first of some sequences say when put together.
LEMMA FlattenSoFar ==
  ASSUME NEW T, NEW ss \in Seq(Seq(T))
  PROVE  /\ FlattenSeq(SubSeq(ss, 1, 0)) = << >> /\ SubSeq(ss, 1, Len(ss)) = ss
         /\ \A n \in 1 .. Len(ss) :
               /\ FlattenSeq(SubSeq(ss, 1, n - 1)) \in Seq(T)
               /\ FlattenSeq(SubSeq(ss, 1, n)) = FlattenSeq(SubSeq(ss, 1, n - 1)) \o ss[n]
<1>1. SubSeq(ss, 1, 0) = << >> /\ SubSeq(ss, 1, Len(ss)) = ss
  BY SubSeqEmpty, SubSeqFull
<1>2. ASSUME NEW n \in 1 .. Len(ss)
      PROVE  /\ FlattenSeq(SubSeq(ss, 1, n - 1)) \in Seq(T)
             /\ FlattenSeq(SubSeq(ss, 1, n)) = FlattenSeq(SubSeq(ss, 1, n - 1)) \o ss[n]
  <2>1. PICK m \in Int : m = n - 1
    OBVIOUS
  <2>2. ss[n] \in Seq(T)
    OBVIOUS
  <2>3. /\ SubSeq(ss, 1, m) \in Seq(Seq(T))
        /\ SubSeq(ss, 1, n) = Append(SubSeq(ss, 1, m), ss[n])
    BY <2>1, PrefixGrows
  <2>4. FlattenSeq(Append(SubSeq(ss, 1, m), ss[n])) = FlattenSeq(SubSeq(ss, 1, m)) \o ss[n]
    BY <2>2, <2>3, FlattenAppend
  <2>5. FlattenSeq(SubSeq(ss, 1, m)) \in Seq(T)
    BY <2>3, FlattenType
  <2>. QED
    BY <2>1, <2>3, <2>4, <2>5
<1>. QED
  BY <1>1, <1>2, FlattenOfNothing

\* A range moved back by c.
LEMMA ShiftedRange ==
  ASSUME NEW c \in Nat, NEW i \in Nat, NEW m \in Nat, NEW k \in c + i .. c + i + m - 1
  PROVE  k - c \in i .. i + m - 1 /\ c + (k - c) = k
OBVIOUS
================================================================================
