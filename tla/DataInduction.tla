---------------------------- MODULE DataInduction ----------------------------
(***************************************************************************)
(* Induction over numbers and finite sets, functions defined by recursion  *)
(* on a number, sums over a finite set, and sorting, stated with sets and  *)
(* functions: what the other proof modules need to reason about the loops  *)
(* of the code.                                                            *)
(***************************************************************************)
EXTENDS Integers, FiniteSets, FiniteSetsExt, SequencesExt, Ranking, FiniteSetTheorems,
  FunctionTheorems, SequenceTheorems, WellFoundedInduction, TLAPS

\* A set of numbers that is not empty has a least one: numbers are in the order of the
\* intervals below them, and no chain of finite sets gets smaller for ever.
LEMMA LeastOf ==
  ASSUME NEW S \in SUBSET Nat, S # {}
  PROVE  \E n \in S : \A m \in S : n <= m
<1> DEFINE Below(n) == 0..(n - 1)
           T == {Below(n) : n \in S}
           R == StrictSubsetOrdering(Nat)
<1>1. \A n \in Nat : IsFiniteSet(Below(n)) /\ Below(n) \subseteq Nat
  BY FS_Interval
<1>2. T \subseteq FiniteSubsetsOf(Nat) /\ T # {}
  BY <1>1 DEF FiniteSubsetsOf
<1>3. IsWellFoundedOn(R, FiniteSubsetsOf(Nat))
  BY FS_StrictSubsetOrderingWellFounded
<1>4. PICK t \in T : \A u \in T : <<u, t>> \notin R
  <2> HIDE DEF T, R
  <2> QED BY <1>2, <1>3, WFMin
<1>5. PICK n \in S : t = Below(n)
  BY <1>4
<1>6. ASSUME NEW m \in S, m < n PROVE FALSE
  <2>1. n \in Nat /\ m \in Nat
    OBVIOUS
  <2>2. Below(m) \subseteq Below(n) /\ m \in Below(n) /\ m \notin Below(m)
    BY <1>6, <2>1
  <2>3. Below(m) \in T /\ Below(m) \in SUBSET Nat /\ Below(n) \in SUBSET Nat
    BY <1>1, <2>1
  <2>4. Below(m) # Below(n)
    BY <2>2
  <2> HIDE DEF Below
  <2>5. <<Below(m), Below(n)>> \in R
    BY <2>2, <2>3, <2>4 DEF StrictSubsetOrdering
  <2> QED BY <1>4, <1>5, <2>3, <2>5
<1> QED BY <1>6

\* A set that has 0, and with each number below k the next one, has all of them up to k.
LEMMA CountUp ==
  ASSUME NEW k \in Nat, NEW S, 0 \in S, \A n \in 0..(k - 1) : n \in S => n + 1 \in S
  PROVE  \A n \in 0..k : n \in S
<1> DEFINE T == {n \in 0..k : n \notin S}
<1>1. CASE T = {}
  BY <1>1
<1>2. CASE T # {}
  <2>1. PICK n \in T : \A m \in T : n <= m
    <3>1. T \in SUBSET Nat
      OBVIOUS
    <3> HIDE DEF T
    <3> QED BY <1>2, <3>1, LeastOf
  <2>2. n \in 0..k /\ n # 0
    BY <2>1
  <2>3. n - 1 \in 0..(k - 1) /\ n - 1 \notin T
    BY <2>1, <2>2
  <2>4. n - 1 \in S /\ n - 1 + 1 = n
    BY <2>2, <2>3
  <2> QED BY <2>1, <2>3, <2>4
<1> QED BY <1>1, <1>2

\* f starts with z and goes on by g.
GoesOn(f, k, z, g) == f[0] = z /\ \A i \in 1..k : f[i] = g[<<i, f[i - 1]>>]

\* There is such a function.
LEMMA Recursion ==
  ASSUME NEW k \in Nat, NEW A, NEW z \in A, NEW g \in [(1..k) \X A -> A]
  PROVE  \E f \in [0..k -> A] : GoesOn(f, k, z, g)
<1> DEFINE Good(n) == \E f \in [0..n -> A] : f[0] = z /\ \A i \in 1..n : f[i] = g[<<i, f[i - 1]>>]
           S == {n \in 0..k : Good(n)}
<1>1. 0 \in S
  <2> DEFINE f == [i \in 0..0 |-> z]
  <2>1. f \in [0..0 -> A] /\ f[0] = z /\ 1..0 = {}
    OBVIOUS
  <2> HIDE DEF f
  <2>2. Good(0)
    BY <2>1
  <2> QED BY <2>2
<1>2. ASSUME NEW n \in 0..(k - 1), n \in S PROVE n + 1 \in S
  <2>1. PICK f \in [0..n -> A] : f[0] = z /\ \A i \in 1..n : f[i] = g[<<i, f[i - 1]>>]
    BY <1>2
  <2> DEFINE h == [i \in 0..(n + 1) |-> IF i = n + 1 THEN g[<<n + 1, f[n]>>] ELSE f[i]]
  <2>2. n + 1 \in 1..k /\ f[n] \in A /\ n \in Nat
    OBVIOUS
  <2>3. h \in [0..(n + 1) -> A]
    BY <2>2
  <2>4. /\ h[0] = z /\ h[n + 1] = g[<<n + 1, f[n]>>]
        /\ \A i \in 0..n : h[i] = f[i]
    BY <2>1, <2>2
  <2>5. \A i \in 1..(n + 1) : h[i] = g[<<i, h[i - 1]>>]
    <3> HIDE DEF h
    <3> TAKE i \in 1..(n + 1)
    <3>1. CASE i = n + 1
      <4>1. i - 1 = n /\ h[n] = f[n]
        BY <2>2, <2>4, <3>1
      <4> QED BY <2>4, <3>1, <4>1
    <3>2. CASE i # n + 1
      <4>1. i \in 1..n /\ i - 1 \in 0..n
        BY <2>2, <3>2
      <4>2. h[i] = f[i] /\ h[i - 1] = f[i - 1]
        BY <2>4, <4>1, <2>2
      <4> QED BY <2>1, <4>1, <4>2
    <3> QED BY <3>1, <3>2
  <2>6. n + 1 \in 0..k
    BY <2>2
  <2> QED BY <2>3, <2>4, <2>5, <2>6
<1>3. \A n \in 0..k : n \in S
  <2> HIDE DEF S
  <2> QED BY <1>1, <1>2, CountUp
<1>4. k \in S
  BY <1>3
<1> QED BY <1>4 DEF GoesOn

\* A family of sets that has the empty one, and with each part of T the part with one more
\* element, has T: as T is finite, what is taken out of it gets less and less.
LEMMA GatherUp ==
  ASSUME NEW T, IsFiniteSet(T), NEW C, {} \in C,
         \A S \in SUBSET T : \A e \in T \ S : S \in C => S \union {e} \in C
  PROVE  T \in C
<1> DEFINE D == {S \in SUBSET T : S \notin C}
           R == StrictSubsetOrdering(T)
<1>1. SUFFICES ASSUME D # {} PROVE FALSE
  OBVIOUS
<1>2. D \subseteq FiniteSubsetsOf(T)
  BY FS_Subset DEF FiniteSubsetsOf
<1>3. PICK S \in D : \A u \in D : <<u, S>> \notin R
  <2>1. IsWellFoundedOn(R, FiniteSubsetsOf(T))
    BY FS_StrictSubsetOrderingWellFounded
  <2> HIDE DEF D, R
  <2> QED BY <1>1, <1>2, <2>1, WFMin
<1>4. PICK e : e \in S
  BY <1>3
<1>5. S \in SUBSET T /\ S \notin C /\ e \in T \ (S \ {e}) /\ S \ {e} \in SUBSET T
  BY <1>3, <1>4
<1>6. (S \ {e}) \union {e} = S /\ S \ {e} # S
  BY <1>4
<1>7. S \ {e} \notin C
  BY <1>5, <1>6
<1>8. <<S \ {e}, S>> \in R
  BY <1>5, <1>6 DEF StrictSubsetOrdering
<1> QED BY <1>3, <1>5, <1>7, <1>8

\* Among the subsets of a finite set that have a property is one of which no part has it.
LEMMA SmallestOf ==
  ASSUME NEW T, IsFiniteSet(T), NEW D \in SUBSET (SUBSET T), D # {}
  PROVE  \E S \in D : \A e \in S : S \ {e} \notin D
<1> DEFINE R == StrictSubsetOrdering(T)
<1>1. D \subseteq FiniteSubsetsOf(T)
  BY FS_Subset DEF FiniteSubsetsOf
<1>2. PICK S \in D : \A u \in D : <<u, S>> \notin R
  <2>1. IsWellFoundedOn(R, FiniteSubsetsOf(T))
    BY FS_StrictSubsetOrderingWellFounded
  <2> HIDE DEF R
  <2> QED BY <1>1, <2>1, WFMin
<1>3. \A e \in S : <<S \ {e}, S>> \in R
  <2> TAKE e \in S
  <2>1. S \ {e} \in SUBSET T /\ S \in SUBSET T /\ S \ {e} \subseteq S /\ S \ {e} # S
    BY <1>2
  <2> QED BY <2>1 DEF StrictSubsetOrdering
<1> QED BY <1>2, <1>3

----------------------------------------------------------------------------
(* Sums                                                                    *)

\* The sum of the weights of a set.
Total(w, S) == MapThenSumSet(LAMBDA x : w[x], S)

\* f has the sum of each subset of S: whichever element is taken out first.
Sums(w, S, f) ==
  /\ f \in [SUBSET S -> Nat] /\ f[{}] = 0
  /\ \A r \in SUBSET S : \A x \in r : f[r] = w[x] + f[r \ {x}]

\* There is such a function: with one more element, its weight is added to the sums of sets
\* that have it.
LEMMA SumsExist ==
  ASSUME NEW S, IsFiniteSet(S), NEW w, \A x \in S : w[x] \in Nat
  PROVE  \E f : Sums(w, S, f)
<1> DEFINE C == {T \in SUBSET S : \E f : Sums(w, T, f)}
<1>1. {} \in C
  <2> DEFINE f == [r \in SUBSET {} |-> 0]
  <2>1. Sums(w, {}, f)
    BY DEF Sums
  <2> QED BY <2>1
<1>2. ASSUME NEW T \in SUBSET S, NEW e \in S \ T, T \in C PROVE T \union {e} \in C
  <2>1. PICK f : Sums(w, T, f)
    BY <1>2
  <2>2. /\ f \in [SUBSET T -> Nat] /\ f[{}] = 0
        /\ \A r \in SUBSET T : \A x \in r : f[r] = w[x] + f[r \ {x}]
    BY <2>1 DEF Sums
  <2> DEFINE h == [r \in SUBSET (T \union {e}) |-> IF e \in r THEN w[e] + f[r \ {e}] ELSE f[r]]
  <2>3. w[e] \in Nat
    OBVIOUS
  <2>4. \A r \in SUBSET (T \union {e}) : /\ e \in r => h[r] = w[e] + f[r \ {e}]
                                         /\ e \notin r => h[r] = f[r]
    OBVIOUS
  <2>5. \A r \in SUBSET (T \union {e}) : r \ {e} \in SUBSET T /\ (e \notin r => r \in SUBSET T)
    OBVIOUS
  <2>6. h \in [SUBSET (T \union {e}) -> Nat]
    BY <2>2, <2>3, <2>5
  <2> HIDE DEF h
  <2>7. h[{}] = 0
    BY <2>2, <2>4
  <2>8. ASSUME NEW r \in SUBSET (T \union {e}), NEW x \in r PROVE h[r] = w[x] + h[r \ {x}]
    <3>1. r \ {x} \in SUBSET (T \union {e}) /\ w[x] \in Nat
      OBVIOUS
    <3>2. CASE e \notin r
      <4>1. h[r] = f[r] /\ h[r \ {x}] = f[r \ {x}] /\ r \in SUBSET T
        BY <2>4, <2>5, <3>1, <3>2
      <4> QED BY <2>2, <4>1
    <3>3. CASE x = e
      <4>1. h[r] = w[e] + f[r \ {e}] /\ h[r \ {x}] = f[r \ {e}]
        BY <2>4, <3>1, <3>3
      <4> QED BY <3>3, <4>1
    <3>4. CASE e \in r /\ x # e
      <4>1. h[r] = w[e] + f[r \ {e}] /\ h[r \ {x}] = w[e] + f[(r \ {x}) \ {e}]
        BY <2>4, <3>1, <3>4
      <4>2. r \ {e} \in SUBSET T /\ x \in r \ {e}
        BY <3>4
      <4>3. f[r \ {e}] = w[x] + f[(r \ {x}) \ {e}]
        <5>1. f[r \ {e}] = w[x] + f[(r \ {e}) \ {x}]
          BY <2>2, <4>2
        <5>2. (r \ {e}) \ {x} = (r \ {x}) \ {e}
          OBVIOUS
        <5> QED BY <5>1, <5>2
      <4>4. f[(r \ {x}) \ {e}] \in Nat
        BY <2>2, <4>2
      <4> QED BY <2>3, <3>1, <4>1, <4>3, <4>4
    <3> QED BY <3>2, <3>3, <3>4
  <2>9. Sums(w, T \union {e}, h)
    BY <2>6, <2>7, <2>8 DEF Sums
  <2> QED BY <2>9
<1>3. S \in C
  <2> HIDE DEF C
  <2> QED BY <1>1, <1>2, GatherUp
<1> QED BY <1>3

Picked(s) == CHOOSE x \in s : TRUE
\* g is the function by which a fold over S adds up the weights.
Folds(w, S, g) ==
  g = [s \in SUBSET S |-> IF s = {} THEN 0 ELSE w[Picked(s)] + g[s \ {Picked(s)}]]

\* A fold computes the sum.
LEMMA FoldIsSum ==
  ASSUME NEW S, IsFiniteSet(S), NEW w, NEW f, Sums(w, S, f), NEW g, Folds(w, S, g)
  PROVE  g[S] = f[S]
<1> DEFINE D == {s \in SUBSET S : f[s] # g[s]}
<1>1. SUFFICES ASSUME D # {} PROVE FALSE
  OBVIOUS
<1>2. PICK s \in D : \A e \in s : s \ {e} \notin D
  <2>1. D \in SUBSET (SUBSET S)
    OBVIOUS
  <2> HIDE DEF D
  <2> QED BY <1>1, <2>1, SmallestOf
<1>3. s # {}
  <2>1. f[{}] = 0 /\ g[{}] = 0
    BY DEF Sums, Folds
  <2> QED BY <1>2, <2>1
<1>4. Picked(s) \in s /\ s \in SUBSET S /\ s \ {Picked(s)} \in SUBSET S
  BY <1>2, <1>3 DEF Picked
<1>5. f[s \ {Picked(s)}] = g[s \ {Picked(s)}]
  BY <1>2, <1>4
<1>6. f[s] = w[Picked(s)] + f[s \ {Picked(s)}]
  BY <1>4 DEF Sums
<1>7. g[s] = w[Picked(s)] + g[s \ {Picked(s)}]
  BY <1>3, <1>4 DEF Folds
<1> QED BY <1>2, <1>5, <1>6, <1>7

LEMMA SumsFold ==
  ASSUME NEW S, NEW w, NEW f, Sums(w, S, f)
  PROVE  Folds(w, S, f)
<1>1. \A s \in SUBSET S : s # {} => Picked(s) \in s
  BY DEF Picked
<1>2. \A s \in SUBSET S : f[s] = IF s = {} THEN 0 ELSE w[Picked(s)] + f[s \ {Picked(s)}]
  BY <1>1 DEF Sums
<1>3. f = [s \in SUBSET S |-> f[s]]
  BY DEF Sums
<1> QED BY <1>2, <1>3 DEF Folds

LEMMA TotalIsSum ==
  ASSUME NEW S, IsFiniteSet(S), NEW w, NEW f, Sums(w, S, f)
  PROVE  Total(w, S) = f[S]
<1>1. f = [s \in SUBSET S |-> IF s = {} THEN 0 ELSE w[Picked(s)] + f[s \ {Picked(s)}]]
  BY SumsFold DEF Folds
<1>2. \E g : /\ g = [s \in SUBSET S |-> IF s = {} THEN 0 ELSE w[Picked(s)] + g[s \ {Picked(s)}]]
             /\ Total(w, S) = g[S]
  BY <1>1 DEF Total, MapThenSumSet, MapThenFoldSet, Picked
<1>3. PICK g : /\ g = [s \in SUBSET S |-> IF s = {} THEN 0 ELSE w[Picked(s)] + g[s \ {Picked(s)}]]
               /\ Total(w, S) = g[S]
  BY <1>2
<1>4. Folds(w, S, g)
  BY <1>3 DEF Folds
<1>5. g[S] = f[S]
  BY <1>4, FoldIsSum
<1> QED BY <1>3, <1>5

\* The empty sum, a sum with one more element, and sums of equal weights.
LEMMA TotalEmpty == \A w : Total(w, {}) = 0
<1> TAKE w
<1>1. PICK f : Sums(w, {}, f)
  BY SumsExist, FS_EmptySet
<1> QED BY <1>1, TotalIsSum, FS_EmptySet DEF Sums

LEMMA TotalNat ==
  ASSUME NEW S, IsFiniteSet(S), NEW w, \A x \in S : w[x] \in Nat
  PROVE  Total(w, S) \in Nat
<1>1. PICK f : Sums(w, S, f)
  BY SumsExist
<1>2. f[S] \in Nat
  BY <1>1 DEF Sums
<1> QED BY <1>1, <1>2, TotalIsSum

LEMMA TotalAdd ==
  ASSUME NEW S, IsFiniteSet(S), NEW e, e \notin S, NEW w, \A x \in S \union {e} : w[x] \in Nat
  PROVE  Total(w, S \union {e}) = Total(w, S) + w[e]
<1>1. IsFiniteSet(S \union {e})
  BY FS_AddElement
<1>2. PICK f : Sums(w, S \union {e}, f)
  BY <1>1, SumsExist
<1> DEFINE g == [r \in SUBSET S |-> f[r]]
<1>3. Sums(w, S, g)
  <2>1. \A r \in SUBSET S : r \in SUBSET (S \union {e}) /\ \A x \in r : r \ {x} \in SUBSET S
    OBVIOUS
  <2>2. g \in [SUBSET S -> Nat] /\ g[{}] = 0
    BY <1>2, <2>1 DEF Sums
  <2> QED BY <1>2, <2>1, <2>2 DEF Sums
<1>4. Total(w, S \union {e}) = f[S \union {e}] /\ Total(w, S) = f[S]
  BY <1>1, <1>2, <1>3, TotalIsSum
<1>5. f[S \union {e}] = w[e] + f[S]
  <2>1. f[S \union {e}] = w[e] + f[(S \union {e}) \ {e}]
    BY <1>2 DEF Sums
  <2>2. (S \union {e}) \ {e} = S
    OBVIOUS
  <2> QED BY <2>1, <2>2
<1>6. f[S] \in Nat /\ w[e] \in Nat
  BY <1>2 DEF Sums
<1> QED BY <1>4, <1>5, <1>6

LEMMA TotalSame ==
  ASSUME NEW S, IsFiniteSet(S), NEW w, NEW v, \A x \in S : w[x] \in Nat /\ v[x] = w[x]
  PROVE  Total(v, S) = Total(w, S)
<1>1. PICK f : Sums(w, S, f)
  BY SumsExist
<1>2. Sums(v, S, f)
  BY <1>1 DEF Sums
<1> QED BY <1>1, <1>2, TotalIsSum

\* step defines functions of All on 1..n by recursion downwards: what it makes of a function at
\* a number depends on greater numbers only.
LooksUp(step, All, n) ==
  \A h, g \in All, i \in 1..n :
    (\A j \in 1..n : j > i => h[j] = g[j]) => step[h][i] = step[g][i]
Descends(step, All, n) ==
  /\ n \in Nat /\ All # {} /\ step \in [All -> All] /\ LooksUp(step, All, n)
  /\ \E A : All = [1..n -> A]

\* A function that is defined by recursion downwards exists.
LEMMA Descent ==
  ASSUME NEW n, NEW All, NEW step, Descends(step, All, n)
  PROVE  \E f \in All : step[f] = f
<1>0. n \in Nat /\ All # {} /\ step \in [All -> All] /\ LooksUp(step, All, n)
  BY DEF Descends
<1> PICK A : All = [1..n -> A]
  BY DEF Descends
<1> DEFINE Fits(h, k) == \A i \in 1..n : n - k < i => step[h][i] = h[i]
           T == {k \in 0..n : \E h \in All : Fits(h, k)}
<1>1. 0 \in T
  BY <1>0
<1>2. ASSUME NEW k \in 0..(n - 1), k \in T PROVE k + 1 \in T
  <2>1. PICK h \in All : Fits(h, k)
    BY <1>2
  <2> DEFINE g == step[h]
  <2>2. g \in All
    BY <1>0
  <2>3. ASSUME NEW i \in 1..n, n - (k + 1) < i PROVE step[g][i] = g[i]
    <3>1. \A j \in 1..n : j > i => n - k < j
      BY <1>0, <2>3
    <3>2. \A j \in 1..n : j > i => g[j] = h[j]
      BY <2>1, <3>1
    <3> HIDE DEF g
    <3>3. step[g][i] = step[h][i]
      BY <1>0, <2>2, <3>2 DEF LooksUp
    <3> QED BY <3>3 DEF g
  <2>4. Fits(g, k + 1)
    BY <2>3
  <2>5. k + 1 \in 0..n
    BY <1>0
  <2> HIDE DEF g, Fits
  <2> QED BY <2>2, <2>4, <2>5
<1>3. n \in T
  <2> HIDE DEF T
  <2>1. \A k \in 0..n : k \in T
    BY <1>0, <1>1, <1>2, CountUp
  <2> QED BY <1>0, <2>1
<1>4. PICK h \in All : Fits(h, n)
  BY <1>3
<1>5. \A i \in 1..n : step[h][i] = h[i]
  BY <1>0, <1>4
<1>6. h \in [1..n -> A] /\ step[h] \in [1..n -> A]
  BY <1>0
<1>7. step[h] = h
  <2> DEFINE g == step[h]
  <2>1. \A i \in 1..n : g[i] = h[i]
    BY <1>5
  <2>2. h \in [1..n -> A] /\ g \in [1..n -> A]
    BY <1>6
  <2> HIDE DEF g
  <2>3. g = [i \in 1..n |-> g[i]] /\ h = [i \in 1..n |-> h[i]]
    BY <2>2
  <2>4. g = h
    BY <2>1, <2>3
  <2> QED BY <2>4 DEF g
<1> QED BY <1>7

\* Induction downwards from n.
LEMMA CountDown ==
  ASSUME NEW n \in Nat, NEW S,
         \A i \in 1..n : (\A j \in 1..n : j > i => j \in S) => i \in S
  PROVE  \A i \in 1..n : i \in S
<1> DEFINE T == {k \in 0..n : \A i \in 1..n : n - k < i => i \in S}
<1>1. 0 \in T
  OBVIOUS
<1>2. ASSUME NEW k \in 0..(n - 1), k \in T PROVE k + 1 \in T
  <2>1. ASSUME NEW i \in 1..n, n - (k + 1) < i PROVE i \in S
    <3>1. \A j \in 1..n : j > i => n - k < j
      BY <2>1
    <3>2. \A j \in 1..n : j > i => j \in S
      BY <1>2, <3>1
    <3> QED BY <3>2
  <2> QED BY <2>1
<1>3. \A k \in 0..n : k \in T
  <2> HIDE DEF T
  <2> QED BY <1>1, <1>2, CountUp
<1>4. n \in T
  <2> HIDE DEF T
  <2> QED BY <1>3
<1> QED BY <1>4

\* R is a strict order of all of S.
StrictOrder(R, S) ==
  /\ \A i \in S : <<i, i>> \notin R
  /\ \A i, j \in S : i # j => <<i, j>> \in R \/ <<j, i>> \in R
  /\ \A i, j, k \in S : <<i, j>> \in R /\ <<j, k>> \in R => <<i, k>> \in R

\* Ranked lists all of the set, each once, in the order of R: the rank of a member is how many
\* there are before it, and no two have the same.
LEMMA RankedAll ==
  ASSUME NEW S, IsFiniteSet(S), NEW R, StrictOrder(R, S)
  PROVE  /\ Ranked(S, R) \in [1..Cardinality(S) -> S]
         /\ \A i \in S : \E k \in 1..Cardinality(S) : Ranked(S, R)[k] = i
         /\ \A k, l \in 1..Cardinality(S) : k < l => <<Ranked(S, R)[k], Ranked(S, R)[l]>> \in R
<1> DEFINE n == Cardinality(S)
           Below(i) == {j \in S : <<j, i>> \in R}
           r == [i \in S |-> Cardinality(Below(i)) + 1]
<1>1. n \in Nat
  BY FS_CardinalityType
<1>2. ASSUME NEW i \in S
      PROVE  IsFiniteSet(Below(i)) /\ Cardinality(Below(i)) \in Nat /\ Cardinality(Below(i)) < n
  <2>1. Below(i) \in SUBSET S /\ i \notin Below(i)
    BY DEF StrictOrder
  <2> HIDE DEF Below
  <2>2. Below(i) # S
    BY <2>1
  <2> QED BY <2>1, <2>2, FS_Subset, FS_CardinalityType, <1>1
<1>3. ASSUME NEW i \in S, NEW j \in S, <<i, j>> \in R
      PROVE  Cardinality(Below(i)) < Cardinality(Below(j))
  <2>1. Below(i) \in SUBSET Below(j) /\ i \in Below(j) /\ i \notin Below(i)
    BY <1>3 DEF StrictOrder
  <2> HIDE DEF Below
  <2>2. Below(i) # Below(j)
    BY <2>1
  <2>3. IsFiniteSet(Below(j)) /\ Cardinality(Below(j)) \in Nat /\ Cardinality(Below(i)) \in Nat
    BY <1>2
  <2>4. Cardinality(Below(i)) <= Cardinality(Below(j)) /\ Cardinality(Below(i)) # Cardinality(Below(j))
    BY <2>1, <2>2, <2>3, FS_Subset
  <2> QED BY <2>3, <2>4
<1>4. r \in [S -> 1..n]
  <2>1. \A i \in S : Cardinality(Below(i)) + 1 \in 1..n
    <3> HIDE DEF Below, n
    <3> QED BY <1>1, <1>2
  <2> HIDE DEF Below, n
  <2> QED BY <2>1
<1>5. \A i \in S : r[i] = Cardinality(Below(i)) + 1
  OBVIOUS
<1>6. ASSUME NEW i \in S, NEW j \in S, r[i] = r[j] PROVE i = j
  <2>1. <<i, j>> \in R \/ <<j, i>> \in R \/ i = j
    BY DEF StrictOrder
  <2>2. Cardinality(Below(i)) = Cardinality(Below(j)) /\ Cardinality(Below(i)) \in Nat
    <3> HIDE DEF r, Below
    <3> QED BY <1>2, <1>5, <1>6
  <2> HIDE DEF r, Below
  <2> QED BY <1>3, <2>1, <2>2
<1>7. r \in Injection(S, 1..n)
  <2> HIDE DEF r, n
  <2> QED BY <1>4, <1>6, Fun_IsInj
<1>8. r \in Surjection(S, 1..n)
  <2>1. IsFiniteSet(1..n) /\ Cardinality(1..n) = n
    <3> HIDE DEF n
    <3> QED BY <1>1, FS_Interval
  <2> HIDE DEF r
  <2>2. Cardinality(S) = Cardinality(1..n)
    BY <2>1
  <2> QED BY <1>7, <2>1, <2>2, FS_Injection
<1>9. \A k \in 1..n : \E i \in S : r[i] = k
  <2> HIDE DEF r, n
  <2> QED BY <1>8 DEF Surjection
<1> DEFINE At(k) == CHOOSE i \in S : Cardinality(Below(i)) = k - 1
<1>10. ASSUME NEW k \in 1..n PROVE At(k) \in S /\ r[At(k)] = k
  <2>1. PICK i \in S : r[i] = k
    BY <1>9
  <2>2. Cardinality(Below(i)) = k - 1
    <3> HIDE DEF r, Below, n
    <3> QED BY <1>1, <1>2, <1>5, <2>1
  <2>3. At(k) \in S /\ Cardinality(Below(At(k))) = k - 1
    <3> HIDE DEF Below, n, r
    <3> QED BY <2>2
  <2>4. r[At(k)] = Cardinality(Below(At(k))) + 1
    <3> HIDE DEF At, Below
    <3> QED BY <1>5, <2>3
  <2> HIDE DEF At, r, Below, n
  <2>5. k - 1 + 1 = k
    BY <1>1
  <2> QED BY <2>3, <2>4, <2>5
<1>11. Ranked(S, R) = [k \in 1..n |-> At(k)]
  BY DEF Ranked
<1> DEFINE s == [k \in 1..n |-> At(k)]
<1>12. s \in [1..n -> S] /\ \A k \in 1..n : s[k] = At(k)
  <2> HIDE DEF At, n, r
  <2> QED BY <1>10
<1>13. \A i \in S : r[i] \in 1..n /\ At(r[i]) = i
  <2>1. \A i \in S : r[i] \in 1..n
    <3> HIDE DEF r, n
    <3> QED BY <1>4
  <2> HIDE DEF r, n, At
  <2> QED BY <1>6, <1>10, <2>1
<1> HIDE DEF s, r, At, n
<1>14. \A k \in 1..n : s[k] \in S /\ r[s[k]] = k
  BY <1>10, <1>12
<1>15. \A i \in S : \E k \in 1..n : s[k] = i
  BY <1>12, <1>13
<1>16. ASSUME NEW k \in 1..n, NEW l \in 1..n, k < l PROVE <<s[k], s[l]>> \in R
  <2>1. s[k] \in S /\ s[l] \in S /\ r[s[k]] = k /\ r[s[l]] = l
    BY <1>14
  <2>2. s[k] # s[l]
    BY <1>16, <2>1
  <2>3. <<s[l], s[k]>> \in R => r[s[l]] < r[s[k]]
    <3> HIDE DEF Below
    <3> USE DEF r
    <3> QED BY <1>2, <1>3, <2>1
  <2> QED BY <1>16, <2>1, <2>2, <2>3 DEF StrictOrder
<1> QED BY <1>11, <1>12, <1>15, <1>16 DEF s, n

\* Numbers in their order.
LEMMA SortedAll ==
  ASSUME NEW S \in SUBSET Nat, IsFiniteSet(S)
  PROVE  /\ Sorted(S) \in Seq(S) /\ Len(Sorted(S)) = Cardinality(S) /\ ToSet(Sorted(S)) = S
         /\ Sorted(S) \in [1..Cardinality(S) -> S]
         /\ \A i \in S : \E k \in 1..Cardinality(S) : Sorted(S)[k] = i
         /\ \A k, l \in 1..Cardinality(S) : k < l => Sorted(S)[k] < Sorted(S)[l]
<1> DEFINE R == {e \in S \X S : e[1] < e[2]}
           s == Ranked(S, R)
           n == Cardinality(S)
<1>1. \A i, j \in S : <<i, j>> \in R <=> i < j
  OBVIOUS
<1>2. \A i, j \in S : i \in Nat /\ j \in Nat /\ (i # j => i < j \/ j < i)
  OBVIOUS
<1>3. StrictOrder(R, S)
  <2> HIDE DEF R
  <2> QED BY <1>1, <1>2 DEF StrictOrder
<1> HIDE DEF R
<1>4. /\ s \in [1..n -> S] /\ \A i \in S : \E k \in 1..n : s[k] = i
      /\ \A k, l \in 1..n : k < l => <<s[k], s[l]>> \in R
  BY <1>3, RankedAll
<1>5. n \in Nat
  BY FS_CardinalityType
<1>6. Sorted(S) = s
  BY DEF Sorted, R
<1> HIDE DEF s, n
<1>7. s \in Seq(S) /\ Len(s) = n /\ DOMAIN s = 1..n
  BY <1>4, <1>5
<1>8. ToSet(s) = S
  <2>1. \A i \in S : i \in ToSet(s)
    BY <1>4, <1>7 DEF ToSet
  <2>2. \A i \in ToSet(s) : i \in S
    BY <1>4, <1>7 DEF ToSet
  <2> QED BY <2>1, <2>2
<1>9. \A k, l \in 1..n : k < l => s[k] < s[l]
  BY <1>1, <1>4
<1> QED BY <1>4, <1>6, <1>7, <1>8, <1>9 DEF n

\* The members of a sequence with one more.
LEMMA SetOfAppend ==
  ASSUME NEW T, NEW s \in Seq(T), NEW e \in T
  PROVE  Append(s, e) \in Seq(T) /\ ToSet(Append(s, e)) = ToSet(s) \union {e}
<1>1. Len(s) \in Nat /\ DOMAIN s = 1..Len(s)
  OBVIOUS
<1>2. /\ Append(s, e) \in Seq(T) /\ DOMAIN Append(s, e) = 1..(Len(s) + 1)
      /\ \A i \in 1..Len(s) : Append(s, e)[i] = s[i]
      /\ Append(s, e)[Len(s) + 1] = e
  BY <1>1
<1>3. ToSet(s) \union {e} \subseteq ToSet(Append(s, e))
  <2>1. \A i \in 1..Len(s) : i \in 1..(Len(s) + 1)
    BY <1>1
  <2>2. Len(s) + 1 \in 1..(Len(s) + 1)
    BY <1>1
  <2> QED BY <1>1, <1>2, <2>1, <2>2 DEF ToSet
<1>4. ToSet(Append(s, e)) \subseteq ToSet(s) \union {e}
  <2>1. \A i \in 1..(Len(s) + 1) : i \in 1..Len(s) \/ i = Len(s) + 1
    BY <1>1
  <2> QED BY <1>1, <1>2, <2>1 DEF ToSet
<1> QED BY <1>2, <1>3, <1>4

\* Two sequences, one after the other.
LEMMA SetOfJoin ==
  ASSUME NEW T, NEW s \in Seq(T), NEW u \in Seq(T)
  PROVE  s \o u \in Seq(T) /\ ToSet(s \o u) = ToSet(s) \union ToSet(u)
<1> DEFINE v == s \o u
           m == Len(s)
           n == Len(u)
<1>1. m \in Nat /\ n \in Nat /\ DOMAIN s = 1..m /\ DOMAIN u = 1..n
  BY LenProperties
<1>2. /\ v \in Seq(T) /\ Len(v) = m + n
      /\ \A i \in 1..(m + n) : v[i] = IF i <= m THEN s[i] ELSE u[i - m]
  BY ConcatProperties
<1> HIDE DEF v, m, n
<1>3. DOMAIN v = 1..(m + n)
  BY <1>1, <1>2, LenProperties
<1>4. \A e \in ToSet(s) : e \in ToSet(v)
  <2>1. \A i \in 1..m : i \in 1..(m + n) /\ i <= m
    BY <1>1
  <2>2. \A i \in 1..m : v[i] = s[i]
    BY <1>2, <2>1
  <2> QED BY <1>1, <1>3, <2>1, <2>2 DEF ToSet
<1>5. \A e \in ToSet(u) : e \in ToSet(v)
  <2>1. ASSUME NEW i \in 1..n PROVE \E j \in 1..(m + n) : v[j] = u[i]
    <3> DEFINE j == m + i
    <3>1. j \in 1..(m + n) /\ ~(j <= m) /\ j - m = i
      BY <1>1
    <3> HIDE DEF j
    <3>2. v[j] = u[j - m]
      BY <1>2, <3>1
    <3>3. v[j] = u[i]
      BY <3>1, <3>2
    <3> QED BY <3>1, <3>3
  <2> QED BY <1>1, <1>3, <2>1 DEF ToSet
<1>6. \A e \in ToSet(v) : e \in ToSet(s) \union ToSet(u)
  <2>1. \A i \in 1..(m + n) : i \in 1..m \/ (~(i <= m) /\ i - m \in 1..n)
    BY <1>1
  <2>2. \A i \in 1..m : i <= m
    BY <1>1
  <2>3. \A i \in 1..(m + n) : v[i] \in ToSet(s) \union ToSet(u)
    <3> TAKE i \in 1..(m + n)
    <3>1. CASE i \in 1..m
      BY <1>1, <1>2, <2>2, <3>1 DEF ToSet
    <3>2. CASE ~(i <= m) /\ i - m \in 1..n
      BY <1>1, <1>2, <3>2 DEF ToSet
    <3> QED BY <2>1, <3>1, <3>2
  <2> QED BY <1>3, <2>3 DEF ToSet
<1>7. ToSet(v) = ToSet(s) \union ToSet(u)
  BY <1>4, <1>5, <1>6
<1> QED BY <1>2, <1>7 DEF v
=============================================================================
