---------------------------- MODULE SumTheorems ----------------------------
(***************************************************************************)
(* What SumFunctionOnSet and SumFunction of the community module Functions *)
(* compute on a finite set, by induction on the set.  The library states   *)
(* induction with an operator parameter; here it is a minimal element of a *)
(* set of counterexamples, which a first-order prover can use.             *)
(***************************************************************************)
EXTENDS Functions, FiniteSets, FiniteSetTheorems, TLAPS

\* Among subsets of a finite set there is one of which no other is a subset.
LEMMA MinimalSubset ==
  ASSUME NEW S, IsFiniteSet(S), NEW B \in SUBSET (SUBSET S), B # {}
  PROVE  \E T \in B : \A U \in B : U \subseteq T => U = T
<1>1. IsWellFoundedOn(StrictSubsetOrdering(S), SUBSET S)
  BY FS_FiniteSubsetsOfFinite, FS_StrictSubsetOrderingWellFounded
<1>2. PICK T \in B : \A U \in B : <<U, T>> \notin StrictSubsetOrdering(S)
  BY <1>1, WFMin
<1>3. ASSUME NEW U \in B, U \subseteq T, U # T PROVE FALSE
  BY <1>2, <1>3 DEF StrictSubsetOrdering
<1> QED BY <1>2, <1>3

-----------------------------------------------------------------------------
(* The defining equation *)

Pick(s) == CHOOSE x \in s : TRUE

\* h adds up f over every subset of S.
Adds(h, f, S) ==
  h = [s \in SUBSET S |-> IF s = {} THEN 0 ELSE f[Pick(s)] + h[s \ {Pick(s)}]]

LEMMA SumUnfold ==
  ASSUME NEW f, NEW S
  PROVE  SumFunctionOnSet(f, S) = (CHOOSE h : Adds(h, f, S))[S]
BY Zenon DEF SumFunctionOnSet, FoldFunctionOnSet, MapThenFoldSet, Adds, Pick

\* Two such functions agree where both are defined.
LEMMA AddsAgree ==
  ASSUME NEW S, IsFiniteSet(S), NEW f, NEW g, NEW h, NEW T \in SUBSET S,
         Adds(g, f, S), Adds(h, f, T), NEW s \in SUBSET T
  PROVE  g[s] = h[s]
<1> DEFINE B == {t \in SUBSET T : g[t] # h[t]}
<1>1. SUFFICES ASSUME B # {} PROVE FALSE
  OBVIOUS
<1>2. PICK t \in B : \A U \in B : U \subseteq t => U = t
  <2>1. IsFiniteSet(T)
    BY FS_Subset
  <2>2. B \in SUBSET (SUBSET T)
    OBVIOUS
  <2> HIDE DEF B
  <2> QED BY <1>1, <2>1, <2>2, MinimalSubset
<1>3. t # {}
  BY <1>2 DEF Adds
<1>4. Pick(t) \in t
  BY <1>3 DEF Pick
<1>5. g[t \ {Pick(t)}] = h[t \ {Pick(t)}]
  BY <1>2, <1>4
<1>6. g[t] = f[Pick(t)] + g[t \ {Pick(t)}]
  BY <1>3 DEF Adds
<1>7. h[t] = f[Pick(t)] + h[t \ {Pick(t)}]
  BY <1>3 DEF Adds
<1> QED BY <1>2, <1>5, <1>6, <1>7

\* There is one.
LEMMA AddsExists ==
  ASSUME NEW S, IsFiniteSet(S), NEW f
  PROVE  \E h : Adds(h, f, S)
<1> DEFINE B == {t \in SUBSET S : ~ \E h : Adds(h, f, t)}
<1>1. SUFFICES ASSUME B # {} PROVE FALSE
  OBVIOUS
<1>2. PICK T \in B : \A U \in B : U \subseteq T => U = T
  <2>1. B \in SUBSET (SUBSET S)
    OBVIOUS
  <2> HIDE DEF B
  <2> QED BY <1>1, <2>1, MinimalSubset
<1> DEFINE H(t) == CHOOSE h : Adds(h, f, t)
           Less(s) == s \ {Pick(s)}
           h == [s \in SUBSET T |-> IF s = {} THEN 0 ELSE f[Pick(s)] + H(Less(s))[Less(s)]]
<1>3. ASSUME NEW t \in SUBSET T, t # T PROVE IsFiniteSet(t) /\ Adds(H(t), f, t)
  <2>1. t \notin B
    BY <1>2, <1>3
  <2>2. \E g : Adds(g, f, t)
    BY <2>1
  <2> QED BY <2>2, FS_Subset
<1>4. ASSUME NEW s \in SUBSET T, s # {}
      PROVE  Less(s) \in SUBSET T /\ Less(s) # T
  <2>1. Pick(s) \in s
    BY <1>4 DEF Pick
  <2> QED BY <2>1
<1>5. ASSUME NEW s \in SUBSET T, s # {} PROVE h[Less(s)] = H(Less(s))[Less(s)]
  <2> DEFINE t == Less(s)
  <2>1. t \in SUBSET T /\ IsFiniteSet(t) /\ Adds(H(t), f, t)
    BY <1>3, <1>4, <1>5
  <2>2. CASE t = {}
    <3>1. h[t] = 0
      BY <2>1, <2>2
    <3>2. H(t)[t] = 0
      BY <2>1, <2>2 DEF Adds
    <3> QED BY <3>1, <3>2
  <2>3. CASE t # {}
    <3> DEFINE u == Less(t)
    <3>1. u \in SUBSET t /\ u \in SUBSET T /\ u # T
      BY <1>4, <2>1, <2>3
    <3>2. h[t] = f[Pick(t)] + H(u)[u]
      BY <2>1, <2>3
    <3>3. H(t)[t] = f[Pick(t)] + H(t)[u]
      <4> HIDE DEF H
      <4> QED BY <2>1, <2>3 DEF Adds
    <3>4. Adds(H(u), f, u)
      BY <1>3, <3>1
    <3>5. H(t)[u] = H(u)[u]
      <4> HIDE DEF H, t, u
      <4> QED BY <2>1, <3>1, <3>4, AddsAgree
    <3> QED BY <3>2, <3>3, <3>5
  <2> QED BY <2>2, <2>3
<1>6. Adds(h, f, T)
  <2>1. h = [s \in SUBSET T |-> IF s = {} THEN 0 ELSE f[Pick(s)] + h[Less(s)]]
    <3>1. \A s \in SUBSET T : s # {} => h[Less(s)] = H(Less(s))[Less(s)]
      BY <1>5
    <3> HIDE DEF H
    <3> QED BY <3>1
  <2> HIDE DEF h
  <2> QED BY <2>1 DEF Adds
<1> QED BY <1>2, <1>6

\* The sum over a set is what its Pick adds to the sum over the rest.
LEMMA SumPick ==
  ASSUME NEW S, IsFiniteSet(S), NEW f
  PROVE  /\ S = {} => SumFunctionOnSet(f, S) = 0
         /\ S # {} => /\ Pick(S) \in S
                      /\ SumFunctionOnSet(f, S) =
                           f[Pick(S)] + SumFunctionOnSet(f, S \ {Pick(S)})
<1> DEFINE H(t) == CHOOSE h : Adds(h, f, t)
<1>1. ASSUME NEW t, IsFiniteSet(t) PROVE Adds(H(t), f, t) /\ SumFunctionOnSet(f, t) = H(t)[t]
  BY <1>1, AddsExists, SumUnfold
<1> HIDE DEF H
<1>2. CASE S = {}
  BY <1>1, <1>2 DEF Adds
<1>3. CASE S # {}
  <2> DEFINE T == S \ {Pick(S)}
  <2>1. Pick(S) \in S
    BY <1>3 DEF Pick
  <2>2. IsFiniteSet(T) /\ T \in SUBSET S
    BY FS_Subset
  <2>3. H(S)[T] = H(T)[T]
    <3> HIDE DEF T
    <3> QED BY <1>1, <2>2, AddsAgree
  <2>4. H(S)[S] = f[Pick(S)] + H(S)[T]
    BY <1>1, <1>3 DEF Adds
  <2> QED BY <1>1, <1>3, <2>1, <2>2, <2>3, <2>4
<1> QED BY <1>2, <1>3

-----------------------------------------------------------------------------
(* Sums of integers over a finite set *)

LEMMA SumType ==
  ASSUME NEW S, IsFiniteSet(S), NEW f, \A x \in S : f[x] \in Int
  PROVE  SumFunctionOnSet(f, S) \in Int
<1> DEFINE B == {t \in SUBSET S : SumFunctionOnSet(f, t) \notin Int}
<1>1. SUFFICES ASSUME B # {} PROVE FALSE
  OBVIOUS
<1>2. PICK T \in B : \A U \in B : U \subseteq T => U = T
  <2>1. B \in SUBSET (SUBSET S)
    OBVIOUS
  <2> HIDE DEF B
  <2> QED BY <1>1, <2>1, MinimalSubset
<1>3. IsFiniteSet(T)
  BY FS_Subset
<1>4. CASE T = {}
  <2>1. SumFunctionOnSet(f, T) = 0
    BY <1>3, <1>4, SumPick
  <2> QED BY <2>1
<1>5. CASE T # {}
  <2>1. /\ Pick(T) \in T
        /\ SumFunctionOnSet(f, T) = f[Pick(T)] + SumFunctionOnSet(f, T \ {Pick(T)})
    BY <1>3, <1>5, SumPick
  <2>2. SumFunctionOnSet(f, T \ {Pick(T)}) \in Int
    BY <1>2, <2>1
  <2>3. f[Pick(T)] \in Int
    BY <2>1
  <2> QED BY <2>1, <2>2, <2>3
<1> QED BY <1>4, <1>5

\* Any element can be the one that is taken out first.
LEMMA SumRemove ==
  ASSUME NEW S, IsFiniteSet(S), NEW f, \A y \in S : f[y] \in Int, NEW x \in S
  PROVE  SumFunctionOnSet(f, S) = f[x] + SumFunctionOnSet(f, S \ {x})
<1> DEFINE Sum(t) == SumFunctionOnSet(f, t)
           Removes(t) == \A y \in t : Sum(t) = f[y] + Sum(t \ {y})
           B == {t \in SUBSET S : ~ Removes(t)}
<1>1. SUFFICES ASSUME B # {} PROVE FALSE
  OBVIOUS
<1>2. PICK T \in B : \A U \in B : U \subseteq T => U = T
  <2>1. B \in SUBSET (SUBSET S)
    OBVIOUS
  <2> HIDE DEF B
  <2> QED BY <1>1, <2>1, MinimalSubset
<1>3. PICK y \in T : Sum(T) # f[y] + Sum(T \ {y})
  BY <1>2
<1> DEFINE p == Pick(T)
<1>4. p \in T /\ Sum(T) = f[p] + Sum(T \ {p})
  <2>1. IsFiniteSet(T) /\ T # {}
    BY <1>3, FS_Subset
  <2> QED BY <2>1, SumPick
<1>5. y # p
  BY <1>3, <1>4
<1> HIDE DEF p
<1>6. Sum(T \ {p}) = f[y] + Sum((T \ {p}) \ {y})
  <2>1. Removes(T \ {p})
    BY <1>2, <1>4
  <2> HIDE DEF Sum
  <2> QED BY <1>5, <2>1
<1>7. Sum(T \ {y}) = f[p] + Sum((T \ {y}) \ {p})
  <2>1. Removes(T \ {y})
    BY <1>2
  <2> HIDE DEF Sum
  <2> QED BY <1>4, <1>5, <2>1
<1> DEFINE C == Sum((T \ {p}) \ {y})
<1>8. Sum((T \ {y}) \ {p}) = C
  <2>1. (T \ {y}) \ {p} = (T \ {p}) \ {y}
    OBVIOUS
  <2> QED BY <2>1
<1>9. C \in Int /\ f[y] \in Int /\ f[p] \in Int
  <2>1. IsFiniteSet((T \ {p}) \ {y}) /\ T \subseteq S
    BY FS_Subset
  <2> QED BY <1>4, <2>1, SumType
<1>10. f[p] + (f[y] + C) = f[y] + (f[p] + C)
  <2> HIDE DEF C
  <2> QED BY <1>9
<1> HIDE DEF Sum, C
<1> QED BY <1>3, <1>4, <1>6, <1>7, <1>8, <1>10

\* A sum grows with its terms.
LEMMA SumMono ==
  ASSUME NEW S, IsFiniteSet(S), NEW f, NEW g,
         \A x \in S : f[x] \in Int /\ g[x] \in Int /\ f[x] <= g[x]
  PROVE  SumFunctionOnSet(f, S) <= SumFunctionOnSet(g, S)
<1> DEFINE B == {t \in SUBSET S : ~ SumFunctionOnSet(f, t) <= SumFunctionOnSet(g, t)}
<1>1. SUFFICES ASSUME B # {} PROVE FALSE
  OBVIOUS
<1>2. PICK T \in B : \A U \in B : U \subseteq T => U = T
  <2>1. B \in SUBSET (SUBSET S)
    OBVIOUS
  <2> HIDE DEF B
  <2> QED BY <1>1, <2>1, MinimalSubset
<1>3. IsFiniteSet(T)
  BY FS_Subset
<1>4. CASE T = {}
  <2>1. SumFunctionOnSet(f, T) = 0 /\ SumFunctionOnSet(g, T) = 0
    BY <1>3, <1>4, SumPick
  <2> QED BY <2>1
<1>5. CASE T # {}
  <2> DEFINE p == Pick(T)
             U == T \ {p}
  <2>1. /\ p \in T
        /\ SumFunctionOnSet(f, T) = f[p] + SumFunctionOnSet(f, U)
        /\ SumFunctionOnSet(g, T) = g[p] + SumFunctionOnSet(g, U)
    BY <1>3, <1>5, SumPick
  <2>2. SumFunctionOnSet(f, U) <= SumFunctionOnSet(g, U)
    BY <1>2, <2>1
  <2>3. SumFunctionOnSet(f, U) \in Int /\ SumFunctionOnSet(g, U) \in Int
    <3>1. IsFiniteSet(U) /\ U \subseteq S
      BY FS_Subset
    <3> HIDE DEF U
    <3> QED BY <3>1, SumType
  <2>4. f[p] \in Int /\ g[p] \in Int /\ f[p] <= g[p]
    BY <2>1
  <2>5. SumFunctionOnSet(f, T) <= SumFunctionOnSet(g, T)
    <3> HIDE DEF p, U
    <3> QED BY <2>1, <2>2, <2>3, <2>4
  <2> QED BY <2>5
<1> QED BY <1>4, <1>5

-----------------------------------------------------------------------------
(* Sums of a function over its domain 1..N *)

LEMMA TotalType ==
  ASSUME NEW N \in Nat, NEW f \in [1..N -> Int]
  PROVE  SumFunction(f) \in Int
BY FS_Interval, SumType DEF SumFunction

LEMMA TotalMono ==
  ASSUME NEW N \in Nat, NEW f \in [1..N -> Int], NEW g \in [1..N -> Int],
         \A i \in 1..N : f[i] <= g[i]
  PROVE  SumFunction(f) <= SumFunction(g)
<1>1. IsFiniteSet(1..N) /\ DOMAIN f = 1..N /\ DOMAIN g = 1..N
  BY FS_Interval
<1>2. \A i \in 1..N : f[i] \in Int /\ g[i] \in Int /\ f[i] <= g[i]
  OBVIOUS
<1>3. SumFunctionOnSet(f, 1..N) <= SumFunctionOnSet(g, 1..N)
  BY <1>1, <1>2, SumMono
<1> QED BY <1>1, <1>3 DEF SumFunction

\* Two functions that differ in one place have sums that differ by as much.
LEMMA TotalUpdate ==
  ASSUME NEW N \in Nat, NEW f \in [1..N -> Int], NEW g \in [1..N -> Int],
         NEW k \in 1..N, \A i \in 1..N : i # k => f[i] = g[i]
  PROVE  SumFunction(g) = SumFunction(f) + (g[k] - f[k])
<1> DEFINE S == (1..N) \ {k}
           F == SumFunctionOnSet(f, S)
           G == SumFunctionOnSet(g, S)
<1>1. IsFiniteSet(1..N) /\ IsFiniteSet(S) /\ DOMAIN f = 1..N /\ DOMAIN g = 1..N
  BY FS_Interval, FS_Subset
<1>2. SumFunction(f) = f[k] + F /\ SumFunction(g) = g[k] + G
  <2>1. \A i \in 1..N : f[i] \in Int /\ g[i] \in Int
    OBVIOUS
  <2> QED BY <1>1, <2>1, SumRemove DEF SumFunction
<1>3. \A i \in S : f[i] \in Int /\ g[i] \in Int /\ f[i] <= g[i] /\ g[i] <= f[i]
  OBVIOUS
<1>4. F \in Int /\ G \in Int /\ F <= G /\ G <= F
  <2> HIDE DEF S
  <2> QED BY <1>1, <1>3, SumType, SumMono
<1>5. f[k] \in Int /\ g[k] \in Int
  OBVIOUS
<1> HIDE DEF F, G
<1> QED BY <1>2, <1>4, <1>5

LEMMA TotalOne ==
  ASSUME NEW f \in [1..1 -> Int]
  PROVE  SumFunction(f) = f[1]
<1>1. IsFiniteSet(1..1)
  <2>1. 1..1 = {1}
    OBVIOUS
  <2>2. IsFiniteSet({1})
    BY FS_Singleton
  <2> QED BY <2>1, <2>2, Zenon
<1>2. DOMAIN f = 1..1 /\ 1 \in 1..1 /\ (1..1) \ {1} = {} /\ \A y \in 1..1 : f[y] \in Int
  OBVIOUS
<1>3. SumFunctionOnSet(f, 1..1) = f[1] + SumFunctionOnSet(f, (1..1) \ {1})
  BY <1>1, <1>2, SumRemove
<1>4. SumFunctionOnSet(f, (1..1) \ {1}) = 0
  BY <1>2, FS_EmptySet, SumPick
<1>5. f[1] \in Int
  BY <1>2
<1>6. SumFunction(f) = SumFunctionOnSet(f, 1..1)
  BY <1>2 DEF SumFunction
<1> QED BY <1>3, <1>4, <1>5, <1>6
=============================================================================
