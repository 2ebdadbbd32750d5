---------------------------- MODULE SumTheorems ----------------------------
(***************************************************************************)
(* Sums over finite sets, as the books of SimMarket and the aggregates of  *)
(* Stats use them, and the inductions that they and the loops of Bench     *)
(* rest on.  MapThenSumSet is a function defined by recursion over the     *)
(* subsets of its argument; Total is that function for a mapping f given   *)
(* as a TLA+ function, so that the facts below need no operator parameter. *)
(* Induction goes by smallest counterexample: a set stands for the         *)
(* induction predicate.                                                    *)
(***************************************************************************)
EXTENDS Integers, FiniteSetsExt, FiniteSetTheorems, WellFoundedInduction, TLAPS

Pick(s) == CHOOSE x \in s : TRUE

\* g is the sum of f over every subset of S.
SumFn(g, S, f) ==
  g = [s \in SUBSET S |-> IF s = {} THEN 0 ELSE f[Pick(s)] + g[s \ {Pick(s)}]]

Total(S, f) == (CHOOSE g : SumFn(g, S, f))[S]

LEMMA PickIn == ASSUME NEW s, s # {} PROVE Pick(s) \in s
BY DEF Pick

-----------------------------------------------------------------------------
\* A set that holds 0 and with n its successor holds every natural number.
LEMMA Counting ==
  ASSUME NEW P, 0 \in P, \A n \in Nat : n \in P => n + 1 \in P
  PROVE  \A n \in Nat : n \in P
<1> DEFINE T == {n \in Nat : n \notin P}
<1> SUFFICES ASSUME T # {} PROVE FALSE
  OBVIOUS
<1>1. PICK m \in T : \A n \in T : ~ (<<n, m>> \in OpToRel(<, Nat))
  <2>1. IsWellFoundedOn(OpToRel(<, Nat), Nat) /\ T \subseteq Nat
    BY NatLessThanWellFounded
  <2> HIDE DEF T
  <2> QED BY <2>1, WFMin
<1>2. \A n \in T : ~ (n < m)
  BY <1>1 DEF OpToRel
<1>3. m # 0 /\ m - 1 \in Nat /\ m - 1 \in P
  BY <1>2
<1>4. (m - 1) + 1 \in P /\ (m - 1) + 1 = m
  BY <1>3
<1> QED BY <1>4

\* What holds of a subset whenever it holds of the smaller ones holds of all.
LEMMA SetInduction ==
  ASSUME NEW S, IsFiniteSet(S), NEW P,
         \A s \in SUBSET S : (\A t \in SUBSET s : t # s => t \in P) => s \in P
  PROVE  \A s \in SUBSET S : s \in P
<1> DEFINE T == {s \in SUBSET S : s \notin P}
<1> SUFFICES ASSUME T # {} PROVE FALSE
  OBVIOUS
<1>1. IsWellFoundedOn(StrictSubsetOrdering(S), FiniteSubsetsOf(S))
  BY FS_StrictSubsetOrderingWellFounded
<1>2. T \subseteq FiniteSubsetsOf(S)
  BY FS_Subset DEF FiniteSubsetsOf
<1> HIDE DEF T
<1>3. PICK s \in T : \A t \in T : ~ (<<t, s>> \in StrictSubsetOrdering(S))
  BY <1>1, <1>2, WFMin
<1> USE DEF T
<1>4. ASSUME NEW t \in SUBSET s, t # s PROVE t \in P
  BY <1>3, <1>4 DEF StrictSubsetOrdering
<1> QED BY <1>3, <1>4

\* The recursion equation of a sum function.
LEMMA SumAt ==
  ASSUME NEW S, NEW f, NEW g, SumFn(g, S, f), NEW s \in SUBSET S
  PROVE  g[s] = IF s = {} THEN 0 ELSE f[Pick(s)] + g[s \ {Pick(s)}]
<1>1. g = [t \in SUBSET S |-> IF t = {} THEN 0 ELSE f[Pick(t)] + g[t \ {Pick(t)}]]
  BY DEF SumFn
<1> QED BY <1>1

\* Two sum functions agree where both are defined.
LEMMA SumAgree ==
  ASSUME NEW S, NEW T \in SUBSET S, IsFiniteSet(T), NEW f, NEW g, NEW h, SumFn(g, S, f), SumFn(h, T, f)
  PROVE  g[T] = h[T]
<1> DEFINE P == {s \in SUBSET T : g[s] = h[s]}
<1>1. ASSUME NEW s \in SUBSET T, \A t \in SUBSET s : t # s => t \in P PROVE s \in P
  <2>1. s # {} => s \ {Pick(s)} \in P
    BY <1>1, PickIn
  <2>2. g[s] = h[s]
    BY <2>1, SumAt
  <2> QED BY <2>2
<1> HIDE DEF P
<1>2. \A s \in SUBSET T : s \in P
  BY <1>1, SetInduction
<1> QED BY <1>2 DEF P

\* There is a sum function over every finite set.
LEMMA SumExists ==
  ASSUME NEW S, IsFiniteSet(S), NEW f
  PROVE  \E g : SumFn(g, S, f)
<1> DEFINE P == {s \in SUBSET S : \E g : SumFn(g, s, f)}
<1>1. ASSUME NEW s \in SUBSET S, \A t \in SUBSET s : t # s => t \in P PROVE s \in P
  <2> DEFINE g == [t \in SUBSET s |-> IF t = {} THEN 0 ELSE f[Pick(t)] + Total(t \ {Pick(t)}, f)]
  <2>1. ASSUME NEW t \in SUBSET s, t # {} PROVE g[t \ {Pick(t)}] = Total(t \ {Pick(t)}, f)
    <3> DEFINE u == t \ {Pick(t)}
    <3> DEFINE h == CHOOSE k : SumFn(k, u, f)
    <3>1. u \in SUBSET s /\ u # s
      BY <2>1, PickIn
    <3>2. SumFn(h, u, f)
      BY <1>1, <3>1
    <3>3. u \in SUBSET u /\ h[u] = Total(u, f)
      BY DEF Total
    <3> HIDE DEF h, u
    <3>4. h[u] = IF u = {} THEN 0 ELSE f[Pick(u)] + h[u \ {Pick(u)}]
      BY <3>2, <3>3, SumAt
    <3>5. ASSUME u # {} PROVE h[u \ {Pick(u)}] = Total(u \ {Pick(u)}, f)
      <4> DEFINE v == u \ {Pick(u)}
      <4> DEFINE k == CHOOSE k : SumFn(k, v, f)
      <4>1. v \in SUBSET s /\ v # s /\ v \in SUBSET u
        BY <3>1, <3>5, PickIn
      <4>2. SumFn(k, v, f)
        BY <1>1, <4>1
      <4>3. k[v] = Total(v, f)
        BY DEF Total
      <4>4. IsFiniteSet(v)
        BY <4>1, FS_Subset
      <4> HIDE DEF k, v
      <4>5. h[v] = k[v]
        BY <3>2, <4>1, <4>2, <4>4, SumAgree
      <4> QED BY <4>3, <4>5 DEF v
    <3>6. g[u] = IF u = {} THEN 0 ELSE f[Pick(u)] + Total(u \ {Pick(u)}, f)
      BY <3>1
    <3> QED BY <3>3, <3>4, <3>5, <3>6 DEF u
  <2>2. SumFn(g, s, f)
    BY <2>1 DEF SumFn
  <2> QED BY <2>2
<1> HIDE DEF P
<1>2. \A s \in SUBSET S : s \in P
  BY <1>1, SetInduction
<1> QED BY <1>2 DEF P

\* Every sum function over S gives the total of S and of its subsets.
LEMMA SumIsTotal ==
  ASSUME NEW S, IsFiniteSet(S), NEW f, NEW g, SumFn(g, S, f), NEW T \in SUBSET S
  PROVE  g[T] = Total(T, f)
<1> DEFINE h == CHOOSE h : SumFn(h, T, f)
<1>1. IsFiniteSet(T)
  BY FS_Subset
<1>2. SumFn(h, T, f)
  BY <1>1, SumExists
<1>3. h[T] = Total(T, f)
  BY DEF Total
<1> HIDE DEF h
<1> QED BY <1>1, <1>2, <1>3, SumAgree

-----------------------------------------------------------------------------
(* What Total computes                                                     *)

LEMMA TotalEmpty == \A f : Total({}, f) = 0
<1> TAKE f
<1>1. IsFiniteSet({})
  BY FS_EmptySet
<1>2. PICK g : SumFn(g, {}, f)
  BY <1>1, SumExists
<1>3. g[{}] = Total({}, f)
  BY <1>1, <1>2, SumIsTotal
<1>4. g[{}] = 0
  BY <1>2, SumAt
<1> QED BY <1>3, <1>4

LEMMA TotalRec ==
  ASSUME NEW S, IsFiniteSet(S), S # {}, NEW f
  PROVE  Total(S, f) = f[Pick(S)] + Total(S \ {Pick(S)}, f)
<1>1. PICK g : SumFn(g, S, f)
  BY SumExists
<1>2. g[S] = Total(S, f) /\ g[S \ {Pick(S)}] = Total(S \ {Pick(S)}, f)
  BY <1>1, SumIsTotal
<1>3. g[S] = f[Pick(S)] + g[S \ {Pick(S)}]
  BY <1>1, SumAt
<1> QED BY <1>2, <1>3

\* A sum of naturals is one.
LEMMA TotalType ==
  ASSUME NEW S, IsFiniteSet(S), NEW f, \A x \in S : f[x] \in Nat
  PROVE  Total(S, f) \in Nat
<1> DEFINE P == {s \in SUBSET S : Total(s, f) \in Nat}
<1>1. ASSUME NEW s \in SUBSET S, \A t \in SUBSET s : t # s => t \in P PROVE s \in P
  <2>1. CASE s = {}
    BY <2>1, TotalEmpty
  <2>2. CASE s # {}
    <3>1. Pick(s) \in s /\ IsFiniteSet(s)
      BY <2>2, PickIn, FS_Subset
    <3>2. s \ {Pick(s)} \in P /\ f[Pick(s)] \in Nat
      BY <1>1, <3>1
    <3>3. Total(s, f) = f[Pick(s)] + Total(s \ {Pick(s)}, f)
      BY <2>2, <3>1, TotalRec
    <3> QED BY <3>2, <3>3
  <2> QED BY <2>1, <2>2
<1> HIDE DEF P
<1>2. S \in P
  BY <1>1, SetInduction
<1> QED BY <1>2 DEF P

\* The order of summation does not matter: any element may be taken out.
LEMMA TotalRemove ==
  ASSUME NEW S, IsFiniteSet(S), NEW f, \A x \in S : f[x] \in Nat, NEW x \in S
  PROVE  Total(S, f) = f[x] + Total(S \ {x}, f)
<1> DEFINE P == {s \in SUBSET S : \A y \in s : Total(s, f) = f[y] + Total(s \ {y}, f)}
<1>1. ASSUME NEW s \in SUBSET S, \A t \in SUBSET s : t # s => t \in P PROVE s \in P
  <2> SUFFICES ASSUME NEW y \in s PROVE Total(s, f) = f[y] + Total(s \ {y}, f)
    OBVIOUS
  <2> DEFINE p == Pick(s)
  <2>1. p \in s /\ IsFiniteSet(s)
    BY PickIn, FS_Subset
  <2>2. Total(s, f) = f[p] + Total(s \ {p}, f)
    BY <2>1, TotalRec
  <2> HIDE DEF p
  <2>3. CASE y = p
    BY <2>2, <2>3
  <2>4. CASE y # p
    <3>1. Total(s \ {p}, f) = f[y] + Total((s \ {p}) \ {y}, f)
      BY <1>1, <2>1, <2>4
    <3>2. Total(s \ {y}, f) = f[p] + Total((s \ {y}) \ {p}, f)
      BY <1>1, <2>1, <2>4
    <3>3. (s \ {p}) \ {y} = (s \ {y}) \ {p} /\ IsFiniteSet((s \ {p}) \ {y})
      BY <2>1, FS_RemoveElement
    <3>4. Total((s \ {p}) \ {y}, f) \in Nat /\ f[p] \in Nat /\ f[y] \in Nat
      BY <2>1, <3>3, TotalType
    <3> QED BY <2>2, <3>1, <3>2, <3>3, <3>4
  <2> QED BY <2>3, <2>4
<1> HIDE DEF P
<1>2. S \in P
  BY <1>1, SetInduction
<1> QED BY <1>2 DEF P

LEMMA TotalAdd ==
  ASSUME NEW S, IsFiniteSet(S), NEW f, NEW x, x \notin S, \A y \in S \cup {x} : f[y] \in Nat
  PROVE  Total(S \cup {x}, f) = Total(S, f) + f[x]
<1>1. IsFiniteSet(S \cup {x}) /\ (S \cup {x}) \ {x} = S
  BY FS_AddElement
<1>2. Total(S \cup {x}, f) = f[x] + Total(S, f)
  BY <1>1, TotalRemove
<1> QED BY <1>2, TotalType

\* Only the values on the set count.
LEMMA TotalCong ==
  ASSUME NEW S, IsFiniteSet(S), NEW f, NEW g, \A x \in S : f[x] = g[x]
  PROVE  Total(S, f) = Total(S, g)
<1> DEFINE P == {s \in SUBSET S : Total(s, f) = Total(s, g)}
<1>1. ASSUME NEW s \in SUBSET S, \A t \in SUBSET s : t # s => t \in P PROVE s \in P
  <2>1. CASE s = {}
    BY <2>1, TotalEmpty
  <2>2. CASE s # {}
    <3>1. Pick(s) \in s /\ IsFiniteSet(s)
      BY <2>2, PickIn, FS_Subset
    <3>2. s \ {Pick(s)} \in P /\ f[Pick(s)] = g[Pick(s)]
      BY <1>1, <3>1
    <3> QED BY <2>2, <3>1, <3>2, TotalRec
  <2> QED BY <2>1, <2>2
<1> HIDE DEF P
<1>2. S \in P
  BY <1>1, SetInduction
<1> QED BY <1>2 DEF P

\* One more at one place is one more in the total.
LEMMA TotalUpdate ==
  ASSUME NEW S, IsFiniteSet(S), NEW f, \A y \in S : f[y] \in Nat, NEW x \in S, NEW c \in Nat,
         NEW g, g[x] = f[x] + c, \A y \in S \ {x} : f[y] = g[y]
  PROVE  Total(S, g) = Total(S, f) + c
<1>1. IsFiniteSet(S \ {x}) /\ \A y \in S : g[y] \in Nat
  BY FS_RemoveElement
<1>2. Total(S \ {x}, f) = Total(S \ {x}, g) /\ Total(S \ {x}, f) \in Nat
  BY <1>1, TotalCong, TotalType
<1>3. Total(S, f) = f[x] + Total(S \ {x}, f) /\ Total(S, g) = g[x] + Total(S \ {x}, g)
  BY <1>1, TotalRemove
<1> QED BY <1>2, <1>3

\* The total of two disjoint sets.
LEMMA TotalUnion ==
  ASSUME NEW A, IsFiniteSet(A), NEW B, IsFiniteSet(B), A \cap B = {}, NEW f, \A x \in A \cup B : f[x] \in Nat
  PROVE  Total(A \cup B, f) = Total(A, f) + Total(B, f)
<1> DEFINE P == {s \in SUBSET B : Total(A \cup s, f) = Total(A, f) + Total(s, f)}
<1>0. Total(A, f) \in Nat
  BY TotalType
<1>1. ASSUME NEW s \in SUBSET B, \A t \in SUBSET s : t # s => t \in P PROVE s \in P
  <2>1. CASE s = {}
    BY <1>0, <2>1, TotalEmpty
  <2>2. CASE s # {}
    <3>1. PICK x : x \in s
      BY <2>2
    <3>2. IsFiniteSet(s) /\ IsFiniteSet(A \cup s) /\ IsFiniteSet(s \ {x})
      BY FS_Subset, FS_Union
    <3>3. Total(A \cup (s \ {x}), f) = Total(A, f) + Total(s \ {x}, f)
      BY <1>1, <3>1
    <3>4. (A \cup s) \ {x} = A \cup (s \ {x})
      BY <3>1
    <3>5. Total(A \cup s, f) = f[x] + Total(A \cup (s \ {x}), f) /\ Total(s, f) = f[x] + Total(s \ {x}, f)
      BY <3>1, <3>2, <3>4, TotalRemove
    <3>6. Total(s \ {x}, f) \in Nat /\ f[x] \in Nat
      BY <3>1, <3>2, TotalType
    <3> QED BY <1>0, <3>3, <3>5, <3>6
  <2> QED BY <2>1, <2>2
<1> HIDE DEF P
<1>2. B \in P
  BY <1>1, SetInduction
<1> QED BY <1>2 DEF P

\* Summed group by group, the elements of disjoint groups add up to the same.
LEMMA TotalByGroup ==
  ASSUME NEW R, IsFiniteSet(R), NEW D, IsFiniteSet(D), NEW c, \A x \in R : c[x] \in Nat,
         NEW G, \A d \in D : G[d] \subseteq R,
         \A d, e \in D : d # e => G[d] \cap G[e] = {},
         \A x \in R : \E d \in D : x \in G[d],
         NEW h, \A d \in D : h[d] = Total(G[d], c)
  PROVE  Total(D, h) = Total(R, c)
<1> DEFINE In(s) == {x \in R : \E d \in s : x \in G[d]}
<1> DEFINE P == {s \in SUBSET D : Total(s, h) = Total(In(s), c)}
<1>1. ASSUME NEW s \in SUBSET D, \A t \in SUBSET s : t # s => t \in P PROVE s \in P
  <2>1. CASE s = {}
    <3>1. In(s) = {}
      BY <2>1
    <3> QED BY <2>1, <3>1, TotalEmpty
  <2>2. CASE s # {}
    <3> DEFINE d == Pick(s)
    <3> DEFINE H == In(s \ {d})
    <3>1. d \in s /\ IsFiniteSet(s)
      BY <2>2, PickIn, FS_Subset
    <3>2. Total(s, h) = h[d] + Total(s \ {d}, h)
      BY <2>2, <3>1, TotalRec
    <3> HIDE DEF d
    <3>3. Total(s \ {d}, h) = Total(H, c) /\ h[d] = Total(G[d], c)
      BY <1>1, <3>1
    <3>4. IsFiniteSet(G[d]) /\ IsFiniteSet(H)
      BY <3>1, FS_Subset
    <3>5. G[d] \cup H = In(s) /\ G[d] \cap H = {} /\ \A x \in G[d] \cup H : c[x] \in Nat
      BY <3>1
    <3> HIDE DEF H, In
    <3>6. Total(G[d] \cup H, c) = Total(G[d], c) + Total(H, c)
      BY <3>4, <3>5, TotalUnion
    <3> QED BY <3>2, <3>3, <3>5, <3>6
  <2> QED BY <2>1, <2>2
<1> HIDE DEF P
<1>2. D \in P
  BY <1>1, SetInduction
<1>3. In(D) = R
  OBVIOUS
<1> QED BY <1>2, <1>3 DEF P

\* MapThenSumSet of a function's values is Total.
LEMMA SumOfFunction ==
  ASSUME NEW S, IsFiniteSet(S), NEW f
  PROVE  MapThenSumSet(LAMBDA x : f[x], S) = Total(S, f)
<1> DEFINE Sums(g) == g = [s \in SUBSET S |-> IF s = {} THEN 0
                                             ELSE f[CHOOSE x \in s : TRUE] + g[s \ {CHOOSE x \in s : TRUE}]]
<1> DEFINE iter == CHOOSE g : Sums(g)
<1>1. MapThenSumSet(LAMBDA x : f[x], S) = iter[S]
  BY DEF MapThenSumSet, MapThenFoldSet
<1>2. \A g : Sums(g) <=> SumFn(g, S, f)
  BY DEF SumFn, Pick
<1>3. \E g : SumFn(g, S, f)
  BY SumExists
<1> HIDE DEF Sums
<1>4. Sums(iter)
  BY <1>2, <1>3
<1> HIDE DEF iter
<1>5. SumFn(iter, S, f)
  BY <1>2, <1>4
<1>6. iter[S] = Total(S, f)
  BY <1>5, SumIsTotal
<1> QED BY <1>1, <1>6

-----------------------------------------------------------------------------
(* Order: larger terms make larger sums, and a finite set has its extremes  *)

LEMMA TotalMono ==
  ASSUME NEW S, IsFiniteSet(S), NEW f, NEW g, \A x \in S : f[x] \in Nat /\ g[x] \in Nat /\ f[x] <= g[x]
  PROVE  Total(S, f) <= Total(S, g)
<1> DEFINE P == {s \in SUBSET S : Total(s, f) <= Total(s, g)}
<1>1. ASSUME NEW s \in SUBSET S, \A t \in SUBSET s : t # s => t \in P PROVE s \in P
  <2>1. CASE s = {}
    BY <2>1, TotalEmpty
  <2>2. CASE s # {}
    <3>1. Pick(s) \in s /\ s \ {Pick(s)} \in P /\ IsFiniteSet(s) /\ IsFiniteSet(s \ {Pick(s)})
      BY <1>1, <2>2, PickIn, FS_Subset
    <3>2. /\ Total(s, f) = f[Pick(s)] + Total(s \ {Pick(s)}, f)
          /\ Total(s, g) = g[Pick(s)] + Total(s \ {Pick(s)}, g)
      BY <2>2, <3>1, TotalRec
    <3>3. Total(s \ {Pick(s)}, f) \in Nat /\ Total(s \ {Pick(s)}, g) \in Nat
      BY <3>1, TotalType
    <3> QED BY <3>1, <3>2, <3>3
  <2> QED BY <2>1, <2>2
<1> HIDE DEF P
<1>2. \A s \in SUBSET S : s \in P
  BY <1>1, SetInduction
<1> QED BY <1>2 DEF P

LEMMA TotalAtLeast ==
  ASSUME NEW S, IsFiniteSet(S), NEW f, \A x \in S : f[x] \in Nat, NEW x \in S
  PROVE  Total(S, f) >= f[x]
<1>1. Total(S, f) = f[x] + Total(S \ {x}, f)
  BY TotalRemove
<1>2. Total(S \ {x}, f) \in Nat
  BY FS_RemoveElement, TotalType
<1> QED BY <1>1, <1>2

\* A finite set of numbers has its extremes among its members.
LEMMA Extremes ==
  ASSUME NEW S \in SUBSET Nat, IsFiniteSet(S), S # {}
  PROVE  /\ Min(S) \in S /\ \A y \in S : Min(S) <= y
         /\ Max(S) \in S /\ \A y \in S : Max(S) >= y
<1> DEFINE P == {s \in SUBSET S : s # {} => /\ \E x \in s : \A y \in s : x <= y
                                            /\ \E x \in s : \A y \in s : x >= y}
<1>1. ASSUME NEW s \in SUBSET S, \A t \in SUBSET s : t # s => t \in P PROVE s \in P
  <2>1. CASE s = {}
    BY <2>1
  <2>2. CASE s # {}
    <3>1. PICK z \in s : TRUE
      BY <2>2
    <3>2. z \in Nat /\ s \ {z} \in P
      BY <1>1, <3>1
    <3>3. CASE s \ {z} = {}
      <4>1. \A y \in s : y = z
        BY <3>3
      <4> QED BY <3>1, <3>2, <4>1
    <3>4. CASE s \ {z} # {}
      <4>1. PICK a \in s \ {z} : \A y \in s \ {z} : a <= y
        BY <3>2, <3>4
      <4>2. PICK b \in s \ {z} : \A y \in s \ {z} : b >= y
        BY <3>2, <3>4
      <4>3. a \in Nat /\ b \in Nat /\ \A y \in s : y \in Nat /\ (y = z \/ y \in s \ {z})
        OBVIOUS
      <4>4. \E x \in s : \A y \in s : x <= y
        <5>1. CASE a <= z
          BY <3>2, <4>1, <4>3, <5>1
        <5>2. CASE z <= a
          BY <3>1, <3>2, <4>1, <4>3, <5>2
        <5> QED BY <3>2, <4>3, <5>1, <5>2
      <4>5. \E x \in s : \A y \in s : x >= y
        <5>1. CASE b >= z
          BY <3>2, <4>2, <4>3, <5>1
        <5>2. CASE z >= b
          BY <3>1, <3>2, <4>2, <4>3, <5>2
        <5> QED BY <3>2, <4>3, <5>1, <5>2
      <4> QED BY <4>4, <4>5
    <3> QED BY <3>3, <3>4
  <2> QED BY <2>1, <2>2
<1> HIDE DEF P
<1>2. \A s \in SUBSET S : s \in P
  BY <1>1, SetInduction
<1>3. (\E x \in S : \A y \in S : x <= y) /\ (\E x \in S : \A y \in S : x >= y)
  BY <1>2 DEF P
<1> QED BY <1>3 DEF Min, Max

LEMMA DivMono ==
  ASSUME NEW a \in Nat, NEW b \in Nat, NEW d \in Nat, d > 0, a <= b
  PROVE  a \div d <= b \div d
<1> DEFINE p == a \div d
           q == b \div d
<1>1. p \in Int /\ q \in Int /\ d * p <= a /\ b < d * (q + 1)
  OBVIOUS
<1>2. ASSUME p >= q + 1 PROVE FALSE
  <2>1. d * p >= d * (q + 1)
    BY <1>1, <1>2
  <2> QED BY <1>1, <2>1
<1> QED BY <1>1, <1>2
=============================================================================
