---------------------------- MODULE BenchProofs ----------------------------
(***************************************************************************)
(* Proofs about the proof of sequential work (Bench), for every number of  *)
(* workers, checkpoints and samples: the prover of bench.rs and the        *)
(* verifier of bench.ts agree.  The loops of both are recursive functions, *)
(* so the proof first shows that these exist, then that one climbs what    *)
(* the other built, and then follows the steps of a lane.                  *)
(***************************************************************************)
EXTENDS Bench, SumTheorems, TLAPS

-----------------------------------------------------------------------------
(* The loops, as recursive functions                                       *)

Leaves(c) == [i \in 1..Len(c) |-> <<"leaf", c[i]>>]

LEMMA LevelsDef ==
  ASSUME NEW c, Len(c) \in Nat
  PROVE  /\ Levels(c)[0] = Leaves(c)
         /\ \A d \in 0..(Len(c) - 1) : Levels(c)[d + 1] = Up(Levels(c)[d])
<1> DEFINE Rec(n, f) == f = [d \in 0..n |-> IF d = 0 THEN Leaves(c) ELSE Up(f[d - 1])]
           P == {n \in Nat : \E f : Rec(n, f)}
<1>1. 0 \in P
  <2>1. Rec(0, [d \in 0..0 |-> Leaves(c)])
    OBVIOUS
  <2> QED BY <2>1
<1>2. ASSUME NEW n \in Nat, n \in P PROVE n + 1 \in P
  <2>1. PICK f : Rec(n, f)
    BY <1>2
  <2> DEFINE g == [d \in 0..(n + 1) |-> IF d <= n THEN f[d] ELSE Up(f[n])]
  <2>2. \A d \in 0..(n + 1) : g[d] = IF d = 0 THEN Leaves(c) ELSE Up(g[d - 1])
    BY <2>1
  <2>3. Rec(n + 1, g)
    BY <2>2
  <2> HIDE DEF g
  <2> QED BY <2>3
<1>3. \E f : Rec(Len(c), f)
  <2> HIDE DEF P
  <2>1. Len(c) \in P
    BY <1>1, <1>2, Counting
  <2> QED BY <2>1 DEF P
<1>4. Levels(c) = CHOOSE f : Rec(Len(c), f)
  BY DEF Levels, Leaves
<1>5. Rec(Len(c), Levels(c))
  BY <1>3, <1>4
<1> QED BY <1>5

LEMMA IndexDef ==
  ASSUME NEW index \in Nat
  PROVE  /\ Index(index)[0] = index
         /\ \A d \in Nat : Index(index)[d + 1] = Index(index)[d] \div 2
<1> DEFINE Rec(n, f) == f = [d \in 0..n |-> IF d = 0 THEN index ELSE f[d - 1] \div 2]
           P == {n \in Nat : \E f : Rec(n, f)}
<1>1. 0 \in P
  <2>1. Rec(0, [d \in 0..0 |-> index])
    OBVIOUS
  <2> QED BY <2>1
<1>2. ASSUME NEW n \in Nat, n \in P PROVE n + 1 \in P
  <2>1. PICK f : Rec(n, f)
    BY <1>2
  <2> DEFINE g == [d \in 0..(n + 1) |-> IF d <= n THEN f[d] ELSE f[n] \div 2]
  <2>2. \A d \in 0..(n + 1) : g[d] = IF d = 0 THEN index ELSE g[d - 1] \div 2
    BY <2>1
  <2>3. Rec(n + 1, g)
    BY <2>2
  <2> HIDE DEF g
  <2> QED BY <2>3
<1> DEFINE F(n) == CHOOSE f : Rec(n, f)
<1>3. \A n \in Nat : Rec(n, F(n))
  <2> HIDE DEF P
  <2>1. \A n \in Nat : n \in P
    BY <1>1, <1>2, Counting
  <2> QED BY <2>1 DEF P
<1> HIDE DEF F
<1>4. \A n \in Nat : \A d \in 0..n : F(n)[d] = IF d = 0 THEN index ELSE F(n)[d - 1] \div 2
  BY <1>3
<1> DEFINE Q == {d \in Nat : \A m, n \in Nat : d <= m /\ d <= n => F(m)[d] = F(n)[d]}
<1>5. \A d \in Nat : d \in Q
  <2>1. 0 \in Q
    BY <1>4
  <2>2. ASSUME NEW d \in Nat, d \in Q PROVE d + 1 \in Q
    <3>1. ASSUME NEW m \in Nat, NEW n \in Nat, d + 1 <= m, d + 1 <= n PROVE F(m)[d + 1] = F(n)[d + 1]
      <4>1. F(m)[d] = F(n)[d]
        BY <2>2, <3>1
      <4>2. F(m)[d + 1] = F(m)[d] \div 2 /\ F(n)[d + 1] = F(n)[d] \div 2
        BY <1>4, <3>1
      <4> QED BY <4>1, <4>2
    <3> QED BY <3>1
  <2> HIDE DEF Q
  <2> QED BY <2>1, <2>2, Counting
<1> DEFINE h == [d \in Nat |-> F(d)[d]]
           All(f) == f = [d \in Nat |-> IF d = 0 THEN index ELSE f[d - 1] \div 2]
<1>6. ASSUME NEW d \in Nat PROVE h[d] = IF d = 0 THEN index ELSE h[d - 1] \div 2
  <2>1. CASE d = 0
    BY <1>4, <2>1
  <2>2. CASE d # 0
    <3>1. d - 1 \in Nat /\ d - 1 <= d /\ d \in 0..d
      BY <2>2
    <3>2. F(d)[d - 1] = F(d - 1)[d - 1]
      BY <1>5, <3>1
    <3>3. F(d)[d] = F(d)[d - 1] \div 2
      BY <1>4, <2>2, <3>1
    <3> QED BY <2>2, <3>1, <3>2, <3>3
  <2> QED BY <2>1, <2>2
<1>7. All(h)
  BY <1>6
<1>8. \E f : All(f)
  <2> HIDE DEF h
  <2> QED BY <1>7
<1>9. Index(index) = CHOOSE f : All(f)
  BY DEF Index
<1>10. All(Index(index))
  BY <1>8, <1>9
<1> QED BY <1>10

\* The verifier's loop.
Climb(c, index, path) ==
  LET climb[d \in 0..Len(path)] ==
        IF d = 0 THEN <<"leaf", c>>
        ELSE IF Index(index)[d - 1] % 2 = 0 THEN <<"node", climb[d - 1], path[d]>>
        ELSE <<"node", path[d], climb[d - 1]>>
  IN  climb

LEMMA ClimbDef ==
  ASSUME NEW c, NEW index, NEW path, Len(path) \in Nat
  PROVE  /\ Climb(c, index, path)[0] = <<"leaf", c>>
         /\ \A d \in 1..Len(path) : Climb(c, index, path)[d] =
              IF Index(index)[d - 1] % 2 = 0 THEN <<"node", Climb(c, index, path)[d - 1], path[d]>>
              ELSE <<"node", path[d], Climb(c, index, path)[d - 1]>>
<1> DEFINE Next1(d, x) == IF Index(index)[d - 1] % 2 = 0 THEN <<"node", x, path[d]>> ELSE <<"node", path[d], x>>
           Rec(n, f) == f = [d \in 0..n |-> IF d = 0 THEN <<"leaf", c>> ELSE Next1(d, f[d - 1])]
           P == {n \in Nat : \E f : Rec(n, f)}
<1>0. Climb(c, index, path) = CHOOSE f : Rec(Len(path), f)
  BY DEF Climb
<1> HIDE DEF Next1
<1>1. 0 \in P
  <2>1. Rec(0, [d \in 0..0 |-> <<"leaf", c>>])
    OBVIOUS
  <2> QED BY <2>1
<1>2. ASSUME NEW n \in Nat, n \in P PROVE n + 1 \in P
  <2>1. PICK f : Rec(n, f)
    BY <1>2
  <2> DEFINE g == [d \in 0..(n + 1) |-> IF d <= n THEN f[d] ELSE Next1(d, f[n])]
  <2>2. \A d \in 0..(n + 1) : g[d] = IF d = 0 THEN <<"leaf", c>> ELSE Next1(d, g[d - 1])
    BY <2>1
  <2>3. Rec(n + 1, g)
    BY <2>2
  <2> HIDE DEF g
  <2> QED BY <2>3
<1>3. \E f : Rec(Len(path), f)
  <2> HIDE DEF P
  <2>1. Len(path) \in P
    BY <1>1, <1>2, Counting
  <2> QED BY <2>1 DEF P
<1>4. Rec(Len(path), Climb(c, index, path))
  BY <1>0, <1>3
<1>5. /\ Climb(c, index, path)[0] = <<"leaf", c>>
      /\ \A d \in 1..Len(path) : Climb(c, index, path)[d] = Next1(d, Climb(c, index, path)[d - 1])
  <2>1. PICK f : f = Climb(c, index, path)
    OBVIOUS
  <2>2. Rec(Len(path), f)
    BY <1>4, <2>1
  <2>3. \A d \in 0..Len(path) : f[d] = IF d = 0 THEN <<"leaf", c>> ELSE Next1(d, f[d - 1])
    BY <2>2, Zenon
  <2>4. f[0] = <<"leaf", c>>
    BY <2>3
  <2>5. ASSUME NEW d \in 1..Len(path) PROVE f[d] = Next1(d, f[d - 1])
    BY <2>3
  <2> QED BY <2>1, <2>4, <2>5
<1> QED BY <1>5 DEF Next1

\* The required segments, up to the k-th sampled one.
Required(s) ==
  LET v[k \in 0..Len(s)] == IF k = 0 THEN <<0>> ELSE IF s[k] # 0 THEN Append(v[k - 1], s[k]) ELSE v[k - 1]
  IN  v

LEMMA RequiredDef ==
  ASSUME NEW s, Len(s) \in Nat
  PROVE  /\ Required(s)[0] = <<0>>
         /\ \A k \in 1..Len(s) :
              Required(s)[k] = IF s[k] # 0 THEN Append(Required(s)[k - 1], s[k]) ELSE Required(s)[k - 1]
         /\ required_segments(s) = Required(s)[Len(s)] /\ requiredSegments(s) = Required(s)[Len(s)]
<1> DEFINE Next1(k, x) == IF s[k] # 0 THEN Append(x, s[k]) ELSE x
           Rec(n, f) == f = [k \in 0..n |-> IF k = 0 THEN <<0>> ELSE Next1(k, f[k - 1])]
           P == {n \in Nat : \E f : Rec(n, f)}
<1>0. Required(s) = CHOOSE f : Rec(Len(s), f)
  BY DEF Required
<1> HIDE DEF Next1
<1>1. 0 \in P
  <2>1. Rec(0, [k \in 0..0 |-> <<0>>])
    OBVIOUS
  <2> QED BY <2>1
<1>2. ASSUME NEW n \in Nat, n \in P PROVE n + 1 \in P
  <2>1. PICK f : Rec(n, f)
    BY <1>2
  <2> DEFINE g == [k \in 0..(n + 1) |-> IF k <= n THEN f[k] ELSE Next1(k, f[n])]
  <2>2. \A k \in 0..(n + 1) : g[k] = IF k = 0 THEN <<0>> ELSE Next1(k, g[k - 1])
    BY <2>1
  <2>3. Rec(n + 1, g)
    BY <2>2
  <2> HIDE DEF g
  <2> QED BY <2>3
<1>3. \E f : Rec(Len(s), f)
  <2> HIDE DEF P
  <2>1. Len(s) \in P
    BY <1>1, <1>2, Counting
  <2> QED BY <2>1 DEF P
<1>4. Rec(Len(s), Required(s))
  BY <1>0, <1>3
<1>5. /\ Required(s)[0] = <<0>>
      /\ \A k \in 1..Len(s) : Required(s)[k] = Next1(k, Required(s)[k - 1])
  BY <1>4
<1>6. required_segments(s) = Required(s)[Len(s)] /\ requiredSegments(s) = Required(s)[Len(s)]
  BY DEF required_segments, requiredSegments, Required
<1> QED BY <1>5, <1>6 DEF Next1

-----------------------------------------------------------------------------
(* Trees: what the prover's path proves is what the verifier climbs        *)

LEMMA Half ==
  ASSUME NEW x \in Nat
  PROVE  /\ x \div 2 \in Nat
         /\ (x % 2 = 0 /\ x = 2 * (x \div 2)) \/ (x % 2 = 1 /\ x = 2 * (x \div 2) + 1)
OBVIOUS

LEMMA HalfUp ==
  ASSUME NEW w \in Nat \ {0}
  PROVE  /\ (w + 1) \div 2 \in Nat \ {0} /\ (w + 1) \div 2 <= w
         /\ w > 1 => (w + 1) \div 2 <= w - 1
         /\ w = 2 * ((w + 1) \div 2) \/ w + 1 = 2 * ((w + 1) \div 2)
<1>1. w + 1 \in Nat
  OBVIOUS
<1>2. PICK q \in Nat : q = (w + 1) \div 2 /\ (w + 1 = 2 * q \/ w + 1 = 2 * q + 1)
  BY <1>1, Half
<1> QED BY <1>2

\* A level has at least one node, and fewer than the one below until it is the root.
LEMMA LevelWidth ==
  ASSUME NEW c, Len(c) \in Nat \ {0}, NEW d \in 0..(Len(c) - 1)
  PROVE  /\ Len(Levels(c)[d]) \in Nat \ {0}
         /\ Len(Levels(c)[d]) <= Len(c) - d
<1> DEFINE w(k) == Len(Levels(c)[k])
           P == {k \in Nat : k <= Len(c) - 1 => w(k) \in Nat \ {0} /\ w(k) <= Len(c) - k}
<1>1. 0 \in P
  <2>1. Levels(c)[0] = Leaves(c)
    BY LevelsDef
  <2>2. Len(Leaves(c)) = Len(c)
    BY DEF Leaves
  <2> QED BY <2>1, <2>2
<1>2. ASSUME NEW k \in Nat, k \in P PROVE k + 1 \in P
  <2> SUFFICES ASSUME k + 1 <= Len(c) - 1 PROVE w(k + 1) \in Nat \ {0} /\ w(k + 1) <= Len(c) - (k + 1)
    OBVIOUS
  <2>1. w(k) \in Nat \ {0} /\ w(k) <= Len(c) - k
    BY <1>2
  <2>2. Levels(c)[k + 1] = Up(Levels(c)[k])
    BY LevelsDef
  <2>3. (w(k) + 1) \div 2 \in Nat \ {0} /\ (w(k) + 1) \div 2 <= w(k) /\ (w(k) > 1 => (w(k) + 1) \div 2 <= w(k) - 1)
    BY <2>1, HalfUp
  <2>4. Len(Up(Levels(c)[k])) = (w(k) + 1) \div 2
    BY <2>3 DEF Up
  <2>5. w(k + 1) = (w(k) + 1) \div 2
    BY <2>2, <2>4
  <2> HIDE DEF w
  <2>6. PICK a \in Nat \ {0}, b \in Nat \ {0} : a = w(k) /\ b = w(k + 1) /\ b <= a /\ (a > 1 => b <= a - 1)
    BY <2>1, <2>3, <2>5
  <2> QED BY <2>1, <2>6
<1> HIDE DEF P
<1>3. d \in P
  BY <1>1, <1>2, Counting
<1> QED BY <1>3 DEF P

\* The root is alone on its level.
LEMMA DepthFound ==
  ASSUME NEW c, Len(c) \in Nat \ {0}
  PROVE  Depth(c) \in 0..(Len(c) - 1) /\ Len(Levels(c)[Depth(c)]) = 1
<1> DEFINE D == {d \in 0..Len(c) : Len(Levels(c)[d]) = 1}
<1>1. Len(c) - 1 \in D
  <2>1. PICK d \in 0..(Len(c) - 1) : d = Len(c) - 1
    OBVIOUS
  <2>2. Len(Levels(c)[d]) \in Nat \ {0} /\ Len(Levels(c)[d]) <= Len(c) - d
    BY LevelWidth
  <2>3. Len(c) - d = 1
    BY <2>1
  <2>4. PICK m \in Nat \ {0} : m = Len(Levels(c)[d]) /\ m <= Len(c) - d
    BY <2>2
  <2>5. m = 1
    <3>1. m <= 1
      BY <2>3, <2>4
    <3>2. m \in Nat /\ m # 0
      BY <2>4
    <3> QED BY <3>1, <3>2
  <2>6. d \in 0..Len(c) /\ Len(Levels(c)[d]) = 1
    BY <2>4, <2>5
  <2>7. d \in D
    BY <2>6
  <2> QED BY <2>1, <2>7
<1>2. D \subseteq 0..Len(c) /\ D \in SUBSET Nat
  OBVIOUS
<1>2a. IsFiniteSet(D)
  <2>1. IsFiniteSet(0..Len(c))
    BY FS_Interval
  <2> QED BY <1>2, <2>1, FS_Subset
<1>3. Depth(c) = Min(D)
  BY DEF Depth
<1> HIDE DEF D
<1>4. Min(D) \in D /\ Min(D) <= Len(c) - 1
  BY <1>1, <1>2, <1>2a, Extremes
<1> QED BY <1>3, <1>4 DEF D

\* The prover and the verifier agree on trees of every width: the path of a leaf
\* leads to the root (merkle_root, merkle_path; verifyPath).
LEMMA PathLeadsToRoot ==
  ASSUME NEW n \in Nat \ {0}, NEW S, NEW c \in [1..n -> S], NEW i \in 0..(n - 1)
  PROVE  verifyPath(c[i + 1], i, merkle_path(c, i), merkle_root(c))
<1> DEFINE path == merkle_path(c, i)
           climb == Climb(c[i + 1], i, path)
           idx == Index(i)
           level == Levels(c)
           top == Depth(c)
<1>1. Len(c) = n /\ Len(c) \in Nat \ {0}
  OBVIOUS
<1>2. top \in 0..(n - 1) /\ Len(level[top]) = 1 /\ top \in Nat
  BY <1>1, DepthFound
<1>3. Len(path) = top
  BY <1>2 DEF merkle_path
<1>4. idx[0] = i /\ \A d \in Nat : idx[d + 1] = idx[d] \div 2
  BY IndexDef
<1>5. level[0] = Leaves(c) /\ \A d \in 0..(n - 1) : level[d + 1] = Up(level[d])
  BY <1>1, LevelsDef
<1>6. /\ climb[0] = <<"leaf", c[i + 1]>>
      /\ \A d \in 1..top : climb[d] = IF idx[d - 1] % 2 = 0 THEN <<"node", climb[d - 1], path[d]>>
                                      ELSE <<"node", path[d], climb[d - 1]>>
  BY <1>2, <1>3, ClimbDef
<1>7. \A d \in 1..top : path[d] = IF idx[d - 1] % 2 = 1 THEN level[d - 1][idx[d - 1]]
                                  ELSE IF idx[d - 1] + 2 <= Len(level[d - 1]) THEN level[d - 1][idx[d - 1] + 2]
                                  ELSE level[d - 1][idx[d - 1] + 1]
  BY DEF merkle_path
<1>8. \A d \in 0..(n - 1) : Len(level[d]) \in Nat \ {0}
  BY <1>1, LevelWidth
<1>9. verifyPath(c[i + 1], i, path, merkle_root(c)) <=>
        climb[Len(path)] = merkle_root(c) /\ idx[Len(path)] = 0
  BY DEF verifyPath, Climb
<1>10. merkle_root(c) = level[top][1]
  BY DEF merkle_root
<1> HIDE DEF path, climb, idx, level, top
<1> DEFINE P == {d \in Nat : d <= top => /\ idx[d] \in Nat /\ idx[d] < Len(level[d])
                                         /\ climb[d] = level[d][idx[d] + 1]}
<1>11. 0 \in P
  <2>1. Len(Leaves(c)) = n /\ Leaves(c)[i + 1] = <<"leaf", c[i + 1]>>
    BY <1>1 DEF Leaves
  <2>2. idx[0] = i /\ level[0] = Leaves(c) /\ i \in Nat /\ i < n
    BY <1>4, <1>5
  <2>3. climb[0] = <<"leaf", c[i + 1]>>
    BY <1>6
  <2>4. idx[0] \in Nat /\ idx[0] < Len(level[0]) /\ climb[0] = level[0][idx[0] + 1]
    BY <2>1, <2>2, <2>3
  <2> QED BY <2>4
<1>12. ASSUME NEW d \in Nat, d \in P PROVE d + 1 \in P
  <2> SUFFICES ASSUME d + 1 <= top
               PROVE  /\ idx[d + 1] \in Nat /\ idx[d + 1] < Len(level[d + 1])
                      /\ climb[d + 1] = level[d + 1][idx[d + 1] + 1]
    OBVIOUS
  <2>0. PICK l : l = level[d]
    OBVIOUS
  <2>1. PICK x \in Nat, w \in Nat \ {0} : x = idx[d] /\ l = level[d] /\ w = Len(l) /\ x < w /\ climb[d] = l[x + 1]
    BY <1>2, <1>8, <1>12, <2>0
  <2>2. idx[d + 1] = x \div 2 /\ level[d + 1] = Up(l)
    BY <1>2, <1>4, <1>5, <2>1
  <2>3. x \div 2 \in Nat /\ x \div 2 < (w + 1) \div 2 /\ (w + 1) \div 2 \in Nat
    <3>1. PICK q \in Nat : q = x \div 2 /\ (x = 2 * q \/ x = 2 * q + 1)
      BY <2>1, Half
    <3>2. PICK v \in Nat : v = (w + 1) \div 2 /\ (w = 2 * v \/ w + 1 = 2 * v)
      BY <2>1, HalfUp
    <3>3. x \in Nat /\ w \in Nat /\ x < w
      BY <2>1
    <3>3a. 2 * q <= x
      BY <3>1
    <3>3b. w <= 2 * v
      BY <3>2, <3>3
    <3>4. q < v
      BY <3>3, <3>3a, <3>3b
    <3> QED BY <3>1, <3>2, <3>4
  <2>4. Len(Up(l)) = (w + 1) \div 2
    BY <2>1, <2>3 DEF Up
  <2>5. PICK q \in Nat : q = x \div 2
    BY <2>3
  <2>5a. Up(l)[q + 1] = <<"node", l[2 * (q + 1) - 1], IF 2 * (q + 1) <= w THEN l[2 * (q + 1)] ELSE l[2 * (q + 1) - 1]>>
    <3>1. q + 1 \in 1..((w + 1) \div 2)
      BY <2>3, <2>5
    <3> QED BY <2>1, <3>1 DEF Up
  <2>6. /\ path[d + 1] = IF x % 2 = 1 THEN l[x] ELSE IF x + 2 <= w THEN l[x + 2] ELSE l[x + 1]
        /\ climb[d + 1] = IF x % 2 = 0 THEN <<"node", l[x + 1], path[d + 1]>> ELSE <<"node", path[d + 1], l[x + 1]>>
    <3>1. d + 1 \in 1..top /\ (d + 1) - 1 = d
      BY <1>2
    <3> QED BY <1>6, <1>7, <2>1, <3>1
  <2>6a. SUFFICES climb[d + 1] = Up(l)[q + 1]
    BY <2>2, <2>3, <2>4, <2>5
  <2>7. CASE x % 2 = 0
    <3>1. x = 2 * q
      BY <2>1, <2>5, <2>7, Half
    <3>2. 2 * (q + 1) = x + 2 /\ 2 * (q + 1) - 1 = x + 1
      BY <3>1
    <3>3. Up(l)[q + 1] = <<"node", l[x + 1], IF x + 2 <= w THEN l[x + 2] ELSE l[x + 1]>>
      BY <2>5a, <3>2
    <3>4. path[d + 1] = IF x + 2 <= w THEN l[x + 2] ELSE l[x + 1]
      BY <2>6, <2>7
    <3> QED BY <2>6, <2>7, <3>3, <3>4
  <2>8. CASE x % 2 = 1
    <3>1. x = 2 * q + 1
      BY <2>1, <2>5, <2>8, Half
    <3>2. 2 * (q + 1) = x + 1 /\ 2 * (q + 1) - 1 = x /\ x + 1 <= w
      BY <2>1, <3>1
    <3>3. Up(l)[q + 1] = <<"node", l[x], l[x + 1]>>
      BY <2>5a, <3>2
    <3>4. path[d + 1] = l[x] /\ x % 2 # 0
      BY <2>6, <2>8
    <3> QED BY <2>6, <3>3, <3>4
  <2> QED BY <2>1, <2>7, <2>8, Half
<1> HIDE DEF P
<1>13. top \in P
  BY <1>2, <1>11, <1>12, Counting
<1>14. idx[top] \in Nat /\ idx[top] < 1 /\ climb[top] = level[top][idx[top] + 1]
  BY <1>2, <1>13 DEF P
<1>15. idx[top] = 0 /\ climb[top] = level[top][1]
  BY <1>14
<1>16. verifyPath(c[i + 1], i, path, merkle_root(c))
  BY <1>3, <1>9, <1>10, <1>15
<1> QED BY <1>16 DEF path

-----------------------------------------------------------------------------
(* The required segments                                                   *)

Occur(v) == {v[i] : i \in 1..Len(v)}

\* Segment 0 comes first, every sampled segment occurs, and none twice.
LEMMA RequiredSound ==
  ASSUME NEW n \in Nat \ {0}, NEW k \in Nat, NEW s \in [1..k -> 0..(n - 1)],
         \A i, j \in 1..k : i # j => s[i] # s[j],
         NEW v, v = required_segments(s)
  PROVE  /\ v = requiredSegments(s)
         /\ v \in Seq(0..(n - 1)) /\ Len(v) >= 1 /\ v[1] = 0
         /\ Occur(v) = {0} \cup Occur(s)
         /\ \A i, j \in 1..Len(v) : i # j => v[i] # v[j]
<1> DEFINE R == Required(s)
           Good(x, m) == /\ x \in Seq(0..(n - 1)) /\ Len(x) >= 1 /\ x[1] = 0
                         /\ \A e : e \in Occur(x) <=> e = 0 \/ \E i \in 1..m : e = s[i]
                         /\ \A i, j \in 1..Len(x) : i # j => x[i] # x[j]
           P == {m \in Nat : m <= k => Good(R[m], m)}
<1>1. Len(s) = k
  OBVIOUS
<1>2. /\ R[0] = <<0>>
      /\ \A m \in 1..k : R[m] = IF s[m] # 0 THEN Append(R[m - 1], s[m]) ELSE R[m - 1]
      /\ required_segments(s) = R[k] /\ requiredSegments(s) = R[k]
  BY <1>1, RequiredDef
<1> HIDE DEF R, Good
<1>3. 0 \in P
  <2>1. /\ <<0>> \in Seq(0..(n - 1)) /\ Len(<<0>>) = 1 /\ <<0>>[1] = 0
        /\ \A e : e \in Occur(<<0>>) <=> e = 0
    BY DEF Occur
  <2>2. \A i, j \in 1..Len(<<0>>) : i = j
    BY <2>1
  <2>3. \A e : ~ \E i \in 1..0 : e = s[i]
    OBVIOUS
  <2>4. Good(<<0>>, 0)
    BY <2>1, <2>2, <2>3 DEF Good
  <2> QED BY <1>2, <2>4
<1>4. ASSUME NEW m \in Nat, m \in P PROVE m + 1 \in P
  <2> SUFFICES ASSUME m + 1 <= k PROVE Good(R[m + 1], m + 1)
    OBVIOUS
  <2>1. PICK x : x = R[m] /\ Good(x, m)
    BY <1>4
  <2>2. m + 1 \in 1..k /\ (m + 1) - 1 = m
    OBVIOUS
  <2>3. R[m + 1] = IF s[m + 1] # 0 THEN Append(x, s[m + 1]) ELSE x
    BY <1>2, <2>1, <2>2
  <2>4. CASE s[m + 1] = 0
    <3>1. ASSUME NEW e PROVE e \in Occur(x) <=> e = 0 \/ \E i \in 1..(m + 1) : e = s[i]
      <4>1. (\E i \in 1..(m + 1) : e = s[i]) <=> (\E i \in 1..m : e = s[i]) \/ e = s[m + 1]
        BY <2>2
      <4> QED BY <2>1, <2>4, <4>1 DEF Good
    <3>2. Good(x, m + 1)
      BY <2>1, <3>1 DEF Good
    <3> QED BY <2>3, <2>4, <3>2
  <2>5. CASE s[m + 1] # 0
    <3>1. PICK a \in 0..(n - 1) : a = s[m + 1] /\ a # 0
      BY <2>2, <2>5
    <3>2. PICK y : y = Append(x, a)
      OBVIOUS
    <3>3. /\ y \in Seq(0..(n - 1)) /\ Len(y) = Len(x) + 1 /\ y[Len(x) + 1] = a
          /\ \A i \in 1..Len(x) : y[i] = x[i]
      BY <2>1, <3>2 DEF Good
    <3>4. a \notin Occur(x)
      BY <2>1, <2>2, <3>1 DEF Good
    <3>5. Len(x) \in Nat /\ Len(x) >= 1
      BY <2>1 DEF Good
    <3>6. y[1] = 0 /\ Len(y) >= 1
      BY <2>1, <3>3, <3>5 DEF Good
    <3>7. ASSUME NEW i \in 1..Len(y), NEW j \in 1..Len(y), i # j PROVE y[i] # y[j]
      <4>1. \A z \in 1..Len(x) : x[z] # a
        BY <3>4 DEF Occur
      <4>2. i \in 1..Len(x) \/ i = Len(x) + 1
        BY <3>3, <3>5
      <4>3. j \in 1..Len(x) \/ j = Len(x) + 1
        BY <3>3, <3>5
      <4>4. \A b, z \in 1..Len(x) : b # z => x[b] # x[z]
        BY <2>1 DEF Good
      <4>5. CASE i \in 1..Len(x) /\ j \in 1..Len(x)
        BY <3>3, <3>7, <4>4, <4>5
      <4>6. CASE i \in 1..Len(x) /\ j = Len(x) + 1
        BY <3>3, <4>1, <4>6
      <4>7. CASE i = Len(x) + 1 /\ j \in 1..Len(x)
        BY <3>3, <4>1, <4>7
      <4> QED BY <3>7, <4>2, <4>3, <4>5, <4>6, <4>7
    <3>8. ASSUME NEW e PROVE e \in Occur(y) <=> e = 0 \/ \E i \in 1..(m + 1) : e = s[i]
      <4>1. e \in Occur(y) <=> e \in Occur(x) \/ e = a
        BY <3>3, <3>5 DEF Occur
      <4>2. (\E i \in 1..(m + 1) : e = s[i]) <=> (\E i \in 1..m : e = s[i]) \/ e = s[m + 1]
        BY <2>2
      <4> QED BY <2>1, <3>1, <4>1, <4>2 DEF Good
    <3>9. Good(y, m + 1)
      BY <3>3, <3>6, <3>7, <3>8 DEF Good
    <3> QED BY <2>3, <2>5, <3>1, <3>2, <3>9
  <2> QED BY <2>4, <2>5
<1>5. Good(R[k], k)
  <2> HIDE DEF P
  <2>1. k \in P
    BY <1>3, <1>4, Counting
  <2> QED BY <2>1 DEF P
<1>6. v = R[k] /\ v = requiredSegments(s)
  BY <1>2
<1>7. Good(v, k)
  BY <1>5, <1>6
<1>8. \A e : e \in Occur(s) <=> \E i \in 1..k : e = s[i]
  BY <1>1 DEF Occur
<1>9. Occur(v) = {0} \cup Occur(s)
  BY <1>7, <1>8 DEF Good
<1> QED BY <1>6, <1>7, <1>9 DEF Good

-----------------------------------------------------------------------------
(* The verdict.  A submission is what the prover made,                     *)
(* or that with two workers exchanged, or with one worker's openings       *)
(* reversed; only the first can be accepted.                               *)

ChainState == {"this", "old"} \X Worker \X Nat
Chains(n) == [Worker -> [1..n -> ChainState]]

Swapped(p, q) == \E v, w \in Worker : v # w /\ q = [p EXCEPT ![v] = p[w], ![w] = p[v]]
Reversed(p, q) == \E w \in Worker : q = [p EXCEPT ![w].openings = Reverse(@)]

BenchInv ==
  /\ lane \in {"chain", "submit", "shuffled", "done"} /\ nonce \in {"this", "old"}
  /\ size \in Nat \ {0} /\ cps \in Chains(size)
  /\ lane # "chain" => drawn \in Draws
  /\ lane = "submit" => proof = prove_lane(nonce, cps, drawn)
  /\ lane = "shuffled" => LET p == prove_lane(nonce, cps, drawn) IN Swapped(p, proof) \/ Reversed(p, proof)
  /\ lane # "done" => verdict = "none"
  /\ VerdictRight

LEMMA DrawsType ==
  ASSUME size \in Nat \ {0}, NEW s \in Draws
  PROVE  \E k \in Nat : s \in [1..k -> 0..(size - 1)] /\ \A i, j \in 1..k : i # j => s[i] # s[j]
BY BenchAssumption DEF Draws

\* What the prover sends for chains c, if v are the required segments.
Sent(m, c, p, v) ==
  /\ p = [w \in Worker |-> p[w]]
  /\ \A w \in Worker :
       /\ p[w].root = merkle_root(c[w]) /\ p[w].final = c[w][size]
       /\ p[w].finalPath = merkle_path(c[w], size - 1)
       /\ p[w].openings = [i \in 1..Len(v) |-> p[w].openings[i]]
       /\ \A i \in 1..Len(v) :
            /\ p[w].openings[i].seg = v[i]
            /\ p[w].openings[i].prev = IF v[i] = 0 THEN Start(m, w) ELSE c[w][v[i]]
            /\ p[w].openings[i].prevPath = IF v[i] = 0 THEN <<>> ELSE merkle_path(c[w], v[i] - 1)
            /\ p[w].openings[i].next = c[w][v[i] + 1]
            /\ p[w].openings[i].nextPath = merkle_path(c[w], v[i])

LEMMA ProverSends ==
  ASSUME NEW m, NEW c, NEW s
  PROVE  Sent(m, c, prove_lane(m, c, s), required_segments(s))
<1>1. PICK v, p : v = required_segments(s) /\ p = prove_lane(m, c, s)
  OBVIOUS
<1>2. p = [w \in Worker |-> p[w]]
  BY <1>1 DEF prove_lane
<1>3. ASSUME NEW w \in Worker
      PROVE  /\ p[w].root = merkle_root(c[w]) /\ p[w].final = c[w][size]
             /\ p[w].finalPath = merkle_path(c[w], size - 1)
             /\ p[w].openings = [i \in 1..Len(v) |-> p[w].openings[i]]
             /\ \A i \in 1..Len(v) :
                  /\ p[w].openings[i].seg = v[i]
                  /\ p[w].openings[i].prev = IF v[i] = 0 THEN Start(m, w) ELSE c[w][v[i]]
                  /\ p[w].openings[i].prevPath = IF v[i] = 0 THEN <<>> ELSE merkle_path(c[w], v[i] - 1)
                  /\ p[w].openings[i].next = c[w][v[i] + 1]
                  /\ p[w].openings[i].nextPath = merkle_path(c[w], v[i])
  <2> DEFINE ops == [i \in 1..Len(v) |->
                      [seg |-> v[i],
                       prev |-> IF v[i] = 0 THEN Start(m, w) ELSE c[w][v[i]],
                       prevPath |-> IF v[i] = 0 THEN <<>> ELSE merkle_path(c[w], v[i] - 1),
                       next |-> c[w][v[i] + 1],
                       nextPath |-> merkle_path(c[w], v[i])]]
  <2>1. p[w] = [root |-> merkle_root(c[w]), final |-> c[w][size], finalPath |-> merkle_path(c[w], size - 1),
                openings |-> ops]
    BY <1>1 DEF prove_lane
  <2>2. p[w].openings = ops
    BY <2>1
  <2> QED BY <2>1, <2>2
<1>4. Sent(m, c, p, v)
  BY <1>2, <1>3 DEF Sent
<1> QED BY <1>1, <1>4

\* What is accepted is right in the segments drawn.
LEMMA AcceptedIsGenuine ==
  ASSUME size \in Nat \ {0}, drawn \in Draws, verifyLane(drawn, prove_lane(nonce, cps, drawn)),
         NEW w \in Worker, NEW j \in {0} \cup ToSet(drawn)
  PROVE  Genuine(w, j)
<1>1. PICK v, p : v = required_segments(drawn) /\ p = prove_lane(nonce, cps, drawn)
  OBVIOUS
<1>2. PICK k \in Nat : drawn \in [1..k -> 0..(size - 1)] /\ \A a, b \in 1..k : a # b => drawn[a] # drawn[b]
  BY DrawsType
<1>3. v = requiredSegments(drawn) /\ Occur(v) = {0} \cup Occur(drawn) /\ v \in Seq(0..(size - 1))
  BY <1>1, <1>2, RequiredSound
<1>4. j \in Occur(v)
  <2>1. DOMAIN drawn = 1..k /\ Len(drawn) = k
    BY <1>2
  <2>2. ToSet(drawn) = Occur(drawn)
    BY <2>1 DEF Occur, ToSet
  <2> QED BY <1>3, <2>2
<1>5. PICK i \in 1..Len(v) : v[i] = j
  BY <1>4 DEF Occur
<1>6. PICK op : op = p[w].openings[i]
  OBVIOUS
<1>7. op.prev = (IF j = 0 THEN Start(nonce, w) ELSE cps[w][j]) /\ op.next = cps[w][j + 1]
  <2>1. Sent(nonce, cps, p, v)
    BY <1>1, ProverSends
  <2> QED BY <1>5, <1>6, <2>1 DEF Sent
<1>8. verifyOpening(w, op, j, p[w].root)
  BY <1>1, <1>3, <1>5, <1>6 DEF verifyLane
<1> QED BY <1>7, <1>8 DEF verifyOpening, Genuine, Segment

\* A worker's proof is refused in another's place: its chain starts at its own s_0.
LEMMA SwapRefused ==
  ASSUME size \in Nat \ {0}, drawn \in Draws, NEW p, p = prove_lane(nonce, cps, drawn), NEW q, Swapped(p, q)
  PROVE  ~ verifyLane(drawn, q)
<1> SUFFICES ASSUME verifyLane(drawn, q) PROVE FALSE
  OBVIOUS
<1>1. PICK v, w \in Worker : v # w /\ q = [p EXCEPT ![v] = p[w], ![w] = p[v]]
  BY DEF Swapped
<1>2. PICK r : r = required_segments(drawn)
  OBVIOUS
<1>3. PICK k \in Nat : drawn \in [1..k -> 0..(size - 1)] /\ \A a, b \in 1..k : a # b => drawn[a] # drawn[b]
  BY DrawsType
<1>4. r = requiredSegments(drawn) /\ r \in Seq(0..(size - 1)) /\ Len(r) >= 1 /\ r[1] = 0
  BY <1>2, <1>3, RequiredSound
<1>5. 1 \in 1..Len(r)
  BY <1>4
<1>6. q[v] = p[w]
  <2>1. p = [u \in Worker |-> p[u]]
    BY ProverSends DEF Sent
  <2> QED BY <1>1, <2>1
<1>7. p[w].openings[1].prev = Start(nonce, w)
  <2>1. Sent(nonce, cps, p, r)
    BY <1>2, ProverSends
  <2> QED BY <1>1, <1>4, <1>5, <2>1 DEF Sent
<1>8. verifyOpening(v, q[v].openings[1], 0, q[v].root)
  BY <1>4, <1>5 DEF verifyLane
<1>9. Start(nonce, w) = Start("this", v)
  BY <1>6, <1>7, <1>8 DEF verifyOpening
<1> QED BY <1>1, <1>9 DEF Start

\* Openings in another order are refused, unless the order is the same.
LEMMA ReverseHarmless ==
  ASSUME size \in Nat \ {0}, drawn \in Draws, NEW p, p = prove_lane(nonce, cps, drawn), NEW q, Reversed(p, q),
         verifyLane(drawn, q)
  PROVE  q = p
<1>1. PICK w \in Worker : q = [p EXCEPT ![w].openings = Reverse(p[w].openings)]
  BY DEF Reversed
<1>2. PICK r : r = required_segments(drawn)
  OBVIOUS
<1>3. PICK k \in Nat : drawn \in [1..k -> 0..(size - 1)] /\ \A a, b \in 1..k : a # b => drawn[a] # drawn[b]
  BY DrawsType
<1>4. /\ r = requiredSegments(drawn) /\ r \in Seq(0..(size - 1))
      /\ \A i, j \in 1..Len(r) : i # j => r[i] # r[j]
  BY <1>2, <1>3, RequiredSound
<1>5. PICK n \in Nat : n = Len(r)
  BY <1>4
<1>6. PICK f : f = p[w].openings
  OBVIOUS
<1>7. f = [i \in 1..n |-> f[i]] /\ (\A i \in 1..n : f[i].seg = r[i]) /\ p = [u \in Worker |-> p[u]]
  <2>1. Sent(nonce, cps, p, r)
    BY <1>2, ProverSends
  <2> QED BY <1>5, <1>6, <2>1 DEF Sent
<1>7a. f = [i \in 1..n |-> f[i]] /\ Len(f) = n
  <2>1. f = [i \in 1..n |-> f[i]]
    BY <1>7
  <2>2. Len([i \in 1..n |-> f[i]]) = n
    OBVIOUS
  <2> QED BY <2>1, <2>2
<1>8. Reverse(f) = [i \in 1..n |-> f[(n - i) + 1]]
  BY <1>7a DEF Reverse
<1>9. q[w].openings = Reverse(f)
  <2>1. q[w] = [p[w] EXCEPT !.openings = Reverse(f)] /\ "openings" \in DOMAIN p[w]
    BY <1>1, <1>6, <1>7 DEF prove_lane
  <2> QED BY <2>1
<1>10. ASSUME NEW i \in 1..n PROVE f[(n - i) + 1] = f[i]
  <2>1. (n - i) + 1 \in 1..n
    OBVIOUS
  <2>2. verifyOpening(w, q[w].openings[i], r[i], q[w].root)
    BY <1>4, <1>5 DEF verifyLane
  <2>3. f[(n - i) + 1].seg = r[i]
    BY <1>8, <1>9, <2>2 DEF verifyOpening
  <2>4. r[(n - i) + 1] = r[i]
    BY <1>7, <2>1, <2>3
  <2>5. (n - i) + 1 = i
    BY <1>4, <1>5, <2>1, <2>4
  <2> QED BY <2>5
<1>11. Reverse(f) = f
  <2>1. [i \in 1..n |-> f[(n - i) + 1]] = [i \in 1..n |-> f[i]]
    BY <1>10
  <2> QED BY <1>7a, <1>8, <2>1
<1>12. [p[w] EXCEPT !.openings = p[w].openings] = p[w]
  BY DEF prove_lane
<1>13. q = [p EXCEPT ![w] = [p[w] EXCEPT !.openings = p[w].openings]]
  BY <1>1, <1>6, <1>11
<1>14. q = [p EXCEPT ![w] = p[w]]
  BY <1>12, <1>13
<1> QED BY <1>7, <1>14

LEMMA HonestType ==
  ASSUME size \in Nat \ {0}, NEW m \in {"this", "old"}
  PROVE  Honest(m) \in Chains(size)
BY BenchAssumption DEF Honest, compute_chain, Chains, ChainState, Hash, Start

\* A lane computed from the issued nonce is accepted, for any number of checkpoints
\* and whichever segments are drawn.
LEMMA HonestAccepted ==
  ASSUME size \in Nat \ {0}, drawn \in Draws
  PROVE  verifyLane(drawn, prove_lane("this", Honest("this"), drawn))
<1>1. PICK v, p, c : v = required_segments(drawn) /\ p = prove_lane("this", c, drawn) /\ c = Honest("this")
  OBVIOUS
<1>2. PICK k \in Nat : drawn \in [1..k -> 0..(size - 1)] /\ \A a, b \in 1..k : a # b => drawn[a] # drawn[b]
  BY DrawsType
<1>3. v = requiredSegments(drawn) /\ v \in Seq(0..(size - 1))
  BY <1>1, <1>2, RequiredSound
<1>4. Sent("this", c, p, v)
  BY <1>1, ProverSends
<1>5. c \in Chains(size)
  BY <1>1, HonestType
<1>6. ASSUME NEW w \in Worker, NEW j \in 0..(size - 1)
      PROVE  verifyPath(c[w][j + 1], j, merkle_path(c[w], j), merkle_root(c[w]))
  <2>1. c[w] \in [1..size -> ChainState]
    BY <1>5 DEF Chains
  <2> QED BY <2>1, PathLeadsToRoot
<1>7. ASSUME NEW w \in Worker PROVE verifyPath(p[w].final, size - 1, p[w].finalPath, p[w].root)
  <2>1. size - 1 \in 0..(size - 1) /\ (size - 1) + 1 = size
    OBVIOUS
  <2>2. verifyPath(c[w][size], size - 1, merkle_path(c[w], size - 1), merkle_root(c[w]))
    BY <1>6, <2>1
  <2>3. p[w].final = c[w][size] /\ p[w].finalPath = merkle_path(c[w], size - 1) /\ p[w].root = merkle_root(c[w])
    BY <1>4 DEF Sent
  <2> QED BY <2>2, <2>3
<1>8. ASSUME NEW w \in Worker, NEW i \in 1..Len(v) PROVE verifyOpening(w, p[w].openings[i], v[i], p[w].root)
  <2>0. PICK op : op = p[w].openings[i]
    OBVIOUS
  <2>1. PICK j \in 0..(size - 1) : j = v[i]
    BY <1>3
  <2>2. /\ op.seg = j
        /\ op.prev = (IF j = 0 THEN Start("this", w) ELSE c[w][j])
        /\ op.prevPath = (IF j = 0 THEN <<>> ELSE merkle_path(c[w], j - 1))
        /\ op.next = c[w][j + 1] /\ op.nextPath = merkle_path(c[w], j)
        /\ p[w].root = merkle_root(c[w])
    BY <1>4, <2>0, <2>1 DEF Sent
  <2>3. j # 0 => verifyPath(c[w][j], j - 1, merkle_path(c[w], j - 1), merkle_root(c[w]))
    <3>1. j # 0 => j - 1 \in 0..(size - 1) /\ (j - 1) + 1 = j
      OBVIOUS
    <3> QED BY <1>6, <3>1
  <2>4. verifyPath(c[w][j + 1], j, merkle_path(c[w], j), merkle_root(c[w]))
    BY <1>6
  <2>5. Hash(op.prev, SegLen) = op.next
    <3>1. \A n \in 1..size : c[w][n] = <<"this", w, 0 + n * SegLen>>
      BY <1>1 DEF Honest, compute_chain, Hash, Start
    <3>2. j * SegLen \in Nat /\ (j + 1) * SegLen = j * SegLen + SegLen /\ SegLen \in Nat
      BY BenchAssumption
    <3>3. op.next = <<"this", w, j * SegLen + SegLen>>
      BY <2>2, <3>1, <3>2
    <3>4. op.prev = <<"this", w, j * SegLen>>
      <4>1. CASE j = 0
        BY <2>2, <3>2, <4>1 DEF Start
      <4>2. CASE j # 0
        <5>1. j \in 1..size
          BY <4>2
        <5> QED BY <2>2, <3>1, <3>2, <4>2, <5>1
      <4> QED BY <4>1, <4>2
    <3> QED BY <3>3, <3>4 DEF Hash
  <2>6. verifyOpening(w, op, j, p[w].root)
    BY <2>2, <2>3, <2>4, <2>5 DEF verifyOpening
  <2> QED BY <2>0, <2>1, <2>6
<1>9. ASSUME NEW w \in Worker PROVE Len(p[w].openings) = Len(v)
  <2>0. PICK f : f = p[w].openings
    OBVIOUS
  <2>1. PICK n \in Nat : n = Len(v)
    BY <1>3
  <2>2. f = [i \in 1..n |-> f[i]]
    BY <1>4, <2>0, <2>1 DEF Sent
  <2>3. Len([i \in 1..n |-> f[i]]) = n
    OBVIOUS
  <2> QED BY <2>0, <2>1, <2>2, <2>3
<1> QED BY <1>1, <1>3, <1>7, <1>8, <1>9 DEF verifyLane

LEMMA BenchStart == BenchInit => BenchInv
<1> SUFFICES ASSUME BenchInit PROVE BenchInv
  OBVIOUS
<1>1. size \in Nat \ {0} /\ nonce \in {"this", "old"} /\ lane = "chain" /\ verdict = "none" /\ cps = Honest(nonce)
  BY BenchAssumption DEF BenchInit
<1>2. cps \in Chains(size)
  BY <1>1, HonestType
<1> QED BY <1>1, <1>2 DEF BenchInv, VerdictRight

LEMMA CorruptStep == ASSUME BenchInv, Corrupt PROVE BenchInv'
<1>1. PICK w \in Worker, v \in Worker, j \in 1..size, k \in 1..size, m \in {"this", "old"} :
        cps' = [cps EXCEPT ![w][j] = Hash(Start(m, v), k * SegLen)]
  BY DEF Corrupt
<1>2. size \in Nat \ {0} /\ k * SegLen \in Nat
  BY BenchAssumption DEF BenchInv
<1>3. Hash(Start(m, v), k * SegLen) \in ChainState
  BY <1>2 DEF Hash, Start, ChainState
<1>4. cps' \in Chains(size)
  BY <1>1, <1>3 DEF BenchInv, Chains
<1> QED BY <1>4 DEF BenchInv, Corrupt, VerdictRight

LEMMA ProveStep == ASSUME BenchInv, Prove PROVE BenchInv'
<1>1. /\ lane' = "submit" /\ verdict' = "none" /\ UNCHANGED <<size, nonce, cps>> /\ drawn' \in Draws
      /\ proof' = prove_lane(nonce, cps, drawn')
  BY DEF Prove, BenchInv
<1>2. Draws' = Draws /\ prove_lane(nonce, cps, drawn)' = prove_lane(nonce, cps, drawn')
  BY <1>1 DEF Draws, prove_lane
<1>3. VerdictRight'
  BY <1>1 DEF VerdictRight
<1> QED BY <1>1, <1>2, <1>3 DEF BenchInv

LEMMA ShuffleStep == ASSUME BenchInv, Shuffle PROVE BenchInv'
<1>1. lane' = "shuffled" /\ verdict' = "none" /\ UNCHANGED <<size, nonce, cps, drawn>> /\ lane = "submit"
  BY DEF Shuffle, BenchInv
<1>2. Draws' = Draws /\ prove_lane(nonce, cps, drawn)' = prove_lane(nonce, cps, drawn)
  BY <1>1 DEF Draws, prove_lane
<1>3. Swapped(proof, proof') \/ Reversed(proof, proof')
  BY DEF Shuffle, Swapped, Reversed
<1>4. VerdictRight'
  BY <1>1 DEF VerdictRight
<1>5. (Swapped(prove_lane(nonce, cps, drawn), proof) \/ Reversed(prove_lane(nonce, cps, drawn), proof))'
  <2>1. prove_lane(nonce, cps, drawn)' = proof
    BY <1>1, <1>2 DEF BenchInv
  <2> QED BY <1>3, <2>1 DEF Swapped, Reversed
<1> QED BY <1>1, <1>2, <1>4, <1>5 DEF BenchInv

LEMMA VerifyStep == ASSUME BenchInv, Verify PROVE BenchInv'
<1>1. /\ lane' = "done" /\ UNCHANGED <<size, nonce, cps, drawn, proof>> /\ lane \in {"submit", "shuffled"}
      /\ verdict' = IF verifyLane(drawn, proof) THEN "ok" ELSE "rejected"
  BY DEF Verify
<1>2. PICK p : p = prove_lane(nonce, cps, drawn)
  OBVIOUS
<1>3. size \in Nat \ {0} /\ drawn \in Draws /\ (proof = p \/ Swapped(p, proof) \/ Reversed(p, proof))
  BY <1>1, <1>2 DEF BenchInv
<1>4. Draws' = Draws /\ prove_lane(nonce, cps, drawn)' = p /\ Honest("this")' = Honest("this")
  BY <1>1, <1>2 DEF Draws, prove_lane, Honest, compute_chain
<1>5. verifyLane(drawn, proof) => proof = p
  BY <1>2, <1>3, SwapRefused, ReverseHarmless
<1>6. ASSUME verdict' = "ok" PROVE \A w \in Worker : \A j \in {0} \cup ToSet(drawn) : Genuine(w, j)'
  <2>1. verifyLane(drawn, p)
    BY <1>1, <1>5, <1>6
  <2>2. \A w \in Worker : \A j \in {0} \cup ToSet(drawn) : Genuine(w, j)
    BY <1>2, <1>3, <2>1, AcceptedIsGenuine
  <2> QED BY <1>1, <2>2 DEF Genuine, Segment
<1>7. ASSUME verdict' = "rejected", cps = Honest("this"), nonce = "this" PROVE proof # p
  BY <1>1, <1>2, <1>3, <1>7, HonestAccepted
<1>8. VerdictRight'
  BY <1>1, <1>4, <1>6, <1>7 DEF VerdictRight
<1> QED BY <1>1, <1>3, <1>4, <1>8 DEF BenchInv

\* Prover and verifier agree, for any number of workers, checkpoints and samples:
\* an honest lane is never rejected (the paths of bench.rs lead to its roots in
\* bench.ts, odd levels included), and an accepted lane starts at s_0 of its nonce
\* and worker and is right in segment 0 and every segment drawn (verifyLane).
THEOREM VerdictsAreRight == BenchSpec => []VerdictRight
<1>1. BenchInit => BenchInv
  BY BenchStart
<1>2. BenchInv /\ [BenchNext]_benchVars => BenchInv'
  <2> SUFFICES ASSUME BenchInv, [BenchNext]_benchVars PROVE BenchInv'
    OBVIOUS
  <2>1. CASE UNCHANGED benchVars
    <3>1. UNCHANGED <<lane, size, nonce, cps, drawn, proof, verdict>>
      BY <2>1 DEF benchVars
    <3>2. UNCHANGED <<Draws, prove_lane(nonce, cps, drawn), Honest("this")>>
      BY <3>1 DEF Draws, prove_lane, Honest, compute_chain
    <3>3. VerdictRight'
      BY <3>1, <3>2 DEF BenchInv, VerdictRight, Genuine, Segment
    <3> QED BY <3>1, <3>2, <3>3 DEF BenchInv, Swapped, Reversed
  <2> QED BY <2>1, CorruptStep, ProveStep, ShuffleStep, VerifyStep DEF BenchNext
<1>3. BenchInv => VerdictRight
  BY DEF BenchInv
<1> QED BY <1>1, <1>2, <1>3, PTL DEF BenchSpec
=============================================================================
