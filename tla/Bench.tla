------------------------------- MODULE Bench -------------------------------
(***************************************************************************)
(* The proof of sequential work: what the agent's prover builds (bench.rs) *)
(* and what the service's verifier accepts (bench.ts).  Each worker of a   *)
(* lane runs a hash chain from s_0, commits to its checkpoints with a      *)
(* Merkle tree, and opens the first segment and those the roots draw.      *)
(*                                                                         *)
(* keccak256 is symbolic: a chain state is its start and the hashes since, *)
(* a tree node is the term it hashes.  What the roots draw is arbitrary,   *)
(* but the same for both sides.                                            *)
(***************************************************************************)
EXTENDS Naturals, FiniteSets, Sequences, SequencesExt

CONSTANTS
  Worker,        \* 0..workers-1
  SegLen,        \* L / C
  Samples,       \* K
  MaxSize,       \* bound: C, the number of checkpoints
  MaxFlips       \* bound: checkpoints that come out wrong

ASSUME BenchAssumption ==
  SegLen \in Nat \ {0} /\ Samples \in Nat /\ MaxSize \in Nat \ {0} /\ MaxFlips \in Nat

VARIABLES
  lane,     \* where the lane is
  size,     \* C
  nonce,    \* "this": the nonce the service issued; "old": that of another lane
  cps,      \* each worker's checkpoints
  drawn,    \* the sampled segments
  proof,    \* the submission
  verdict,
  flips     \* checkpoints that came out wrong

benchVars == <<lane, size, nonce, cps, drawn, proof, verdict, flips>>

\* s0: bound to the lane's nonce and to the worker.
Start(m, w) == <<m, w, 0>>
Hash(s, k) == <<s[1], s[2], s[3] + k>>

-----------------------------------------------------------------------------
(* Merkle trees, the same in bench.rs and bench.ts                         *)

\* The last node of an odd level is its own sibling.
Up(level) ==
  [i \in 1..((Len(level) + 1) \div 2) |->
     <<"node", level[2 * i - 1], IF 2 * i <= Len(level) THEN level[2 * i] ELSE level[2 * i - 1]>>]

\* The levels over the checkpoints c, and more: the loops stop at the root.
Levels(c) ==
  LET level[d \in 0..Len(c)] == IF d = 0 THEN [i \in 1..Len(c) |-> <<"leaf", c[i]>>] ELSE Up(level[d - 1])
  IN  level

Depth(c) == Min({d \in 0..Len(c) : Len(Levels(c)[d]) = 1})

\* idx at each level.
Index(index) ==
  LET idx[d \in Nat] == IF d = 0 THEN index ELSE idx[d - 1] \div 2
  IN  idx

merkle_root(c) == Levels(c)[Depth(c)][1]

merkle_path(c, index) ==
  [d \in 1..Depth(c) |->
     LET level == Levels(c)[d - 1]
         i == Index(index)[d - 1]
     IN  IF i % 2 = 1 THEN level[i] ELSE IF i + 2 <= Len(level) THEN level[i + 2] ELSE level[i + 1]]

-----------------------------------------------------------------------------
(* The prover                                                              *)

compute_chain(m, w) == [j \in 1..size |-> Hash(Start(m, w), j * SegLen)]

\* Segment 0, then the others that were drawn.
required_segments(s) ==
  LET v[k \in 0..Len(s)] == IF k = 0 THEN <<0>> ELSE IF s[k] # 0 THEN Append(v[k - 1], s[k]) ELSE v[k - 1]
  IN  v[Len(s)]

prove_lane(m, c, s) ==
  [w \in Worker |->
     [root |-> merkle_root(c[w]), final |-> c[w][size], finalPath |-> merkle_path(c[w], size - 1),
      openings |-> [i \in 1..Len(required_segments(s)) |->
        LET j == required_segments(s)[i]
        IN  [seg |-> j,
             prev |-> IF j = 0 THEN Start(m, w) ELSE c[w][j],
             prevPath |-> IF j = 0 THEN <<>> ELSE merkle_path(c[w], j - 1),
             next |-> c[w][j + 1],
             nextPath |-> merkle_path(c[w], j)]]]]

-----------------------------------------------------------------------------
(* The verifier                                                            *)

\* The node climbs on the side its index says, and ends at the root.
verifyPath(c, index, path, root) ==
  LET climb[d \in 0..Len(path)] ==
        IF d = 0 THEN <<"leaf", c>>
        ELSE IF Index(index)[d - 1] % 2 = 0 THEN <<"node", climb[d - 1], path[d]>>
        ELSE <<"node", path[d], climb[d - 1]>>
  IN  climb[Len(path)] = root /\ Index(index)[Len(path)] = 0

requiredSampled(s) == s   \* faulty: the first segment is opened only if drawn

requiredSegments(s) ==
  LET v[k \in 0..Len(s)] == IF k = 0 THEN <<0>> ELSE IF s[k] # 0 THEN Append(v[k - 1], s[k]) ELSE v[k - 1]
  IN  v[Len(s)]

verifyOpening(w, op, j, root) ==
  /\ op.seg = j
  /\ IF j = 0 THEN op.prev = Start("this", w) ELSE verifyPath(op.prev, j - 1, op.prevPath, root)
  /\ verifyPath(op.next, j, op.nextPath, root)
  /\ Hash(op.prev, SegLen) = op.next

verifyLane(s, p) ==
  LET expected == requiredSegments(s)
  IN  \A w \in Worker :
        /\ verifyPath(p[w].final, size - 1, p[w].finalPath, p[w].root)
        /\ Len(p[w].openings) = Len(expected)
        /\ \A i \in 1..Len(expected) : verifyOpening(w, p[w].openings[i], expected[i], p[w].root)

-----------------------------------------------------------------------------
Honest(m) == [w \in Worker |-> compute_chain(m, w)]

\* sampleIndices: distinct segments, as many as there are or as are asked for.
Draws ==
  LET k == IF Samples < size THEN Samples ELSE size
  IN  {s \in [1..k -> 0..(size - 1)] : \A i, j \in 1..k : i # j => s[i] # s[j]}

BenchInit ==
  /\ lane = "chain" /\ size \in 1..MaxSize /\ nonce \in {"this", "old"} /\ cps = Honest(nonce)
  /\ drawn = <<>> /\ proof = <<>> /\ verdict = "none" /\ flips = 0

\* One checkpoint comes out wrong: a fault of the machine, another worker's
\* state, or a state of another step.
Corrupt ==
  /\ lane = "chain" /\ flips < MaxFlips /\ flips' = flips + 1
  /\ \E w, v \in Worker, j, k \in 1..size, m \in {"this", "old"} :
       cps' = [cps EXCEPT ![w][j] = Hash(Start(m, v), k * SegLen)]
  /\ UNCHANGED <<lane, size, nonce, drawn, proof, verdict>>

Prove ==
  /\ lane = "chain" /\ lane' = "submit"
  /\ drawn' \in Draws /\ proof' = prove_lane(nonce, cps, drawn')
  /\ UNCHANGED <<size, nonce, cps, verdict, flips>>

\* The openings are sent, perhaps in another order, or a worker in another's place.
Shuffle ==
  /\ lane = "submit" /\ lane' = "shuffled"
  /\ \/ \E v, w \in Worker : v # w /\ proof' = [proof EXCEPT ![v] = proof[w], ![w] = proof[v]]
     \/ \E w \in Worker : proof' = [proof EXCEPT ![w].openings = Reverse(@)]
  /\ UNCHANGED <<size, nonce, cps, drawn, verdict, flips>>

Verify ==
  /\ lane \in {"submit", "shuffled"} /\ lane' = "done"
  /\ verdict' = IF verifyLane(drawn, proof) THEN "ok" ELSE "rejected"
  /\ UNCHANGED <<size, nonce, cps, drawn, proof, flips>>

BenchNext == Corrupt \/ Prove \/ Shuffle \/ Verify

BenchSpec == BenchInit /\ [][BenchNext]_benchVars

-----------------------------------------------------------------------------
Segment(w, j) == IF j = 0 THEN Start("this", w) ELSE cps[w][j]
Genuine(w, j) == cps[w][j + 1] = Hash(Segment(w, j), SegLen)

\* The two implementations agree, for any number of checkpoints: a lane computed
\* from the issued nonce is accepted, and what is accepted starts at s_0 of its
\* nonce and its worker and is right in every segment the roots drew.
VerdictRight ==
  /\ verdict = "ok" =>
       \A w \in Worker : \A j \in {0} \cup ToSet(drawn) : Genuine(w, j)
  /\ verdict = "rejected" /\ cps = Honest("this") /\ nonce = "this" => proof # prove_lane(nonce, cps, drawn)
=============================================================================
