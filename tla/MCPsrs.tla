------------------------------- MODULE MCPsrs -------------------------------
(* Three cores: 27 elements are the fewest that are sorted in parallel, and *)
(* divide has two pivots to recurse on.  The inputs are arithmetic          *)
(* progressions modulo small numbers, which give sorted, reversed,          *)
(* constant, periodic and shuffled lists with few or many equal keys, cut   *)
(* into two collections; of 27, 28 and, for the sequential path, 5 keys.    *)
EXTENDS Psrs

Progression(n, k, j, m) == [i \in 1..n |-> (k * i + j) % m]
Cut(s, n) == <<SubSeq(s, 1, n), <<>>, SubSeq(s, n + 1, Len(s))>>

MCInputs ==
  {Cut(Progression(n, k, j, m), 4) :
     n \in {5, 27, 28}, k \in {0, 1, 2, 5, 11, 26}, j \in {0, 3},
     m \in {2, 3, 5, 7, 13, 27}}
=============================================================================
