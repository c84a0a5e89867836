------------------------------- MODULE MCSssp -------------------------------
(* Two processes own {0, 2, 4} and {1, 3}, 4 being the vertex that the      *)
(* construction adds.  Eight edges (two for each of the four vertices) are  *)
(* cut into blocks of two; loops are among them, so that degrees are full.  *)
EXTENDS Sssp

E(a, b, x) == [v0 |-> a, v1 |-> b, w |-> x]
Loops == <<E(3, 3, 1), E(0, 0, 1)>>

(* From 0 the way 0-2-3-1 is shorter than the heavy edge to 1, but found   *)
(* after 0-3-1.                                                            *)
Detour == (0 :> <<<<E(0, 1, 4), E(0, 2, 0)>>, Loops>>) @@ (1 :> <<<<E(2, 3, 0), E(3, 1, 1)>>, <<E(0, 3, 1), E(2, 2, 0)>>>>)
(* Double edges, empty buckets, and 2 is isolated. *)
Double == (0 :> <<<<E(0, 1, 6), E(3, 1, 1)>>, Loops>>) @@ (1 :> <<<<E(1, 0, 5)>>, <<E(3, 3, 2)>>, Loops>>)
(* Light edges only: 3 and 1 are improved several times in a round. *)
Race == (0 :> <<<<E(0, 1, 1), E(3, 0, 1)>>, Loops>>) @@ (1 :> <<<<E(0, 1, 0), E(0, 3, 0)>>, Loops>>)

MCTuples == {Detour, Double, Race}
MCDraws == {<<0, 0, 2, 3, 1, 1>>, <<2, 2, 2, 2, 2, 2>>}
MCMessages ==
  [src: Proc, dst: Proc, e: 0..60, n: 0..9, kind: {"halfedgehndl", "fulledgehndl", "relaxhndl"}]
=============================================================================
