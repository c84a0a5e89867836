------------------------------- MODULE MCBfs --------------------------------
(* Three processes own the vertices {0, 3}, {1, 4} and {2}.  In the first   *)
(* graph two visits of vertex 3 race, an edge is doubled and vertex 4 is    *)
(* isolated; the second has two components.                                 *)
EXTENDS Bfs

MCGraphs ==
  { (0 :> <<1, 2, 1>>) @@ (1 :> <<0, 0, 3>>) @@ (2 :> <<0, 3>>) @@ (3 :> <<1, 2>>) @@ (4 :> <<>>),
    (0 :> <<1, 3>>) @@ (1 :> <<0, 3>>) @@ (2 :> <<4>>) @@ (3 :> <<0, 1>>) @@ (4 :> <<2>>) }

MCMessages ==
  [src: Proc, dst: Proc, e: 0..30, n: 0..9, vloc: 0..2, vfrom: 0..2]
=============================================================================
