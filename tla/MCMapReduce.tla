----------------------------- MODULE MCMapReduce ----------------------------
(* Three splits that share keys; sampling takes the first one. *)
EXTENDS MapReduce

MCEmits == [s \in 0..2 |-> CASE s = 0 -> {1, 2} [] s = 1 -> {2} [] OTHER -> {1, 3}]
MCHash == [k \in 1..3 |-> k]
=============================================================================
