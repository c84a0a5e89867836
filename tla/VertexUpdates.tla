--------------------------- MODULE VertexUpdates ----------------------------
(***************************************************************************)
(* What GraphChi promises its programs: the graph is as good as in memory. *)
(* Updates happen in rounds, one vertex after the other; an update changes *)
(* the values of all edges of its vertex and may ask for other updates,    *)
(* which the next round must do, or still this round may.  A program's     *)
(* update is represented by adding one to each edge.                       *)
(***************************************************************************)
EXTENDS Integers

CONSTANT niters
VARIABLES
  value,      \* value[e], for each edge
  due,        \* the vertices that the round must update
  wanted,     \* those that it may update
  updated,    \* those that it has updated
  asked,      \* those to be updated in the next round
  round

vuVars == <<value, due, wanted, updated, asked, round>>

VuInit ==
  /\ \A e \in DOMAIN value : value[e] = 0
  /\ wanted = due /\ updated = {} /\ asked = {} /\ round = 0

Incremented(val, v) ==
  [e \in DOMAIN val |-> IF v = e[1] \/ v = e[2] THEN val[e] + 1 ELSE val[e]]

Update(v) ==
  /\ v \in wanted \ updated
  /\ value' = Incremented(value, v)
  /\ updated' = updated \cup {v}
  /\ asked \subseteq asked' /\ wanted \subseteq wanted' /\ wanted' \ wanted \subseteq asked'
  /\ UNCHANGED <<due, round>>

NextRound ==
  /\ due \subseteq updated
  /\ asked # {} /\ round < niters - 1
  /\ due' = asked /\ wanted' = asked /\ updated' = {} /\ asked' = {}
  /\ round' = round + 1
  /\ UNCHANGED value

VuSpec == VuInit /\ [][(\E v \in wanted : Update(v)) \/ NextRound]_vuVars
=============================================================================
