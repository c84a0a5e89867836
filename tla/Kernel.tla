------------------------------- MODULE Kernel -------------------------------
(***************************************************************************)
(* What the kernels of graph500/src share: vertices are dealt out to the   *)
(* processes in turn (common.h), and besides active messages and barriers  *)
(* the processes use reductions (the aml_long_all... macros of aml.h).     *)
(***************************************************************************)
EXTENDS ActiveMessages, Sequences, FiniteSets, Functions

CONSTANT nglobalverts

size == Cardinality(Proc)

ASSUME KernelAssumption == nglobalverts \in Nat \ {0} /\ Proc = 0..size-1 /\ size > 0

Vertex == 0..nglobalverts-1

VERTEX_OWNER(v) == v % size
VERTEX_LOCAL(v) == v \div size
VERTEX_TO_GLOBAL(r, i) == i * size + r

nlocalverts(p) == VERTEX_LOCAL(nglobalverts + size - 1 - p)
Local(p) == 0..nlocalverts(p)-1

(***************************************************************************)
(* A reduction: the k-th call of every process belongs to the k-th call of *)
(* the others, and none returns before all have contributed.  No handler   *)
(* runs inside it.                                                         *)
(***************************************************************************)
VARIABLE contrib    \* contrib[p]: what p has contributed, call by call

Contribute(p, x) == contrib' = [contrib EXCEPT ![p] = Append(@, x)]
Reduced(p) == \A q \in Proc : Len(contrib[q]) >= Len(contrib[p])
Contributions(p) == [q \in Proc |-> contrib[q][Len(contrib[p])]]
AllSum(p) == FoldFunction(+, 0, Contributions(p))
=============================================================================
