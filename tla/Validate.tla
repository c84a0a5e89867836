------------------------------ MODULE Validate ------------------------------
(***************************************************************************)
(* graph500's validation kernel (src/validate.c) as main.c calls it after  *)
(* each search: the predecessors (and for shortest paths the distances)    *)
(* that a kernel left behind are checked by messages along all edges.      *)
(* Kernels are exchangeable (bfs_custom.c, sssp_custom.c), so a result may *)
(* be anything; the rows are those of the CSR graph                        *)
(* (REUSE_CSR_FOR_VALIDATION, as in the Makefile).  Distances are numbers  *)
(* without rounding, except that FLT_MAX + w is FLT_MAX.                   *)
(***************************************************************************)
EXTENDS Phases

CONSTANTS
  Programs,   \* a build, a graph and the results that main validates in turn
  FLT_MAX

ASSUME FltAssumption == FLT_MAX \in Nat

VARIABLES
  program,    \* chosen once
  round,      \* round[p]: the result p is validating
  weights,    \* the pointer of sssp_reference.c that run_sssp sets ...
  vweights,   \* ... and the validator's copy of it
  maxvertex, dist, newvisits, prevlevel,
  confirmed, val_errors, nedges_traversed, returned

checkVars == <<dist, newvisits, confirmed, val_errors, nedges_traversed>>
vars == <<phaseVars, program, round, weights, vweights, maxvertex, checkVars, prevlevel, returned>>

None == -1
Row(p, l) == program.column[VERTEX_TO_GLOBAL(p, l)]   \* of records [to, w]
Given(p) == program.results[round[p]]                 \* isbfs, root, pred, dist, nedges
pred(p, l) == Given(p).pred[VERTEX_TO_GLOBAL(p, l)]
OwnsRoot(p, l) == VERTEX_TO_GLOBAL(p, l) = Given(p).root
plus(x, w) == IF x = FLT_MAX THEN FLT_MAX ELSE x + w
Count(p, Test(_)) == Cardinality({l \in Local(p) : Test(l)})
Clear(x) == [p \in Proc |-> [l \in Local(p) |-> x]]

Init ==
  /\ PhasesInit("main")
  /\ program \in Programs
  /\ round = [p \in Proc |-> 0]
  /\ weights = [p \in Proc |-> FALSE] /\ vweights = weights
  /\ maxvertex = [p \in Proc |-> 0]
  /\ dist = Clear(None) /\ confirmed = Clear(FALSE)
  /\ newvisits = [p \in Proc |-> 0] /\ prevlevel = newvisits
  /\ val_errors = newvisits /\ nedges_traversed = newvisits
  /\ returned = [p \in Proc |-> <<>>]

(* main goes on with the next result, but after a failed validation, other *)
(* than that of the warm-up (nedges is NULL), only from BFS to SSSP.       *)
Upcoming(p) ==
  {k \in DOMAIN program.results : k > round[p] /\
     \/ round[p] = 0 \/ Given(p).nedges = None \/ Last(returned[p]) = 1
     \/ Given(p).isbfs /\ ~program.results[k].isbfs}

(* The kernel runs (run_sssp sets weights) and validate_result is called;  *)
(* the first call finds the largest vertex.                                *)
validate_result(p) ==
  LET given == program.results[round'[p]]
  IN /\ At(p, "main") /\ Upcoming(p) # {}
     /\ round' = [round EXCEPT ![p] = Min(Upcoming(p))]
     /\ weights' = [weights EXCEPT ![p] = @ \/ ~given.isbfs]
     /\ dist' = [dist EXCEPT ![p] = [l \in Local(p) |-> given.dist[VERTEX_TO_GLOBAL(p, l)]]]
     /\ confirmed' = [confirmed EXCEPT ![p] = [l \in Local(p) |-> FALSE]]
     /\ \/ /\ round[p] = 0
           /\ vweights' = [vweights EXCEPT ![p] = weights'[p]]
           /\ CallReduction(p, VERTEX_TO_GLOBAL(p, nlocalverts(p) - 1), "maxvertex")
        \/ round[p] > 0 /\ Goto(p, "range") /\ UNCHANGED <<vweights, contrib>>
     /\ UNCHANGED <<amVars, hndl, todo, program, maxvertex, newvisits, val_errors, nedges_traversed, prevlevel, returned>>

allmax(p) ==
  /\ InReduction(p, "maxvertex")
  /\ maxvertex' = [maxvertex EXCEPT ![p] = AllMax(p)]
  /\ Locally(p, "range")
  /\ UNCHANGED <<program, round, weights, vweights, checkVars, prevlevel, returned>>

(* Predecessors out of range ... *)
check_range(p) ==
  LET bad(l) == (pred(p, l) # None /\ pred(p, l) < 0) \/ pred(p, l) > maxvertex[p]
      errors == val_errors[p] + Count(p, bad)
  IN /\ At(p, "range")
     /\ val_errors' = [val_errors EXCEPT ![p] = errors]
     /\ CallReduction(p, errors, "inrange")
     /\ UNCHANGED <<amVars, hndl, todo, program, round, weights, vweights, maxvertex, dist, newvisits, confirmed, nedges_traversed, prevlevel, returned>>

Return(p, ok) ==
  /\ returned' = [returned EXCEPT ![p] = Append(@, ok)]
  /\ Locally(p, "main")

(* Mutant: the root keeps the depth of a vertex below it. *)
depth0_root(p, l) ==
  IF pred(p, l) = Given(p).root THEN 1 ELSE IF pred(p, l) = None THEN None ELSE FLT_MAX

depth0(p, l) ==
  CASE OwnsRoot(p, l) -> 0
    [] pred(p, l) = Given(p).root -> 1
    [] pred(p, l) = None -> None
    [] OTHER -> FLT_MAX

(* Predecessors and distances have to agree, and the root is its own.      *)
local_errors(p, d) ==
  LET negative(l) == d[l] # None /\ d[l] < 0
      inconsistent(l) == (pred(p, l) = None) # (d[l] = None)
      wrongroot(l) == OwnsRoot(p, l) /\ ~(pred(p, l) = Given(p).root /\ d[l] = 0)
  IN Count(p, negative) + Count(p, inconsistent) + Count(p, wrongroot)

check_vertices(p) ==
  /\ val_errors' = [val_errors EXCEPT ![p] = @ + local_errors(p, dist[p])]
  /\ confirmed' = [confirmed EXCEPT ![p] = [l \in Local(p) |->
       OwnsRoot(p, l) /\ pred(p, l) = Given(p).root /\ dist[p][l] = 0]]
  /\ CallRegister(p, "edges")

(* Mutant: each process looks at its own errors. *)
range_errors_local(p) == val_errors[p]

range_errors(p) == AllSum(p)

(* ... end the validation; otherwise a depth map is made for a BFS (the    *)
(* start of makedepthmapforbfs) and vertices are checked for an SSSP.      *)
range_checked(p) ==
  /\ InReduction(p, "inrange")
  /\ \/ /\ range_errors(p) > 0
        /\ val_errors' = [val_errors EXCEPT ![p] = range_errors(p)]
        /\ Return(p, 0)
        /\ UNCHANGED <<dist, confirmed>>
     \/ /\ range_errors(p) = 0 /\ Given(p).isbfs
        /\ dist' = [dist EXCEPT ![p] = [l \in Local(p) |-> depth0(p, l)]]
        /\ CallRegister(p, "depth")
        /\ UNCHANGED <<confirmed, val_errors, returned>>
     \/ /\ range_errors(p) = 0 /\ ~Given(p).isbfs
        /\ check_vertices(p)
        /\ UNCHANGED <<dist, returned>>
  /\ UNCHANGED <<program, round, weights, vweights, maxvertex, newvisits, nedges_traversed, prevlevel>>

register_depth(p) ==
  /\ aml_register_handler(p, "depth", "frompredhndl")
  /\ UNCHANGED <<program, round, weights, vweights, maxvertex, checkVars, prevlevel, returned>>

(* One send for each edge of the local vertices that pass the test, in order. *)
Along(p, Test(_)) ==
  FlattenSeq([k \in 1..nlocalverts(p) |-> IF ~Test(k-1) THEN <<>> ELSE
    [j \in DOMAIN Row(p, k-1) |-> [from |-> k-1] @@ Row(p, k-1)[j]]])

(* A level of the depth map: vertices at prevlevel tell their neighbours.  *)
(* A handler gives depths beyond prevlevel only.                           *)
begin_levels(p) ==
  /\ Registered(p, "depth", "level", Along(p, LAMBDA l : dist[p][l] = 1))
  /\ newvisits' = [newvisits EXCEPT ![p] = 0]
  /\ prevlevel' = [prevlevel EXCEPT ![p] = 1]
  /\ UNCHANGED <<program, round, weights, vweights, maxvertex, dist, confirmed, val_errors, nedges_traversed, returned>>

frompredhndl(m) ==
  LET p == m.dst
  IN IF pred(p, m.vloc) = VERTEX_TO_GLOBAL(m.src, m.vfrom) /\ dist[p][m.vloc] = FLT_MAX
     THEN /\ dist' = [dist EXCEPT ![p][m.vloc] = prevlevel[p] + 1]
          /\ newvisits' = [newvisits EXCEPT ![p] = @ + 1]
          /\ UNCHANGED <<confirmed, val_errors, nedges_traversed>>
     ELSE UNCHANGED checkVars

(* Is the edge from v0, with what its owner sent, in order? *)
visited_unvisited(m) == (m.predfrom = None) # (pred(m.dst, m.vloc) = None)

(* Mutant: any edge to the predecessor confirms a vertex. *)
is_tree_edge_unmeasured(m) == pred(m.dst, m.vloc) = VERTEX_TO_GLOBAL(m.src, m.vfrom)

is_tree_edge(m) ==
  /\ pred(m.dst, m.vloc) = VERTEX_TO_GLOBAL(m.src, m.vfrom)
  /\ dist[m.dst][m.vloc] = plus(m.distfrom, m.w)
triangle_violated(m) ==
  \/ plus(m.distfrom, m.w) < dist[m.dst][m.vloc]
  \/ plus(dist[m.dst][m.vloc], m.w) < m.distfrom

edgepreddisthndl(m) ==
  LET p == m.dst
      counts == VERTEX_TO_GLOBAL(m.src, m.vfrom) < VERTEX_TO_GLOBAL(p, m.vloc)
      skip == m.predfrom = None /\ pred(p, m.vloc) = None
      confirm == ~visited_unvisited(m) /\ is_tree_edge(m)
      error == visited_unvisited(m) \/ triangle_violated(m)
  IN IF skip THEN UNCHANGED checkVars
     ELSE /\ nedges_traversed' = [nedges_traversed EXCEPT ![p] = @ + (IF counts THEN 1 ELSE 0)]
          /\ confirmed' = [confirmed EXCEPT ![p][m.vloc] = @ \/ confirm]
          /\ val_errors' = [val_errors EXCEPT ![p] = @ + (IF error THEN 1 ELSE 0)]
          /\ UNCHANGED <<dist, newvisits>>

handler(m) ==
  \/ hndl[m.dst] = "frompredhndl" /\ frompredhndl(m)
  \/ hndl[m.dst] = "edgepreddisthndl" /\ edgepreddisthndl(m)

Sending(p, msg) ==
  /\ todo[p] # <<>>
  /\ \E m \in {msg} : aml_send(p, m) /\ (IF m.dst = p THEN handler(m) ELSE UNCHANGED checkVars)
  /\ UNCHANGED <<program, round, weights, vweights, maxvertex, prevlevel, returned>>

send_frompred(p) ==
  LET x == Head(todo[p])
  IN At(p, "level") /\ Sending(p, Message(p, VERTEX_OWNER(x.to),
       [kind |-> "frompredhndl", vfrom |-> x.from, vloc |-> VERTEX_LOCAL(x.to)]))

(* With SSSP compiled in the weight is read, also for a BFS that does not  *)
(* use it; a process that reads through vweights unset goes no further.    *)
sendedgepreddist(p) ==
  LET x == Head(todo[p])
  IN At(p, "edge") /\ (program.sssp => vweights[p]) /\ Sending(p, Message(p, VERTEX_OWNER(x.to),
       [kind |-> "edgepreddisthndl", vfrom |-> x.from, vloc |-> VERTEX_LOCAL(x.to),
        predfrom |-> pred(p, x.from), distfrom |-> dist[p][x.from],
        w |-> IF Given(p).isbfs THEN 1 ELSE x.w]))

poll(m) ==
  /\ Receive(m)
  /\ handler(m)
  /\ UNCHANGED <<program, round, weights, vweights, maxvertex, prevlevel, returned>>

barrier(p) ==
  /\ todo[p] = <<>>
  /\ \/ At(p, "level") /\ EnterBarrier(p, "levelbar")
     \/ At(p, "edge") /\ EnterBarrier(p, "edgebar")
  /\ UNCHANGED <<program, round, weights, vweights, maxvertex, checkVars, prevlevel, returned>>

level_done(p) ==
  /\ LeaveBarrier(p, "levelbar", "newvisits", <<>>)
  /\ Contribute(p, newvisits[p])
  /\ UNCHANGED <<program, round, weights, vweights, maxvertex, checkVars, prevlevel, returned>>

next_level(p) ==
  /\ InReduction(p, "newvisits")
  /\ \/ /\ AllSum(p) # 0
        /\ newvisits' = [newvisits EXCEPT ![p] = 0]
        /\ prevlevel' = [prevlevel EXCEPT ![p] = @ + 1]
        /\ Goto(p, "level")
        /\ todo' = [todo EXCEPT ![p] = Along(p, LAMBDA l : dist[p][l] = prevlevel[p] + 1)]
        /\ UNCHANGED <<amVars, contrib, hndl>>
        /\ UNCHANGED <<dist, confirmed, val_errors, nedges_traversed>>
     \/ /\ AllSum(p) = 0
        /\ check_vertices(p)
        /\ UNCHANGED <<dist, newvisits, nedges_traversed, prevlevel>>
  /\ UNCHANGED <<program, round, weights, vweights, maxvertex, returned>>

register_edges(p) ==
  /\ aml_register_handler(p, "edges", "edgepreddisthndl")
  /\ UNCHANGED <<program, round, weights, vweights, maxvertex, checkVars, prevlevel, returned>>

begin_edges(p) ==
  /\ Registered(p, "edges", "edge", Along(p, LAMBDA l : TRUE))
  /\ nedges_traversed' = [nedges_traversed EXCEPT ![p] = 0]
  /\ UNCHANGED <<program, round, weights, vweights, maxvertex, dist, newvisits, confirmed, val_errors, prevlevel, returned>>

(* Every vertex with a predecessor must have been confirmed by an edge.    *)
edges_done(p) ==
  LET unconfirmed(l) == ~confirmed[p][l] /\ pred(p, l) # None
      errors == val_errors[p] + Count(p, unconfirmed)
  IN /\ LeaveBarrier(p, "edgebar", "errors", <<>>)
     /\ val_errors' = [val_errors EXCEPT ![p] = errors]
     /\ Contribute(p, errors)
     /\ UNCHANGED <<program, round, weights, vweights, maxvertex, dist, newvisits, confirmed, nedges_traversed, prevlevel, returned>>

errors_summed(p) ==
  /\ InReduction(p, "errors")
  /\ val_errors' = [val_errors EXCEPT ![p] = AllSum(p)]
  /\ CallReduction(p, nedges_traversed[p], "nedges")
  /\ UNCHANGED <<amVars, hndl, todo, program, round, weights, vweights, maxvertex, dist, newvisits, confirmed, nedges_traversed, prevlevel, returned>>

(* nedges is what main reports for the search, None for the warm-up. *)
edges_summed(p) ==
  LET wrong == Given(p).nedges \notin {None, AllSum(p)}
      errors == val_errors[p] + (IF wrong THEN 1 ELSE 0)
  IN /\ InReduction(p, "nedges")
     /\ nedges_traversed' = [nedges_traversed EXCEPT ![p] = AllSum(p)]
     /\ val_errors' = [val_errors EXCEPT ![p] = errors]
     /\ Return(p, IF errors > 0 THEN 0 ELSE 1)
     /\ UNCHANGED <<program, round, weights, vweights, maxvertex, dist, newvisits, confirmed, prevlevel>>

Step ==
  \/ \E p \in Proc :
       \/ validate_result(p) \/ allmax(p) \/ check_range(p) \/ range_checked(p)
       \/ register_depth(p) \/ begin_levels(p) \/ send_frompred(p)
       \/ level_done(p) \/ next_level(p) \/ register_edges(p) \/ begin_edges(p)
       \/ sendedgepreddist(p) \/ barrier(p) \/ edges_done(p)
       \/ errors_summed(p) \/ edges_summed(p)
  \/ \E m \in net : poll(m)

Finished == \A p \in Proc : At(p, "main") /\ Upcoming(p) = {}
Next == Step \/ (Finished /\ UNCHANGED vars)
FairSpec == Init /\ [][Next]_vars /\ WF_vars(Step)

-----------------------------------------------------------------------------
(* The reference: shortest distances from the root by relaxing all edges   *)
(* as often as there are vertices; FLT_MAX where there is no path.         *)
Distance(res) ==
  LET len(x) == IF res.isbfs THEN 1 ELSE x.w
      d[k \in Vertex, v \in Vertex] ==
        IF k = 0 THEN (IF v = res.root THEN 0 ELSE FLT_MAX)
        ELSE Min({d[k-1, v]} \cup {plus(d[k-1, x.to], len(x)) : x \in Range(program.column[v])})
  IN [v \in Vertex |-> d[nglobalverts - 1, v]]

(* v has the distance d[v] and a predecessor on a shortest path. *)
VertexRight(res, d, v) ==
  IF v = res.root THEN res.pred[v] = v
  ELSE \E x \in Range(program.column[v]) :
         x.to = res.pred[v] /\ d[v] = plus(d[x.to], IF res.isbfs THEN 1 ELSE x.w)

EdgesOf(S) ==
  FoldFunction(+, 0, [v \in Vertex |->
    IF v \in S THEN Cardinality({j \in DOMAIN program.column[v] : program.column[v][j].to < v}) ELSE 0])

Right(res) ==
  LET d == Distance(res)
      reached == {v \in Vertex : d[v] # FLT_MAX}
  IN /\ \A v \in reached : VertexRight(res, d, v) /\ (res.isbfs \/ res.dist[v] = d[v])
     /\ \A v \in Vertex \ reached : res.pred[v] = None /\ (res.isbfs \/ res.dist[v] = None)
     /\ res.nedges \in {None, EdgesOf(reached)}

(* What validate_result accepts is right in the whole component of the     *)
(* root: the predecessors lie on shortest paths, the depth map made in     *)
(* rounds of messages (or the distances given) are the shortest distances, *)
(* and the reported number of edges is that of the vertices claimed.  A    *)
(* vertex outside is not claimed, or its distance has remained FLT_MAX.    *)
AcceptedIsRight ==
  \A p \in Proc : At(p, "main") /\ round[p] > 0 /\ Last(returned[p]) = 1 =>
    LET res == Given(p)
        d == Distance(res)
        claimed == {v \in Vertex : res.pred[v] # None}
    IN /\ res.nedges \in {None, EdgesOf(claimed)}
       /\ \A v \in Vertex : d[v] # FLT_MAX => VertexRight(res, d, v)
       /\ \A l \in Local(p) : LET v == VERTEX_TO_GLOBAL(p, l) IN
            IF v \in claimed THEN dist[p][l] = d[v] ELSE d[v] = FLT_MAX

(* A right result is never rejected, however the messages of the rounds    *)
(* interleave: val_errors is not reset between the calls, so a rejection   *)
(* means that this result or an earlier one is wrong.                      *)
RightIsAccepted ==
  \A p \in Proc : At(p, "main") /\ round[p] > 0 /\ Last(returned[p]) = 0 =>
    \E k \in 1..round[p] : ~Right(program.results[k])

(* All processes come to the same verdict and all validations end; if one  *)
(* process returned early alone the others would wait in a reduction.      *)
ValidationsEnd == <>(Finished /\ \A p, q \in Proc : returned[p] = returned[q])
=============================================================================
