-------------------------------- MODULE Bfs ---------------------------------
(***************************************************************************)
(* Kernel 2 of graph500 (src/bfs_reference.c) and the loop of main.c that  *)
(* calls it: level-synchronised breadth-first searches from several roots, *)
(* the first one twice, whose visits are active messages.                  *)
(*                                                                         *)
(* A handler runs only while its process is inside aml_send or             *)
(* aml_barrier; that is all that keeps it from the queues while run_bfs    *)
(* swaps and clears them.                                                  *)
(***************************************************************************)
EXTENDS Kernel, Integers, SequencesExt

CONSTANTS
  Graphs,     \* the graphs to search: column[v] is the row of v, in order
  NRoots      \* bound: num_bfs_roots

VARIABLES
  column, bfs_roots,      \* chosen once
  pc, run,                \* run[p]: the searches p has begun
  q1, q2, visited, pred,  \* of each process, by local vertex
  sent,                   \* sent[p]: the visits p has sent at this level
  edge_visit_count

searchVars == <<visited, q2, pred>>
vars == <<amVars, contrib, column, bfs_roots, pc, run, q1, searchVars, sent, edge_visit_count>>

NoPred == -1
Root(k) == bfs_roots[IF k = 1 THEN 1 ELSE k - 1]    \* the first is a warm-up

Init ==
  /\ AMInit
  /\ contrib = [p \in Proc |-> <<>>]
  /\ column \in Graphs
  /\ bfs_roots \in [1..NRoots -> Vertex]
  /\ pc = [p \in Proc |-> "main"]
  /\ run = [p \in Proc |-> 0]
  /\ q1 = [p \in Proc |-> <<>>]
  /\ q2 = [p \in Proc |-> <<>>]
  /\ visited = [p \in Proc |-> {}]
  /\ pred = [p \in Proc |-> [l \in Local(p) |-> NoPred]]
  /\ sent = [p \in Proc |-> 0]
  /\ edge_visit_count = [p \in Proc |-> 0]

Goto(p, where) == pc' = [pc EXCEPT ![p] = where]

(* clean_pred, and aml_register_handler at the start of run_bfs: the       *)
(* handler is set between two barriers.                                    *)
clean_pred(p) ==
  /\ pc[p] = "main" /\ run[p] <= NRoots
  /\ pred' = [pred EXCEPT ![p] = [l \in Local(p) |-> NoPred]]
  /\ Enter(p)
  /\ Goto(p, "reg1")
  /\ UNCHANGED <<contrib, column, bfs_roots, run, q1, q2, visited, sent, edge_visit_count>>

aml_register_handler(p) ==
  /\ \/ pc[p] = "reg1" /\ Leave(p) /\ Goto(p, "reg")
     \/ pc[p] = "reg" /\ Enter(p) /\ Goto(p, "reg2")
  /\ UNCHANGED <<contrib, column, bfs_roots, run, q1, searchVars, sent, edge_visit_count>>

Start(p, root) == IF VERTEX_OWNER(root) = p THEN {VERTEX_LOCAL(root)} ELSE {}

(* Mutant: visited keeps the vertices of the search before. *)
run_bfs_unclean(p) ==
  LET root == Root(run[p] + 1)
      start == Start(p, root)
  IN /\ pc[p] = "reg2" /\ Leave(p)
     /\ run' = [run EXCEPT ![p] = @ + 1]
     /\ visited' = [visited EXCEPT ![p] = @ \cup start]
     /\ pred' = [pred EXCEPT ![p] = [l \in Local(p) |-> IF l \in start THEN root ELSE @[l]]]
     /\ q1' = [q1 EXCEPT ![p] = SetToSeq(start)]
     /\ q2' = [q2 EXCEPT ![p] = <<>>]
     /\ sent' = [sent EXCEPT ![p] = 0]
     /\ Goto(p, "visit")
     /\ UNCHANGED <<contrib, column, bfs_roots, edge_visit_count>>

(* The rest of run_bfs up to its loop. *)
run_bfs(p) ==
  LET root == Root(run[p] + 1)
      start == Start(p, root)
  IN /\ pc[p] = "reg2" /\ Leave(p)
     /\ run' = [run EXCEPT ![p] = @ + 1]
     /\ visited' = [visited EXCEPT ![p] = start]
     /\ pred' = [pred EXCEPT ![p] = [l \in Local(p) |-> IF l \in start THEN root ELSE @[l]]]
     /\ q1' = [q1 EXCEPT ![p] = SetToSeq(start)]
     /\ q2' = [q2 EXCEPT ![p] = <<>>]
     /\ sent' = [sent EXCEPT ![p] = 0]
     /\ Goto(p, "visit")
     /\ UNCHANGED <<contrib, column, bfs_roots, edge_visit_count>>

(* Mutant: every visit is queued, also of a vertex visited before. *)
visithndl_untested(m) ==
  /\ visited' = [visited EXCEPT ![m.dst] = @ \cup {m.vloc}]
  /\ q2' = [q2 EXCEPT ![m.dst] = Append(@, m.vloc)]
  /\ pred' = [pred EXCEPT ![m.dst][m.vloc] = VERTEX_TO_GLOBAL(m.src, m.vfrom)]

(* Mutant: vfrom is taken for a vertex of the process that is visited. *)
visithndl_rank(m) ==
  IF m.vloc \in visited[m.dst] THEN UNCHANGED searchVars
  ELSE /\ visited' = [visited EXCEPT ![m.dst] = @ \cup {m.vloc}]
       /\ q2' = [q2 EXCEPT ![m.dst] = Append(@, m.vloc)]
       /\ pred' = [pred EXCEPT ![m.dst][m.vloc] = VERTEX_TO_GLOBAL(m.dst, m.vfrom)]

(* The active-message handler, on the process of the vertex. *)
visithndl(m) ==
  IF m.vloc \in visited[m.dst] THEN UNCHANGED searchVars
  ELSE /\ visited' = [visited EXCEPT ![m.dst] = @ \cup {m.vloc}]
       /\ q2' = [q2 EXCEPT ![m.dst] = Append(@, m.vloc)]
       /\ pred' = [pred EXCEPT ![m.dst][m.vloc] = VERTEX_TO_GLOBAL(m.src, m.vfrom)]

(* The visits of a level: q1 in order, each row in order. *)
Visits(p) ==
  FlattenSeq([k \in DOMAIN q1[p] |->
    LET row == column[VERTEX_TO_GLOBAL(p, q1[p][k])]
    IN [j \in DOMAIN row |-> [glob |-> row[j], from |-> q1[p][k]]]])

Visiting(p) == pc[p] = "visit" /\ sent[p] < Len(Visits(p))

send_visit(p) ==
  LET v == Visits(p)[sent[p] + 1]
      m == [src |-> p, dst |-> VERTEX_OWNER(v.glob), e |-> epoch[p], n |-> sent[p],
            vloc |-> VERTEX_LOCAL(v.glob), vfrom |-> v.from]
  IN /\ Visiting(p)
     /\ sent' = [sent EXCEPT ![p] = @ + 1]
     /\ (Send(m) /\ UNCHANGED searchVars) \/ (SendSelf(m) /\ visithndl(m))
     /\ UNCHANGED <<contrib, column, bfs_roots, pc, run, q1, edge_visit_count>>

(* Inside aml_send and aml_barrier a process runs the handlers of the      *)
(* messages that have come.                                                *)
poll(m) ==
  /\ Visiting(m.dst) \/ inbar[m.dst]
  /\ Handle(m)
  /\ visithndl(m)
  /\ UNCHANGED <<contrib, column, bfs_roots, pc, run, q1, sent, edge_visit_count>>

(* The aml_barrier at the end of a level ... *)
enter_level(p) ==
  /\ pc[p] = "visit" /\ ~Visiting(p)
  /\ Enter(p)
  /\ Goto(p, "level")
  /\ UNCHANGED <<contrib, column, bfs_roots, run, q1, searchVars, sent, edge_visit_count>>

(* ... the queues are swapped, and the reduction begins; q2c still counts  *)
(* the vertices that are now in q1 ...                                     *)
swap(p) ==
  /\ pc[p] = "level" /\ Leave(p)
  /\ q1' = [q1 EXCEPT ![p] = q2[p]]
  /\ Contribute(p, Len(q2[p]))
  /\ Goto(p, "allsum")
  /\ UNCHANGED <<column, bfs_roots, run, searchVars, sent, edge_visit_count>>

(* Mutant: a process with nothing to do leaves the loop on its own. *)
next_level_local(p) ==
  /\ pc[p] = "allsum" /\ Reduced(p)
  /\ q2' = [q2 EXCEPT ![p] = <<>>]
  /\ sent' = [sent EXCEPT ![p] = 0]
  /\ Goto(p, IF q1[p] # <<>> THEN "visit" ELSE "leave")
  /\ UNCHANGED <<amVars, contrib, column, bfs_roots, run, q1, visited, pred, edge_visit_count>>

(* ... until q2c is cleared and the loop goes on or ends. *)
next_level(p) ==
  /\ pc[p] = "allsum" /\ Reduced(p)
  /\ q2' = [q2 EXCEPT ![p] = <<>>]
  /\ sent' = [sent EXCEPT ![p] = 0]
  /\ Goto(p, IF AllSum(p) # 0 THEN "visit" ELSE "leave")
  /\ UNCHANGED <<amVars, contrib, column, bfs_roots, run, q1, visited, pred, edge_visit_count>>

(* The aml_barrier at the end of run_bfs. *)
enter_end(p) ==
  /\ pc[p] = "leave"
  /\ Enter(p)
  /\ Goto(p, "end")
  /\ UNCHANGED <<contrib, column, bfs_roots, run, q1, searchVars, sent, edge_visit_count>>

(* Mutant: the rows of vertices that were not reached are counted too. *)
edge_count_all(p) ==
  LET Row(l) == column[VERTEX_TO_GLOBAL(p, l)]
      Ones(l) == {j \in DOMAIN Row(l) : Row(l)[j] <= VERTEX_TO_GLOBAL(p, l)}
  IN FoldFunction(+, 0, [l \in Local(p) |-> Cardinality(Ones(l))])

(* get_edge_count_for_teps, before its reduction: each edge of a reached    *)
(* vertex is in two rows and counted in that of its larger end.            *)
edge_count(p) ==
  LET Row(l) == column[VERTEX_TO_GLOBAL(p, l)]
      Ones(l) == {j \in DOMAIN Row(l) : Row(l)[j] <= VERTEX_TO_GLOBAL(p, l)}
  IN FoldFunction(+, 0, [l \in Local(p) |->
       IF pred[p][l] # NoPred THEN Cardinality(Ones(l)) ELSE 0])

(* run_bfs returns; main counts the edges unless it was the warm-up ... *)
leave_end(p) ==
  /\ pc[p] = "end" /\ Leave(p)
  /\ \/ run[p] = 1 /\ Goto(p, "main") /\ UNCHANGED contrib
     \/ run[p] # 1 /\ Goto(p, "count") /\ Contribute(p, edge_count(p))
  /\ UNCHANGED <<column, bfs_roots, run, q1, searchVars, sent, edge_visit_count>>

(* ... with a reduction. *)
counted(p) ==
  /\ pc[p] = "count" /\ Reduced(p)
  /\ edge_visit_count' = [edge_visit_count EXCEPT ![p] = AllSum(p)]
  /\ Goto(p, "main")
  /\ UNCHANGED <<amVars, contrib, column, bfs_roots, run, q1, searchVars, sent>>

Step ==
  \/ \E p \in Proc :
       \/ clean_pred(p) \/ aml_register_handler(p) \/ run_bfs(p) \/ send_visit(p)
       \/ enter_level(p) \/ swap(p) \/ next_level(p)
       \/ enter_end(p) \/ leave_end(p) \/ counted(p)
  \/ \E m \in net : poll(m)

Finished == \A p \in Proc : pc[p] = "main" /\ run[p] = NRoots + 1

Next == Step \/ (Finished /\ UNCHANGED vars)

(* Some process moves as long as one can; waiting is no step. *)
FairSpec == Init /\ [][Next]_vars /\ WF_vars(Step)

-----------------------------------------------------------------------------
(* A vertex is queued once however many visits of it race, by visits of    *)
(* the level that runs or of one that a slower process still sends; so the *)
(* queues, allocated for the local vertices, never overflow (visithndl).   *)
QueuedOnce ==
  \A p \in Proc : \A q \in {q1[p], q2[p]} :
    /\ \A i, j \in DOMAIN q : i # j => q[i] # q[j]
    /\ Len(q) <= nlocalverts(p)

(* The reference: the distance of each vertex from each root, computed     *)
(* from the definition; nglobalverts stands for unreachable.               *)
Ball(gr, r) ==
  LET ball[k \in 0..nglobalverts] ==
        IF k = 0 THEN {r} ELSE ball[k-1] \cup UNION {Range(gr[v]) : v \in ball[k-1]}
  IN ball

Dist ==
  [gr \in Graphs |-> [r \in Vertex |-> [v \in Vertex |->
     CHOOSE k \in 0..nglobalverts :
       /\ k = nglobalverts \/ v \in Ball(gr, r)[k]
       /\ \A h \in 0..k-1 : v \notin Ball(gr, r)[h]]]]

Distance(p, v) == Dist[column][Root(run[p])][v]

(* At every moment of a search the predecessor of a visited vertex is a    *)
(* neighbour one step nearer to the root: no visit of the next level, of   *)
(* another process that is already past the barrier, is taken for one of   *)
(* this level, and none is left over from the search before.               *)
PredsAreNearer ==
  \A p \in Proc : pc[p] \notin {"reg1", "reg", "reg2"} => \A l \in visited[p] :
    LET v == VERTEX_TO_GLOBAL(p, l)
        u == pred[p][l]
    IN \/ v = u /\ v = Root(run[p])
       \/ /\ u # NoPred /\ v \in Range(column[u])
          /\ Distance(p, v) = Distance(p, u) + 1

(* run_bfs ends on a process when the whole component of the root has been *)
(* visited, although the process sees only its own queue and a sum.        *)
SearchIsComplete ==
  \A p \in Proc : run[p] > 0 /\ pc[p] \in {"leave", "end", "count", "main"} =>
    \A l \in Local(p) :
      LET reached == Distance(p, VERTEX_TO_GLOBAL(p, l)) < nglobalverts
      IN (l \in visited[p] <=> reached) /\ (pred[p][l] # NoPred <=> reached)

(* The number of edges reported for a search is that of the component of   *)
(* the root, every edge counted once whichever processes own its ends.     *)
EdgeCountExact ==
  \A p \in Proc : run[p] > 1 /\ pc[p] = "main" =>
    2 * edge_visit_count[p] = FoldFunction(+, 0, [v \in Vertex |->
      IF Distance(p, v) < nglobalverts THEN Len(column[v]) ELSE 0])

(* All processes leave the loops together and all searches end.            *)
SearchesEnd == <>Finished
=============================================================================
