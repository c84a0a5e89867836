-------------------------------- MODULE Sssp --------------------------------
(***************************************************************************)
(* Kernel 3 of graph500 (src/sssp_reference.c), from the construction of   *)
(* the graph on: main.c draws the roots, and for each of them (the first   *)
(* one twice) run_sssp finds shortest paths by delta-stepping.  Weights    *)
(* and distances are integers here; delta stands for 0.1.                  *)
(***************************************************************************)
EXTENDS Csr

CONSTANTS
  NRoots,   \* bound: num_bfs_roots
  Draws,    \* sequences of vertices that the random numbers of main may give
  delta

VARIABLES
  draws,                \* chosen once, the same on all processes
  counter, bfs_roots,   \* of each process: the draws made, the roots taken
  run,                  \* run[p]: the searches p has begun
  dist, pred, q1, q2, visited, lightphase, maxdelta

relaxVars == <<dist, pred, q2, visited>>
runVars == <<run, relaxVars, q1, lightphase, maxdelta>>
vars == <<phaseVars, csrVars, draws, counter, bfs_roots, runVars>>

None == -1
mindelta(p) == maxdelta[p] - delta
Each(x) == [p \in Proc |-> x]

Init ==
  /\ CsrInit
  /\ draws \in Draws
  /\ counter = Each(0) /\ bfs_roots = Each(<<>>) /\ run = Each(0)
  /\ dist = [p \in Proc |-> [l \in Local(p) |-> None]] /\ pred = dist
  /\ q1 = Each(<<>>) /\ q2 = Each(<<>>) /\ visited = Each({})
  /\ lightphase = Each(FALSE) /\ maxdelta = Each(delta)

construct ==
  /\ CsrStep
  /\ UNCHANGED <<draws, counter, bfs_roots, runVars>>

-----------------------------------------------------------------------------
(* main draws roots and skips duplicates and isolated vertices, until it   *)
(* has made as many draws as there are vertices (2^SCALE of them).         *)
Exhausted(p) == counter[p] + 1 > nglobalverts - 1
Drawn(p) == draws[counter[p] + 1]

isisolated(p, v) == IF VERTEX_OWNER(v) = p /\ Row(p, VERTEX_LOCAL(v)) = <<>> THEN 1 ELSE 0

Take(p, v) == bfs_roots' = [bfs_roots EXCEPT ![p] = Append(@, v)]

draw_root(p) ==
  /\ At(p, "roots") /\ Len(bfs_roots[p]) < NRoots
  /\ counter' = [counter EXCEPT ![p] = @ + 1]
  /\ \/ Exhausted(p) /\ Take(p, Drawn(p)) /\ UNCHANGED <<contrib, pc>>
     \/ /\ ~Exhausted(p) /\ Drawn(p) \in Range(bfs_roots[p])
        /\ UNCHANGED <<contrib, pc, bfs_roots>>
     \/ /\ ~Exhausted(p) /\ Drawn(p) \notin Range(bfs_roots[p])
        /\ CallReduction(p, isisolated(p, Drawn(p)), "rootbad")
        /\ UNCHANGED bfs_roots
  /\ UNCHANGED <<amVars, hndl, todo, csrVars, draws, runVars>>

(* Mutant: without the reduction only the owner rejects an isolated root. *)
root_bad_local(p) == contrib[p][Len(contrib[p])]

root_bad(p) == AllSum(p)

root_judged(p) ==
  /\ InReduction(p, "rootbad")
  /\ \/ root_bad(p) = 0 /\ Take(p, draws[counter[p]])
     \/ root_bad(p) # 0 /\ UNCHANGED bfs_roots
  /\ Locally(p, "roots")
  /\ UNCHANGED <<csrVars, draws, counter, runVars>>

-----------------------------------------------------------------------------
Root(k) == IF k = 1 THEN 1 ELSE k - 1    \* the first search is a warm-up

(* clean_shortest, clean_pred and the start of run_sssp. *)
run_sssp(p) ==
  /\ At(p, "roots") /\ Len(bfs_roots[p]) = NRoots /\ run[p] <= NRoots
  /\ dist' = [dist EXCEPT ![p] = [l \in Local(p) |-> None]]
  /\ pred' = [pred EXCEPT ![p] = [l \in Local(p) |-> None]]
  /\ run' = [run EXCEPT ![p] = @ + 1]
  /\ maxdelta' = [maxdelta EXCEPT ![p] = delta]
  /\ q1' = [q1 EXCEPT ![p] = <<>>] /\ q2' = [q2 EXCEPT ![p] = <<>>]
  /\ CallRegister(p, "relax")
  /\ UNCHANGED <<csrVars, draws, counter, bfs_roots, visited, lightphase>>

register_relax(p) ==
  /\ aml_register_handler(p, "relax", "relaxhndl")
  /\ UNCHANGED <<csrVars, draws, counter, bfs_roots, runVars>>

registered(p) ==
  /\ Registered(p, "relax", "seed", <<>>)
  /\ UNCHANGED <<csrVars, draws, counter, bfs_roots, runVars>>

seed(p) ==
  LET root == bfs_roots[p][Root(run[p])]
      l == VERTEX_LOCAL(root)
  IN /\ At(p, "seed")
     /\ IF VERTEX_OWNER(root) = p
        THEN /\ q1' = [q1 EXCEPT ![p] = <<l>>]
             /\ dist' = [dist EXCEPT ![p][l] = 0]
             /\ pred' = [pred EXCEPT ![p][l] = root]
        ELSE UNCHANGED <<q1, dist, pred>>
     /\ EnterBarrier(p, "seeded")
     /\ UNCHANGED <<csrVars, draws, counter, bfs_roots, run, q2, visited, lightphase, maxdelta>>

seeded(p) ==
  /\ LeaveBarrier(p, "seeded", "light", <<>>)
  /\ UNCHANGED <<contrib, csrVars, draws, counter, bfs_roots, runVars>>

(* A round over light edges: the bitmap is cleared before a barrier ...    *)
light(p) ==
  /\ At(p, "light")
  /\ visited' = [visited EXCEPT ![p] = {}]
  /\ lightphase' = [lightphase EXCEPT ![p] = TRUE]
  /\ EnterBarrier(p, "lightbar")
  /\ UNCHANGED <<csrVars, draws, counter, bfs_roots, run, dist, pred, q1, q2, maxdelta>>

Relaxations(p, locals, Test(_)) ==
  FlattenSeq([k \in DOMAIN locals |-> [j \in DOMAIN SelectSeq(Row(p, locals[k]), Test) |->
    [from |-> locals[k]] @@ SelectSeq(Row(p, locals[k]), Test)[j]]])

begin_light(p) ==
  /\ LeaveBarrier(p, "lightbar", "relaxlight", Relaxations(p, q1[p], LAMBDA x : x.w < delta))
  /\ UNCHANGED <<contrib, csrVars, draws, counter, bfs_roots, runVars>>

(* Mutant: a vertex is queued again only when it had no distance. *)
requeued_first(m) ==
  /\ lightphase[m.dst] /\ m.vloc \notin visited[m.dst] /\ m.w < maxdelta[m.dst]
  /\ dist[m.dst][m.vloc] = None

requeued(m) == lightphase[m.dst] /\ m.vloc \notin visited[m.dst] /\ m.w < maxdelta[m.dst]

(* Mutant: the queue is not protected by the bitmap. *)
marked_not(m) == {}

marked(m) == {m.vloc}

relaxhndl(m) ==
  LET p == m.dst IN
  IF dist[p][m.vloc] = None \/ dist[p][m.vloc] > m.w
  THEN /\ dist' = [dist EXCEPT ![p][m.vloc] = m.w]
       /\ pred' = [pred EXCEPT ![p][m.vloc] = VERTEX_TO_GLOBAL(m.src, m.vfrom)]
       /\ IF requeued(m)
          THEN /\ q2' = [q2 EXCEPT ![p] = Append(@, m.vloc)]
               /\ visited' = [visited EXCEPT ![p] = @ \cup marked(m)]
          ELSE UNCHANGED <<q2, visited>>
  ELSE UNCHANGED relaxVars

(* ... each relaxation goes out with the distance at that time ...         *)
send_relax(p) ==
  LET x == Head(todo[p])
      msg == Message(p, VERTEX_OWNER(x.to), [kind |-> "relaxhndl", vloc |-> VERTEX_LOCAL(x.to),
               vfrom |-> x.from, w |-> dist[p][x.from] + x.w])
  IN /\ pc[p] \in {<<"relaxlight", 0>>, <<"relaxheavy", 0>>}
     /\ todo[p] # <<>>
     /\ \E m \in {msg} : aml_send(p, m) /\ (IF m.dst = p THEN relaxhndl(m) ELSE UNCHANGED relaxVars)
     /\ UNCHANGED <<csrVars, draws, counter, bfs_roots, run, q1, lightphase, maxdelta>>

poll(m) ==
  /\ hndl[m.dst] = "relaxhndl" /\ Receive(m) /\ relaxhndl(m)
  /\ UNCHANGED <<csrVars, draws, counter, bfs_roots, run, q1, lightphase, maxdelta>>

relaxed(p) ==
  /\ todo[p] = <<>>
  /\ \/ At(p, "relaxlight") /\ EnterBarrier(p, "lightend")
     \/ At(p, "relaxheavy") /\ EnterBarrier(p, "heavyend")
  /\ UNCHANGED <<csrVars, draws, counter, bfs_roots, runVars>>

swap(p) ==
  /\ LeaveBarrier(p, "lightend", "lightsum", <<>>)
  /\ q1' = [q1 EXCEPT ![p] = q2[p]] /\ q2' = [q2 EXCEPT ![p] = <<>>]
  /\ Contribute(p, Len(q2[p]))
  /\ UNCHANGED <<csrVars, draws, counter, bfs_roots, run, dist, pred, visited, lightphase, maxdelta>>

(* Mutant: a process looks at its own queue only. *)
queued_local(p) == Len(q1[p])

queued(p) == AllSum(p)

(* ... and a round that finds new vertices in the bucket is followed by    *)
(* another, one that finds none by the heavy edges.                        *)
light_summed(p) ==
  /\ InReduction(p, "lightsum")
  /\ \/ queued(p) # 0 /\ Locally(p, "light") /\ UNCHANGED lightphase
     \/ /\ queued(p) = 0
        /\ lightphase' = [lightphase EXCEPT ![p] = FALSE]
        /\ EnterBarrier(p, "heavybar")
  /\ UNCHANGED <<csrVars, draws, counter, bfs_roots, run, relaxVars, q1, maxdelta>>

Locals(p) == [k \in 1..nlocalverts(p) |-> k - 1]
InBucket(p, x) == mindelta(p) <= x /\ x < maxdelta[p]

(* Heavy edges of the bucket's vertices.  No relaxation here brings        *)
(* another vertex into the bucket, see BucketSettled, so the list of them  *)
(* is the same at the beginning of the loop and in its course.             *)
begin_heavy(p) ==
  /\ LeaveBarrier(p, "heavybar", "relaxheavy", Relaxations(p,
       SelectSeq(Locals(p), LAMBDA l : InBucket(p, dist[p][l])), LAMBDA x : x.w >= delta))
  /\ UNCHANGED <<contrib, csrVars, draws, counter, bfs_roots, runVars>>

(* Mutant: vertices in later buckets do not count. *)
remaining_next(p) == Cardinality({l \in Local(p) : InBucket(p, dist[p][l] - delta)})

remaining(p) == Cardinality({l \in Local(p) : dist[p][l] >= maxdelta[p]})

(* The next bucket. *)
next_bucket(p) ==
  /\ LeaveBarrier(p, "heavyend", "bucketsum", <<>>)
  /\ maxdelta' = [maxdelta EXCEPT ![p] = @ + delta]
  /\ q1' = [q1 EXCEPT ![p] = SelectSeq(Locals(p), LAMBDA l : InBucket(p, dist[p][l] - delta))]
  /\ Contribute(p, remaining(p))
  /\ UNCHANGED <<csrVars, draws, counter, bfs_roots, run, relaxVars, lightphase>>

bucket_summed(p) ==
  /\ InReduction(p, "bucketsum")
  /\ Locally(p, IF AllSum(p) # 0 THEN "light" ELSE "roots")
  /\ UNCHANGED <<csrVars, draws, counter, bfs_roots, runVars>>

Step ==
  \/ construct
  \/ \E p \in Proc :
       \/ draw_root(p) \/ root_judged(p)
       \/ run_sssp(p) \/ register_relax(p) \/ registered(p) \/ seed(p) \/ seeded(p)
       \/ light(p) \/ begin_light(p) \/ send_relax(p) \/ relaxed(p) \/ swap(p)
       \/ light_summed(p) \/ begin_heavy(p) \/ next_bucket(p) \/ bucket_summed(p)
  \/ \E m \in net : poll(m)

Finished == \A p \in Proc : At(p, "roots") /\ run[p] = NRoots + 1
Next == Step \/ (Finished /\ UNCHANGED vars)
FairSpec == Init /\ [][Next]_vars /\ WF_vars(Step)

-----------------------------------------------------------------------------
(* The reference: the lengths of all walks from the root with fewer edges  *)
(* than there are vertices.                                                *)
AllEdges == UNION {Range(b) : b \in UNION {Range(tg[p]) : p \in Proc}}
Further(walks) ==
  walks \cup {<<e.v1, a[2] + e.w>> : <<a, e>> \in {x \in walks \X AllEdges : x[1][1] = x[2].v0}}
        \cup {<<e.v0, a[2] + e.w>> : <<a, e>> \in {x \in walks \X AllEdges : x[1][1] = x[2].v1}}
Walks(root) == FoldLeft(LAMBDA walks, k : Further(walks), {<<root, 0>>}, [k \in 1..nglobalverts-2 |-> k])
Distance(walks, v) ==
  IF \E a \in walks : a[1] = v THEN Min({a[2] : a \in {b \in walks : b[1] = v}}) ELSE None

(* The queue of each round fits into q2, which has room for each local     *)
(* vertex once, in spite of vertices that are relaxed several times.       *)
QueuesFit ==
  \A p \in Proc : Len(q1[p]) <= nlocalverts(p) /\ Len(q2[p]) <= nlocalverts(p)

(* The roots: all processes take the same ones, and as long as main has    *)
(* draws left a root has an edge and is not taken twice.                   *)
RootsGood ==
  \A p, q \in Proc : \A k \in DOMAIN bfs_roots[p] \cap DOMAIN bfs_roots[q] :
    /\ bfs_roots[p][k] = bfs_roots[q][k]
    /\ counter[p] < nglobalverts =>
         /\ \E x \in AllEdges : x.v0 # x.v1 /\ bfs_roots[p][k] \in {x.v0, x.v1}
         /\ \A j \in 1..k-1 : bfs_roots[p][j] # bfs_roots[p][k]

(* While the heavy edges of a bucket are relaxed the bucket is settled:    *)
(* vertices nearer than its upper end have their final distance, and no    *)
(* other vertex gets one below that end.                                   *)
BucketSettled ==
  \A p \in Proc : At(p, "relaxheavy") \/ At(p, "heavyend") =>
    \E walks \in {Walks(bfs_roots[p][Root(run[p])])} : \A l \in Local(p) :
      LET d == Distance(walks, VERTEX_TO_GLOBAL(p, l)) IN
      IF d # None /\ d < maxdelta[p] THEN dist[p][l] = d
      ELSE dist[p][l] = None \/ dist[p][l] >= maxdelta[p]

(* When run_sssp returns, the distances are the shortest ones and a        *)
(* predecessor is a neighbour at the right distance.                       *)
ShortestPaths ==
  \A p \in Proc : At(p, "roots") /\ run[p] > 0 =>
    \E root \in {bfs_roots[p][Root(run[p])]} : \E walks \in {Walks(root)} : \A l \in Local(p) :
      LET v == VERTEX_TO_GLOBAL(p, l)
          d == Distance(walks, v)
      IN /\ dist[p][l] = d
         /\ CASE v = root -> pred[p][l] = root
              [] v # root /\ d = None -> pred[p][l] = None
              [] OTHER -> \E x \in Range(Row(p, l)) :
                   pred[p][l] = x.to /\ d = Distance(walks, x.to) + x.w

(* The graph is built and every search ends. *)
SearchesEnd == <>Finished
=============================================================================
