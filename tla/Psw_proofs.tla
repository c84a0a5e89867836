----------------------------- MODULE Psw_proofs -----------------------------
(* Two things about the engine that hold for every graph, every number of  *)
(* shards, I/O threads and iterations and every window: neighbours are not *)
(* updated at once, and no task of the scheduler is forgotten.  Neither    *)
(* depends on what the sharder's and the sliding shards' loops compute.    *)
EXTENDS Psw, TLAPS

(* All edges of the memory shard are loaded by one thread, as they are when *)
(* the shard has fewer edges than two entries of its index are apart.       *)
OneChunk ==
  \A i, j \in 0..NumEdges(exec) - 1 : graph.list[exec][i+1].chunk = graph.list[exec][j+1].chunk

Loaded == pc = "exec" \/ (pc = "load" /\ <<"memory", exec>> \notin todo)

(* Both ends of an edge inside the window are left to the serial section. *)
EndsSerial ==
  OneChunk => \A i \in 0..NumEdges(exec) - 1 :
    LET e == graph.list[exec][i+1].edge
    IN {e[1], e[2]} \subseteq sched => e[1] \notin safe /\ e[2] \notin safe

(* In the serial section a vertex waits for all before it. *)
SerialInOrder ==
  \A v \in DOMAIN seen \ safe : \A u \in sched \ safe : u < v => u \in updated

WindowInv ==
  /\ sched \subseteq Int
  /\ DOMAIN seen \subseteq sched \ updated
  /\ pc # "exec" => DOMAIN seen = {}
  /\ SerialInOrder
  /\ Loaded => EndsSerial

(* The flag is raised whenever a vertex waits for the next iteration; in    *)
(* the first one the bitsets are not swapped, and none waits before it.     *)
TasksInv ==
  /\ iter \in Nat
  /\ next # {} => has_new_tasks
  /\ iter = 0 /\ pc \in {"sharded", "iteration"} => next = {}
  /\ pc = "done" => next = {} \/ iter = niters

LEMMA InvInit == Init => WindowInv /\ TasksInv
  <1> SUFFICES ASSUME Init PROVE WindowInv /\ TasksInv
    OBVIOUS
  <1>1. DOMAIN seen = {} /\ sched = {} /\ pc = "sharded"
    BY DEF Init
  <1>2. WindowInv
    BY <1>1 DEF WindowInv, SerialInOrder, Loaded
  <1>3. TasksInv
    BY <1>1 DEF Init, TasksInv
  <1> QED
    BY <1>2, <1>3

LEMMA EndsKept ==
  ASSUME EndsSerial, UNCHANGED <<graph, exec, sched, safe>>
  PROVE  EndsSerial'
  <1>1. graph' = graph /\ exec' = exec /\ sched' = sched /\ safe' = safe
    OBVIOUS
  <1> QED
    BY <1>1, Zenon DEF EndsSerial, OneChunk, NumEdges

(* A step that leaves the window's vertices alone keeps what is said of them. *)
LEMMA WindowKept ==
  ASSUME WindowInv, UNCHANGED <<graph, exec, sched, safe, seen, updated>>,
         pc' # "exec" => DOMAIN seen = {},
         Loaded' => Loaded
  PROVE  WindowInv'
  BY EndsKept DEF WindowInv, SerialInOrder

(* Outside exec_updates and the load nothing is running and nothing is loaded. *)
LEMMA WindowIdle ==
  ASSUME WindowInv, pc # "exec", pc' \notin {"exec", "load"}, seen' = seen, sched' = sched
  PROVE  WindowInv'
  BY DEF WindowInv, SerialInOrder, Loaded

(* The end of the load: an edge with both ends in the window has a chunk,   *)
(* and no other chunk can put parallel_safe back.                           *)
LEMMA LoadClears ==
  ASSUME WindowInv, load_memory_shard
  PROVE  EndsSerial'
  <1>1. UNCHANGED <<graph, exec, sched>>
    BY DEF load_memory_shard
  <1>2. SUFFICES ASSUME OneChunk, NEW j \in 0..NumEdges(exec) - 1,
                        {graph.list[exec][j+1].edge[1], graph.list[exec][j+1].edge[2]} \subseteq sched
                 PROVE  /\ graph.list[exec][j+1].edge[1] \notin safe'
                        /\ graph.list[exec][j+1].edge[2] \notin safe'
    BY <1>1 DEF EndsSerial, OneChunk, NumEdges
  <1> DEFINE e == graph.list[exec][j+1].edge
  <1>3. ASSUME NEW v \in {e[1], e[2]} PROVE v \notin safe'
    <2> DEFINE clear == Chunks(exec, EdgesWhere(exec, LAMBDA f : v \in {f[1], f[2]} /\ {f[1], f[2]} \subseteq sched))
               restore == Chunks(exec, EdgesWhere(exec, LAMBDA f : v = f[2] /\ f[1] \notin sched))
    <2>1. graph.list[exec][j+1].chunk \in clear
      BY <1>2 DEF Chunks, EdgesWhere
    <2>2. \A c \in clear, d \in restore : c = d
      BY <1>2 DEF Chunks, EdgesWhere, OneChunk
    <2>3. parallel_safe(v) = {FALSE}
      BY <2>1, <2>2 DEF parallel_safe
    <2>4. PICK x \in {f \in [sched -> BOOLEAN] : \A u \in sched : f[u] \in parallel_safe(u)} :
                 safe' = {u \in sched : x[u]}
      BY DEF load_memory_shard
    <2>5. v \in sched
      BY <1>2
    <2>6. x[v] \in {FALSE}
      BY <2>3, <2>4, <2>5
    <2> QED
      BY <2>4, <2>6
  <1> QED
    BY <1>3

(* In the serial section only one vertex is updated at a time. *)
LEMMA UpdateSteps ==
  ASSUME WindowInv, NEW v \in sched, begin_update(v) \/ end_update(v)
  PROVE  WindowInv'
  <1> USE DEF WindowInv
  <1>1. UNCHANGED <<graph, pc, exec, sched, safe, todo>>
    BY DEF begin_update, end_update
  <1>2. Loaded' => EndsSerial'
    <2>1. Loaded' => Loaded
      BY <1>1 DEF Loaded
    <2> QED
      BY <1>1, <2>1, EndsKept
  <1>3. CASE begin_update(v)
    <2>1. DOMAIN seen' = DOMAIN seen \cup {v} /\ updated' = updated /\ v \notin updated
      BY <1>3 DEF begin_update, schedVars
    <2>2. SerialInOrder'
      BY <1>1, <1>3, <2>1 DEF SerialInOrder, begin_update
    <2> QED
      BY <1>1, <1>2, <1>3, <2>1, <2>2 DEF begin_update
  <1>4. CASE end_update(v)
    <2>1. DOMAIN seen' = DOMAIN seen \ {v} /\ updated' = updated \cup {v}
      BY <1>4 DEF end_update
    <2> QED
      BY <1>1, <1>2, <1>4, <2>1 DEF end_update, SerialInOrder
  <1> QED
    BY <1>3, <1>4

LEMMA WindowStep ==
  ASSUME WindowInv, [Next]_vars
  PROVE  WindowInv'
  <1> USE DEF windowVars, schedVars
  <1>1. CASE \/ run \/ begin_iteration \/ run_over \/ begin_interval \/ drained \/ skip_window
             \/ commit_memory_shard \/ interval_unscheduled \/ end_iteration \/ iteration_finished
    <2>1. pc # "exec" /\ pc' \notin {"exec", "load"} /\ seen' = seen /\ sched' = sched
      BY <1>1 DEF run, begin_iteration, run_over, begin_interval, drained, skip_window,
         commit_memory_shard, interval_unscheduled, end_iteration, iteration_finished
    <2> QED
      BY <2>1, WindowIdle
  <1>2. CASE init_vertices
    <2>1. /\ pc = "window" /\ pc' = "load" /\ seen' = seen /\ exec' = exec /\ updated' = updated
          /\ sched' \subseteq sub_interval_st..window_end /\ <<"memory", exec>> \in todo'
      BY <1>2 DEF init_vertices
    <2>2. sched' \subseteq Int
      BY <2>1
    <2> QED
      BY <2>1, <2>2 DEF WindowInv, SerialInOrder, Loaded
  <1>3. CASE load_memory_shard
    <2>1. pc = "load" /\ UNCHANGED <<pc, sched, seen>>
      BY <1>3 DEF load_memory_shard
    <2> QED
      BY <1>3, <2>1, LoadClears DEF WindowInv, SerialInOrder
  <1>4. CASE reads_done
    <2>1. Loaded /\ pc' = "exec" /\ UNCHANGED <<graph, exec, sched, safe, seen, updated>>
      BY <1>4 DEF reads_done, Loaded
    <2> QED
      BY <2>1, WindowKept
  <1>5. CASE \E p \in ShardIds : release_prior_to_offset(p) \/ read_window(p)
    <2>1. PICK p \in ShardIds : release_prior_to_offset(p) \/ read_window(p)
      BY <1>5
    <2>2. /\ pc = "load" /\ pc' = pc /\ UNCHANGED <<graph, exec, sched, safe, seen, updated>>
          /\ \/ todo' = (todo \ {<<"release", p>>}) \cup {<<"read", p>>}
             \/ todo' = todo \ {<<"read", p>>}
      BY <2>1 DEF release_prior_to_offset, read_window
    <2>3. Loaded' => Loaded
      BY <2>2 DEF Loaded
    <2> QED
      BY <2>2, <2>3, WindowKept DEF WindowInv
  <1>6. CASE \E v \in sched : begin_update(v) \/ end_update(v)
    BY <1>6, UpdateSteps
  <1>7. CASE window_done
    <2>1. pc' = "window" /\ seen' = seen /\ sched' = {} /\ sched \subseteq updated
      BY <1>7 DEF window_done
    <2>2. DOMAIN seen = {}
      BY <2>1 DEF WindowInv
    <2> QED
      BY <2>1, <2>2 DEF WindowInv, SerialInOrder, Loaded
  <1>8. CASE (\E t \in Threads : IoThread(t)) \/ Stop \/ UNCHANGED vars
    <2>1. UNCHANGED engineVars
      BY <1>8 DEF IoThread, Stop, vars
    <2> QED
      BY <2>1, WindowKept DEF engineVars, WindowInv, Loaded
  <1> QED
    BY <1>1, <1>2, <1>3, <1>4, <1>5, <1>6, <1>7, <1>8 DEF Next, Engine

(* Two neighbours that ran at once would both be in the serial section, one *)
(* of them before the other, and so done before the other began.            *)
LEMMA WindowInvImplies == WindowInv => (OneChunk => NeighboursApart)
  <1> SUFFICES ASSUME WindowInv, OneChunk PROVE NeighboursApart
    OBVIOUS
  <1> SUFFICES ASSUME pc = "exec", NEW j \in 0..NumEdges(exec) - 1,
                      graph.list[exec][j+1].edge[1] # graph.list[exec][j+1].edge[2],
                      graph.list[exec][j+1].edge[1] \in DOMAIN seen,
                      graph.list[exec][j+1].edge[2] \in DOMAIN seen
               PROVE  FALSE
    BY Zenon DEF NeighboursApart
  <1> DEFINE u == graph.list[exec][j+1].edge[1]
             v == graph.list[exec][j+1].edge[2]
  <1>1. u \in sched /\ v \in sched /\ u \notin updated /\ v \notin updated
    BY DEF WindowInv
  <1>2. u \notin safe /\ v \notin safe
    BY <1>1 DEF WindowInv, Loaded, EndsSerial
  <1>3. u < v \/ v < u
    <2>1. \A x, y \in Int : x # y => x < y \/ y < x
      OBVIOUS
    <2>2. u \in Int /\ v \in Int /\ u # v
      BY <1>1 DEF WindowInv
    <2> HIDE DEF u, v
    <2> QED
      BY <2>1, <2>2
  <1> QED
    BY <1>1, <1>2, <1>3 DEF WindowInv, SerialInOrder

(* Deterministic parallelism, on any graph: while one thread loads the      *)
(* whole memory shard, exec_updates never updates the two ends of one of    *)
(* its edges at once.                                                       *)
THEOREM NeighboursNeverRace == Spec => [](OneChunk => NeighboursApart)
  <1>1. WindowInv /\ [Next]_vars => WindowInv'
    BY WindowStep
  <1> QED
    BY <1>1, InvInit, WindowInvImplies, PTL DEF Spec

LEMMA TasksStep ==
  ASSUME TasksInv, [Next]_vars
  PROVE  TasksInv'
  <1> USE DEF windowVars, schedVars, TasksInv
  <1>1. CASE begin_iteration
    BY <1>1 DEF begin_iteration, new_iteration
  <1>2. CASE run_over
    BY <1>2 DEF run_over
  <1>3. CASE iteration_finished
    BY <1>3 DEF iteration_finished
  <1>4. CASE run
    BY <1>4 DEF run
  <1>5. CASE \/ begin_interval \/ drained \/ skip_window \/ init_vertices \/ load_memory_shard
             \/ reads_done \/ (\E p \in ShardIds : release_prior_to_offset(p) \/ read_window(p))
             \/ (\E v \in sched : begin_update(v)) \/ window_done \/ commit_memory_shard
             \/ interval_unscheduled \/ end_iteration
    <2>1. UNCHANGED <<iter, next, has_new_tasks>> /\ pc' \notin {"sharded", "iteration", "done"}
      <3>1. CASE \/ begin_interval \/ drained \/ skip_window \/ init_vertices \/ reads_done
                 \/ window_done \/ interval_unscheduled
        BY <3>1 DEF begin_interval, drained, skip_window, init_vertices, reads_done, window_done,
           interval_unscheduled
      <3>2. CASE load_memory_shard \/ commit_memory_shard \/ end_iteration
        BY <3>2 DEF load_memory_shard, commit_memory_shard, end_iteration
      <3>3. CASE \E p \in ShardIds : release_prior_to_offset(p) \/ read_window(p)
        BY <3>3 DEF release_prior_to_offset, read_window
      <3>4. CASE \E v \in sched : begin_update(v)
        BY <3>4 DEF begin_update
      <3> QED
        BY <1>5, <3>1, <3>2, <3>3, <3>4
    <2> QED
      BY <2>1
  <1>6. CASE \E v \in sched : end_update(v)
    <2>1. iter' = iter /\ pc = "exec" /\ pc' = pc
      BY <1>6 DEF end_update
    <2>2. UNCHANGED <<next, has_new_tasks>> \/ has_new_tasks'
      BY <1>6 DEF end_update, add_task
    <2> QED
      BY <2>1, <2>2
  <1>7. CASE (\E t \in Threads : IoThread(t)) \/ Stop \/ UNCHANGED vars
    <2>1. UNCHANGED engineVars
      BY <1>7 DEF IoThread, Stop, vars
    <2> QED
      BY <2>1 DEF engineVars
  <1> QED
    BY <1>1, <1>2, <1>3, <1>4, <1>5, <1>6, <1>7 DEF Next, Engine

(* The selective scheduler forgets nobody: a run that ends before its last  *)
(* iteration ends because no vertex is asked for, whatever the updates of   *)
(* each window have added (new_iteration, add_task).                        *)
THEOREM NoTaskForgotten == Spec => [](pc = "done" /\ iter < niters => next = {})
  <1>1. TasksInv /\ [Next]_vars => TasksInv'
    BY TasksStep
  <1>2. TasksInv => (pc = "done" /\ iter < niters => next = {})
    BY DEF TasksInv
  <1> QED
    BY <1>1, <1>2, InvInit, PTL DEF Spec
=============================================================================
