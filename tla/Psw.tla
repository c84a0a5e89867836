-------------------------------- MODULE Psw ---------------------------------
(***************************************************************************)
(* GraphChi's parallel sliding windows: graphchi_engine::run with its      *)
(* memory shard, sliding shards, I/O threads and selective scheduling.     *)
(* For each interval the shard of its in-edges is in memory and the out-   *)
(* edges are windows of the other shards, which slide forward as the       *)
(* intervals go by; vertices are updated in place, in parallel unless they *)
(* share an edge inside the window.  Edge values are counters, an update   *)
(* adds one to each, so that a lost, doubled or misplaced write shows.     *)
(* Edges, vertices and blocks are numbered from 0, shards from 1.          *)
(***************************************************************************)
EXTENDS Sharder, StripedIo

CONSTANTS
  Graphs, RunGraphs,      \* edge sets that are sharded; those that are also computed on
  niters,
  blocksize,              \* in edges
  maxwindow, membudget, VertexCost,   \* in edges
  INDEX_STEP,             \* vertices from one saved offset to the next (100000)
  Asks                    \* the tasks <<v, also_this_iteration>> an update may add

VARIABLES
  graph,      \* the edges, their shards, and what is computed from these once for all
  pc, iter, exec,
  sub_interval_st, sub_interval_en,
  sched,      \* the vertices of the window that are scheduled ...
  slots,      \* slots[v]: the places <<p, i>> of edge data they point at
  safe,       \* ... and those with parallel_safe
  loaded,     \* is the memory shard loaded?
  todo,       \* what load_before_updates has to do
  sliding,    \* sliding[p]: [rec, vid, edge, held, index]
  seen,       \* seen[v]: what a running update has read
  updated,    \* the vertices updated in this iteration
  current, next, has_new_tasks,       \* the scheduler
  due         \* next, as it was when the iteration began (for the properties)

engineVars == <<graph, pc, iter, exec, sub_interval_st, sub_interval_en, sched, slots, safe,
                loaded, todo, sliding, seen, updated, current, next, has_new_tasks, due>>
vars == <<engineVars, ioVars>>

Vertices == 0..max_vertex_id(graph.edges)
ShardIds == DOMAIN graph.shards
NumEdges(p) == Len(graph.list[p])
NumBlocks(p) == (NumEdges(p) + blocksize - 1) \div blocksize
Blocks == UNION {{<<p, k>> : k \in 0..NumBlocks(p) - 1} : p \in ShardIds}
BlockOf(slot) == <<slot[1], slot[2] \div blocksize>>
BlockEnd(b) == Min({NumEdges(b[1]), (b[2] + 1) * blocksize})
BlocksOf(p) == [k \in 1..NumBlocks(p) |-> <<p, k - 1>>]

InBlock(slot) == (slot[2] % blocksize) + 1

-----------------------------------------------------------------------------
(* Where the memory shard finds that its own interval's window begins, and *)
(* where the sliding shard is to continue after the interval.  Each is the *)
(* first such record of the chunk that contains the limit, if it has one.  *)
Records(shard, c) ==
  {[rec |-> shard.index[c].rec + k - 1] @@ Chunk(shard, c)[k] : k \in DOMAIN Chunk(shard, c)}
(* The chunks that begin before a vertex and do not end before it. *)
Around(shard, before(_), v) ==
  {c \in DOMAIN shard.index :
     before(shard.index[c].vid) /\ (c = Len(shard.index) \/ shard.index[c+1].vid > v)}
First(records, default) ==
  IF records = {} THEN default ELSE CHOOSE x \in records : \A y \in records : x.rec <= y.rec

Beginning == [rec |-> 1, vid |-> 0, edge |-> 0]

range_start(shard, edatafilesize) ==
  LET chunks == Around(shard, LAMBDA vid : vid <= shard.st, shard.st)
  IN First(UNION {{x \in Records(shard, c) : x.vid >= shard.st} : c \in chunks},
           [Beginning EXCEPT !.edge = edatafilesize]).edge

streaming_offset(shard) ==
  LET chunks == Around(shard, LAMBDA vid : vid < shard.en, shard.en)
  IN First(UNION {{x \in Records(shard, c) : x.vid > shard.en} : c \in chunks}, Beginning)

-----------------------------------------------------------------------------
(* A sliding shard: its position, the blocks it holds (each with a pointer *)
(* to the next edge), and the offsets it saved in the first iteration.     *)
set_offset(s, x) == x @@ s

save_offset(s) ==
  IF \E x \in s.index : x.vid = s.vid THEN s
  ELSE [s EXCEPT !.index = @ \cup {[rec |-> s.rec, vid |-> s.vid, edge |-> s.edge]}]

(* The pointer into the block at hand is not moved: curblock is NULL here. *)
move_close_to(s, v) ==
  LET closest == CHOOSE x \in s.index : x.vid <= v /\ \A y \in s.index : y.vid <= v => y.vid <= x.vid
  IN IF s.vid < v /\ closest.vid > s.vid THEN set_offset(s, closest) ELSE s

check_curblock(p, s) ==
  IF s.held # <<>> /\ BlockEnd(Last(s.held).block) >= s.edge + 1 THEN s
  ELSE LET b == BlockOf(<<p, s.edge>>)
       IN [s EXCEPT !.held = Append(@, [block |-> b, ptr |-> s.edge]), !.reads = Append(@, b)]

Advance(s, n) ==
  [s EXCEPT !.edge = @ + n,
            !.held = IF @ = <<>> THEN @ ELSE [@ EXCEPT ![Len(@)].ptr = @ + n]]

read_edgeptr(p, s) ==
  LET t == check_curblock(p, s)
  IN [Advance(t, 1) EXCEPT !.got = @ \cup {<<t.vid, <<p, Last(t.held).ptr>>>>}]

read_vertex(p, s, r) ==
  LET t == IF iter = 0 /\ (s.vid < s.lastrec \/ s.vid - s.lastrec >= INDEX_STEP)
             THEN [save_offset(s) EXCEPT !.lastrec = s.vid] ELSE s
      u == IF t.vid \in sched THEN FoldLeft(LAMBDA x, e : read_edgeptr(p, x), t, r.targets)
                              ELSE Advance(t, Len(r.targets))
  IN IF s.vid > sub_interval_en THEN s
     ELSE [u EXCEPT !.rec = @ + 1, !.vid = @ + (IF r.zeros > 0 THEN r.zeros ELSE 1)]

read_next_vertices(p) ==
  LET s == [reads |-> <<>>, got |-> {}, lastrec |-> sub_interval_st] @@ sliding[p]
      adj == graph.shards[p].adj
  IN FoldLeft(LAMBDA t, r : read_vertex(p, t, r), s, SubSeq(adj, s.rec, Len(adj)))

Kept(s) == [rec |-> s.rec, vid |-> s.vid, edge |-> s.edge, held |-> s.held, index |-> s.index]
HeldBlocks(s) == [k \in DOMAIN s.held |-> s.held[k].block]

(* commit_now of each block of a sequence *)
WriteNow(blocks) ==
  disk' = [b \in DOMAIN disk |-> IF b \in ToSet(blocks) THEN buf[b] ELSE disk[b]]
Release(blocks) ==
  /\ state' = [b \in DOMAIN state |-> IF b \in ToSet(blocks) THEN "none" ELSE state[b]]
  /\ buf' = [b \in DOMAIN buf |-> IF b \in ToSet(blocks) THEN <<>> ELSE buf[b]]

-----------------------------------------------------------------------------
SInit(edges) ==
  LET shards == write_shards(edges)
      list == [p \in DOMAIN shards |-> EdgeList(shards[p])]
      places == UNION {{<<p, i>> : i \in 0..Len(list[p]) - 1} : p \in DOMAIN shards}
  IN [edges |-> edges, shards |-> shards, list |-> list,
      range_start |-> [p \in DOMAIN shards |-> range_start(shards[p], Len(list[p]))],
      stream |-> [p \in DOMAIN shards |-> streaming_offset(shards[p])],
      place |-> [e \in edges |-> CHOOSE x \in places : list[x[1]][x[2] + 1].edge = e]]

Init ==
  /\ graph \in {SInit(edges) : edges \in Graphs}
  /\ IoInit([b \in Blocks |-> [k \in 1..(BlockEnd(b) - b[2] * blocksize) |-> 0]])
  /\ pc = "sharded" /\ iter = 0 /\ exec = 1
  /\ sub_interval_st = 0 /\ sub_interval_en = -1
  /\ sched = {} /\ slots = <<>> /\ safe = {} /\ loaded = FALSE /\ todo = {}
  /\ sliding = [p \in ShardIds |-> [held |-> <<>>, index |-> {Beginning}] @@ Beginning]
  /\ seen = <<>> /\ updated = {}
  /\ current = Vertices /\ next = {} /\ has_new_tasks = TRUE      \* add_task_to_all
  /\ due = Vertices

schedVars == <<current, next, has_new_tasks, due, updated>>
windowVars == <<sub_interval_st, sub_interval_en, sched, slots, safe, todo, seen>>

run ==
  /\ pc = "sharded" /\ graph.edges \in RunGraphs
  /\ pc' = "iteration"
  /\ UNCHANGED <<graph, iter, exec, windowVars, loaded, sliding, schedVars, ioVars>>

(* An iteration begins: no new tasks and the run is over; otherwise the    *)
(* scheduler's bitsets are swapped, except before the first iteration.     *)
new_iteration ==
  IF iter = 0 THEN UNCHANGED <<current, next, due>>
  ELSE current' = next /\ due' = next /\ next' = {}

begin_iteration ==
  /\ pc = "iteration" /\ iter < niters /\ has_new_tasks
  /\ has_new_tasks' = FALSE
  /\ new_iteration
  /\ updated' = {} /\ exec' = 1
  /\ pc' = "interval"
  /\ UNCHANGED <<graph, iter, windowVars, loaded, sliding, ioVars>>

run_over ==
  /\ pc = "iteration" /\ (iter = niters \/ ~has_new_tasks)
  /\ pc' = "done"
  /\ UNCHANGED <<graph, iter, exec, windowVars, loaded, sliding, schedVars, ioVars>>

(* The shard of the interval is flushed, and all writes waited for.        *)
begin_interval ==
  /\ pc = "interval" /\ exec \in ShardIds
  /\ pc' = "drain"
  /\ WriteNow(HeldBlocks(sliding[exec])) /\ Release(HeldBlocks(sliding[exec]))
  /\ sliding' = [sliding EXCEPT ![exec].held = <<>>]
  /\ UNCHANGED <<graph, iter, exec, windowVars, loaded, schedVars, queueVars, looking, task>>

drained ==
  /\ pc = "drain" /\ AllWritten
  /\ pc' = "window"
  /\ sub_interval_st' = graph.shards[exec].st
  /\ UNCHANGED <<graph, iter, exec, sub_interval_en, sched, slots, safe, todo, seen,
                 loaded, sliding, schedVars, ioVars>>

-----------------------------------------------------------------------------
Degree(v) == Cardinality({e \in graph.edges : v = e[1] \/ v = e[2]})

(* The window is extended until the memory that it takes exceeds the       *)
(* budget; the memory for its last vertex is not counted.                  *)
determine_next_window(from, maxvid) ==
  LET memreq(v) == FoldLeft(LAMBDA m, u : m + VertexCost + Degree(u), 0, [k \in 1..v - from + 1 |-> from + k - 1])
      over == {v \in from..maxvid - 1 : memreq(v) > membudget}
  IN IF over = {} THEN maxvid ELSE Min(over) - 1

window_end ==
  determine_next_window(sub_interval_st, Min({graph.shards[exec].en, sub_interval_st + maxwindow}))

skip_window ==
  /\ pc = "window" /\ sub_interval_st <= graph.shards[exec].en
  /\ window_end >= sub_interval_st
  /\ current \cap (sub_interval_st..window_end) = {}
  /\ sub_interval_st' = window_end + 1
  /\ UNCHANGED <<graph, pc, iter, exec, sub_interval_en, sched, slots, safe, todo, seen,
                 loaded, sliding, schedVars, ioVars>>

init_vertices ==
  /\ pc = "window" /\ sub_interval_st <= graph.shards[exec].en
  /\ window_end >= sub_interval_st
  /\ sub_interval_en' = window_end
  /\ sched' = current \cap (sub_interval_st..window_end)
  /\ sched' # {}
  /\ slots' = [v \in sched' |-> {}] /\ safe' = sched'
  /\ todo' = {<<"memory", exec>>} \cup {<<"release", p>> : p \in ShardIds \ {exec}}
  /\ pc' = "load"
  /\ UNCHANGED <<graph, iter, exec, sub_interval_st, seen, loaded, sliding, schedVars, ioVars>>

-----------------------------------------------------------------------------
(* load_before_updates: the memory shard and the other shards in any order.*)
StartReads(blocks) ==
  /\ \E thread \in [ToSet(blocks) -> Threads] : preada_async(blocks, thread)
  /\ state' = [b \in DOMAIN state |-> IF b \in ToSet(blocks) THEN "reading" ELSE state[b]]
  /\ UNCHANGED <<disk, buf, commitqueue, pending_writes, looking, task>>

EdgesWhere(p, cond(_)) == {i \in 0..NumEdges(p) - 1 : cond(graph.list[p][i+1].edge)}
Chunks(p, edges) == {graph.list[p][i+1].chunk : i \in edges}

(* The threads that load the chunks clear parallel_safe of both ends of an *)
(* edge inside the window, or else write back what they read for its head. *)
(* With two chunks the writes race, and either may prevail.  Mutant: only  *)
(* the heads are cleared.                                                  *)
parallel_safe_heads(v) ==
  {EdgesWhere(exec, LAMBDA e : v = e[2] /\ e[1] \in sched) = {}}

parallel_safe(v) ==
  LET clear == Chunks(exec, EdgesWhere(exec, LAMBDA e : v \in {e[1], e[2]} /\ {e[1], e[2]} \subseteq sched))
      restore == Chunks(exec, EdgesWhere(exec, LAMBDA e : v = e[2] /\ e[1] \notin sched))
  IN IF clear = {} THEN {TRUE}
     ELSE IF \E c \in clear, d \in restore : c # d THEN BOOLEAN ELSE {FALSE}

load_memory_shard ==
  /\ pc = "load" /\ <<"memory", exec>> \in todo
  /\ todo' = todo \ {<<"memory", exec>>}
  /\ loaded' = TRUE
  /\ StartReads(IF loaded THEN <<>> ELSE BlocksOf(exec))
  /\ slots' = [v \in sched |-> slots[v] \cup {<<exec, i>> : i \in EdgesWhere(exec, LAMBDA e : v \in {e[1], e[2]})}]
  /\ \E x \in {f \in [sched -> BOOLEAN] : \A v \in sched : f[v] \in parallel_safe(v)} :
       safe' = {v \in sched : x[v]}
  /\ UNCHANGED <<graph, pc, iter, exec, sub_interval_st, sub_interval_en, sched, seen, sliding, schedVars>>

(* A sliding shard gives up the blocks before its position ... *)
Passed(s) == SelectSeq(Reverse(HeldBlocks(s)), LAMBDA b : BlockEnd(b) <= s.edge)

release_prior_to_offset(p) ==
  /\ pc = "load" /\ <<"release", p>> \in todo
  /\ todo' = (todo \ {<<"release", p>>}) \cup {<<"read", p>>}
  /\ LET s == IF iter = 0 THEN sliding[p] ELSE move_close_to(sliding[p], sub_interval_st)
     IN /\ sliding' = [sliding EXCEPT ![p] = Kept([s EXCEPT !.held = SelectSeq(@, LAMBDA h : BlockEnd(h.block) > s.edge)])]
        /\ \E thread \in [ToSet(Passed(s)) -> Threads] : pwritea_async(Passed(s), thread)
        /\ Release(Passed(s))
  /\ UNCHANGED <<graph, pc, iter, exec, sub_interval_st, sub_interval_en, sched, slots, safe, seen,
                 loaded, schedVars, disk, readqueue, pending_reads, looking, task>>

(* ... and reads the blocks of the window's scheduled vertices. *)
read_window(p) ==
  /\ pc = "load" /\ <<"read", p>> \in todo
  /\ todo' = todo \ {<<"read", p>>}
  /\ \E s \in {read_next_vertices(p)} :
       /\ sliding' = [sliding EXCEPT ![p] = Kept(s)]
       /\ slots' = [v \in sched |-> slots[v] \cup {x[2] : x \in {y \in s.got : y[1] = v}}]
       /\ StartReads(s.reads)
  /\ UNCHANGED <<graph, pc, iter, exec, sub_interval_st, sub_interval_en, sched, safe, seen, loaded, schedVars>>

reads_done ==
  /\ pc = "load" /\ todo = {} /\ AllRead
  /\ pc' = "exec"
  /\ UNCHANGED <<graph, iter, exec, windowVars, loaded, sliding, schedVars, ioVars>>

-----------------------------------------------------------------------------
(* exec_updates: vertices that are parallel_safe at any time, the others   *)
(* one after the other.                                                    *)
begin_update(v) ==
  /\ pc = "exec" /\ v \notin updated /\ v \notin DOMAIN seen
  /\ v \in safe \/ \A u \in sched \ safe : u < v => u \in updated
  /\ seen' = [u \in DOMAIN seen \cup {v} |->
       IF u = v THEN [x \in slots[v] |-> buf[BlockOf(x)][InBlock(x)]] ELSE seen[u]]
  /\ UNCHANGED <<graph, pc, iter, exec, sub_interval_st, sub_interval_en, sched, slots, safe, todo,
                 loaded, sliding, schedVars, ioVars>>

add_task_next(v, also_this_iteration) ==    \* mutant: the flag is not raised
  /\ next' = next \cup {v}
  /\ current' = IF also_this_iteration THEN current \cup {v} ELSE current
  /\ UNCHANGED has_new_tasks

add_task(v, also_this_iteration) ==
  /\ next' = next \cup {v}
  /\ current' = IF also_this_iteration THEN current \cup {v} ELSE current
  /\ has_new_tasks' = TRUE

end_update(v) ==
  /\ pc = "exec" /\ v \in DOMAIN seen
  /\ buf' = [b \in DOMAIN buf |-> [k \in DOMAIN buf[b] |->
       LET x == <<b[1], b[2] * blocksize + k - 1>> IN IF x \in slots[v] THEN seen[v][x] + 1 ELSE buf[b][k]]]
  /\ seen' = [u \in DOMAIN seen \ {v} |-> seen[u]]
  /\ updated' = updated \cup {v}
  /\ \/ UNCHANGED <<current, next, has_new_tasks>>
     \/ \E x \in Asks : x[1] \in Vertices /\ add_task(x[1], x[2])
  /\ UNCHANGED <<graph, pc, iter, exec, sub_interval_st, sub_interval_en, sched, slots, safe, todo,
                 loaded, sliding, due, disk, state, queueVars, looking, task>>

window_done ==
  /\ pc = "exec" /\ sched \subseteq updated
  /\ pc' = "window"
  /\ sub_interval_st' = sub_interval_en + 1
  /\ sched' = {} /\ slots' = <<>> /\ safe' = {}
  /\ UNCHANGED <<graph, iter, exec, sub_interval_en, todo, seen, loaded, sliding, schedVars, ioVars>>

-----------------------------------------------------------------------------
(* The end of an interval: the memory shard writes the blocks from the one *)
(* where its own window began at once and the others asynchronously, and   *)
(* the sliding shard continues behind the window.                          *)
commit_memory_shard ==
  /\ pc = "window" /\ sub_interval_st > graph.shards[exec].en /\ loaded
  /\ LET now == SelectSeq(BlocksOf(exec), LAMBDA b : b[2] >= graph.range_start[exec] \div blocksize)
         later == SelectSeq(BlocksOf(exec), LAMBDA b : b \notin ToSet(now))
     IN /\ WriteNow(now)
        /\ \E thread \in [ToSet(later) -> Threads] : pwritea_async(later, thread)
  /\ Release(BlocksOf(exec))
  /\ sliding' = [sliding EXCEPT ![exec] = Kept(set_offset(@, graph.stream[exec]))]
  /\ loaded' = FALSE
  /\ exec' = exec + 1 /\ pc' = "interval"
  /\ UNCHANGED <<graph, iter, windowVars, schedVars, readqueue, pending_reads, looking, task>>

interval_unscheduled ==
  /\ pc = "window" /\ sub_interval_st > graph.shards[exec].en /\ ~loaded
  /\ exec' = exec + 1 /\ pc' = "interval"
  /\ UNCHANGED <<graph, iter, windowVars, loaded, sliding, schedVars, ioVars>>

(* The end of an iteration: all sliding shards are flushed and rewound.    *)
end_iteration ==
  /\ pc = "interval" /\ exec \notin ShardIds
  /\ LET all == FlattenSeq([p \in ShardIds |-> HeldBlocks(sliding[p])])
     IN WriteNow(all) /\ Release(all)
  /\ sliding' = [p \in ShardIds |-> Kept(set_offset([sliding[p] EXCEPT !.held = <<>>], Beginning))]
  /\ pc' = "flushed"
  /\ UNCHANGED <<graph, iter, exec, windowVars, loaded, schedVars, queueVars, looking, task>>

iteration_finished ==
  /\ pc = "flushed" /\ AllWritten
  /\ iter' = iter + 1 /\ pc' = "iteration"
  /\ UNCHANGED <<graph, exec, windowVars, loaded, sliding, schedVars, ioVars>>

Engine ==
  \/ run \/ begin_iteration \/ run_over \/ begin_interval \/ drained
  \/ skip_window \/ init_vertices
  \/ load_memory_shard \/ reads_done
  \/ \E p \in ShardIds : release_prior_to_offset(p) \/ read_window(p)
  \/ \E v \in sched : begin_update(v) \/ end_update(v)
  \/ window_done \/ commit_memory_shard \/ interval_unscheduled
  \/ end_iteration \/ iteration_finished

Over == pc = "done" \/ (pc = "sharded" /\ graph.edges \notin RunGraphs)
Stop == Over /\ UNCHANGED vars
IoThread(t) == io_thread_loop(t) /\ UNCHANGED engineVars

Next == Engine \/ (\E t \in Threads : IoThread(t)) \/ Stop

Spec == Init /\ [][Next]_vars

(* As long as the engine or an I/O thread can do something, one does.      *)
FairSpec == Spec /\ WF_vars((\E t \in Threads : IoThread(t)) \/ Engine)

-----------------------------------------------------------------------------
(* The shards hold the graph: the intervals tile the vertices when there   *)
(* are as many as asked for, and each shard lists the edges into its       *)
(* interval once, by source and then target, in every chunk of its index   *)
(* (sharder::createnextshard, finish_shard, and how both shards read).     *)
Sorted(p) ==
  InOrder({e \in graph.edges : graph.shards[p].st <= e[2] /\ e[2] <= graph.shards[p].en},
          LAMBDA e, f : e[1] < f[1] \/ (e[1] = f[1] /\ e[2] < f[2]))

ShardsExact ==
  pc = "sharded" =>
    /\ graph.shards[1].st = 0
    /\ \A p \in ShardIds : [k \in DOMAIN graph.list[p] |-> graph.list[p][k].edge] = Sorted(p)
    /\ \A p \in ShardIds \ {1} : graph.shards[p].st = graph.shards[p-1].en + 1
    /\ FoldSet(LAMBDA p, n : n + NumEdges(p), 0, ShardIds) = Cardinality(graph.edges)
    /\ Len(graph.shards) <= nshards
    /\ Len(graph.shards) = nshards => graph.shards[nshards].en = max_vertex_id(graph.edges)

(* Asynchronous writes and reads never cross: a block on its way to disk   *)
(* is neither in the engine's memory nor waiting to be read, a shard that  *)
(* slides on keeps at most the block it stands in (the assertion in        *)
(* read_next_vertices), and between iterations no block is anywhere but on *)
(* disk (stripedio, sliding_shard::release_prior_to_offset, both waits).   *)
BlocksHeld ==
  /\ \A b \in Blocks : Outstanding(b) # {} => state[b] = "none" /\ ~ToBeRead(b)
  /\ \A x \in todo : x[1] = "read" => Len(sliding[x[2]].held) <= 1
  /\ \A v \in DOMAIN slots, b \in Blocks :
       pc = "exec" /\ (\E x \in slots[v] : BlockOf(x) = b) => state[b] = "in"
  /\ pc = "iteration" => \A b \in Blocks : state[b] = "none" /\ Outstanding(b) = {}

(* Two vertices joined by an edge of the memory shard are never updated at *)
(* once: the threads that load the shard see all edges inside the window,  *)
(* and the serial section of exec_updates leaves the parallel one nothing  *)
(* that touches it (memory_shard::load_vertices, exec_updates).            *)
NeighboursApart ==
  pc = "exec" => \A i \in 0..NumEdges(exec) - 1 :
    LET e == graph.list[exec][i+1].edge
    IN e[1] # e[2] => ~(e[1] \in DOMAIN seen /\ e[2] \in DOMAIN seen)

(* To a program the graph is as good as in memory: the values of the edges,*)
(* whether in a shard's memory, queued to be written or on disk, change as *)
(* if each update were alone, and the vertices asked for in an iteration   *)
(* are updated in the next (graphchi_engine::run, exec_updates).           *)
Value(slot) == Contents(BlockOf(slot))[InBlock(slot)]
Round == IF pc \in {"iteration", "done"} /\ iter > 0 THEN iter - 1 ELSE iter
InMemory == INSTANCE VertexUpdates WITH
  value <- [e \in graph.edges |-> Value(graph.place[e])],
  wanted <- current, asked <- next, round <- Round
ActsInMemory == InMemory!VuSpec

(* The edge data that a loaded vertex points at is that of its own edges:  *)
(* move_close_to skips rows and "moves the pointer" into the block at hand *)
(* along with the position, so that later reads take the right edges.      *)
OwnEdges ==
  pc = "exec" => \A v \in sched :
    slots[v] = {graph.place[e] : e \in {f \in graph.edges : v = f[1] \/ v = f[2]}}

(* A run comes to its end: no wait for reads or writes is forever, whatever*)
(* the threads' queues hold, and it does not end before the last iteration *)
(* while a vertex is asked for (wait_for_reads, wait_for_writes, add_task).*)
RunEnds == <>(Over /\ (pc = "done" /\ iter < niters => next = {}))
=============================================================================
