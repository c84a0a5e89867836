------------------------------ MODULE Sharder -------------------------------
(***************************************************************************)
(* GraphChi's preprocessing (preprocessing/sharder.hpp) and the reading of *)
(* what it writes: the edges, sorted by target, are cut into intervals of  *)
(* vertices with about the same number of in-edges; the edges into an      *)
(* interval form a shard, sorted by source, whose adjacency file has a     *)
(* record for each vertex with edges and one for each run of vertices      *)
(* without.  A sparse index divides the records into chunks.               *)
(***************************************************************************)
EXTENDS Integers, Sequences, FiniteSets, SequencesExt, FiniteSetsExt

CONSTANTS
  nshards,
  ZERO_RUN,               \* vertices that one record of zeros can stand for (255)
  index_interval_edges    \* edges from one index entry to the next (2^20)

(* A set in order (iSort and the merge of the shovels). *)
InOrder(S, less(_, _)) ==
  [k \in 1..Cardinality(S) |-> CHOOSE x \in S : Cardinality({y \in S : less(y, x)}) = k - 1]

ByTarget(e, f) == e[2] < f[2] \/ (e[2] = f[2] /\ e[1] < f[1])
max_vertex_id(edges) == Max(UNION {{e[1], e[2]} : e \in edges})

-----------------------------------------------------------------------------
(* A record is a run of vertices without edges or the targets of one. *)
Zeros(n) ==
  [k \in 1..(n + ZERO_RUN - 1) \div ZERO_RUN |->
     [zeros |-> Min({ZERO_RUN, n - (k-1) * ZERO_RUN}), targets |-> <<>>]]

(* Before the record of a vertex an index entry is due if enough edges     *)
(* have been written since the last one.                                   *)
write_vertex(s, v, targets) ==
  LET zeros == Zeros(v - s.curvid - 1)
      due == s.edges - s.indexed >= index_interval_edges
      entry == [rec |-> Len(s.adj) + Len(zeros) + 1, vid |-> v, edge |-> s.edges]
  IN [s EXCEPT !.adj = @ \o zeros \o <<[zeros |-> 0, targets |-> targets]>>,
               !.index = IF due THEN Append(@, entry) ELSE @,
               !.indexed = IF due THEN s.edges ELSE @,
               !.edges = @ + Len(targets), !.curvid = v]

finish_shard(edges) ==
  LET targets(v) == InOrder({e[2] : e \in {f \in edges : f[1] = v}}, <)
      start == [adj |-> <<>>, index |-> <<[rec |-> 1, vid |-> 0, edge |-> 0]>>,
                indexed |-> 0, edges |-> 0, curvid |-> -1]
      s == FoldLeft(LAMBDA t, v : write_vertex(t, v, targets(v)), start,
                    InOrder({e[1] : e \in edges}, <))
  IN [adj |-> s.adj, index |-> s.index]

-----------------------------------------------------------------------------
(* The sink of the merge: a shard is finished before the first edge to     *)
(* another vertex once it has its share of the edges that are left.        *)
createnextshard(s, maxvid) ==
  LET k == Len(s.shards) + 1
      interval == [st |-> s.st, en |-> IF k = nshards THEN maxvid ELSE s.prevvid]
      left == s.left - Cardinality(s.sinkbuffer)
  IN [s EXCEPT !.shards = Append(@, interval @@ finish_shard(s.sinkbuffer)),
               !.st = s.prevvid + 1, !.sinkbuffer = {}, !.left = left,
               !.edges_per_shard = IF k < nshards THEN left \div (nshards - k) ELSE @]

(* Mutant: a shard may end between two edges to the same vertex. *)
full_anywhere(s, e) == Cardinality(s.sinkbuffer) >= s.edges_per_shard

full(s, e) == Cardinality(s.sinkbuffer) >= s.edges_per_shard /\ e[2] # s.prevvid

add(s, e, maxvid) ==
  LET t == IF full(s, e) THEN createnextshard(s, maxvid) ELSE s
  IN [t EXCEPT !.sinkbuffer = @ \cup {e}, !.prevvid = e[2]]

write_shards(edges) ==
  LET start == [shards |-> <<>>, st |-> 0, sinkbuffer |-> {}, prevvid |-> -1,
                left |-> Cardinality(edges), edges_per_shard |-> Cardinality(edges) \div nshards + 1]
      maxvid == max_vertex_id(edges)
      last == FoldLeft(LAMBDA s, e : add(s, e, maxvid), start, InOrder(edges, ByTarget))
  IN createnextshard(last, maxvid).shards

-----------------------------------------------------------------------------
(* How both kinds of shards read: the vertex and the number of edges       *)
(* before each record, from a place where both are known ...               *)
Walk(adj, from, to, vid, edge) ==
  FoldLeft(LAMBDA s, r :
      [vid |-> s.vid + (IF r.zeros > 0 THEN r.zeros ELSE 1), edge |-> s.edge + Len(r.targets),
       at |-> Append(s.at, [vid |-> s.vid, edge |-> s.edge])],
    [vid |-> vid, edge |-> edge, at |-> <<>>], SubSeq(adj, from, to)).at

(* ... the memory shard from the entries of the index, chunk by chunk.     *)
ChunkEnd(shard, c) ==
  IF c = Len(shard.index) THEN Len(shard.adj) ELSE shard.index[c+1].rec - 1
Chunk(shard, c) ==
  LET x == shard.index[c] IN Walk(shard.adj, x.rec, ChunkEnd(shard, c), x.vid, x.edge)

(* The edges of a shard in the order of their values, with their chunks.   *)
EdgeList(shard) ==
  FlattenSeq([c \in DOMAIN shard.index |->
    FlattenSeq([k \in DOMAIN Chunk(shard, c) |->
      LET row == shard.adj[shard.index[c].rec + k - 1].targets
      IN [j \in DOMAIN row |-> [edge |-> <<Chunk(shard, c)[k].vid, row[j]>>, chunk |-> c]]])])
=============================================================================
