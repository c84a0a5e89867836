-------------------------------- MODULE Csr ---------------------------------
(***************************************************************************)
(* Kernel 1 of graph500 (src/csr_reference.c): the edge list, spread over  *)
(* the processes in blocks, becomes rows of neighbours in two passes of    *)
(* active messages.  The first counts the degrees, the second puts every   *)
(* edge into the rows of both its ends.                                    *)
(***************************************************************************)
EXTENDS Phases

CONSTANTS
  Tuples,             \* edge lists: blocks of records [v0, v1, w] for each process
  BYTES_PER_VERTEX

VARIABLES
  tg,                 \* the edge list, chosen once
  block,              \* block[p]: the block p works on
  nverts_known, degrees, rowstarts, column

rowVars == <<degrees, column>>
csrVars == <<tg, block, nverts_known, rowstarts, rowVars>>

Size(seqs) == FoldSeq(LAMBDA s, n : Len(s) + n, 0, seqs)
nglobaledges(t) == FoldFunction(+, 0, [p \in Proc |-> Size(t[p])])
(* Mutant: no room for the rest of the division. *)
nvert_floor(t) == (nglobaledges(t) \div 2) \div size

nvert(t) == (nglobaledges(t) \div 2) \div size + 1    \* the size of degrees

(* main makes at least two edges per vertex (edgefactor), and in the lists *)
(* here the last vertex but one of the graph has an edge.                  *)
Endpoints(t) == UNION {{x.v0, x.v1} : x \in UNION {Range(b) : b \in UNION {Range(t[p]) : p \in Proc}}}
ASSUME TuplesAssumption ==
  \A t \in Tuples : /\ nglobaledges(t) >= 2 * (nglobalverts - 1)
                    /\ Endpoints(t) \subseteq Vertex /\ nglobalverts - 2 \in Endpoints(t)

Blocks == Max({Len(tg[p]) : p \in Proc})
Block(p, k) == IF k <= Len(tg[p]) THEN tg[p][k] ELSE <<>>

CsrInit ==
  /\ PhasesInit("construct")
  /\ tg \in Tuples
  /\ block = [p \in Proc |-> 1]
  /\ nverts_known = [p \in Proc |-> 0]
  /\ degrees = [p \in Proc |-> [l \in 0..nvert(tg)-1 |-> 0]]
  /\ rowstarts = [p \in Proc |-> <<0>>]
  /\ column = [p \in Proc |-> <<>>]

(* The two directed copies of every edge of a block that is not a loop. *)
Copies(p, k) ==
  FlattenSeq([j \in DOMAIN Block(p, k) |->
    LET x == Block(p, k)[j]
    IN IF x.v0 = x.v1 THEN <<>>
       ELSE <<[src |-> x.v0, tgt |-> x.v1, w |-> x.w], [src |-> x.v1, tgt |-> x.v0, w |-> x.w]>>])

halfedgehndl(m) ==
  /\ degrees' = [degrees EXCEPT ![m.dst][m.vloc] = @ + 1]
  /\ UNCHANGED column

(* Mutant: every edge of a row is put at its start. *)
fulledgehndl_stuck(m) ==
  /\ column' = [column EXCEPT ![m.dst][degrees[m.dst][m.vloc] + 1] = m.entry]
  /\ UNCHANGED degrees

(* degrees[vloc] has become the next free place in the row. *)
fulledgehndl(m) ==
  /\ column' = [column EXCEPT ![m.dst][degrees[m.dst][m.vloc] + 1] = m.entry]
  /\ degrees' = [degrees EXCEPT ![m.dst][m.vloc] = @ + 1]

csrhandler(m) ==
  \/ hndl[m.dst] = "halfedgehndl" /\ halfedgehndl(m)
  \/ hndl[m.dst] = "fulledgehndl" /\ fulledgehndl(m)

CsrSending(p, msg) ==
  /\ todo[p] # <<>>
  /\ \E m \in {msg} : aml_send(p, m) /\ (IF m.dst = p THEN csrhandler(m) ELSE UNCHANGED rowVars)

convert_graph_to_oned_csr(p) == At(p, "construct") /\ CallRegister(p, "half") /\ UNCHANGED csrVars

register_half(p) == aml_register_handler(p, "half", "halfedgehndl") /\ UNCHANGED csrVars

begin_pass1(p) == Registered(p, "half", "pass1", Copies(p, 1)) /\ UNCHANGED csrVars

send_half_edge(p) ==
  LET x == Head(todo[p])
  IN /\ At(p, "pass1")
     /\ CsrSending(p, Message(p, VERTEX_OWNER(x.src), [kind |-> "halfedgehndl", vloc |-> VERTEX_LOCAL(x.src)]))
     /\ nverts_known' = [nverts_known EXCEPT ![p] = IF x.tgt >= @ THEN x.tgt + 1 ELSE @]
     /\ UNCHANGED <<tg, block, rowstarts>>

(* Both passes have a barrier after each block ... *)
block_barrier(p) ==
  /\ todo[p] = <<>>
  /\ \/ At(p, "pass1") /\ EnterBarrier(p, "bar1")
     \/ At(p, "pass2") /\ EnterBarrier(p, "bar2")
  /\ UNCHANGED csrVars

next_block(p) ==
  /\ block[p] < Blocks
  /\ block' = [block EXCEPT ![p] = @ + 1]
  /\ \/ LeaveBarrier(p, "bar1", "pass1", Copies(p, block[p] + 1))
     \/ LeaveBarrier(p, "bar2", "pass2", Copies(p, block[p] + 1))
  /\ UNCHANGED <<contrib, tg, nverts_known, rowstarts, rowVars>>

(* ... the number of vertices is found after the first pass ... *)
pass1_done(p) ==
  /\ block[p] = Blocks
  /\ LeaveBarrier(p, "bar1", "allmax", <<>>)
  /\ Contribute(p, nverts_known[p])
  /\ block' = [block EXCEPT ![p] = 1]
  /\ UNCHANGED <<tg, nverts_known, rowstarts, rowVars>>

Unset == [to |-> -1, w |-> 0]   \* what no edge has written

(* ... the degrees are summed up and the rows allocated, with a barrier    *)
(* after each of the two allocations.                                      *)
make_rows(p) ==
  LET n == VERTEX_LOCAL(AllMax(p) + 1 + size - 1 - p)
      starts == FoldLeftDomain(LAMBDA s, i : Append(s, Last(s) + degrees[p][i-1]), <<0>>, [i \in 1..n |-> i])
  IN /\ InReduction(p, "allmax")
     /\ nverts_known' = [nverts_known EXCEPT ![p] = AllMax(p)]
     /\ rowstarts' = [rowstarts EXCEPT ![p] = starts]
     /\ degrees' = [degrees EXCEPT ![p] = [l \in DOMAIN @ |-> IF l < n THEN starts[l+1] ELSE @[l]]]
     /\ column' = [column EXCEPT ![p] = [j \in 1..Last(starts) |-> Unset]]
     /\ EnterBarrier(p, "columns")
     /\ UNCHANGED <<tg, block>>

allocations(p) ==
  /\ \/ LeaveBarrier(p, "columns", "weights", <<>>) /\ UNCHANGED contrib
     \/ At(p, "weights") /\ EnterBarrier(p, "allocated")
     \/ LeaveBarrier(p, "allocated", "rows", <<>>) /\ UNCHANGED contrib
     \/ At(p, "rows") /\ CallRegister(p, "full")
     \/ At(p, "built") /\ CallRegister(p, "visit")
  /\ UNCHANGED csrVars

(* make_graph_data_structure ends with registering the handler of BFS. *)
register_visit(p) ==
  /\ \/ aml_register_handler(p, "visit", "visithndl")
     \/ Registered(p, "visit", "roots", <<>>)
  /\ UNCHANGED csrVars

register_full(p) == aml_register_handler(p, "full", "fulledgehndl") /\ UNCHANGED csrVars

begin_pass2(p) == Registered(p, "full", "pass2", Copies(p, 1)) /\ UNCHANGED csrVars

(* SETCOLUMN keeps the low bytes of a vertex number, COLUMN reads them. *)
SETCOLUMN(v) == v % 256^BYTES_PER_VERTEX

send_full_edge(p) ==
  LET x == Head(todo[p])
  IN /\ At(p, "pass2")
     /\ CsrSending(p, Message(p, VERTEX_OWNER(x.src), [kind |-> "fulledgehndl",
          vloc |-> VERTEX_LOCAL(x.src), entry |-> [to |-> SETCOLUMN(x.tgt), w |-> x.w]]))
     /\ UNCHANGED <<tg, block, nverts_known, rowstarts>>

(* degrees is freed. *)
pass2_done(p) ==
  /\ block[p] = Blocks
  /\ LeaveBarrier(p, "bar2", "built", <<>>)
  /\ degrees' = [degrees EXCEPT ![p] = <<>>]
  /\ UNCHANGED <<contrib, tg, block, nverts_known, rowstarts, column>>

csrpoll(m) == Receive(m) /\ csrhandler(m) /\ UNCHANGED <<tg, block, nverts_known, rowstarts>>

CsrStep ==
  \/ \E p \in Proc :
       \/ convert_graph_to_oned_csr(p) \/ register_half(p) \/ begin_pass1(p) \/ send_half_edge(p)
       \/ block_barrier(p) \/ next_block(p) \/ pass1_done(p) \/ make_rows(p) \/ allocations(p)
       \/ register_full(p) \/ begin_pass2(p) \/ send_full_edge(p) \/ pass2_done(p)
       \/ register_visit(p)
  \/ \E m \in net : csrpoll(m)

(* The row of a local vertex in the finished graph. *)
Row(p, l) == SubSeq(column[p], rowstarts[p][l+1] + 1, rowstarts[p][l+2])

-----------------------------------------------------------------------------
(* Every index that a handler is given lies inside degrees, which is sized *)
(* from the number of edges before the number of vertices is known, and    *)
(* the loop over the local vertices does too.                              *)
DegreesFit ==
  \A p \in Proc : degrees[p] # <<>> =>
    /\ nlocalverts(p) <= nvert(tg)
    /\ \A m \in net : m.dst = p /\ m.kind \in {"halfedgehndl", "fulledgehndl"} => m.vloc \in DOMAIN degrees[p]

(* The entries that the edge list has for vertex v. *)
Incident(v) ==
  LET copies == FlattenSeq([k \in 1..size |-> FlattenSeq([b \in 1..Blocks |-> Copies(k-1, b)])])
  IN SelectSeq(copies, LAMBDA x : x.src = v)
Occurrences(s, to, w) == Cardinality({j \in DOMAIN s : s[j].to = to /\ s[j].w = w})

(* Once a process has left the construction its rows are those of the      *)
(* graph: each edge that is not a loop is there once in the row of each    *)
(* end, whatever the order of messages and however the blocks were cut,    *)
(* and nothing else is.                                                    *)
CsrExact ==
  \A p \in Proc : degrees[p] = <<>> =>
    /\ nverts_known[p] + 1 = nglobalverts
    /\ \A l \in Local(p) :
         \E expected \in {Incident(VERTEX_TO_GLOBAL(p, l))}, row \in {Row(p, l)} :
           /\ Len(row) = Len(expected)
           /\ \A x \in Range(expected) : Occurrences(row, x.tgt, x.w) =
                Cardinality({j \in DOMAIN expected : expected[j] = x})
=============================================================================
