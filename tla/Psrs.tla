-------------------------------- MODULE Psrs --------------------------------
(***************************************************************************)
(* psrs::do_psrs of Metis/lib/psrs.hh: all cores sort an array of          *)
(* collections together, by parallel sorting with regular sampling.        *)
(*                                                                         *)
(* The code between two calls of cpu_barrier is one step that ends in the  *)
(* next call, except that reading the size of output_ is a step of its     *)
(* own: what a core writes between two barriers only it reads before the   *)
(* second one.  Elements are their keys.  Arrays of the code are indexed   *)
(* from 0, sequences from 1.                                               *)
(***************************************************************************)
EXTENDS Barrier, Sequences, FiniteSets, SequencesExt

CONSTANTS
  ncpus,
  Inputs      \* the arrays of collections to be sorted

ASSUME PsrsAssumption ==
  ncpus \in Nat \ {0} /\ Core = 0..ncpus-1 /\ \A a \in Inputs : a \in Seq(Seq(Nat))

main_core == 0

VARIABLES
  a,          \* the input
  pc,         \* pc[c]: the step c is at, or the barrier it is in
  output_,    \* the pointer: "NULL" or "out"
  out,        \* the memory it points to
  total_len,  \* total_len[c]: what c has read of output_->size()
  lpairs_,    \* lpairs_[c]: the local list of c
  pivots_,    \* pivots_[c]: row c; after the selection, row 0 from 1 on
  subsize_,   \* subsize_[c][i]: where sublist i of c's local list begins
  partsize_,  \* partsize_[c]: the size of partition c
  share       \* share[c]: where the list c returns lies: offset and size

data == <<a, output_, out, total_len, lpairs_, pivots_, subsize_, partsize_, share>>
vars == <<barrierVars, pc, data>>

NoShare == [off |-> 0, size |-> 0]

Init ==
  /\ BInit
  /\ a \in Inputs
  /\ pc = [c \in Core |-> "enter"]
  /\ output_ = "NULL"
  /\ out = <<>>
  /\ total_len = [c \in Core |-> 0]
  /\ lpairs_ = [c \in Core |-> <<>>]
  /\ pivots_ = [c \in Core |-> <<>>]
  /\ subsize_ = [c \in Core |-> <<>>]
  /\ partsize_ = [c \in Core |-> 0]
  /\ share = [c \in Core |-> NoShare]

-----------------------------------------------------------------------------
(* The sequential algorithms.                                              *)

CeilDiv(m, n) == (m + n - 1) \div n
MinOf(m, n) == IF m <= n THEN m ELSE n

(* xsearch::lower_bound of k among the n elements of s from index at on. *)
RECURSIVE Search(_, _, _, _, _)
Search(k, s, at, l, r) ==
  LET m == (l + r) \div 2
      key(i) == s[at + i + 1]
  IN CASE l > r -> [pos |-> l, found |-> FALSE]
       [] l = r -> [pos |-> IF k > key(l) THEN l + 1 ELSE l, found |-> k = key(l)]
       [] l < r /\ k = key(m) -> [pos |-> m, found |-> TRUE]
       [] l < r /\ k < key(m) -> Search(k, s, at, l, m - 1)
       [] l < r /\ k > key(m) -> Search(k, s, at, m + 1, r)

lower_bound(k, s, at, n) ==
  IF n = 0 THEN [pos |-> 0, found |-> FALSE] ELSE Search(k, s, at, 0, n - 1)

upper_bound(k, s, at, n) ==
  LET b == lower_bound(k, s, at, n) IN IF b.found THEN b.pos + 1 ELSE b.pos

(* Mutant: the position found in a part is not moved to the part's place. *)
RECURSIVE divide_unshifted(_, _, _, _, _, _)
divide_unshifted(s, start, end, pivots, fp, lp) ==
  LET mid == (fp + lp) \div 2
      pos == upper_bound(pivots[mid], s, start, end - start - 1)
      left == CASE fp >= mid -> <<>>
                [] fp < mid /\ start < pos -> divide_unshifted(s, start, pos - 1, pivots, fp, mid - 1)
                [] fp < mid /\ start >= pos -> [i \in fp..mid-1 |-> start]
      right == CASE mid >= lp -> <<>>
                 [] mid < lp /\ pos <= end -> divide_unshifted(s, pos, end, pivots, mid + 1, lp)
                 [] mid < lp /\ pos > end -> [i \in mid+1..lp |-> end + 1]
  IN [i \in fp..lp |-> CASE i < mid -> left[i] [] i = mid -> pos [] i > mid -> right[i]]

(* psrs::divide: the positions subsize[fp..lp] at which the pivots fp..lp  *)
(* split s[start..end].                                                    *)
RECURSIVE divide(_, _, _, _, _, _)
divide(s, start, end, pivots, fp, lp) ==
  LET mid == (fp + lp) \div 2
      pos == start + upper_bound(pivots[mid], s, start, end - start - 1)
      left == CASE fp >= mid -> <<>>
                [] fp < mid /\ start < pos -> divide(s, start, pos - 1, pivots, fp, mid - 1)
                [] fp < mid /\ start >= pos -> [i \in fp..mid-1 |-> start]
      right == CASE mid >= lp -> <<>>
                 [] mid < lp /\ pos <= end -> divide(s, pos, end, pivots, mid + 1, lp)
                 [] mid < lp /\ pos > end -> [i \in mid+1..lp |-> end + 1]
  IN [i \in fp..lp |-> CASE i < mid -> left[i] [] i = mid -> pos [] i > mid -> right[i]]

(* mergesort_impl: the least head of the lists is taken, the first one of  *)
(* equal heads, until n elements are out.                                  *)
RECURSIVE mergesort(_, _)
mergesort(lists, n) ==
  IF n = 0 THEN <<>>
  ELSE LET full == {i \in DOMAIN lists : lists[i] # <<>>}
           min_idx == CHOOSE i \in full :
             \A j \in full : \/ Head(lists[i]) < Head(lists[j])
                             \/ Head(lists[i]) = Head(lists[j]) /\ i <= j
       IN <<Head(lists[min_idx])>>
          \o mergesort([lists EXCEPT ![min_idx] = Tail(@)], n - 1)

(* psrs::copy_elem: elements dst_start..dst_end of all collections in a row. *)
copy_elem(dst_start, dst_end) == SubSeq(FlattenSeq(a), dst_start + 1, dst_end + 1)

(* Mutant: the local list is not sorted. *)
unsorted(s) == s

sort(s) == SortSeq(s, <)

-----------------------------------------------------------------------------
Goto(c, from, to) == pc[c] = from /\ pc' = [pc EXCEPT ![c] = to]

(* A step that ends with a call of cpu_barrier, and the return from it. *)
Call(c, from, to) == Goto(c, from, to) /\ Enter(c)
Return(c, from, to) == Goto(c, from, to) /\ Leave(c) /\ UNCHANGED data

(* init on the main core, then the first barrier. *)
init(c) ==
  /\ Call(c, "enter", "b1")
  /\ IF c = main_core
     THEN /\ output_' = "out"
          /\ out' = [i \in 1..Len(FlattenSeq(a)) |-> 0]
     ELSE UNCHANGED <<output_, out>>
  /\ UNCHANGED <<a, total_len, lpairs_, pivots_, subsize_, partsize_, share>>

(* output_->size(): a null pointer ends the program. *)
read_size(c) ==
  /\ IF output_ = "NULL" THEN Goto(c, "size", "crash") /\ UNCHANGED total_len
     ELSE Goto(c, "size", "local") /\ total_len' = [total_len EXCEPT ![c] = Len(out)]
  /\ UNCHANGED barrierVars
  /\ UNCHANGED <<a, output_, out, lpairs_, pivots_, subsize_, partsize_, share>>

Small(c) == ncpus = 1 \/ total_len[c] < ncpus * ncpus * ncpus

(* Few elements: the main core sorts them all, hands its array to output_  *)
(* and forgets output_; the others return an empty list at once.           *)
small(c) ==
  /\ Small(c) /\ Goto(c, "local", "return")
  /\ IF c = main_core
     THEN /\ out' = sort(copy_elem(0, total_len[c] - 1))
          /\ share' = [share EXCEPT ![c] = [off |-> 0, size |-> total_len[c]]]
          /\ output_' = "NULL"
     ELSE UNCHANGED <<out, share, output_>>
  /\ UNCHANGED barrierVars
  /\ UNCHANGED <<a, total_len, lpairs_, pivots_, subsize_, partsize_>>

(* Many elements: each core sorts its part and offers ncpus - 1 pivots. *)
local(c) ==
  LET w == CeilDiv(total_len[c], ncpus)
      localpairs == sort(copy_elem(w * c, MinOf(w * (c + 1), total_len[c]) - 1))
      interval == CeilDiv(Len(localpairs), ncpus)
  IN /\ ~Small(c) /\ Call(c, "local", "b2")
     /\ lpairs_' = [lpairs_ EXCEPT ![c] = localpairs]
     /\ pivots_' = [pivots_ EXCEPT ![c] = [i \in 1..ncpus-1 |->
          IF i * interval < Len(localpairs) THEN localpairs[i * interval + 1]
          ELSE Last(localpairs)]]
     /\ UNCHANGED <<a, output_, out, total_len, subsize_, partsize_, share>>

(* The main core sorts all pivots and selects ncpus - 1 of them. *)
select(c) ==
  LET all == sort(FlattenSeq([i \in 1..ncpus |-> pivots_[i - 1]]))
  IN /\ Call(c, "select", "b3")
     /\ pivots_' = IF c # main_core THEN pivots_
                   ELSE [pivots_ EXCEPT ![0] =
                           [i \in 1..ncpus-1 |-> all[(i - 1) * ncpus + ncpus \div 2 + 1]]]
     /\ UNCHANGED <<a, output_, out, total_len, lpairs_, subsize_, partsize_, share>>

(* Mutant: the end of the last sublist is taken for its last element. *)
split_short(c) ==
  LET n == Len(lpairs_[c])
      subsize == divide(lpairs_[c], 0, n - 1, pivots_[0], 1, ncpus - 1)
  IN /\ Call(c, "divide", "b4")
     /\ subsize_' = [subsize_ EXCEPT ![c] =
          [i \in 0..ncpus |-> CASE i = 0 -> 0 [] i = ncpus -> n - 1 [] OTHER -> subsize[i]]]
     /\ UNCHANGED <<a, output_, out, total_len, lpairs_, pivots_, partsize_, share>>

split(c) ==
  LET n == Len(lpairs_[c])
      subsize == divide(lpairs_[c], 0, n - 1, pivots_[0], 1, ncpus - 1)
  IN /\ Call(c, "divide", "b4")
     /\ subsize_' = [subsize_ EXCEPT ![c] =
          [i \in 0..ncpus |-> CASE i = 0 -> 0 [] i = ncpus -> n [] OTHER -> subsize[i]]]
     /\ UNCHANGED <<a, output_, out, total_len, lpairs_, pivots_, partsize_, share>>

partition_size(c) ==
  /\ Call(c, "partsize", "b5")
  /\ partsize_' = [partsize_ EXCEPT ![c] =
       SumFunction([i \in Core |-> subsize_[i][c + 1] - subsize_[i][c]])]
  /\ UNCHANGED <<a, output_, out, total_len, lpairs_, pivots_, subsize_, share>>

output_offset(c) == SumFunctionOnSet(partsize_, 0..c-1)

(* Each core merges its sublists into its part of the output. *)
merge(c) ==
  LET lists == [i \in Core |-> SubSeq(lpairs_[i], subsize_[i][c] + 1, subsize_[i][c + 1])]
      merged == mergesort(lists, partsize_[c])
      off == output_offset(c)
  IN /\ Call(c, "merge", "b6")
     /\ out' = [i \in DOMAIN out |->
                  IF i \in off+1..off+partsize_[c] THEN merged[i - off] ELSE out[i]]
     /\ UNCHANGED <<a, output_, total_len, lpairs_, pivots_, subsize_, partsize_, share>>

(* The local list is freed and becomes this core's part of the output. *)
take_share(c) ==
  LET off == output_offset(c)
  IN /\ Call(c, "share", "b7")
     /\ share' = [share EXCEPT ![c] = [off |-> off, size |-> partsize_[c]]]
     /\ lpairs_' = [lpairs_ EXCEPT ![c] = SubSeq(out, off + 1, off + partsize_[c])]
     /\ UNCHANGED <<a, output_, out, total_len, pivots_, subsize_, partsize_>>

deinit(c) ==
  /\ Goto(c, "deinit", "return")
  /\ IF c # main_core THEN UNCHANGED <<output_, pivots_, subsize_, partsize_, lpairs_>>
     ELSE /\ output_' = "NULL"
          /\ pivots_' = [d \in Core |-> <<>>]
          /\ subsize_' = [d \in Core |-> <<>>]
          /\ partsize_' = [d \in Core |-> 0]
          /\ lpairs_' = [d \in Core |-> <<>>]
  /\ UNCHANGED barrierVars
  /\ UNCHANGED <<a, out, total_len, share>>

(* The returns from the seven barriers, each to the code that follows it. *)
barrier_return(c) ==
  \/ Return(c, "b1", "size")     \/ Return(c, "b2", "select")
  \/ Return(c, "b3", "divide")   \/ Return(c, "b4", "partsize")
  \/ Return(c, "b5", "merge")    \/ Return(c, "b6", "share")
  \/ Return(c, "b7", "deinit")

Crashed == \E c \in Core : pc[c] = "crash"

do_psrs(c) ==
  /\ ~Crashed
  /\ \/ init(c) \/ read_size(c) \/ small(c) \/ local(c) \/ select(c) \/ split(c)
     \/ partition_size(c) \/ merge(c) \/ take_share(c) \/ deinit(c)
     \/ barrier_return(c)

Returned == \A c \in Core : pc[c] = "return"

Finished == (Returned \/ Crashed) /\ UNCHANGED vars

Next == (\E c \in Core : do_psrs(c)) \/ Finished

Spec == Init /\ [][Next]_vars
-----------------------------------------------------------------------------
(* divide splits a local list into ncpus consecutive sublists, from its    *)
(* first to its last element, although its recursion searches parts of the *)
(* list for parts of the pivots: no sublist has a negative length.         *)
SublistsTile ==
  \A c \in Core : subsize_[c] # <<>> =>
    /\ subsize_[c][0] = 0
    /\ \A i \in 0..ncpus-1 : subsize_[c][i] <= subsize_[c][i + 1]
    /\ pc[c] \in {"b4", "partsize", "b5", "merge", "b6"} =>
         subsize_[c][ncpus] = Len(lpairs_[c])

(* do_psrs loses and duplicates nothing: the partitions that the cores     *)
(* merge in parallel, each into the place it computes from the others'     *)
(* sizes, fill the output with exactly the elements of the input.          *)
OutputIsPermutation == Returned => sort(out) = sort(FlattenSeq(a))

(* The lists returned by the cores lie in the output one after the other,  *)
(* and each one is sorted.                                                 *)
SharesTileSorted ==
  Returned =>
    /\ \A c \in Core : IsSorted(SubSeq(out, share[c].off + 1, share[c].off + share[c].size), <=)
    /\ SumFunction([c \in Core |-> share[c].size]) = Len(out)
    /\ \A c \in Core : share[c].size > 0 =>
         share[c].off = SumFunctionOnSet([d \in Core |-> share[d].size], 0..c-1)

(* "apply a barrier before deinit to make sure no one is using output_"    *)
(* (psrs.hh:252): no core finds output_ already reset when it reads the    *)
(* size of it.                                                             *)
OutputAliveWhileUsed == ~Crashed

(* "Sort the elements of an array of collections." (psrs.hh:175): the      *)
(* whole output is sorted, not only each core's part of it.                *)
OutputIsSorted == Returned => IsSorted(out, <=)
=============================================================================
