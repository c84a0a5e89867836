----------------------------- MODULE AmlBuffers -----------------------------
(***************************************************************************)
(* The send buffers of one layer of graph500/aml/aml.c, in one process.    *)
(*                                                                         *)
(* Npeer + Nsend buffers of Aggr bytes are allocated.  nbuf names the one  *)
(* in which the messages to a peer are collected, activebuf the one handed *)
(* to MPI with a send request.  A flush hands the peer's buffer over and   *)
(* takes the request's earlier one in exchange, without copying; MPI reads *)
(* a buffer until its request completes.                                   *)
(***************************************************************************)
EXTENDS Integers

CONSTANTS
  Npeer,      \* num_groups or group_size
  Nsend,      \* NSEND or NSEND_intra
  Aggr,       \* AGGR or AGGR_intra: bytes of a buffer
  Hdr,        \* sizeof(struct hdr) or sizeof(struct hdri)
  MaxLen      \* the longest message sent

ASSUME BuffersAssumption ==
  /\ Npeer \in Nat /\ Nsend \in Nat /\ Aggr \in Nat /\ Hdr \in Nat /\ MaxLen \in Nat
  /\ MaxLen + Hdr <= Aggr

Peer == 0..Npeer-1
Request == 0..Nsend-1
Buffer == 0..Npeer+Nsend-1

VARIABLES
  nbuf,       \* nbuf[x]: the buffer that collects the messages to x
  activebuf,  \* activebuf[i]: the buffer exchanged at the last use of request i
  sendsize,   \* sendsize[x]: bytes collected for x
  inflight,   \* inflight[i]: MPI may still read for request i
  reading     \* reading[i]: the buffer MPI was given with request i

vars == <<nbuf, activebuf, sendsize, inflight, reading>>

(* The end of aml_init: the first requests send nothing to MPI_PROC_NULL. *)
Init ==
  /\ nbuf = [x \in Peer |-> x]
  /\ activebuf = [i \in Request |-> Npeer + i]
  /\ sendsize = [x \in Peer |-> 0]
  /\ inflight = [i \in Request |-> FALSE]
  /\ reading = [i \in Request |-> Npeer + i]

(* Mutant: the peer keeps the buffer it has handed to MPI. *)
exchange_dropped(x, i) ==
  /\ ~inflight[i]
  /\ inflight' = [inflight EXCEPT ![i] = TRUE]
  /\ reading' = [reading EXCEPT ![i] = nbuf[x]]
  /\ activebuf' = [activebuf EXCEPT ![i] = nbuf[x]]
  /\ UNCHANGED nbuf

(* flush_buffer with the completed request i: MPI_Isend and the swap. *)
exchange(x, i) ==
  /\ ~inflight[i]
  /\ inflight' = [inflight EXCEPT ![i] = TRUE]
  /\ reading' = [reading EXCEPT ![i] = nbuf[x]]
  /\ activebuf' = [activebuf EXCEPT ![i] = nbuf[x]]
  /\ nbuf' = [nbuf EXCEPT ![x] = activebuf[i]]

(* A flush in aml_barrier, also of a buffer with delayed acknowledgements *)
(* only.                                                                  *)
flush_buffer(x, i) ==
  /\ exchange(x, i)
  /\ sendsize' = [sendsize EXCEPT ![x] = 0]

(* Mutant: the bytes of the header are not counted in nmax. *)
fits_headerless(x, length) == Aggr - sendsize[x] >= length

fits(x, length) == Aggr - sendsize[x] - Hdr >= length

(* aml_send and aml_send_intra: append the message, after a flush when it *)
(* does not fit.                                                          *)
append(x, length) ==
  /\ fits(x, length)
  /\ sendsize' = [sendsize EXCEPT ![x] = @ + length + Hdr]
  /\ UNCHANGED <<nbuf, activebuf, inflight, reading>>

flush_append(x, length, i) ==
  /\ ~fits(x, length)
  /\ exchange(x, i)
  /\ sendsize' = [sendsize EXCEPT ![x] = length + Hdr]

(* MPI has sent the bytes of request i. *)
complete(i) ==
  /\ inflight[i]
  /\ inflight' = [inflight EXCEPT ![i] = FALSE]
  /\ UNCHANGED <<nbuf, activebuf, sendsize, reading>>

Next ==
  \/ \E x \in Peer, i \in Request : flush_buffer(x, i)
  \/ \E x \in Peer, length \in 1..MaxLen : append(x, length)
  \/ \E x \in Peer, length \in 1..MaxLen, i \in Request : flush_append(x, length, i)
  \/ \E i \in Request : complete(i)

Spec == Init /\ [][Next]_vars

-----------------------------------------------------------------------------
TypeOK ==
  /\ nbuf \in [Peer -> Buffer]
  /\ activebuf \in [Request -> Buffer]
  /\ sendsize \in [Peer -> 0..Aggr]
  /\ inflight \in [Request -> BOOLEAN]
  /\ reading \in [Request -> Buffer]

(* The buffer in which messages to a peer are collected is neither another *)
(* peer's nor one that MPI may still be reading: however the swaps of      *)
(* flush_buffer have permuted the buffers, aml_send's memcpy writes into   *)
(* no packet under way.                                                    *)
WritesNoPacket ==
  \A x \in Peer :
    /\ \A y \in Peer : nbuf[x] = nbuf[y] => x = y
    /\ \A i \in Request : inflight[i] => nbuf[x] # reading[i]

(* The inductive strengthening: nbuf and activebuf together are one-to-one *)
(* and a request under way reads its activebuf.                            *)
BuffersInv ==
  /\ TypeOK
  /\ \A x, y \in Peer : nbuf[x] = nbuf[y] => x = y
  /\ \A i, j \in Request : activebuf[i] = activebuf[j] => i = j
  /\ \A x \in Peer, i \in Request : nbuf[x] # activebuf[i]
  /\ \A i \in Request : inflight[i] => reading[i] = activebuf[i]
=============================================================================
