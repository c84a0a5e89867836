------------------------- MODULE AmlBuffers_proofs --------------------------
(* For every number of peers and requests and every size of buffer and      *)
(* header, aml_send never writes outside a buffer or into a packet that MPI *)
(* is sending.                                                              *)
EXTENDS AmlBuffers, TLAPS

(* aml_init sets up pairwise distinct buffers. *)
LEMMA InitEstablishes == Init => BuffersInv
  BY BuffersAssumption, SMT DEF Init, BuffersInv, TypeOK, Peer, Request, Buffer

(* The swap at the end of flush_buffer keeps nbuf and activebuf together a *)
(* one-to-one map into the buffers, whatever is done to sendsize.          *)
LEMMA ExchangeKeepsDistinct ==
  ASSUME BuffersInv, NEW x \in Peer, NEW i \in Request, exchange(x, i),
         sendsize' \in [Peer -> 0..Aggr]
  PROVE  BuffersInv'
  <1>1. TypeOK'
    BY BuffersAssumption DEF BuffersInv, TypeOK, exchange
  <1>2. \A y, z \in Peer : nbuf'[y] = nbuf'[z] => y = z
    BY DEF BuffersInv, TypeOK, exchange
  <1>3. \A j, k \in Request : activebuf'[j] = activebuf'[k] => j = k
    BY DEF BuffersInv, TypeOK, exchange
  <1>4. \A y \in Peer, j \in Request : nbuf'[y] # activebuf'[j]
    BY DEF BuffersInv, TypeOK, exchange
  <1>5. \A j \in Request : inflight'[j] => reading'[j] = activebuf'[j]
    BY DEF BuffersInv, TypeOK, exchange
  <1> QED
    BY <1>1, <1>2, <1>3, <1>4, <1>5 DEF BuffersInv

(* Every step of aml_send, of a flush and of MPI keeps the invariant. *)
LEMMA NextPreserves == BuffersInv /\ [Next]_vars => BuffersInv'
  <1> SUFFICES ASSUME BuffersInv, [Next]_vars
               PROVE  BuffersInv'
    OBVIOUS
  <1> USE BuffersAssumption
  <1>1. ASSUME NEW x \in Peer, NEW i \in Request, flush_buffer(x, i)
        PROVE  BuffersInv'
    <2>1. sendsize' \in [Peer -> 0..Aggr]
      BY <1>1 DEF flush_buffer, BuffersInv, TypeOK
    <2> QED
      BY <1>1, <2>1, ExchangeKeepsDistinct DEF flush_buffer
  <1>2. ASSUME NEW x \in Peer, NEW length \in 1..MaxLen, append(x, length)
        PROVE  BuffersInv'
    <2>1. sendsize' \in [Peer -> 0..Aggr]
      BY <1>2 DEF append, fits, BuffersInv, TypeOK
    <2> QED
      BY <1>2, <2>1 DEF append, BuffersInv, TypeOK
  <1>3. ASSUME NEW x \in Peer, NEW length \in 1..MaxLen, NEW i \in Request,
               flush_append(x, length, i)
        PROVE  BuffersInv'
    <2>1. sendsize' \in [Peer -> 0..Aggr]
      BY <1>3 DEF flush_append, BuffersInv, TypeOK
    <2> QED
      BY <1>3, <2>1, ExchangeKeepsDistinct DEF flush_append
  <1>4. ASSUME NEW i \in Request, complete(i)
        PROVE  BuffersInv'
    BY <1>4 DEF complete, BuffersInv, TypeOK
  <1>5. CASE UNCHANGED vars
    BY <1>5 DEF vars, BuffersInv, TypeOK
  <1> QED
    BY <1>1, <1>2, <1>3, <1>4, <1>5 DEF Next

(* The invariant implies the property the run checks. *)
LEMMA InvImpliesSafe == BuffersInv => WritesNoPacket
  BY DEF BuffersInv, WritesNoPacket

(* The sizes stay within the buffers: memcpy writes at most AGGR bytes. *)
THEOREM BuffersTypeCorrect == Spec => []TypeOK
  <1>1. BuffersInv => TypeOK
    BY DEF BuffersInv
  <1> QED
    BY <1>1, InitEstablishes, NextPreserves, PTL DEF Spec

(* aml_send's memcpy never writes into another peer's buffer or into one   *)
(* that MPI may still read, for any numbers of peers and of requests.      *)
THEOREM BuffersSafe == Spec => []WritesNoPacket
  BY InvImpliesSafe, InitEstablishes, NextPreserves, PTL DEF Spec
=============================================================================
