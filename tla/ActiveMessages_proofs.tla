----------------------- MODULE ActiveMessages_proofs ------------------------
(* The barrier of the active-message service, for any processes and any     *)
(* messages.                                                                *)
EXTENDS ActiveMessages, TLAPS

(* BarrierSeparates is what makes BarrierCompletes inductive: a message is  *)
(* sent in its sender's epoch, and it is in nobody's past only because      *)
(* nobody is ahead of a process that is outside the barrier.                *)
AMInv == AMTypeOK /\ BarrierSeparates /\ BarrierCompletes

LEMMA AMInitInv == AMInit => AMInv
  BY DEF AMInit, AMInv, AMTypeOK, BarrierSeparates, BarrierCompletes

(* aml_send: a process outside the barrier is nowhere behind, so the new    *)
(* message is not late for anybody.                                         *)
LEMMA SendKeeps ==
  ASSUME AMInv, NEW m \in Messages, Send(m)
  PROVE  AMInv'
  <1> USE MessagesAssumption
  <1>1. AMTypeOK' /\ BarrierSeparates'
    BY DEF Send, AMInv, AMTypeOK, BarrierSeparates
  <1>2. \A p \in Proc : epoch[p] <= m.e
    BY DEF Send, AMInv, AMTypeOK, BarrierSeparates
  <1>3. BarrierCompletes'
    BY <1>2 DEF Send, AMInv, BarrierCompletes
  <1> QED
    BY <1>1, <1>3 DEF AMInv

(* Leaving aml_barrier: everybody has called it, and nothing that was sent  *)
(* before is left.                                                          *)
LEMMA LeaveKeeps ==
  ASSUME AMInv, NEW p \in Proc, Leave(p)
  PROVE  AMInv'
  <1> USE MessagesAssumption
  <1>1. AMTypeOK'
    BY DEF Leave, AMInv, AMTypeOK
  <1>2. ASSUME NEW r \in Proc, NEW q \in Proc, epoch'[r] > epoch'[q]
        PROVE  epoch'[r] = epoch'[q] + 1 /\ inbar'[q]
    <2>1. epoch[q] > epoch[p] \/ (epoch[q] = epoch[p] /\ inbar[q])
      BY DEF Leave, HasEntered
    <2>2. CASE q = p
      <3>1. epoch[r] > epoch[p] + 1
        BY <1>2, <2>2 DEF Leave, AMInv, AMTypeOK
      <3> QED
        BY <3>1 DEF AMInv, AMTypeOK, BarrierSeparates
    <2>3. CASE q # p /\ r = p
      BY <1>2, <2>1, <2>3 DEF Leave, AMInv, AMTypeOK, BarrierSeparates
    <2>4. CASE q # p /\ r # p
      BY <1>2, <2>4 DEF Leave, AMInv, AMTypeOK, BarrierSeparates
    <2> QED
      BY <2>2, <2>3, <2>4
  <1>3. BarrierSeparates'
    BY <1>2 DEF BarrierSeparates
  <1>4. BarrierCompletes'
    BY DEF Leave, AMInv, AMTypeOK, BarrierCompletes
  <1> QED
    BY <1>1, <1>3, <1>4 DEF AMInv

(* Every step of the service keeps the invariant. *)
LEMMA AMNextKeeps == AMInv /\ [AMNext]_amVars => AMInv'
  <1> SUFFICES ASSUME AMInv, [AMNext]_amVars
               PROVE  AMInv'
    OBVIOUS
  <1>1. ASSUME NEW m \in Messages, SendSelf(m)
        PROVE  AMInv'
    BY <1>1 DEF SendSelf, AMInv, AMTypeOK, BarrierSeparates, BarrierCompletes
  <1>2. ASSUME NEW m \in Messages, Handle(m)
        PROVE  AMInv'
    BY <1>2 DEF Handle, AMInv, AMTypeOK, BarrierSeparates, BarrierCompletes
  <1>3. ASSUME NEW p \in Proc, Enter(p)
        PROVE  AMInv'
    BY <1>3 DEF Enter, AMInv, AMTypeOK, BarrierSeparates, BarrierCompletes
  <1>4. CASE UNCHANGED amVars
    BY <1>4 DEF amVars, AMInv, AMTypeOK, BarrierSeparates, BarrierCompletes
  <1> QED
    BY <1>1, <1>2, <1>3, <1>4, SendKeeps, LeaveKeeps DEF AMNext

LEMMA AMInvariant == AMSpec => []AMInv
  BY AMInitInv, AMNextKeeps, PTL DEF AMSpec

(* aml_barrier's contract: after any process has left a barrier, no message *)
(* sent before it, by anybody, still waits for its handler.                 *)
THEOREM BarrierContract == AMSpec => []BarrierCompletes
  <1>1. AMInv => BarrierCompletes
    BY DEF AMInv
  <1> QED
    BY <1>1, AMInvariant, PTL

(* aml_barrier separates epochs: processes are never two barriers apart.    *)
THEOREM BarrierIsBarrier == AMSpec => []BarrierSeparates
  <1>1. AMInv => BarrierSeparates
    BY DEF AMInv
  <1> QED
    BY <1>1, AMInvariant, PTL
=============================================================================
