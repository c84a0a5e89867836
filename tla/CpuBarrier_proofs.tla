------------------------- MODULE CpuBarrier_proofs --------------------------
(* psrs::cpu_barrier implements the abstract barrier for any set of cores   *)
(* and any number of calls.                                                 *)
EXTENDS CpuBarrier, TLAPS

LEMMA InitInv == Init => BarrierInv
  BY CoreAssumption DEF Init, BarrierInv, TypeOK, Worker

(* Every step of a core in cpu_barrier keeps the handshake's invariant. *)
LEMMA StepInv ==
  ASSUME BarrierInv, NEW c \in Core, Step(c)
  PROVE  BarrierInv'
  <1> USE CoreAssumption DEF BarrierInv, TypeOK, Worker
  <1>1. CASE call(c) /\ c = main_core
    BY <1>1 DEF call
  <1>2. CASE call(c) /\ c # main_core
    BY <1>2 DEF call
  <1>3. CASE worker_ready(c)
    BY <1>3 DEF worker_ready
  <1>4. CASE worker_return(c)
    BY <1>4 DEF worker_return
  <1>5. CASE main_stop(c)
    BY <1>5 DEF main_stop
  <1>6. CASE main_return(c)
    BY <1>6 DEF main_return
  <1> QED
    BY <1>1, <1>2, <1>3, <1>4, <1>5, <1>6 DEF Step

LEMMA NextInv == BarrierInv /\ [Next]_vars => BarrierInv'
  <1> SUFFICES ASSUME BarrierInv, [Next]_vars
               PROVE  BarrierInv'
    OBVIOUS
  <1>1. CASE UNCHANGED vars
    BY <1>1 DEF vars, BarrierInv, TypeOK
  <1> QED
    BY <1>1, StepInv DEF Next, Done

(* The flags and status_ always tell where every core is in the barrier: a *)
(* raised flag belongs to a core that waits for STOP, and before START     *)
(* every core has returned from the previous call.                         *)
THEOREM HandshakeInvariant == Spec => []BarrierInv
  BY InitInv, NextInv, PTL DEF Spec

(* A core that sees STOP, or the main core that sees all flags down, knows *)
(* that every core has made the call it is about to leave.                 *)
LEMMA ReturnIsLeave ==
  ASSUME BarrierInv, NEW c \in Core, worker_return(c) \/ main_return(c)
  PROVE  B!Leave(c)
  <1> USE CoreAssumption DEF BarrierInv, TypeOK, Worker
  <1>1. ASSUME NEW d \in Core
        PROVE  passed[d] > passed[c] \/ (passed[d] = passed[c] /\ at[d] # "out")
    <2>1. CASE worker_return(c)
      BY <2>1 DEF worker_return
    <2>2. CASE main_return(c)
      BY <2>2 DEF main_return
    <2> QED
      BY <2>1, <2>2
  <1>2. \A d \in Core : B!Arrived(d, c)
    BY <1>1 DEF B!Arrived
  <1>3. /\ at[c] # "out"
        /\ at' = [at EXCEPT ![c] = "out"]
        /\ passed' = [passed EXCEPT ![c] = @ + 1]
    BY DEF worker_return, main_return
  <1> QED
    BY <1>2, <1>3 DEF B!Leave

(* Each step of cpu_barrier is a step of the abstract barrier or none. *)
LEMMA StepRefines ==
  ASSUME BarrierInv, [Next]_vars
  PROVE  [B!BNext]_(B!barrierVars)
  <1> USE DEF BarrierInv, TypeOK
  <1>1. ASSUME NEW c \in Core, call(c)
        PROVE  B!Enter(c)
    BY <1>1 DEF call, B!Enter
  <1>2. ASSUME NEW c \in Core, worker_ready(c) \/ main_stop(c)
        PROVE  UNCHANGED B!barrierVars
    <2>1. passed' = passed /\ at' = [at EXCEPT ![c] = "second"] /\ at[c] # "out"
      BY <1>2 DEF worker_ready, main_stop
    <2>2. [d \in Core |-> at'[d] # "out"] = [d \in Core |-> at[d] # "out"]
      BY <2>1
    <2> QED
      BY <2>1, <2>2 DEF B!barrierVars
  <1>3. CASE UNCHANGED vars
    BY <1>3 DEF vars, B!barrierVars
  <1> QED
    BY <1>1, <1>2, <1>3, ReturnIsLeave DEF Next, Step, Done, B!BNext

(* psrs::cpu_barrier is a barrier: no core returns from a call before all  *)
(* cores have made it, and this holds call after call.                     *)
THEOREM CpuBarrierIsBarrier == Spec => IsBarrier
  <1>1. Init => B!BInit
    BY DEF Init, B!BInit
  <1> QED
    BY <1>1, StepRefines, HandshakeInvariant, PTL DEF Spec, IsBarrier, B!BSpec
=============================================================================
