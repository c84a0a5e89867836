------------------------------ MODULE Barrier -------------------------------
(***************************************************************************)
(* What a barrier of the cores promises: nobody leaves its n-th call       *)
(* before everybody has made it.  CpuBarrier.tla shows that                *)
(* psrs::cpu_barrier implements it; Psrs.tla is built on it.               *)
(***************************************************************************)
EXTENDS Naturals

CONSTANTS Core, Calls     \* the cores; bound: how often each calls the barrier

ASSUME CallsAssumption == Calls \in Nat

VARIABLES
  passed,     \* passed[c]: the calls c has returned from
  inside      \* inside[c]: c is in a call

barrierVars == <<passed, inside>>

BInit == passed = [c \in Core |-> 0] /\ inside = [c \in Core |-> FALSE]

Enter(c) ==
  /\ ~inside[c] /\ passed[c] < Calls
  /\ inside' = [inside EXCEPT ![c] = TRUE]
  /\ UNCHANGED passed

(* d has made the call that c is in. *)
Arrived(d, c) == passed[d] > passed[c] \/ (passed[d] = passed[c] /\ inside[d])

Leave(c) ==
  /\ inside[c] /\ \A d \in Core : Arrived(d, c)
  /\ inside' = [inside EXCEPT ![c] = FALSE]
  /\ passed' = [passed EXCEPT ![c] = @ + 1]

BNext == \E c \in Core : Enter(c) \/ Leave(c)

BSpec == BInit /\ [][BNext]_barrierVars
=============================================================================
