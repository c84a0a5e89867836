----------------------------- MODULE CpuBarrier -----------------------------
(***************************************************************************)
(* psrs::cpu_barrier of Metis/lib/psrs.hh.  The main core raises status_   *)
(* to START, waits for the ready_ flag of every other core, lowers status_ *)
(* to STOP and waits until every flag is down again; the other cores       *)
(* follow.  All the waits are spins on volatile variables.                 *)
(*                                                                         *)
(* A loop of the main core over the flags is one step that waits for all   *)
(* of them: a flag it has passed cannot change back before status_ does.   *)
(***************************************************************************)
EXTENDS Naturals

CONSTANTS
  Core,       \* 0..ncore-1
  main_core,
  Calls       \* bound: how often each core calls cpu_barrier

ASSUME CoreAssumption == main_core \in Core /\ Calls \in Nat

Worker == Core \ {main_core}

VARIABLES
  status_,    \* "START" or "STOP"
  ready_,     \* ready_[c]
  at,         \* at[c]: outside the call, or the spin c is at
  passed      \* history: the calls c has returned from

vars == <<status_, ready_, at, passed>>

Init ==
  /\ status_ = "STOP"
  /\ ready_ = [c \in Core |-> FALSE]
  /\ at = [c \in Core |-> "out"]
  /\ passed = [c \in Core |-> 0]

call(c) ==
  /\ at[c] = "out" /\ passed[c] < Calls
  /\ at' = [at EXCEPT ![c] = "first"]
  /\ status_' = IF c = main_core THEN "START" ELSE status_
  /\ UNCHANGED <<ready_, passed>>

(* A core other than the main one sees START. *)
worker_ready(c) ==
  /\ c # main_core /\ at[c] = "first" /\ status_ = "START"
  /\ ready_' = [ready_ EXCEPT ![c] = TRUE]
  /\ at' = [at EXCEPT ![c] = "second"]
  /\ UNCHANGED <<status_, passed>>

(* It sees STOP and returns. *)
worker_return(c) ==
  /\ c # main_core /\ at[c] = "second" /\ status_ = "STOP"
  /\ ready_' = [ready_ EXCEPT ![c] = FALSE]
  /\ at' = [at EXCEPT ![c] = "out"]
  /\ passed' = [passed EXCEPT ![c] = @ + 1]
  /\ UNCHANGED status_

(* Mutant: the main core does not wait for the other cores. *)
main_stop_early(c) ==
  /\ c = main_core /\ at[c] = "first"
  /\ status_' = "STOP"
  /\ at' = [at EXCEPT ![c] = "second"]
  /\ UNCHANGED <<ready_, passed>>

(* The main core has seen every flag raised. *)
main_stop(c) ==
  /\ c = main_core /\ at[c] = "first" /\ \A d \in Worker : ready_[d]
  /\ status_' = "STOP"
  /\ at' = [at EXCEPT ![c] = "second"]
  /\ UNCHANGED <<ready_, passed>>

(* Mutant: the second loop of the main core is left out. *)
main_return_early(c) ==
  /\ c = main_core /\ at[c] = "second"
  /\ at' = [at EXCEPT ![c] = "out"]
  /\ passed' = [passed EXCEPT ![c] = @ + 1]
  /\ UNCHANGED <<status_, ready_>>

(* It has seen every flag down and returns. *)
main_return(c) ==
  /\ c = main_core /\ at[c] = "second" /\ \A d \in Worker : ~ready_[d]
  /\ at' = [at EXCEPT ![c] = "out"]
  /\ passed' = [passed EXCEPT ![c] = @ + 1]
  /\ UNCHANGED <<status_, ready_>>

Step(c) ==
  call(c) \/ worker_ready(c) \/ worker_return(c) \/ main_stop(c) \/ main_return(c)

(* Every core has made all its calls. *)
Done == (\A c \in Core : passed[c] = Calls) /\ UNCHANGED vars

Next == (\E c \in Core : Step(c)) \/ Done

Spec == Init /\ [][Next]_vars

(* The threads are pinned to their cores and all of them run. *)
FairSpec == Spec /\ \A c \in Core : WF_vars(Step(c))

-----------------------------------------------------------------------------
TypeOK ==
  /\ status_ \in {"START", "STOP"}
  /\ ready_ \in [Core -> BOOLEAN]
  /\ at \in [Core -> {"out", "first", "second"}]
  /\ passed \in [Core -> Nat]

(* cpu_barrier is a barrier: no core returns from a call that another core *)
(* has not made yet, whatever spins the two are at.                        *)
B == INSTANCE Barrier WITH inside <- [c \in Core |-> at[c] # "out"]
IsBarrier == B!BSpec

(* The flags can be used again at once: every core gets through all its    *)
(* calls, none is left spinning on a value that has come and gone.         *)
AllReturn == <>(\A c \in Core : passed[c] = Calls)

(* Where the cores can be relative to the main core m: before START they   *)
(* have all left the previous call; while status_ is START their flags say *)
(* who has arrived; after STOP the flags say who has not left.             *)
BarrierInv ==
  LET m == main_core
  IN /\ TypeOK
     /\ ~ready_[m]
     /\ \A c \in Core : at[c] = "out" => passed[c] <= Calls
     /\ \A c \in Core : at[c] # "out" => passed[c] < Calls
     /\ \A c \in Worker : ready_[c] <=> at[c] = "second"
     /\ (status_ = "START") <=> (at[m] = "first")
     /\ at[m] \in {"out", "first"} => \A c \in Worker : passed[c] = passed[m]
     /\ at[m] = "out" => \A c \in Worker : at[c] \in {"out", "first"}
     /\ at[m] = "second" =>
          \A c \in Worker :
            IF ready_[c] THEN passed[c] = passed[m] ELSE passed[c] = passed[m] + 1
=============================================================================
