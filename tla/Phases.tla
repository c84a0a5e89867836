------------------------------- MODULE Phases -------------------------------
(***************************************************************************)
(* The shape that graph construction, shortest paths and validation have   *)
(* in common (csr_reference.c, sssp_reference.c, validate.c): each process *)
(* registers a handler under number 1, goes through a list of sends,       *)
(* enters aml_barrier and perhaps a reduction.  pc[p] is a place in the    *)
(* program and, inside aml_register_handler, how far that has come.        *)
(***************************************************************************)
EXTENDS Kernel, Integers, SequencesExt, FiniteSetsExt

VARIABLES
  pc,
  hndl,   \* hndl[p]: aml_handlers[1]
  todo    \* todo[p]: the sends that p's loop over edges has yet to make

phaseVars == <<amVars, contrib, pc, hndl, todo>>

At(p, where) == pc[p] = <<where, 0>>
Goto(p, where) == pc' = [pc EXCEPT ![p] = <<where, 0>>]

PhasesInit(start) ==
  /\ AMInit
  /\ contrib = [p \in Proc |-> <<>>]
  /\ pc = [p \in Proc |-> <<start, 0>>]
  /\ hndl = [p \in Proc |-> "none"]
  /\ todo = [p \in Proc |-> <<>>]

(* A step of p alone, neither sending nor in the library. *)
Locally(p, where) == Goto(p, where) /\ UNCHANGED <<amVars, contrib, hndl, todo>>

(* The call of aml_register_handler and its first barrier ... *)
CallRegister(p, where) ==
  /\ pc' = [pc EXCEPT ![p] = <<where, 1>>]
  /\ Enter(p)
  /\ UNCHANGED <<contrib, hndl, todo>>

(* ... the handler is set on leaving it, and the second one entered. *)
aml_register_handler(p, where, h) ==
  /\ \/ /\ pc[p] = <<where, 1>> /\ Leave(p)
        /\ hndl' = [hndl EXCEPT ![p] = h]
     \/ pc[p] = <<where, 2>> /\ Enter(p) /\ UNCHANGED hndl
  /\ pc' = [pc EXCEPT ![p][2] = @ + 1]
  /\ UNCHANGED <<contrib, todo>>

(* aml_register_handler returns; a list of sends begins. *)
Registered(p, where, next, list) ==
  /\ pc[p] = <<where, 3>> /\ Leave(p)
  /\ Goto(p, next)
  /\ todo' = [todo EXCEPT ![p] = list]
  /\ UNCHANGED <<contrib, hndl>>

(* The next message of the list goes out. *)
Message(p, dst, data) == [src |-> p, dst |-> dst, e |-> epoch[p], n |-> Len(todo[p])] @@ data

aml_send(p, m) ==
  /\ Send(m) \/ SendSelf(m)
  /\ todo' = [todo EXCEPT ![p] = Tail(@)]
  /\ UNCHANGED <<contrib, pc, hndl>>

EnterBarrier(p, next) == Enter(p) /\ Goto(p, next) /\ UNCHANGED <<contrib, hndl, todo>>

LeaveBarrier(p, where, next, list) ==
  /\ At(p, where) /\ Leave(p)
  /\ Goto(p, next)
  /\ todo' = [todo EXCEPT ![p] = list]
  /\ UNCHANGED hndl

(* Between the call of a reduction and its return nothing else happens on  *)
(* the process.                                                            *)
CallReduction(p, x, next) == Contribute(p, x) /\ Goto(p, next)
InReduction(p, where) == At(p, where) /\ Reduced(p)
AllMax(p) == Max({Contributions(p)[q] : q \in Proc})

(* A handler runs on p only inside aml_send or aml_barrier.                *)
Polls(p) == todo[p] # <<>> \/ inbar[p]
Receive(m) == Polls(m.dst) /\ Handle(m) /\ UNCHANGED <<contrib, pc, hndl, todo>>

-----------------------------------------------------------------------------
(* Handler number 1 means something else in each phase.  Whenever a        *)
(* message can be handled, the handler registered at its destination is    *)
(* the one it was sent for: the barriers of aml_register_handler are       *)
(* enough although no message carries its type.                            *)
HandlerMatches ==
  \A m \in net : m.e <= epoch[m.dst] => m.kind = hndl[m.dst]
=============================================================================
