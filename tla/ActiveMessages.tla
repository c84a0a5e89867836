--------------------------- MODULE ActiveMessages ---------------------------
(***************************************************************************)
(* What graph500's active-message library (graph500/aml) promises to the   *)
(* programs built on it, whatever its transport does: a process sends      *)
(* messages, each runs one handler at its destination, and nobody leaves   *)
(* an aml_barrier before every message sent ahead of it has run.           *)
(*                                                                         *)
(* The library's comment (aml.h) asks for a "barrier which ensures that    *)
(* all AM sent before the barrier are completed everywhere after the       *)
(* barrier".  Aml.tla is the transport that implements this module.        *)
(***************************************************************************)
EXTENDS Naturals

CONSTANTS
  Proc,       \* the processes (MPI ranks)
  Messages    \* the messages that may be sent: records with src, dst, e, n

(***************************************************************************)
(* A message carries its sender src, its destination dst, the epoch e in   *)
(* which it is sent (the number of barriers its sender has left) and a     *)
(* number n that tells apart the messages of one sender and epoch.         *)
(***************************************************************************)
ASSUME MessagesAssumption ==
  \A m \in Messages : m.src \in Proc /\ m.dst \in Proc /\ m.e \in Nat

VARIABLES
  epoch,      \* epoch[p]: how many barriers p has left
  inbar,      \* inbar[p]: p is inside aml_barrier
  net,        \* the messages sent whose handler has not run yet
  handled     \* the messages whose handler has run

amVars == <<epoch, inbar, net, handled>>

AMTypeOK ==
  /\ epoch \in [Proc -> Nat]
  /\ inbar \in [Proc -> BOOLEAN]
  /\ net \subseteq Messages
  /\ handled \subseteq Messages

AMInit ==
  /\ epoch = [p \in Proc |-> 0]
  /\ inbar = [p \in Proc |-> FALSE]
  /\ net = {}
  /\ handled = {}

(* aml_send to another process: the message is under way. *)
Send(m) ==
  /\ ~inbar[m.src]
  /\ m.e = epoch[m.src]
  /\ m \notin net \cup handled
  /\ m.src # m.dst
  /\ net' = net \cup {m}
  /\ UNCHANGED <<epoch, inbar, handled>>

(* aml_send to oneself calls the handler at once. *)
SendSelf(m) ==
  /\ ~inbar[m.src]
  /\ m.e = epoch[m.src]
  /\ m \notin net \cup handled
  /\ m.src = m.dst
  /\ handled' = handled \cup {m}
  /\ UNCHANGED <<epoch, inbar, net>>

(* The library, called by the destination, runs the handler of a message.  *)
(* A message that comes from beyond the barrier waits until the destination *)
(* has left the barrier too.                                               *)
Handle(m) ==
  /\ m \in net
  /\ m.e <= epoch[m.dst]
  /\ net' = net \ {m}
  /\ handled' = handled \cup {m}
  /\ UNCHANGED <<epoch, inbar>>

Enter(p) ==
  /\ ~inbar[p]
  /\ inbar' = [inbar EXCEPT ![p] = TRUE]
  /\ UNCHANGED <<epoch, net, handled>>

(* q has called the barrier that ends epoch e, or a later one. *)
HasEntered(q, e) == epoch[q] > e \/ (epoch[q] = e /\ inbar[q])

(* Mutant: the messages under way are not waited for. *)
Leave_undrained(p) ==
  /\ inbar[p]
  /\ \A q \in Proc : HasEntered(q, epoch[p])
  /\ epoch' = [epoch EXCEPT ![p] = @ + 1]
  /\ inbar' = [inbar EXCEPT ![p] = FALSE]
  /\ UNCHANGED <<net, handled>>

Leave(p) ==
  /\ inbar[p]
  /\ \A q \in Proc : HasEntered(q, epoch[p])
  /\ \A m \in net : m.e > epoch[p]
  /\ epoch' = [epoch EXCEPT ![p] = @ + 1]
  /\ inbar' = [inbar EXCEPT ![p] = FALSE]
  /\ UNCHANGED <<net, handled>>

AMNext ==
  \/ \E m \in Messages : Send(m) \/ SendSelf(m) \/ Handle(m)
  \/ \E p \in Proc : Enter(p) \/ Leave(p)

AMSpec == AMInit /\ [][AMNext]_amVars

-----------------------------------------------------------------------------
(* aml_barrier's promise: once any process has left the barrier that ends  *)
(* epoch e, the handlers of all messages sent in epoch e or before, by     *)
(* anybody to anybody, have run.                                           *)
BarrierCompletes ==
  \A m \in net : \A p \in Proc : epoch[p] <= m.e

(* aml_barrier is a barrier: no process is more than one barrier ahead of  *)
(* another, and one that is ahead finds the other inside the barrier.      *)
BarrierSeparates ==
  \A p, q \in Proc : epoch[p] > epoch[q] => epoch[p] = epoch[q] + 1 /\ inbar[q]
=============================================================================
