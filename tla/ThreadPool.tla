----------------------------- MODULE ThreadPool -----------------------------
(***************************************************************************)
(* The thread pool of Metis/lib/pthreadpool.cc and run_phase of            *)
(* Metis/lib/application.cc, its only user.  One thread is pinned to each  *)
(* core.  The main core hands a task to another core through the volatile  *)
(* fields of athread_type, with spins and no locks.                        *)
(*                                                                         *)
(* A task is named by the round of run_phase it belongs to; what it does   *)
(* is left to the modules that extend this one.                            *)
(***************************************************************************)
EXTENDS Naturals

CONSTANT ncore_     \* the main core is 0, the others are 1..ncore_-1

ASSUME PoolAssumption == ncore_ \in Nat \ {0}

Core == 0..ncore_-1
main_core == 0
Worker == 1..ncore_-1
ExitTask == 0       \* the round that stands for mthread_exit

VARIABLES
  a_,         \* a_[c]: the task written by set_task
  pending_,   \* pending_[c]
  running_,   \* running_[c]
  wpc,        \* wpc[c]: where the thread of core c is in run_next_task
  job,        \* job[c]: the task c has called
  round,      \* the rounds of run_phase the main core has begun
  mpc,        \* where the main core is
  i,          \* its loop index
  tp_created_,
  finished    \* history: finished[c], the last task c has finished

poolVars == <<a_, pending_, running_, wpc, job, round, mpc, i, tp_created_, finished>>

PoolInit ==
  /\ a_ = [c \in Core |-> 0]
  /\ pending_ = [c \in Core |-> FALSE]
  /\ running_ = [c \in Core |-> FALSE]
  /\ wpc = [c \in Core |-> "none"]
  /\ job = [c \in Core |-> 0]
  /\ round = 0
  /\ mpc = "app"
  /\ i = 0
  /\ tp_created_ = FALSE
  /\ finished = [c \in Core |-> 0]

-----------------------------------------------------------------------------
(* athread_type::run_next_task on core c.                                  *)

(* Mutant: running_ is not raised. *)
claim_unmarked(c) ==
  /\ wpc[c] = "spin" /\ pending_[c]
  /\ wpc' = [wpc EXCEPT ![c] = "claimed"]
  /\ UNCHANGED <<a_, pending_, running_, job, round, mpc, i, tp_created_, finished>>

claim(c) ==
  /\ wpc[c] = "spin" /\ pending_[c]
  /\ running_' = [running_ EXCEPT ![c] = TRUE]
  /\ wpc' = [wpc EXCEPT ![c] = "claimed"]
  /\ UNCHANGED <<a_, pending_, job, round, mpc, i, tp_created_, finished>>

accept(c) ==
  /\ wpc[c] = "claimed"
  /\ pending_' = [pending_ EXCEPT ![c] = FALSE]
  /\ wpc' = [wpc EXCEPT ![c] = "call"]
  /\ UNCHANGED <<a_, running_, job, round, mpc, i, tp_created_, finished>>

(* f_(a_): the fields are read only now.  mthread_exit ends the thread. *)
call(c) ==
  /\ wpc[c] = "call"
  /\ job' = [job EXCEPT ![c] = a_[c]]
  /\ wpc' = [wpc EXCEPT ![c] = IF a_[c] = ExitTask THEN "exited" ELSE "work"]
  /\ UNCHANGED <<a_, pending_, running_, round, mpc, i, tp_created_, finished>>

(* Mutant: running_ stays raised. *)
finish_running(c) ==
  /\ c \in Worker /\ wpc[c] = "work"
  /\ wpc' = [wpc EXCEPT ![c] = "spin"]
  /\ finished' = [finished EXCEPT ![c] = job[c]]
  /\ UNCHANGED <<a_, pending_, running_, job, round, mpc, i, tp_created_>>

(* The task returns. *)
finish(c) ==
  /\ c \in Worker /\ wpc[c] = "work"
  /\ running_' = [running_ EXCEPT ![c] = FALSE]
  /\ wpc' = [wpc EXCEPT ![c] = "spin"]
  /\ finished' = [finished EXCEPT ![c] = job[c]]
  /\ UNCHANGED <<a_, pending_, job, round, mpc, i, tp_created_>>

run_next_task(c) == c \in Worker /\ (claim(c) \/ accept(c) \/ call(c))

-----------------------------------------------------------------------------
(* The main core.                                                          *)

mthread_init ==
  /\ mpc = "app" /\ ~tp_created_
  /\ tp_created_' = TRUE
  /\ a_' = [c \in Core |-> 0]
  /\ pending_' = [c \in Core |-> FALSE]
  /\ running_' = [c \in Core |-> FALSE]
  /\ wpc' = [c \in Core |-> IF c \in Worker THEN "spin" ELSE "none"]
  /\ UNCHANGED <<job, round, mpc, i, finished>>

(* run_phase begins, or mthread_finalize: both create a task on each other *)
(* core.                                                                   *)
begin(what) ==
  /\ mpc = "app" /\ tp_created_
  /\ mpc' = what
  /\ i' = 1
  /\ round' = IF what = "create" THEN round + 1 ELSE round
  /\ UNCHANGED <<a_, pending_, running_, wpc, job, tp_created_, finished>>

(* mthread_create for another core: wait_finish, the fields ... *)
set_task ==
  /\ mpc \in {"create", "exit"} /\ i < ncore_ /\ ~running_[i]
  /\ a_' = [a_ EXCEPT ![i] = IF mpc = "exit" THEN ExitTask ELSE round]
  /\ mpc' = IF mpc = "exit" THEN "exit_pend" ELSE "pend"
  /\ UNCHANGED <<pending_, running_, wpc, job, round, i, tp_created_, finished>>

(* ... the flag ... *)
set_pending ==
  /\ mpc \in {"pend", "exit_pend"}
  /\ pending_' = [pending_ EXCEPT ![i] = TRUE]
  /\ mpc' = IF mpc = "exit_pend" THEN "exit_wait" ELSE "wait"
  /\ UNCHANGED <<a_, running_, wpc, job, round, i, tp_created_, finished>>

(* ... and wait_running. *)
wait_running ==
  /\ mpc \in {"wait", "exit_wait"} /\ ~pending_[i]
  /\ mpc' = IF mpc = "exit_wait" THEN "exit" ELSE "create"
  /\ i' = i + 1
  /\ UNCHANGED <<a_, pending_, running_, wpc, job, round, tp_created_, finished>>

(* mthread_create for the main core calls the task itself ... *)
call_own ==
  /\ mpc = "create" /\ i >= ncore_
  /\ mpc' = "own"
  /\ wpc' = [wpc EXCEPT ![main_core] = "work"]
  /\ job' = [job EXCEPT ![main_core] = round]
  /\ UNCHANGED <<a_, pending_, running_, round, i, tp_created_, finished>>

(* ... and returns when the task does. *)
return_own ==
  /\ mpc = "own" /\ wpc[main_core] = "work"
  /\ mpc' = "join"
  /\ i' = 1
  /\ wpc' = [wpc EXCEPT ![main_core] = "none"]
  /\ finished' = [finished EXCEPT ![main_core] = round]
  /\ UNCHANGED <<a_, pending_, running_, job, round, tp_created_>>

(* Mutant: the main core does not wait for the others. *)
mthread_join_unawaited ==
  /\ mpc = "join" /\ i < ncore_
  /\ i' = i + 1
  /\ UNCHANGED <<a_, pending_, running_, wpc, job, round, mpc, tp_created_, finished>>

mthread_join ==
  /\ mpc = "join" /\ i < ncore_ /\ ~running_[i]
  /\ i' = i + 1
  /\ UNCHANGED <<a_, pending_, running_, wpc, job, round, mpc, tp_created_, finished>>

(* run_phase returns. *)
phase_end ==
  /\ mpc = "join" /\ i >= ncore_
  /\ mpc' = "app"
  /\ UNCHANGED <<a_, pending_, running_, wpc, job, round, i, tp_created_, finished>>

(* mthread_finalize ends when every thread has exited. *)
finalize_end ==
  /\ mpc = "exit" /\ i >= ncore_
  /\ \A c \in Worker : wpc[c] = "exited"
  /\ mpc' = "app"
  /\ tp_created_' = FALSE
  /\ UNCHANGED <<a_, pending_, running_, wpc, job, round, i, finished>>

(* The steps inside a phase, whatever the tasks do. *)
PoolStep ==
  \/ \E c \in Worker : run_next_task(c)
  \/ set_task \/ set_pending \/ wait_running \/ call_own \/ mthread_join

(* The pool on its own: any number of phases, tasks that just return. *)
PoolNext ==
  \/ PoolStep
  \/ \E c \in Worker : finish(c)
  \/ mthread_init \/ begin("create") \/ begin("exit")
  \/ return_own \/ phase_end \/ finalize_end

PoolSpec == PoolInit /\ [][PoolNext]_poolVars

-----------------------------------------------------------------------------
PoolTypeOK ==
  /\ a_ \in [Core -> Nat]
  /\ pending_ \in [Core -> BOOLEAN]
  /\ running_ \in [Core -> BOOLEAN]
  /\ wpc \in [Core -> {"none", "spin", "claimed", "call", "work", "exited"}]
  /\ job \in [Core -> Nat]
  /\ round \in Nat
  /\ mpc \in {"app", "create", "pend", "wait", "own", "join",
              "exit", "exit_pend", "exit_wait"}
  /\ i \in Nat
  /\ tp_created_ \in BOOLEAN
  /\ finished \in [Core -> Nat]

(* A core that works does so on the task of the current round: mthread_create *)
(* does not overwrite the fields of a core that is still busy, and            *)
(* run_next_task, which reads them after it has lowered pending_, never runs  *)
(* a task twice or an old one.                                                *)
WorksOnCurrentTask == \A c \in Core : wpc[c] = "work" => job[c] = round

(* When run_phase has returned, every core has finished the task of that      *)
(* round; mthread_join does not return early because running_ is raised       *)
(* before pending_ is lowered.                                                *)
PhaseComplete == mpc = "app" => \A c \in Core : finished[c] = round
=============================================================================
