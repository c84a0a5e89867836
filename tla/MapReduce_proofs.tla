-------------------------- MODULE MapReduce_proofs --------------------------
(* sched_run uses the thread pool as ThreadPool.tla says, so what is proved *)
(* of the pool holds in a MapReduce run of any size.                        *)
EXTENDS MapReduce, ThreadPool_proofs

LEMMA StepUsesPool == Next => [PoolNext]_poolVars
  <1> SUFFICES ASSUME Next, ~UNCHANGED poolVars PROVE PoolNext
    OBVIOUS
  <1>1. CASE PoolStep \/ phase_end \/ finalize_end
    BY <1>1 DEF PoolNext
  <1>2. CASE \E c \in Core : base_worker_step(c)
    <2>1. PICK c \in Core : base_worker_step(c)
      BY <1>2
    <2>2. worker_end(c)
      BY <2>1 DEF base_worker_step, base_worker, prepare, next_task, map_emit, do_reduce_task
    <2>3. return_own \/ finish(c)
      BY <2>2 DEF worker_end
    <2> QED
      BY <2>3 DEF PoolNext, finish
  <1>3. CASE init_threads
    BY <1>3 DEF init_threads, PoolNext
  <1>4. CASE sched_run \/ sampled_map \/ reduce_phase \/ merge_phase
    <2>1. begin("create")
      BY <1>4 DEF sched_run, run_maponly, run_unsampled, sched_sample, sampled_map,
                  reduce_phase, merge_phase, run_phase
    <2> QED
      BY <2>1 DEF PoolNext
  <1>5. CASE deinitialize
    BY <1>5 DEF deinitialize, PoolNext
  <1>6. CASE final_result
    BY <1>6 DEF final_result
  <1>7. CASE UNCHANGED vars
    BY <1>7 DEF vars
  <1> QED
    BY <1>1, <1>2, <1>3, <1>4, <1>5, <1>6, <1>7 DEF Next, Step

(* A MapReduce application only ever takes the steps of the pool: run_phase *)
(* is called between phases and a worker function returns once.             *)
THEOREM MapReduceUsesPool == Spec => PoolSpec
  <1>1. Init => PoolInit
    BY DEF Init
  <1>2. [Next]_vars => [PoolNext]_poolVars
    BY StepUsesPool DEF vars
  <1> QED
    BY <1>1, <1>2, PTL DEF Spec, PoolSpec

(* When the main core is back in sched_run, every core has finished its     *)
(* part of the phase; sched_run may read what the workers have written.     *)
THEOREM MapReducePhaseComplete == Spec => []PhaseComplete
  BY MapReduceUsesPool, PoolPhaseComplete, PTL

(* No core maps or reduces for a phase that is over.                        *)
THEOREM MapReduceWorksOnCurrentTask == Spec => []WorksOnCurrentTask
  BY MapReduceUsesPool, PoolRunsCurrentTask, PTL

(* A core is only inside its worker function while it works, and what it    *)
(* has taken from the counter is below it.  The counter is set back between *)
(* phases, which is safe because no core works then.                        *)
TakenInv ==
  /\ next_task_ \in Nat /\ nsample_ \in Nat
  /\ DOMAIN doing = Core /\ next \in [Core -> Nat]
  /\ \A c \in Core : doing[c] # "none" => wpc[c] = "work"
  /\ \A c \in Core : doing[c] \in {"MAP", "REDUCE"} => next[c] < next_task_
  /\ TasksDistinct

LEMMA NobodyWorks ==
  ASSUME PoolInv, mpc = "app"
  PROVE  \A c \in Core : wpc[c] # "work"
  <1> USE PoolAssumption DEF Core, Worker, main_core
  <1>1. wpc[main_core] # "work"
    BY DEF PoolInv, MainInv
  <1>2. \A c \in Worker : wpc[c] # "work"
    BY DEF PoolInv, WorkerInv, Idle
  <1> QED
    BY <1>1, <1>2

LEMMA TakenInit == Init => TakenInv
  BY DEF Init, TakenInv, TasksDistinct

(* What the pool does on its own moves no core into or out of its worker    *)
(* function, except that it may begin.                                      *)
LEMMA TakenPool ==
  ASSUME PoolInv, TakenInv, PoolStep \/ phase_end \/ finalize_end, UNCHANGED appVars
  PROVE  TakenInv'
  <1> USE PoolAssumption DEF TakenInv, TasksDistinct, appVars, Core, Worker, main_core
  <1>1. ASSUME NEW c \in Core, wpc[c] = "work" PROVE wpc'[c] = "work"
    <2> USE <1>1 DEF PoolInv, PoolTypeOK
    <2>1. CASE \E d \in Worker : run_next_task(d)
      BY <2>1 DEF run_next_task, claim, accept, call
    <2>2. CASE set_task \/ set_pending \/ wait_running \/ mthread_join \/ phase_end \/ finalize_end
      BY <2>2 DEF set_task, set_pending, wait_running, mthread_join, phase_end, finalize_end
    <2>3. CASE call_own
      BY <2>3 DEF call_own
    <2> QED
      BY <2>1, <2>2, <2>3 DEF PoolStep
  <1> QED
    BY <1>1

LEMMA TakenWorker ==
  ASSUME PoolInv, TakenInv, NEW c \in Core, base_worker_step(c)
  PROVE  TakenInv'
  <1> USE DEF TakenInv, Working, Then
  <1>1. CASE base_worker(c)
    BY <1>1 DEF base_worker, poolVars, TasksDistinct
  <1>2. CASE prepare(c)
    BY <1>2 DEF prepare, poolVars, TasksDistinct
  <1>3. CASE next_task(c)
    <2>1. /\ next_task_' = next_task_ + 1 /\ next' = [next EXCEPT ![c] = next_task_]
          /\ \A d \in Core \ {c} : doing'[d] = doing[d]
          /\ wpc' = wpc /\ wpc[c] = "work" /\ nsample_' = nsample_ /\ DOMAIN doing' = Core
      BY <1>3 DEF next_task, poolVars
    <2>2. \A d \in Core : doing'[d] \in {"MAP", "REDUCE"} => next'[d] < next_task_'
      BY <2>1
    <2>3. TasksDistinct'
      BY <2>1 DEF TasksDistinct
    <2> QED
      BY <2>1, <2>2, <2>3
  <1>4. CASE map_emit(c)
    BY <1>4 DEF map_emit, poolVars, TasksDistinct
  <1>5. CASE do_reduce_task(c)
    BY <1>5 DEF do_reduce_task, poolVars, TasksDistinct
  <1>6. CASE worker_end(c)
    <2>1. \A d \in Core \ {c} : wpc'[d] = wpc[d]
      BY <1>6 DEF worker_end, return_own, finish, PoolInv, PoolTypeOK
    <2> QED
      BY <1>6, <2>1 DEF worker_end, TasksDistinct
  <1> QED
    BY <1>1, <1>2, <1>3, <1>4, <1>5, <1>6 DEF base_worker_step

LEMMA TakenMain ==
  ASSUME PoolInv, TakenInv,
         \/ init_threads \/ sched_run \/ sampled_map \/ reduce_phase \/ merge_phase
         \/ final_result \/ deinitialize
  PROVE  TakenInv'
  <1>1. mpc = "app"
    BY DEF init_threads, mthread_init, sched_run, run_maponly, run_unsampled, sched_sample,
           sampled_map, reduce_phase, merge_phase, final_result, deinitialize, run_phase, begin
  <1>2. \A c \in Core : doing[c] = "none"
    BY <1>1, NobodyWorks DEF TakenInv
  <1>3. doing' = doing /\ next' = next
    BY DEF init_threads, sched_run, sampled_map, reduce_phase, merge_phase, final_result,
           deinitialize, appVars
  <1>4. nsample_' \in Nat
    <2>1. Max2(1, (sample_percent * Nsplit) \div 100) \in Nat
      <3>1. sample_percent * Nsplit \in Nat
        BY MapReduceAssumption
      <3> QED
        BY <3>1 DEF Max2
    <2> QED
      BY <2>1 DEF TakenInv, init_threads, sched_run, run_maponly, run_unsampled, sched_sample,
         sampled_map, reduce_phase, merge_phase, final_result, deinitialize, appVars
  <1>5. next_task_' \in Nat
    BY DEF TakenInv, init_threads, sched_run, run_maponly, run_unsampled, sched_sample,
       sampled_map, reduce_phase, merge_phase, final_result, deinitialize, run_phase, appVars
  <1> QED
    BY <1>2, <1>3, <1>4, <1>5 DEF TakenInv, TasksDistinct

(* No two cores map the same split or reduce the same column, whatever the  *)
(* number of cores, splits, tasks and runs: next_task hands out each number *)
(* once, and run_phase sets the counter back only when no core holds one.   *)
THEOREM MapReduceTasksDistinct == Spec => []TasksDistinct
  <1>1. TakenInv /\ PoolInv /\ [Next]_vars => TakenInv'
    <2> SUFFICES ASSUME TakenInv, PoolInv, [Next]_vars PROVE TakenInv'
      OBVIOUS
    <2>1. CASE UNCHANGED vars
      BY <2>1 DEF vars, poolVars, appVars, TakenInv, TasksDistinct
    <2>2. CASE Step
      BY <2>2, TakenPool, TakenWorker, TakenMain DEF Step
    <2> QED
      BY <2>1, <2>2 DEF Next
  <1>2. TakenInv => TasksDistinct
    BY DEF TakenInv
  <1> QED
    BY <1>1, <1>2, TakenInit, MapReduceUsesPool, PoolInvariance, PTL DEF Spec
=============================================================================
