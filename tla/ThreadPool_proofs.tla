------------------------- MODULE ThreadPool_proofs --------------------------
(* The thread pool runs each task of each phase exactly once on its core,   *)
(* for any number of cores, phases and restarts of the pool.                *)
EXTENDS ThreadPool, TLAPS

(* The states of another core c between two tasks, with an offered task,    *)
(* and after the main core has seen pending_ lowered.                       *)
Idle(c, t) ==
  wpc[c] = "spin" /\ ~pending_[c] /\ ~running_[c] /\ finished[c] = t

Offered(c, t) ==
  /\ a_[c] = t /\ pending_[c]
  /\ \/ wpc[c] = "spin" /\ ~running_[c]
     \/ wpc[c] = "claimed" /\ running_[c]

Taken(c) ==
  \/ Idle(c, round)
  \/ /\ ~pending_[c] /\ running_[c]
     /\ \/ wpc[c] = "call" /\ a_[c] = round
        \/ wpc[c] = "work" /\ job[c] = round

Leaving(c) ==
  /\ ~pending_[c] /\ running_[c]
  /\ (wpc[c] = "call" /\ a_[c] = ExitTask) \/ wpc[c] = "exited"

Creating == {"create", "pend", "wait"}
Exiting == {"exit", "exit_pend", "exit_wait"}

(* Where core c is, by how far the loops of the main core have come. *)
WorkerInv(c) ==
  /\ mpc = "app" => Idle(c, round)
  /\ mpc \in Creating /\ c < i => Taken(c)
  /\ mpc \in Creating /\ c > i => Idle(c, round - 1)
  /\ mpc \in {"create", "pend"} /\ c = i => Idle(c, round - 1)
  /\ mpc = "pend" /\ c = i => a_[c] = round
  /\ mpc = "wait" /\ c = i => (Offered(c, round) \/ Taken(c))
  /\ mpc = "own" => Taken(c)
  /\ mpc = "join" /\ c < i => Idle(c, round)
  /\ mpc = "join" /\ c >= i => Taken(c)
  /\ mpc \in Exiting => finished[c] = round
  /\ mpc \in Exiting /\ c < i => Leaving(c)
  /\ mpc \in Exiting /\ c > i => Idle(c, round)
  /\ mpc \in {"exit", "exit_pend"} /\ c = i => Idle(c, round)
  /\ mpc = "exit_pend" /\ c = i => a_[c] = ExitTask
  /\ mpc = "exit_wait" /\ c = i => (Offered(c, ExitTask) \/ Leaving(c))

MainInv ==
  /\ mpc # "app" => tp_created_ /\ i \in 1..ncore_
  /\ mpc \in {"pend", "wait", "exit_pend", "exit_wait"} => i < ncore_
  /\ mpc \in Creating \cup {"own", "join"} => round > 0
  /\ (mpc = "own") <=> (wpc[main_core] = "work")
  /\ mpc = "own" => job[main_core] = round
  /\ mpc \in Exiting \cup {"app", "join"} => finished[main_core] = round

PoolInv ==
  /\ PoolTypeOK
  /\ MainInv
  /\ tp_created_ => \A c \in Worker : WorkerInv(c)
  /\ ~tp_created_ => \A c \in Worker : wpc[c] \in {"none", "exited"} /\ finished[c] = round

LEMMA PoolInitInv == PoolInit => PoolInv
  <1> SUFFICES ASSUME PoolInit PROVE PoolInv
    OBVIOUS
  <1> USE PoolAssumption DEF PoolInit, Core, Worker, main_core
  <1>1. PoolTypeOK
    BY DEF PoolTypeOK
  <1>2. MainInv
    BY DEF MainInv, Creating, Exiting
  <1>3. \A c \in Worker : wpc[c] \in {"none", "exited"} /\ finished[c] = round
    OBVIOUS
  <1> QED
    BY <1>1, <1>2, <1>3 DEF PoolInv

(* A step of core c changes nothing that the invariant says of the others   *)
(* and takes c along: offered, taken, finished.                             *)
LEMMA WorkerStep ==
  ASSUME PoolInv, NEW c \in Worker, run_next_task(c) \/ finish(c)
  PROVE  PoolInv'
  <1> USE PoolAssumption DEF Core, Worker, main_core, Creating, Exiting, ExitTask
  <1>1. tp_created_ /\ UNCHANGED <<a_, round, mpc, i, tp_created_>>
    BY DEF PoolInv, run_next_task, claim, accept, call, finish
  <1>2. PoolTypeOK'
    <2> USE DEF PoolInv, PoolTypeOK
    <2>1. CASE claim(c)
      BY <2>1 DEF claim
    <2>2. CASE accept(c)
      BY <2>2 DEF accept
    <2>3. CASE call(c)
      BY <2>3 DEF call
    <2>4. CASE finish(c)
      BY <2>4 DEF finish
    <2> QED
      BY <2>1, <2>2, <2>3, <2>4 DEF run_next_task
  <1>3. MainInv'
    BY <1>1 DEF PoolInv, PoolTypeOK, MainInv, run_next_task, claim, accept, call, finish
  <1>4. ASSUME NEW d \in Worker, d # c
        PROVE  WorkerInv(d)'
    <2>1. WorkerInv(d)
      BY <1>1 DEF PoolInv
    <2>2. /\ wpc'[d] = wpc[d] /\ pending_'[d] = pending_[d] /\ running_'[d] = running_[d]
          /\ job'[d] = job[d] /\ finished'[d] = finished[d]
      BY <1>1, <1>4 DEF PoolInv, PoolTypeOK, run_next_task, claim, accept, call, finish
    <2> QED
      BY <1>1, <2>1, <2>2 DEF WorkerInv, Idle, Offered, Taken, Leaving
  <1>5. WorkerInv(c)'
    <2> USE DEF PoolInv, PoolTypeOK, MainInv, WorkerInv, Idle, Offered, Taken, Leaving
    <2>1. CASE claim(c)
      BY <1>1, <2>1 DEF claim
    <2>2. CASE accept(c)
      BY <1>1, <2>2 DEF accept
    <2>3. CASE call(c)
      BY <1>1, <2>3 DEF call
    <2>4. CASE finish(c)
      BY <1>1, <2>4 DEF finish
    <2> QED
      BY <2>1, <2>2, <2>3, <2>4 DEF run_next_task
  <1> QED
    BY <1>1, <1>2, <1>3, <1>4, <1>5 DEF PoolInv

(* The main core's steps inside the loops touch core i only. *)
LEMMA MainLoops ==
  ASSUME PoolInv, set_task \/ set_pending \/ wait_running \/ mthread_join
  PROVE  PoolInv'
  <1> USE PoolAssumption DEF Core, Worker, main_core, Creating, Exiting, ExitTask
  <1> USE DEF PoolInv, PoolTypeOK, MainInv
  <1>1. tp_created_ /\ tp_created_' = tp_created_
    BY DEF set_task, set_pending, wait_running, mthread_join
  <1>2. CASE set_task
    <2>1. PoolTypeOK' /\ MainInv'
      BY <1>2 DEF set_task
    <2>2. ASSUME NEW c \in Worker PROVE WorkerInv(c)'
      BY <1>1, <1>2 DEF set_task, WorkerInv, Idle, Offered, Taken, Leaving
    <2> QED
      BY <1>1, <2>1, <2>2
  <1>3. CASE set_pending
    <2>1. PoolTypeOK' /\ MainInv'
      BY <1>3 DEF set_pending
    <2>2. ASSUME NEW c \in Worker PROVE WorkerInv(c)'
      BY <1>1, <1>3 DEF set_pending, WorkerInv, Idle, Offered, Taken, Leaving
    <2> QED
      BY <1>1, <2>1, <2>2
  <1>4. CASE wait_running
    <2>1. PoolTypeOK' /\ MainInv'
      BY <1>4 DEF wait_running
    <2>2. ASSUME NEW c \in Worker PROVE WorkerInv(c)'
      BY <1>1, <1>4 DEF wait_running, WorkerInv, Idle, Offered, Taken, Leaving
    <2> QED
      BY <1>1, <2>1, <2>2
  <1>5. CASE mthread_join
    <2>1. PoolTypeOK' /\ MainInv'
      BY <1>5 DEF mthread_join
    <2>2. ASSUME NEW c \in Worker PROVE WorkerInv(c)'
      BY <1>1, <1>5 DEF mthread_join, WorkerInv, Idle, Offered, Taken, Leaving
    <2> QED
      BY <1>1, <2>1, <2>2
  <1> QED
    BY <1>2, <1>3, <1>4, <1>5

(* The steps between the loops move the main core from one to the next. *)
LEMMA MainTurns ==
  ASSUME PoolInv,
         \/ mthread_init \/ begin("create") \/ begin("exit")
         \/ call_own \/ return_own \/ phase_end \/ finalize_end
  PROVE  PoolInv'
  <1> USE PoolAssumption DEF Core, Worker, main_core, Creating, Exiting, ExitTask
  <1> USE DEF PoolInv, PoolTypeOK, MainInv
  <1>1. CASE mthread_init
    <2>1. PoolTypeOK' /\ MainInv' /\ tp_created_'
      BY <1>1 DEF mthread_init
    <2>2. ASSUME NEW c \in Worker PROVE WorkerInv(c)'
      BY <1>1 DEF mthread_init, WorkerInv, Idle
    <2> QED
      BY <2>1, <2>2
  <1>2. CASE begin("create") \/ begin("exit")
    <2>1. PoolTypeOK' /\ MainInv' /\ tp_created_ /\ tp_created_'
      BY <1>2 DEF begin
    <2>2. ASSUME NEW c \in Worker PROVE WorkerInv(c)'
      BY <1>2, <2>1 DEF begin, WorkerInv, Idle
    <2> QED
      BY <2>1, <2>2
  <1>3. CASE call_own
    <2>1. PoolTypeOK' /\ MainInv' /\ tp_created_ /\ tp_created_'
      BY <1>3 DEF call_own
    <2>2. ASSUME NEW c \in Worker PROVE WorkerInv(c)'
      BY <1>3, <2>1 DEF call_own, WorkerInv, Idle, Taken
    <2> QED
      BY <2>1, <2>2
  <1>4. CASE return_own
    <2>1. PoolTypeOK' /\ MainInv' /\ tp_created_ /\ tp_created_'
      BY <1>4 DEF return_own
    <2>2. ASSUME NEW c \in Worker PROVE WorkerInv(c)'
      BY <1>4, <2>1 DEF return_own, WorkerInv, Idle, Taken
    <2> QED
      BY <2>1, <2>2
  <1>5. CASE phase_end
    <2>1. PoolTypeOK' /\ MainInv' /\ tp_created_ /\ tp_created_'
      BY <1>5 DEF phase_end
    <2>2. ASSUME NEW c \in Worker PROVE WorkerInv(c)'
      BY <1>5, <2>1 DEF phase_end, WorkerInv, Idle
    <2> QED
      BY <2>1, <2>2
  <1>6. CASE finalize_end
    <2>1. PoolTypeOK' /\ MainInv' /\ tp_created_ /\ ~tp_created_'
      BY <1>6 DEF finalize_end
    <2>2. ASSUME NEW c \in Worker PROVE wpc'[c] = "exited" /\ finished'[c] = round'
      BY <1>6, <2>1 DEF finalize_end, WorkerInv
    <2> QED
      BY <2>1, <2>2
  <1> QED
    BY <1>1, <1>2, <1>3, <1>4, <1>5, <1>6

LEMMA PoolInvImplies == PoolInv => WorksOnCurrentTask /\ PhaseComplete
  <1> SUFFICES ASSUME PoolInv PROVE WorksOnCurrentTask /\ PhaseComplete
    OBVIOUS
  <1> USE PoolAssumption DEF PoolInv, PoolTypeOK, MainInv, Core, Worker, main_core
  <1>1. ASSUME NEW c \in Worker
        PROVE  /\ wpc[c] = "work" => job[c] = round
               /\ mpc = "app" => finished[c] = round
    <2>1. CASE tp_created_
      <3>1. WorkerInv(c)
        BY <2>1
      <3> QED
        BY <3>1 DEF WorkerInv, Idle, Offered, Taken, Leaving, Creating, Exiting
    <2>2. CASE ~tp_created_
      BY <2>2
    <2> QED
      BY <2>1, <2>2
  <1>2. Core = Worker \cup {main_core}
    OBVIOUS
  <1> QED
    BY <1>1, <1>2 DEF WorksOnCurrentTask, PhaseComplete, Exiting

LEMMA PoolInvariance == PoolSpec => []PoolInv
  <1>1. PoolInv /\ [PoolNext]_poolVars => PoolInv'
    <2> SUFFICES ASSUME PoolInv, [PoolNext]_poolVars PROVE PoolInv'
      OBVIOUS
    <2>1. CASE UNCHANGED poolVars
      BY <2>1 DEF poolVars, PoolInv, PoolTypeOK, MainInv, WorkerInv, Idle, Offered, Taken, Leaving
    <2>2. CASE PoolNext
      BY <2>2, WorkerStep, MainLoops, MainTurns DEF PoolNext, PoolStep
    <2> QED
      BY <2>1, <2>2
  <1> QED
    BY PoolInitInv, <1>1, PTL DEF PoolSpec

(* No core ever works on a task of another round, whatever the number of    *)
(* cores: what mthread_create and run_next_task do with the volatile fields *)
(* of athread_type is enough.                                               *)
THEOREM PoolRunsCurrentTask == PoolSpec => []WorksOnCurrentTask
  BY PoolInvariance, PoolInvImplies, PTL

(* When run_phase has returned, every core has finished its task: the loop  *)
(* of mthread_join misses nobody.                                           *)
THEOREM PoolPhaseComplete == PoolSpec => []PhaseComplete
  BY PoolInvariance, PoolInvImplies, PTL
=============================================================================
