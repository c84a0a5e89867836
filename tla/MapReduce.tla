----------------------------- MODULE MapReduce ------------------------------
(***************************************************************************)
(* mapreduce_appbase::sched_run of Metis/lib/application.cc on the thread  *)
(* pool: an optional sampling phase that maps the first splits, a map      *)
(* phase that moves what was sampled into the real buckets and maps the    *)
(* rest, a reduce phase over the columns of the buckets, and the merge of  *)
(* the reduce buckets.  The cores take splits and columns with the atomic  *)
(* counter next_task_.                                                     *)
(*                                                                         *)
(* A key/value pair is <<split, key>>.  The buckets of map_bucket_manager  *)
(* and reduce_bucket_manager are sets of pairs and of groups: the indexes  *)
(* that hold them (B+tree, arrays) and the sort of the merge are left out; *)
(* Psrs.tla models the sort.                                               *)
(***************************************************************************)
EXTENDS ThreadPool, FiniteSets

CONSTANTS
  Nsplit,         \* the splits are 0..Nsplit-1
  Emits,          \* Emits[s]: the keys map_function emits for split s
  Hash,           \* Hash[k]: partition of key k
  NTasks,         \* the numbers of reduce tasks an application or the
                  \* predictor may choose
  sample_percent,
  Runs            \* bound: how often sched_run is called

Split == 0..Nsplit-1
Key == UNION {Emits[s] : s \in Split}

ASSUME MapReduceAssumption ==
  /\ Nsplit \in Nat \ {0} /\ Runs \in Nat
  /\ sample_percent \in 0..100 /\ NTasks \subseteq Nat \ {0}
  /\ DOMAIN Emits = Split /\ Hash \in [Key -> Nat]

VARIABLES
  app,        \* application_type(): "mapreduce" or "maponly"
  rpc,        \* where the main core is in sched_run
  runs,       \* the runs begun
  next_task_, sampling_, nsample_, phase_, nreduce_or_group_task_,
  nma,        \* ma_.size(), which sampling trims
  sample_,    \* sample_[row]: the pairs core row has sampled
  sampled,    \* sample_ # NULL
  m_,         \* m_[row][col]
  rb_,        \* rb_[task]: the groups emitted
  results_,
  doing,      \* doing[c]: where core c is in its worker function
  next,       \* next[c]: the task it has taken
  mapped      \* history: mapped[s], how often split s was mapped in this run

appVars == <<app, rpc, runs, next_task_, sampling_, nsample_, phase_,
             nreduce_or_group_task_, nma, sample_, sampled, m_, rb_, results_,
             doing, next, mapped>>
vars == <<poolVars, appVars>>

Max2(x, y) == IF x >= y THEN x ELSE y
NoBuckets == <<>>
EmptyBuckets(rows, cols) == [r \in rows |-> [c \in cols |-> {}]]

Init ==
  /\ PoolInit
  /\ app \in {"mapreduce", "maponly"}
  /\ rpc = "idle" /\ runs = 0
  /\ next_task_ = 0 /\ sampling_ = FALSE /\ nsample_ = 0 /\ phase_ = "none"
  /\ nreduce_or_group_task_ \in {0} \cup NTasks      \* set_reduce_task
  /\ nma = 0
  /\ sample_ = NoBuckets /\ sampled = FALSE /\ m_ = NoBuckets /\ rb_ = NoBuckets
  /\ results_ = {}
  /\ doing = [c \in Core |-> "none"]
  /\ next = [c \in Core |-> 0]
  /\ mapped = [s \in Split |-> 0]

-----------------------------------------------------------------------------
(* The worker functions.                                                   *)

Working(c, where) == wpc[c] = "work" /\ doing[c] = where
Then(c, where) == doing' = [doing EXCEPT ![c] = where]

(* base_worker: the phase decides what is done. *)
base_worker(c) ==
  /\ Working(c, "none")
  /\ Then(c, CASE phase_ = "MAP" -> "prepare" [] phase_ = "REDUCE" -> "take" [] OTHER -> "merge")
  /\ UNCHANGED poolVars
  /\ UNCHANGED <<app, rpc, runs, next_task_, sampling_, nsample_, phase_,
                 nreduce_or_group_task_, nma, sample_, sampled, m_, rb_, results_,
                 next, mapped>>

Cols == DOMAIN m_[main_core]

(* Mutant: the pairs sampled by this core are not moved. *)
rehash_skipped(c) == m_

(* rehash: the pairs that core c sampled go to the columns of its row. *)
rehash(c) ==
  [m_ EXCEPT ![c] = [col \in Cols |->
     @[col] \cup {p \in sample_[c] : Hash[p[2]] % Cardinality(Cols) = col}]]

(* The start of map_worker: the core's row is set up. *)
prepare(c) ==
  /\ Working(c, "prepare")
  /\ IF sampling_ THEN sample_' = [sample_ EXCEPT ![c] = {}] /\ UNCHANGED m_
     ELSE IF sampled THEN m_' = rehash(c) /\ sample_' = [sample_ EXCEPT ![c] = {}]
     ELSE UNCHANGED <<sample_, m_>>
  /\ Then(c, "take")
  /\ UNCHANGED poolVars
  /\ UNCHANGED <<app, rpc, runs, next_task_, sampling_, nsample_, phase_,
                 nreduce_or_group_task_, nma, sampled, rb_, results_, next, mapped>>

NTask == IF phase_ = "MAP" THEN nma ELSE nreduce_or_group_task_

(* Mutant: the add is not atomic, and another core's is lost. *)
next_task_plain(c) ==
  /\ Working(c, "take")
  /\ next_task_' = IF \E d \in Core \ {c} : Working(d, "take") THEN next_task_
                   ELSE next_task_ + 1
  /\ next' = [next EXCEPT ![c] = next_task_]
  /\ Then(c, IF next_task_ < NTask THEN phase_ ELSE "last")
  /\ UNCHANGED poolVars
  /\ UNCHANGED <<app, rpc, runs, sampling_, nsample_, phase_, nreduce_or_group_task_,
                 nma, sample_, sampled, m_, rb_, results_, mapped>>

(* next_task is an atomic add; a number past the last task ends the loop. *)
next_task(c) ==
  /\ Working(c, "take")
  /\ next_task_' = next_task_ + 1
  /\ next' = [next EXCEPT ![c] = next_task_]
  /\ Then(c, IF next_task_ < NTask THEN phase_ ELSE "last")
  /\ UNCHANGED poolVars
  /\ UNCHANGED <<app, rpc, runs, sampling_, nsample_, phase_, nreduce_or_group_task_,
                 nma, sample_, sampled, m_, rb_, results_, mapped>>

(* map_function emits the pairs of the split into the core's own row. *)
map_emit(c) ==
  LET s == next[c]
      pairs == {<<s, k>> : k \in Emits[s]}
  IN /\ Working(c, "MAP")
     /\ IF sampling_
        THEN sample_' = [sample_ EXCEPT ![c] = @ \cup pairs] /\ UNCHANGED m_
        ELSE /\ m_' = [m_ EXCEPT ![c] = [col \in Cols |->
                  @[col] \cup {p \in pairs : Hash[p[2]] % Cardinality(Cols) = col}]]
             /\ UNCHANGED sample_
     /\ mapped' = [mapped EXCEPT ![s] = @ + 1]
     /\ Then(c, "take")
     /\ UNCHANGED poolVars
     /\ UNCHANGED <<app, rpc, runs, next_task_, sampling_, nsample_, phase_,
                    nreduce_or_group_task_, nma, sampled, rb_, results_, next>>

(* group_sorted: one group for each key of the column, over all rows. *)
Groups(col) ==
  LET pairs == UNION {m_[r][col] : r \in Core}
  IN {[key |-> k, values |-> {p[1] : p \in {p \in pairs : p[2] = k}}] :
        k \in {p[2] : p \in pairs}}

do_reduce_task(c) ==
  /\ Working(c, "REDUCE")
  /\ rb_' = [rb_ EXCEPT ![next[c]] = @ \cup Groups(next[c])]
  /\ m_' = [r \in Core |-> [m_[r] EXCEPT ![next[c]] = {}]]
  /\ Then(c, "take")
  /\ UNCHANGED poolVars
  /\ UNCHANGED <<app, rpc, runs, next_task_, sampling_, nsample_, phase_,
                 nreduce_or_group_task_, nma, sample_, sampled, results_, next, mapped>>

(* The end of map_worker in a map-only application: the row becomes the    *)
(* core's reduce bucket; each pair is a group of its own.                  *)
Single(pairs) == {[key |-> p[2], values |-> {p[1]}] : p \in pairs}

MapOnlyEnd == phase_ = "MAP" /\ app = "maponly"

prepare_merge(c) ==
  /\ rb_' = [rb_ EXCEPT ![c] = Single(m_[c][0])]
  /\ m_' = [m_ EXCEPT ![c][0] = {}]

(* merge_reduced_buckets: all buckets end up in the first one, sorted by   *)
(* all the cores together; here the main core stands for them.             *)
merge_worker(c) ==
  /\ rb_' = IF c = main_core
            THEN [t \in DOMAIN rb_ |-> IF t = 0 THEN UNION {rb_[u] : u \in DOMAIN rb_} ELSE {}]
            ELSE rb_
  /\ UNCHANGED m_

(* The worker function ends and with it the task. *)
worker_end(c) ==
  /\ \/ Working(c, "last") /\ MapOnlyEnd /\ prepare_merge(c)
     \/ Working(c, "last") /\ ~MapOnlyEnd /\ UNCHANGED <<rb_, m_>>
     \/ Working(c, "merge") /\ merge_worker(c)
  /\ Then(c, "none")
  /\ IF c = main_core THEN return_own ELSE finish(c)
  /\ UNCHANGED <<app, rpc, runs, next_task_, sampling_, nsample_, phase_,
                 nreduce_or_group_task_, nma, sample_, sampled, results_, next, mapped>>
base_worker_step(c) ==
  \/ base_worker(c) \/ prepare(c) \/ next_task(c) \/ map_emit(c) \/ do_reduce_task(c)
  \/ worker_end(c)

-----------------------------------------------------------------------------
(* sched_run on the main core.                                             *)

run_phase(phase, first_task) ==
  /\ begin("create")
  /\ phase_' = phase
  /\ next_task_' = first_task

(* The calls of create_map_bucket_manager and rb_.init before the map phase. *)
CreateBuckets(ntask) ==
  /\ m_' = EmptyBuckets(Core, 0..ntask-1)
  /\ rb_' = [t \in 0..ntask-1 |-> {}]

(* sched_run begins; mthread_init does nothing when the pool exists. *)
init_threads ==
  /\ rpc = "idle" /\ runs < Runs
  /\ mthread_init
  /\ rpc' = "begin"
  /\ UNCHANGED <<app, runs, next_task_, sampling_, nsample_, phase_,
                 nreduce_or_group_task_, nma, sample_, sampled, m_, rb_, results_,
                 doing, next, mapped>>

(* A map-only application has one column and a reduce bucket for each core. *)
run_maponly ==
  /\ app = "maponly" /\ rpc' = "map"
  /\ m_' = EmptyBuckets(Core, {0})
  /\ rb_' = [t \in Core |-> {}]
  /\ run_phase("MAP", 0)
  /\ nma' = Nsplit
  /\ UNCHANGED <<nsample_, sampling_, sample_, sampled>>

run_unsampled ==
  /\ app = "mapreduce" /\ nreduce_or_group_task_ # 0 /\ rpc' = "map"
  /\ CreateBuckets(nreduce_or_group_task_)
  /\ run_phase("MAP", 0)
  /\ nma' = Nsplit
  /\ UNCHANGED <<nsample_, sampling_, sample_, sampled>>

(* sched_sample: only the first splits are there for the workers. *)
sched_sample ==
  LET nsample == Max2(1, (sample_percent * Nsplit) \div 100)
  IN /\ app = "mapreduce" /\ nreduce_or_group_task_ = 0 /\ rpc' = "sample"
     /\ nsample_' = nsample
     /\ nma' = nsample
     /\ sampling_' = TRUE
     /\ sample_' = [c \in Core |-> {}]
     /\ sampled' = TRUE
     /\ run_phase("MAP", 0)
     /\ UNCHANGED <<m_, rb_>>

sched_run ==
  /\ rpc \in {"idle", "begin"} /\ runs < Runs
  /\ runs' = runs + 1
  /\ results_' = {}
  /\ mapped' = [s \in Split |-> 0]
  /\ run_maponly \/ run_unsampled \/ sched_sample
  /\ UNCHANGED <<app, nreduce_or_group_task_, doing, next>>

(* The sampling phase is over: the predictor chooses the number of tasks. *)
sampled_map ==
  /\ rpc = "sample" /\ rpc' = "map"
  /\ \E n \in NTasks : nreduce_or_group_task_' = n /\ CreateBuckets(n)
  /\ nma' = Nsplit
  /\ sampling_' = FALSE
  /\ run_phase("MAP", nsample_)
  /\ UNCHANGED <<app, runs, nsample_, sample_, sampled, results_, doing, next, mapped>>

reduce_phase ==
  /\ rpc = "map" /\ app = "mapreduce" /\ rpc' = "reduce"
  /\ run_phase("REDUCE", 0)
  /\ UNCHANGED <<app, runs, sampling_, nsample_, nreduce_or_group_task_, nma, sample_,
                 sampled, m_, rb_, results_, doing, next, mapped>>

merge_phase ==
  /\ rpc = (IF app = "mapreduce" THEN "reduce" ELSE "map") /\ rpc' = "merge"
  /\ run_phase("MERGE", 0)
  /\ UNCHANGED <<app, runs, sampling_, nsample_, nreduce_or_group_task_, nma, sample_,
                 sampled, m_, rb_, results_, doing, next, mapped>>

(* set_final_result and reset. *)
final_result ==
  /\ rpc = "merge" /\ mpc = "app" /\ rpc' = "idle"
  /\ results_' = rb_[0]
  /\ rb_' = NoBuckets /\ m_' = NoBuckets /\ sample_' = NoBuckets
  /\ sampled' = FALSE /\ sampling_' = FALSE /\ nsample_' = 0
  /\ UNCHANGED poolVars
  /\ UNCHANGED <<app, runs, next_task_, phase_, nreduce_or_group_task_, nma, doing,
                 next, mapped>>

(* deinitialize, by the application between or after its runs. *)
deinitialize ==
  rpc = "idle" /\ runs > 0 /\ begin("exit") /\ UNCHANGED appVars

Step ==
  \/ (PoolStep \/ phase_end \/ finalize_end) /\ UNCHANGED appVars
  \/ \E c \in Core : base_worker_step(c)
  \/ init_threads \/ sched_run \/ sampled_map \/ reduce_phase \/ merge_phase
  \/ final_result \/ deinitialize

Finished == runs = Runs /\ rpc = "idle" /\ mpc = "app"

Next == Step \/ (Finished /\ ~tp_created_ /\ UNCHANGED vars)

Spec == Init /\ [][Next]_vars

(* Some thread moves as long as one can; a spin that goes on is no step. *)
FairSpec == Spec /\ WF_vars(Step)

-----------------------------------------------------------------------------
(* What the run computes, whatever the cores do in which order: one group  *)
(* for each key with the values of all the splits that emit it, or, in a   *)
(* map-only application, every pair.                                       *)
Expected ==
  IF app = "maponly"
  THEN UNION {Single({<<s, k>> : k \in Emits[s]}) : s \in Split}
  ELSE {[key |-> k, values |-> {s \in Split : k \in Emits[s]}] : k \in Key}

(* sched_run computes that, with sampling or without it and in every run:  *)
(* each split is mapped exactly once although sampling has taken the first *)
(* ones, and no pair is lost on the way from the sample to the buckets and *)
(* from the buckets to the result.                                         *)
ResultsExact ==
  rpc = "idle" /\ runs > 0 =>
    results_ = Expected /\ \A s \in Split : mapped[s] = 1

(* A core of the map phase touches its own row, one of the reduce phase    *)
(* the column it has taken: no two cores have the same task.               *)
TasksDistinct ==
  \A c, d \in Core :
    c # d /\ doing[c] \in {"MAP", "REDUCE"} /\ doing[d] = doing[c] => next[c] # next[d]

(* The spins of the thread pool all end: every sched_run returns.          *)
RunsReturn == <>Finished
=============================================================================
