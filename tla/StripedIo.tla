----------------------------- MODULE StripedIo ------------------------------
(***************************************************************************)
(* GraphChi's I/O manager (io/stripedio.hpp) for edge-data blocks, each in *)
(* a file of its own: I/O threads with a queue of reads, a queue of writes *)
(* and counters of pending tasks.  The engine hands a block over when it   *)
(* writes asynchronously (the thread frees it) and fills in its own buffer *)
(* when it reads.  Files are not multiplexed, so that a block is one task. *)
(***************************************************************************)
EXTENDS Integers, Sequences, FiniteSets, TLC

CONSTANT Threads

VARIABLES
  disk,       \* disk[b]: the contents of the block's file
  state,      \* state[b]: "none", "reading" or "in", of the engine's buffer ...
  buf,        \* ... and what it contains
  readqueue, commitqueue, pending_reads, pending_writes,
  looking,    \* looking[t]: "idle", or the queue the thread is about to pop
  task        \* task[t]: the task it works on, as a sequence of at most one

queueVars == <<readqueue, commitqueue, pending_reads, pending_writes>>
ioVars == <<disk, state, buf, queueVars, looking, task>>

IoInit(contents) ==
  /\ disk = contents
  /\ state = [b \in DOMAIN contents |-> "none"]
  /\ buf = [b \in DOMAIN contents |-> <<>>]
  /\ readqueue = [t \in Threads |-> <<>>] /\ commitqueue = readqueue /\ task = readqueue
  /\ pending_reads = [t \in Threads |-> 0] /\ pending_writes = pending_reads
  /\ looking = [t \in Threads |-> "idle"]

(* One task for each block of a sequence, on a thread chosen at random.    *)
(* The counter is raised before the push; a thread that looks in between   *)
(* finds the queue empty and looks again.                                  *)
OnThread(blocks, thread, t) == SelectSeq(blocks, LAMBDA b : thread[b] = t)

preada_async(blocks, thread) ==
  /\ readqueue' = [t \in Threads |-> readqueue[t] \o OnThread(blocks, thread, t)]
  /\ pending_reads' = [t \in Threads |-> pending_reads[t] + Len(OnThread(blocks, thread, t))]

Written(blocks) == [k \in DOMAIN blocks |-> [block |-> blocks[k], data |-> buf[blocks[k]]]]

pwritea_async(blocks, thread) ==
  /\ commitqueue' = [t \in Threads |-> commitqueue[t] \o Written(OnThread(blocks, thread, t))]
  /\ pending_writes' = [t \in Threads |-> pending_writes[t] + Len(OnThread(blocks, thread, t))]

(* wait_for_reads and wait_for_writes; mutant: a task that a thread has    *)
(* taken is not waited for.                                                *)
AllRead == \A t \in Threads : pending_reads[t] = 0
AllWritten_popped == \A t \in Threads : commitqueue[t] = <<>>

AllWritten == \A t \in Threads : pending_writes[t] = 0

(* io_thread_loop: a thread decides which queue to pop ... *)
look(t) ==
  /\ looking[t] = "idle" /\ task[t] = <<>>
  /\ readqueue[t] # <<>> \/ commitqueue[t] # <<>>
  /\ looking' = [looking EXCEPT ![t] = IF pending_reads[t] > 0 THEN "read" ELSE "commit"]
  /\ UNCHANGED <<disk, state, buf, queueVars, task>>

(* ... pops it ... *)
safepop(t) ==
  /\ looking[t] # "idle"
  /\ looking' = [looking EXCEPT ![t] = "idle"]
  /\ \/ /\ looking[t] = "read" /\ readqueue[t] # <<>>
        /\ task' = [task EXCEPT ![t] = <<[action |-> "READ", block |-> Head(readqueue[t])]>>]
        /\ readqueue' = [readqueue EXCEPT ![t] = Tail(@)]
        /\ UNCHANGED commitqueue
     \/ /\ looking[t] = "commit" /\ commitqueue[t] # <<>>
        /\ task' = [task EXCEPT ![t] = <<[action |-> "WRITE"] @@ Head(commitqueue[t])>>]
        /\ commitqueue' = [commitqueue EXCEPT ![t] = Tail(@)]
        /\ UNCHANGED readqueue
  /\ UNCHANGED <<disk, state, buf, pending_reads, pending_writes>>

(* ... and carries out the task. *)
carry_out(t) ==
  /\ task[t] # <<>>
  /\ task' = [task EXCEPT ![t] = <<>>]
  /\ LET x == task[t][1] IN
     \/ /\ x.action = "READ"
        /\ buf' = [buf EXCEPT ![x.block] = disk[x.block]]
        /\ state' = [state EXCEPT ![x.block] = "in"]
        /\ pending_reads' = [pending_reads EXCEPT ![t] = @ - 1]
        /\ UNCHANGED <<disk, pending_writes>>
     \/ /\ x.action = "WRITE"
        /\ disk' = [disk EXCEPT ![x.block] = x.data]
        /\ pending_writes' = [pending_writes EXCEPT ![t] = @ - 1]
        /\ UNCHANGED <<buf, state, pending_reads>>
  /\ UNCHANGED <<readqueue, commitqueue, looking>>

io_thread_loop(t) == look(t) \/ safepop(t) \/ carry_out(t)

(* Writes of a block that are still to be done, and whether it is to be read. *)
Outstanding(b) ==
  {task[t][1].data : t \in {u \in Threads : task[u] # <<>> /\ task[u][1].action = "WRITE" /\ task[u][1].block = b}}
  \cup UNION {{commitqueue[t][k].data : k \in {j \in DOMAIN commitqueue[t] : commitqueue[t][j].block = b}} : t \in Threads}
ToBeRead(b) ==
  \E t \in Threads : b \in {readqueue[t][k] : k \in DOMAIN readqueue[t]}
                     \/ (task[t] # <<>> /\ task[t][1].action = "READ" /\ task[t][1].block = b)

(* What the block contains for a reader that sees the engine's memory, the *)
(* writes on their way and the files.                                      *)
Contents(b) ==
  IF state[b] = "in" THEN buf[b]
  ELSE IF Outstanding(b) # {} THEN CHOOSE d \in Outstanding(b) : TRUE
  ELSE disk[b]
=============================================================================
