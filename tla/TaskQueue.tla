------------------------------ MODULE TaskQueue ------------------------------
(***************************************************************************)
(* The cooperative work queue of src/task.js (class Queue).                *)
(*                                                                         *)
(* queue.spawn(work) starts a task that creates a suspended invocation     *)
(* `wait`, replaces the queue's only entry by it, waits for the invocation *)
(* it displaced, performs the work, and finally resumes `wait`.  The t-th  *)
(* call of spawn is task t.  A task may also be aborted from outside       *)
(* through the invocation spawn returns; its `finally` runs then too.      *)
(***************************************************************************)
EXTENDS Integers, Sequences

CONSTANTS
  Calls,      \* how many times spawn is called (the bound of the model)
  Abortable   \* the tasks a client may abort

Tasks == 1 .. Calls
None == 0

ASSUME QueueAssumption ==
  /\ Calls \in Nat
  /\ Abortable \subseteq Tasks

VARIABLES
  spawned,    \* number of spawn calls made so far
  queue,      \* Queue.queue: the `wait` invocations it holds, named by task
  last,       \* last[t]: the invocation task t popped, or None
  status      \* where the generator of task t stands

queueVars == <<spawned, queue, last, status>>

Status == {"idle", "waiting", "running", "done", "abandoned"}

\* `wait` of task t has been resumed: its finally block has run.
Settled(t) == status[t] \in {"done", "abandoned"}

QueueTypeOK ==
  /\ spawned \in 0 .. Calls
  /\ queue \in Seq(Tasks) /\ Len(queue) <= 1
  /\ last \in [Tasks -> Tasks \cup {None}]
  /\ status \in [Tasks -> Status]

QueueInit ==
  /\ spawned = 0
  /\ queue = <<>>
  /\ last = [t \in Tasks |-> None]
  /\ status = [t \in Tasks |-> "idle"]

(* Deviation: the task enters the queue before it looks for the last one. *)
SpawnPushesFirst ==
  LET t == spawned + 1
  IN  /\ t \in Tasks
      /\ spawned' = t
      /\ last' = [last EXCEPT ![t] = t]
      /\ queue' = queue
      /\ status' = [status EXCEPT ![t] = "waiting"]

(* queue.spawn(work): the generator runs at once up to its first wait. *)
Spawn ==
  LET t == spawned + 1
      popped == IF queue = <<>> THEN None ELSE queue[Len(queue)]
      kept   == SubSeq(queue, 1, Len(queue) - 1)
  IN  /\ t \in Tasks
      /\ spawned' = t
      /\ last' = [last EXCEPT ![t] = popped]
      /\ queue' = Append(kept, t)
      /\ status' = [status EXCEPT
                      ![t] = IF popped = None THEN "running" ELSE "waiting"]

(* Deviation: the work is begun without waiting for the last invocation. *)
StartEarly(t) ==
  /\ status[t] = "waiting"
  /\ status' = [status EXCEPT ![t] = "running"]
  /\ UNCHANGED <<spawned, queue, last>>

(* yield* Task.result(last) returns once the popped invocation is resumed. *)
Start(t) ==
  /\ status[t] = "waiting"
  /\ Settled(last[t])
  /\ status' = [status EXCEPT ![t] = "running"]
  /\ UNCHANGED <<spawned, queue, last>>

(* The work returns, throws or is aborted: the finally block resumes wait. *)
Finish(t) ==
  /\ status[t] = "running"
  /\ status' = [status EXCEPT ![t] = "done"]
  /\ UNCHANGED <<spawned, queue, last>>

(* A task aborted while it still waits never performs its work, but its
   finally block resumes `wait` all the same. *)
Abandon(t) ==
  /\ t \in Abortable
  /\ status[t] = "waiting"
  /\ status' = [status EXCEPT ![t] = "abandoned"]
  /\ UNCHANGED <<spawned, queue, last>>

QueueNext ==
  \/ Spawn
  \/ \E t \in Tasks : Start(t) \/ Finish(t) \/ Abandon(t)

QueueSpec == QueueInit /\ [][QueueNext]_queueVars

-----------------------------------------------------------------------------
Running(t) == status[t] = "running"

(* Two tasks perform their work at the same time only if a task spawned
   between them was aborted while it waited: the displaced invocation is
   then resumed before the work in front of it is finished (src/task.js:26
   hands the successor the abandoned task, not the one still running). *)
SerialUnlessAbandoned ==
  \A s, t \in Tasks :
    s < t /\ Running(s) /\ Running(t) =>
      \E k \in (s + 1) .. (t - 1) : status[k] = "abandoned"

(* Without such an abort the queue is a mutex. *)
AtMostOneRuns ==
  (\A t \in Tasks : status[t] # "abandoned") =>
    \A s, t \in Tasks : Running(s) /\ Running(t) => s = t

(* Work is begun in the order of the spawn calls: nothing spawned earlier is
   still waiting or running, unless an abandoned task stands between. *)
BegunInCallOrder ==
  [][\A t \in Tasks : ~Running(t) /\ Running(t)' =>
       \A s \in 1 .. (t - 1) :
         \/ Settled(s)
         \/ \E k \in (s + 1) .. (t - 1) : status[k] = "abandoned"]_queueVars

(* With nobody aborting a waiting task, the queue implements an executor that
   performs the jobs handed to it one at a time, oldest first. *)
Begun == {t \in Tasks : status[t] \in {"running", "done"}}
Active == {t \in Tasks : Running(t)}

Serial == INSTANCE SerialExecutor WITH
  issued <- spawned, begun <- Begun, active <- Active

ImplementsSerial == Serial!SerialSpec
=============================================================================
