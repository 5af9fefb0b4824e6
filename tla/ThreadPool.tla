------------------------------ MODULE ThreadPool ------------------------------
(***************************************************************************)
(* The runtime's thread pool (thread_pool.cc, threading_backend.cc): a     *)
(* thread launches one task per worker, runs task 0 itself unless told     *)
(* otherwise, and waits; the workers take their tasks from one ring buffer *)
(* each and sleep on a condition variable when it is empty.                *)
(*                                                                         *)
(* A step is one access to shared memory.  Task t is run by thread t: the  *)
(* worker with that index, or the launching thread for task 0.  A lambda   *)
(* meets its barriers in turn and may fail between any two of them.        *)
(***************************************************************************)
EXTENDS Integers, FiniteSets

CONSTANTS
  NumWorkers,   \* num_workers_
  MinUsed,      \* the least num_workers_used_ a configuration leaves
  MaxBarriers,  \* barriers of one lambda
  MaxLaunches,  \* bound on the launches
  MaxConfigs    \* bound on the configurations, resets and destructions

ASSUME PoolAssumption ==
  /\ NumWorkers \in Nat \ {0} /\ MinUsed \in {0, 1}
  /\ {MaxBarriers, MaxLaunches, MaxConfigs} \subseteq Nat

Threads == 0 .. NumWorkers - 1

RingSize == 2

VARIABLES
  exclude,      \* exclude_worker0_: the launching thread runs task 0
  used,         \* num_workers_used_
  concurrency,  \* threading::MaxConcurrency()
  shape,        \* the launcher's arrays: par_errors_.size() and the counters allocated
  configs,      \* configurations, resets and destructions so far
  mpc,          \* where the launching thread is
  next,         \* the index of the loop it is in
  last,         \* the reset under way is the destruction
  launches,     \* launches so far
  result,       \* what the last launch returned
  numTask,      \* env.num_task
  barriers,     \* how many barriers the lambda has
  numPending,   \* num_pending_
  hasError,     \* has_error_
  errors,       \* the slots that hold an error, or Outside
  sync,         \* sync_counter_
  head, tail, pending, exitNow,  \* the queue of each worker
  stage,        \* where each thread is
  runs,         \* how often each task of this launch was started
  passed,       \* the barriers each task of this launch is past
  failed        \* the tasks of this launch that failed

config == <<exclude, used, concurrency, shape, configs>>
main == <<mpc, next, last, launches, result>>
launcher == <<numTask, barriers, numPending, hasError, errors, sync>>
queues == <<head, tail, pending, exitNow>>
tasks == <<runs, passed, failed>>
vars == <<config, main, launcher, queues, stage, tasks>>

First == IF exclude THEN 1 ELSE 0
Workers == First .. NumWorkers - 1
Tasks == 0 .. numTask - 1

Zero == [w \in Threads |-> 0]
NoExit == [w \in Threads |-> FALSE]
Started == [w \in Threads |-> IF w \in Workers THEN "pop" ELSE "absent"]

Init ==
  /\ exclude \in BOOLEAN /\ used \in 1 .. NumWorkers
  /\ concurrency = NumWorkers /\ configs = 0 /\ shape = [errors |-> 0, counters |-> 0]
  /\ mpc = "idle" /\ next = 0 /\ last = FALSE /\ launches = 0 /\ result = 0
  /\ numTask = 0 /\ barriers = 0 /\ numPending = 0 /\ hasError = FALSE
  /\ errors = {} /\ sync = Zero
  /\ head = Zero /\ tail = Zero /\ pending = Zero /\ exitNow = NoExit /\ stage = Started
  /\ runs = Zero /\ passed = Zero /\ failed = {}
-----------------------------------------------------------------------------
(* The launching thread. *)

\* A faulty configuration does not clamp to num_workers_.
Configure_Unclamped ==
  /\ mpc = "idle" /\ configs < MaxConfigs
  /\ configs' = configs + 1
  /\ concurrency' \in 1 .. NumWorkers
  /\ used' \in MinUsed .. NumWorkers + 1
  /\ UNCHANGED <<exclude, shape, main, launcher, queues, stage, tasks>>

\* threading::Configure: SetMaxConcurrency, then UpdateWorkerConfiguration.
Configure ==
  /\ mpc = "idle" /\ configs < MaxConfigs
  /\ configs' = configs + 1
  /\ concurrency' \in 1 .. NumWorkers
  /\ used' \in MinUsed .. NumWorkers
  /\ UNCHANGED <<exclude, shape, main, launcher, queues, stage, tasks>>

\* ParallelLauncher::Init reshapes both arrays when there are more tasks than
\* slots for errors.
Reshaped(n) == IF n > shape.errors THEN [errors |-> n + 1, counters |-> n] ELSE shape

\* Launch up to its loop: the launcher is reset for n tasks, 0 for all of them.
\* A launch that finds too few counters (CountersFit) is not modelled.
\* A faulty launch counts only the tasks it pushes.
Launching(n, pend) ==
  /\ mpc = "idle" /\ launches < MaxLaunches /\ concurrency # 1
  /\ n <= used /\ n <= Reshaped(n).counters
  /\ launches' = launches + 1
  /\ numTask' = n /\ numPending' = pend /\ hasError' = FALSE
  /\ barriers' \in 0 .. MaxBarriers
  /\ sync' = [t \in Threads |-> IF t < n THEN 0 ELSE sync[t]] /\ shape' = Reshaped(n)
  /\ runs' = Zero /\ passed' = Zero /\ failed' = {}
  /\ next' = First /\ mpc' = "push"
  /\ UNCHANGED <<exclude, used, concurrency, configs, last, result, errors, queues, stage>>

Launch_CountPushed(n) == Launching(n, n - First)
Launch(n) == Launching(n, n)

\* TVMBackendParallelLaunch with one worker runs the lambda in place, as the
\* only task, and does not look at what it returns.
LaunchInline ==
  /\ mpc = "idle" /\ launches < MaxLaunches /\ concurrency = 1
  /\ launches' = launches + 1
  /\ failed' \in {{}, {0}}
  /\ result' = 0
  /\ UNCHANGED <<config, mpc, next, last, launcher, queues, stage, runs, passed>>

\* Push: the task goes into the ring, as soon as there is room.  What a ring
\* holds is always its worker's task of this thread's launcher.
Enqueue ==
  /\ mpc = "push" /\ next < numTask
  /\ ~ exitNow[next] /\ (tail[next] + 1) % RingSize # head[next]
  /\ tail' = [tail EXCEPT ![next] = (@ + 1) % RingSize]
  /\ mpc' = "count"
  /\ UNCHANGED <<config, next, last, launches, result, launcher, head, pending,
                 exitNow, stage, tasks>>

\* Then pending_ is incremented; a worker that waits has made it -1.
Count ==
  /\ mpc = "count"
  /\ pending' = [pending EXCEPT ![next] = @ + 1]
  /\ IF pending[next] = -1
     THEN mpc' = "notify" /\ UNCHANGED next
     ELSE mpc' = "push" /\ next' = next + 1
  /\ UNCHANGED <<config, last, launches, result, launcher, head, tail,
                 exitNow, stage, tasks>>

\* The worker of queue w holds its mutex.
Locked(w) == stage[w] \in {"check", "doze"}
Woken(w) == [stage EXCEPT ![w] = IF @ = "wait" THEN "lock" ELSE @]

\* A faulty Push notifies without the lock.
Notify_Unlocked ==
  /\ mpc = "notify"
  /\ stage' = Woken(next)
  /\ mpc' = "push" /\ next' = next + 1
  /\ UNCHANGED <<config, last, launches, result, launcher, queues, tasks>>
Notify == mpc = "notify" /\ ~ Locked(next) /\ Notify_Unlocked

\* All tasks are pushed: the launching thread starts task 0, or waits at once.
StartOwn ==
  /\ mpc = "push" /\ numTask <= next
  /\ mpc' = "work"
  /\ IF exclude THEN /\ stage' = [stage EXCEPT ![0] = "body"]
                     /\ runs' = [runs EXCEPT ![0] = @ + 1]
     ELSE UNCHANGED <<stage, runs>>
  /\ UNCHANGED <<config, next, last, launches, result, launcher, queues, passed, failed>>

\* WaitForJobs: num_pending_, has_error_ and the errors are read in that order.
WaitForJobs ==
  /\ mpc = "work" /\ (exclude => stage[0] = "absent")
  /\ numPending = 0
  /\ mpc' = "check"
  /\ UNCHANGED <<config, next, last, launches, result, launcher, queues, stage, tasks>>

CheckErrors ==
  /\ mpc = "check"
  /\ IF hasError THEN mpc' = "collect" /\ UNCHANGED result
     ELSE mpc' = "idle" /\ result' = 0
  /\ UNCHANGED <<config, next, last, launches, launcher, queues, stage, tasks>>

CollectErrors ==
  /\ mpc = "collect"
  /\ errors' = errors \ (0 .. shape.errors - 1)
  /\ mpc' = "idle" /\ result' = -1
  /\ UNCHANGED <<config, next, last, launches, numTask, barriers, numPending,
                 hasError, sync, queues, stage, tasks>>

\* Reset, and the destructor, which does the same but for the last step.
BeginKill ==
  /\ mpc = "idle" /\ configs < MaxConfigs
  /\ configs' = configs + 1
  /\ last' \in BOOLEAN
  /\ mpc' = "kill" /\ next' = 0
  /\ UNCHANGED <<exclude, used, concurrency, shape, launches, result, launcher, queues,
                 stage, tasks>>

\* A faulty SignalForKill only sets the flag.
SignalForKill_Silent ==
  /\ mpc = "kill" /\ next < NumWorkers
  /\ exitNow' = [exitNow EXCEPT ![next] = TRUE]
  /\ next' = next + 1
  /\ UNCHANGED <<config, mpc, last, launches, result, launcher, head, tail,
                 pending, stage, tasks>>
SignalForKill ==
  /\ mpc = "kill" /\ next < NumWorkers
  /\ ~ Locked(next)
  /\ exitNow' = [exitNow EXCEPT ![next] = TRUE]
  /\ stage' = Woken(next)
  /\ next' = next + 1
  /\ UNCHANGED <<config, mpc, last, launches, result, launcher, head, tail,
                 pending, tasks>>

\* threads_.reset() joins the workers; then Init, with new queues and threads.
Join ==
  /\ mpc = "kill" /\ next = NumWorkers
  /\ \A w \in Threads : stage[w] = "absent"
  /\ UNCHANGED <<exclude, concurrency, shape, configs, next, last, launches, result,
                 launcher, tasks>>
  /\ IF last THEN mpc' = "dead" /\ UNCHANGED <<used, queues, stage>>
     ELSE /\ mpc' = "idle" /\ used' \in 1 .. NumWorkers
          /\ head' = Zero /\ tail' = Zero /\ pending' = Zero
          /\ exitNow' = NoExit /\ stage' = Started
-----------------------------------------------------------------------------
(* A worker: Pop, then the task. *)

To(t, s) == stage' = [stage EXCEPT ![t] = s]

\* After spinning for as long as it likes, Pop claims a task.
Claim(w) ==
  /\ stage[w] = "pop"
  /\ pending' = [pending EXCEPT ![w] = @ - 1]
  /\ To(w, IF pending[w] = 0 THEN "lock" ELSE "take")
  /\ UNCHANGED <<config, main, launcher, head, tail, exitNow, tasks>>

\* cv_.wait with its predicate: locked, tested, asleep and unlocked at once.
Lock(w) ==
  /\ stage[w] = "lock"
  /\ To(w, "check")
  /\ UNCHANGED <<config, main, launcher, queues, tasks>>

Test(w) ==
  /\ stage[w] = "check"
  /\ To(w, IF pending[w] >= 0 \/ exitNow[w] THEN "take" ELSE "doze")
  /\ UNCHANGED <<config, main, launcher, queues, tasks>>

Sleep(w) ==
  /\ stage[w] = "doze"
  /\ To(w, "wait")
  /\ UNCHANGED <<config, main, launcher, queues, tasks>>

\* A faulty wait does not test its predicate again.
WakeSpuriously_NoRetest(w) ==
  /\ stage[w] = "wait"
  /\ To(w, "take")
  /\ UNCHANGED <<config, main, launcher, queues, tasks>>

\* A condition variable may wake its waiter without being notified.
WakeSpuriously(w) ==
  /\ stage[w] = "wait"
  /\ To(w, "lock")
  /\ UNCHANGED <<config, main, launcher, queues, tasks>>

\* The rest of Pop: the worker exits, or takes the task and runs it.  The
\* sanity check on an empty queue is QueueNotEmpty.
Take(w) ==
  /\ stage[w] = "take"
  /\ IF exitNow[w]
     THEN To(w, "absent") /\ UNCHANGED <<head, runs>>
     ELSE /\ head' = [head EXCEPT ![w] = (@ + 1) % RingSize]
          /\ runs' = [runs EXCEPT ![w] = @ + 1]
          /\ To(w, "body")
  /\ UNCHANGED <<config, main, launcher, tail, pending, exitNow, passed, failed>>

\* TVMBackendParallelBarrier: the task counts its arrival, then waits for the
\* others' counters, which only grow during a launch.
Arrive(t) ==
  /\ stage[t] = "body" /\ passed[t] < barriers
  /\ sync' = [sync EXCEPT ![t] = @ + 1]
  /\ To(t, "barrier")
  /\ UNCHANGED <<config, main, numTask, barriers, numPending, hasError, errors,
                 queues, tasks>>

\* A faulty barrier lets the counter of another be equal.
PassBarrier_Early(t) ==
  /\ stage[t] = "barrier"
  /\ \A u \in Tasks \ {t} : sync[u] >= sync[t] - 1
  /\ passed' = [passed EXCEPT ![t] = @ + 1]
  /\ To(t, "body")
  /\ UNCHANGED <<config, main, launcher, queues, runs, failed>>
PassBarrier(t) ==
  /\ stage[t] = "barrier"
  /\ \A u \in Tasks \ {t} : sync[u] > sync[t] - 1
  /\ passed' = [passed EXCEPT ![t] = @ + 1]
  /\ To(t, "body")
  /\ UNCHANGED <<config, main, launcher, queues, runs, failed>>

\* Where thread t goes after its task.
Resume(t) == IF t \in Workers THEN "pop" ELSE "absent"

\* The lambda returns 0: SignalJobFinish.
Finish(t) ==
  /\ stage[t] = "body" /\ passed[t] = barriers
  /\ numPending' = numPending - 1
  /\ To(t, Resume(t))
  /\ UNCHANGED <<config, main, numTask, barriers, hasError, errors, sync, queues, tasks>>

\* It fails, at any point: SignalJobError counts the task as done, stores the
\* error, then raises the flag.
Fail(t) ==
  /\ stage[t] = "body"
  /\ failed' = failed \cup {t}
  /\ numPending' = numPending - 1
  /\ To(t, "error")
  /\ UNCHANGED <<config, main, numTask, barriers, hasError, errors, sync, queues,
                 runs, passed>>

\* Stands for every index outside par_errors_.
Outside == NumWorkers + 1

\* The launching thread passes tsk.task_id, the task it pushed last; with one
\* task nothing was pushed and the index is not initialized: it may name any
\* slot, or none.  What a store outside the array overwrites is not modelled.
ErrorSlots(t) ==
  CASE t \in Workers -> {t}
    [] t \notin Workers /\ numTask > 1 -> {numTask - 1}
    [] OTHER -> 0 .. shape.errors - 1 \cup {Outside}

StoreError(t) ==
  /\ stage[t] = "error"
  /\ \E i \in ErrorSlots(t) : errors' = errors \cup {i}
  /\ To(t, "flag")
  /\ UNCHANGED <<config, main, numTask, barriers, numPending, hasError, sync, queues, tasks>>

RaiseFlag(t) ==
  /\ stage[t] = "flag"
  /\ hasError' = TRUE
  /\ To(t, Resume(t))
  /\ UNCHANGED <<config, main, numTask, barriers, numPending, errors, sync, queues, tasks>>

Worker(w) == Claim(w) \/ Lock(w) \/ Test(w) \/ Sleep(w) \/ Take(w)
Lambda(t) ==
  Arrive(t) \/ PassBarrier(t) \/ Finish(t) \/ Fail(t) \/ StoreError(t) \/ RaiseFlag(t)
Thread(t) == Worker(t) \/ Lambda(t)
Main ==
  Enqueue \/ Count \/ StartOwn \/ WaitForJobs \/ CheckErrors \/ CollectErrors \/ Join
Request == Configure \/ LaunchInline \/ BeginKill \/ \E n \in 0 .. NumWorkers :
             Launch(IF n = 0 THEN used ELSE n)

Next ==
  Main \/ Notify \/ SignalForKill \/ Request \/ \E t \in Threads : Thread(t) \/ WakeSpuriously(t)

\* Every thread is scheduled, and the mutex is granted to who asks for it again
\* and again.
Fairness ==
  /\ WF_vars(Main) /\ SF_vars(Notify) /\ SF_vars(SignalForKill)
  /\ \A t \in Threads : WF_vars(Thread(t))

Safety == Init /\ [][Next]_vars

Spec == Safety /\ Fairness
-----------------------------------------------------------------------------
\* Type invariant of the pool.
TypeOK ==
  /\ exclude \in BOOLEAN /\ used \in 0 .. NumWorkers
  /\ concurrency \in 1 .. NumWorkers /\ configs \in 0 .. MaxConfigs
  /\ shape \in [errors : 0 .. NumWorkers + 1, counters : 0 .. NumWorkers]
  /\ mpc \in {"idle", "push", "count", "notify", "work", "check", "collect", "kill", "dead"}
  /\ next \in 0 .. NumWorkers /\ last \in BOOLEAN /\ launches \in 0 .. MaxLaunches
  /\ result \in {0, -1}
  /\ numTask \in 0 .. NumWorkers /\ barriers \in 0 .. MaxBarriers
  /\ numPending \in Int /\ hasError \in BOOLEAN /\ errors \subseteq 0 .. Outside
  /\ sync \in [Threads -> Nat]
  /\ head \in [Threads -> 0 .. RingSize - 1] /\ tail \in [Threads -> 0 .. RingSize - 1]
  /\ pending \in [Threads -> -1 .. 1] /\ exitNow \in [Threads -> BOOLEAN]
  /\ stage \in [Threads -> {"absent", "pop", "lock", "check", "doze", "wait", "take",
                            "body", "barrier", "error", "flag"}]
  /\ runs \in [Threads -> Nat] /\ passed \in [Threads -> Nat] /\ failed \subseteq Threads

\* Pop's sanity check never fails: a worker that goes on to take a task finds
\* its queue not empty, whichever of pending_, tail_ and the condition variable
\* told it so.
QueueNotEmpty == \A w \in Threads : stage[w] = "take" /\ ~ exitNow[w] => head[w] # tail[w]

\* The tasks inside the lambda, with the launcher and the closure in hand.
Running == {t \in Threads : stage[t] \in {"body", "barrier"}}

\* When Launch returns, each task has been run once and none is still using the
\* closure, which lives on the caller's stack.
LaunchComplete ==
  mpc \in {"check", "collect", "idle", "kill"} =>
    /\ Running = {}
    /\ \A t \in Threads : runs[t] = IF t \in Tasks THEN 1 ELSE 0

\* No task is past a barrier that another task of the launch has not reached.
BarrierSeparates ==
  \A t, u \in Tasks : passed[u] < passed[t] =>
    passed[t] = passed[u] + 1 /\ stage[u] = "barrier"

\* A launch is under way; the barriers it may be stuck at for good because a
\* task failed before them.
InLaunch == mpc \in {"push", "count", "notify", "work", "check", "collect"}
StuckAtBarrier == failed # {} /\ barriers > 0

\* Every launch returns: no wake-up of a worker is lost and every task is
\* counted, unless a task fails ahead of a barrier the others wait at.
LaunchReturns == InLaunch ~> (mpc = "idle" \/ StuckAtBarrier)

\* Reset and the destructor return: every worker sees the kill signal.
KillReturns == mpc = "kill" ~> mpc \in {"idle", "dead"}

\* Launch admits any number of tasks up to num_workers_used_ ("Request parallel
\* sync task larger than number of threads used" otherwise): Init then leaves a
\* counter for every one of them.
CountersFit == mpc = "idle" => \A n \in 1 .. used : n <= Reshaped(n).counters

\* An error is stored in a slot that par_errors_ has.  Not so when a launch of
\* one task fails on the launching thread.
ErrorsInBounds == errors \subseteq 0 .. shape.errors - 1

\* "0 when no error is thrown, -1 when failure happens".
LaunchReports == mpc = "idle" => (result = -1) = (failed # {})
=============================================================================
