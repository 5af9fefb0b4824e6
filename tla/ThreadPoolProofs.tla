--------------------------- MODULE ThreadPoolProofs ---------------------------
(***************************************************************************)
(* The thread pool for any number of workers, launches and barriers.       *)
(***************************************************************************)
EXTENDS ThreadPool, TLAPS

Waits == {"lock", "check", "doze", "wait", "take"}
InTask == {"body", "barrier", "error", "flag"}
Stages == {"absent", "pop"} \cup Waits \cup InTask

\* The types the arguments need, group by group.
ScalarType ==
  /\ exclude \in BOOLEAN /\ used \in MinUsed .. NumWorkers
  /\ next \in 0 .. NumWorkers
  /\ numTask \in 0 .. NumWorkers /\ barriers \in Nat /\ numPending \in Int
  /\ mpc \in {"push", "count", "notify"} => next >= First
  /\ mpc \in {"count", "notify"} => next < numTask

QueueType ==
  /\ head \in [Threads -> {0, 1}] /\ tail \in [Threads -> {0, 1}]
  /\ pending \in [Threads -> Int] /\ exitNow \in [Threads -> BOOLEAN]

StageType == stage \in [Threads -> Stages]

TaskType ==
  sync \in [Threads -> Nat] /\ runs \in [Threads -> Nat] /\ passed \in [Threads -> Nat]

PoolType == ScalarType /\ QueueType /\ StageType /\ TaskType

\* The items of queue w, the one Push has not counted yet, and the one its
\* worker has claimed; a worker that exited keeps its claim.
Items(w) == IF head[w] = tail[w] THEN 0 ELSE 1
Uncounted(w) == IF mpc = "count" /\ next = w THEN 1 ELSE 0
Claimed(w) == IF stage[w] \in Waits \/ (stage[w] = "absent" /\ exitNow[w]) THEN 1 ELSE 0

\* The inductive invariant of a queue: what pending_ counts, and that a worker
\* about to take a task has one that Push is done with.
QueueInv(w) ==
  /\ pending[w] = Items(w) - Uncounted(w) - Claimed(w)
  /\ Uncounted(w) <= Items(w)
  /\ stage[w] = "take" /\ ~ exitNow[w] => pending[w] = 0
  /\ stage[w] = "absent" => exitNow[w]

\* The launching thread's own slot is never a worker's, and is idle unless the
\* thread runs task 0.
OwnSlot ==
  exclude => /\ stage[0] \in {"absent"} \cup InTask
             /\ stage[0] # "absent" => mpc = "work"

Queues == OwnSlot /\ \A w \in Workers : QueueInv(w)

USE PoolAssumption DEF Threads, RingSize

\* The steps that touch each group of variables.
Stepping(t) == Thread(t) \/ WakeSpuriously(t)

\* The workers are threads of the pool.
LEMMA WorkerThreads == Workers \subseteq Threads
BY DEF Workers, First

\* Who may change the queues, one disjunct per kind of access.
LEMMA QueueSteps ==
  ASSUME [Next]_vars
  PROVE  \/ UNCHANGED queues
         \/ Enqueue \/ Count \/ SignalForKill \/ Join
         \/ \E t \in Threads : Claim(t) \/ Take(t)
BY SMTT(30) DEF Next, vars, Main, Notify, Notify_Unlocked, StartOwn, WaitForJobs, CheckErrors,
       CollectErrors, Request, Configure, LaunchInline, BeginKill, Launch, Launching,
       Thread, Worker, Lambda, Lock, Test, Sleep, WakeSpuriously, Arrive, PassBarrier,
       Finish, Fail, StoreError, RaiseFlag

\* Who may change the stage of a thread.
LEMMA StageSteps ==
  ASSUME [Next]_vars
  PROVE  \/ UNCHANGED stage
         \/ Notify \/ SignalForKill \/ StartOwn \/ Join
         \/ \E t \in Threads : Stepping(t)
BY SMTT(30) DEF Next, vars, Main, Enqueue, Count, WaitForJobs, CheckErrors, CollectErrors,
       Request, Configure, LaunchInline, BeginKill, Launch, Launching, Stepping

\* Who may change what is recorded of the tasks.
LEMMA TaskSteps ==
  ASSUME [Next]_vars
  PROVE  \/ UNCHANGED <<sync, runs, passed>>
         \/ StartOwn \/ \E n : Launch(n)
         \/ \E t \in Threads : Take(t) \/ Arrive(t) \/ PassBarrier(t)
BY Zenon DEF Next, vars, Main, Notify, Notify_Unlocked, Enqueue, Count, WaitForJobs, CheckErrors,
       CollectErrors, Request, Configure, LaunchInline, BeginKill, SignalForKill, Join,
       Thread, Worker, Lambda, Lock, Test, Sleep, Claim, WakeSpuriously,
       Finish, Fail, StoreError, RaiseFlag, launcher, tasks

\* Updating a function at one point keeps its type.
LEMMA Update ==
  ASSUME NEW D, NEW R, NEW f \in [D -> R], NEW d, NEW v \in R
  PROVE  [f EXCEPT ![d] = v] \in [D -> R]
BY Zenon

\* The stages named in the actions are stages.
LEMMA StageNames ==
  /\ {"absent", "pop", "lock", "check", "doze", "wait", "take", "body", "barrier",
      "error", "flag"} = Stages
  /\ \A t : Resume(t) \in Stages
BY DEF Stages, Waits, InTask, Resume

\* Moving one thread to a stage keeps the type of stage.
LEMMA StageTo ==
  ASSUME StageType, NEW t, NEW s \in Stages, To(t, s)
  PROVE  StageType'
BY Update, Zenon DEF StageType, To

\* So does waking the waiter of a queue.
LEMMA StageWoken ==
  ASSUME StageType, NEW w \in Threads, stage' = Woken(w)
  PROVE  StageType'
<1>1. (IF stage[w] = "wait" THEN "lock" ELSE stage[w]) \in Stages
  BY DEF StageType, Stages, Waits
<1> QED
  BY <1>1, Update DEF StageType, Woken

\* Every step keeps the types of the launching thread and of the launcher.
LEMMA ScalarStep ==
  ASSUME ScalarType, [Next]_vars
  PROVE  ScalarType'
<1> USE DEF ScalarType, First
<1>1. ASSUME NEW n \in 0 .. NumWorkers, Launch(IF n = 0 THEN used ELSE n) PROVE ScalarType'
  <2> DEFINE k == IF n = 0 THEN used ELSE n
  <2>1. k \in 0 .. NumWorkers
    OBVIOUS
  <2> HIDE DEF k
  <2>2. Launch(k)
    BY <1>1 DEF k
  <2> QED
    BY <2>1, <2>2 DEF Launch, Launching, config
<1>2. CASE Configure \/ LaunchInline \/ BeginKill
  BY <1>2 DEF Configure, LaunchInline, BeginKill, config, main, launcher
<1>3. CASE Main \/ Notify \/ SignalForKill
  BY <1>3 DEF Main, Enqueue, Count, StartOwn, WaitForJobs, CheckErrors, CollectErrors,
              Join, Notify, Notify_Unlocked, SignalForKill, config, launcher
<1>4. ASSUME NEW t \in Threads, Stepping(t) PROVE ScalarType'
  <2>1. UNCHANGED <<config, main, numTask, barriers>>
    BY <1>4 DEF Stepping, Thread, Worker, Lambda, Claim, Lock, Test, Sleep, Take,
       WakeSpuriously, Arrive, PassBarrier, Finish, Fail, StoreError, RaiseFlag, launcher
  <2>2. numPending' \in Int
    BY <1>4 DEF Stepping, Thread, Worker, Lambda, Claim, Lock, Test, Sleep, Take,
       WakeSpuriously, Arrive, PassBarrier, Finish, Fail, StoreError, RaiseFlag, launcher
  <2> QED
    BY <2>1, <2>2 DEF config, main
<1>5. CASE UNCHANGED vars
  BY <1>5 DEF vars, config, main, launcher
<1> QED
  BY <1>1, <1>2, <1>3, <1>4, <1>5 DEF Next, Request, Stepping

\* Every step keeps the types of the queues.
LEMMA QueueTypeStep ==
  ASSUME ScalarType, QueueType, [Next]_vars
  PROVE  QueueType'
<1>1. CASE UNCHANGED queues
  BY <1>1 DEF QueueType, queues
<1>2. CASE Enqueue
  <2>1. next \in Threads
    BY <1>2 DEF Enqueue, ScalarType
  <2>2. tail \in [Threads -> {0, 1}] /\ (tail[next] + 1) % 2 \in {0, 1}
    BY <2>1 DEF QueueType
  <2>3. tail' \in [Threads -> {0, 1}]
    BY <2>2, <1>2, Update, Zenon DEF Enqueue
  <2> QED
    BY <1>2, <2>3, Zenon DEF QueueType, Enqueue
<1>3. CASE Count
  <2>1. next \in Threads /\ pending \in [Threads -> Int]
    BY <1>3 DEF Count, ScalarType, QueueType
  <2>2. pending' \in [Threads -> Int]
    BY <2>1, <1>3 DEF Count
  <2> QED
    BY <1>3, <2>2, Zenon DEF QueueType, Count
<1>4. CASE SignalForKill
  <2>1. exitNow' \in [Threads -> BOOLEAN]
    BY <1>4, Update, Zenon DEF SignalForKill, QueueType
  <2> QED
    BY <1>4, <2>1, Zenon DEF QueueType, SignalForKill
<1>5. CASE Join
  <2>1. Zero \in [Threads -> {0, 1}] /\ Zero \in [Threads -> Int]
        /\ NoExit \in [Threads -> BOOLEAN]
    BY DEF Zero, NoExit
  <2> QED
    BY <1>5, <2>1, Zenon DEF Join, QueueType, queues
<1>6. ASSUME NEW t \in Threads, Claim(t) PROVE QueueType'
  <2>1. pending \in [Threads -> Int]
    BY DEF QueueType
  <2>2. pending' \in [Threads -> Int]
    BY <2>1, <1>6 DEF Claim
  <2> QED
    BY <1>6, <2>2, Zenon DEF QueueType, Claim
<1>7. ASSUME NEW t \in Threads, Take(t) PROVE QueueType'
  <2>0. head \in [Threads -> {0, 1}]
    BY DEF QueueType
  <2>1. \A h \in {0, 1} : (h + 1) % 2 \in {0, 1}
    OBVIOUS
  <2>2. head' \in [Threads -> {0, 1}]
    BY <2>0, <2>1, <1>7, Update DEF Take
  <2> QED
    BY <1>7, <2>2, Zenon DEF QueueType, Take
<1> QED
  BY <1>1, <1>2, <1>3, <1>4, <1>5, <1>6, <1>7, QueueSteps

\* Every step keeps the type of stage.
LEMMA StageStep ==
  ASSUME ScalarType, StageType, [Next]_vars
  PROVE  StageType'
<1>1. CASE UNCHANGED stage
  BY <1>1 DEF StageType
<1>2. CASE Notify \/ SignalForKill
  <2>1. next \in Threads /\ stage' = Woken(next)
    BY <1>2 DEF Notify, Notify_Unlocked, SignalForKill, ScalarType
  <2> QED
    BY <2>1, StageWoken
<1>3. CASE StartOwn
  <2>1. [stage EXCEPT ![0] = "body"] \in [Threads -> Stages]
    BY Update, StageNames, Zenon DEF StageType
  <2> QED
    BY <1>3, <2>1 DEF StartOwn, StageType
<1>4. CASE Join
  <2>1. Started \in [Threads -> Stages]
    BY StageNames DEF Started
  <2> QED
    BY <1>4, <2>1 DEF Join, StageType
<1>5. ASSUME NEW t \in Threads, Stepping(t) PROVE StageType'
  <2>1. \E s \in Stages : To(t, s)
    BY <1>5, StageNames
       DEF Stepping, Thread, Worker, Lambda, Claim, Lock, Test, Sleep, Take,
           WakeSpuriously, Arrive, PassBarrier, Finish, Fail, StoreError, RaiseFlag
  <2> QED
    BY <2>1, StageTo
<1> QED
  BY <1>1, <1>2, <1>3, <1>4, <1>5, StageSteps

\* Every step keeps the types of what is recorded of the tasks.
LEMMA TaskTypeStep ==
  ASSUME TaskType, [Next]_vars
  PROVE  TaskType'
<1>1. CASE UNCHANGED <<sync, runs, passed>>
  BY <1>1, Zenon DEF TaskType
<1>2. CASE StartOwn
  <2>1. 0 \in Threads /\ runs \in [Threads -> Nat]
    BY DEF TaskType
  <2>2. runs' \in [Threads -> Nat]
    BY <2>1, <1>2 DEF StartOwn
  <2> QED
    BY <1>2, <2>2, Zenon DEF StartOwn, TaskType, launcher
<1>3. ASSUME NEW n, Launch(n) PROVE TaskType'
  BY <1>3 DEF Launch, Launching, TaskType, Zero
<1>4. ASSUME NEW t \in Threads, Take(t) PROVE TaskType'
  <2>1. runs \in [Threads -> Nat]
    BY DEF TaskType
  <2>2. runs' \in [Threads -> Nat]
    BY <2>1, <1>4 DEF Take
  <2> QED
    BY <1>4, <2>2, Zenon DEF Take, TaskType, launcher
<1>5. ASSUME NEW t \in Threads, Arrive(t) PROVE TaskType'
  <2>1. sync \in [Threads -> Nat]
    BY DEF TaskType
  <2>2. sync' \in [Threads -> Nat]
    BY <2>1, <1>5 DEF Arrive
  <2> QED
    BY <1>5, <2>2, Zenon DEF Arrive, TaskType, tasks
<1>6. ASSUME NEW t \in Threads, PassBarrier(t) PROVE TaskType'
  <2>1. passed \in [Threads -> Nat]
    BY DEF TaskType
  <2>2. passed' \in [Threads -> Nat]
    BY <2>1, <1>6 DEF PassBarrier
  <2> QED
    BY <1>6, <2>2, Zenon DEF PassBarrier, TaskType, launcher
<1> QED
  BY <1>1, <1>2, <1>3, <1>4, <1>5, <1>6, TaskSteps

\* The facts about one worker's queue that a step of someone else leaves alone.
LEMMA QueueFrame ==
  ASSUME NEW w, QueueInv(w),
         head'[w] = head[w], tail'[w] = tail[w], pending'[w] = pending[w],
         exitNow'[w] = exitNow[w], stage'[w] = stage[w],
         Uncounted(w)' = Uncounted(w)
  PROVE  QueueInv(w)'
BY DEF QueueInv, Items, Claimed

\* A task's steps move its thread between stages without a claim.
LEMMA QueueLambda ==
  ASSUME PoolType, NEW w \in Threads, QueueInv(w), UNCHANGED <<queues, main>>,
         stage[w] \in InTask, stage'[w] \in InTask \cup {"pop"}
  PROVE  QueueInv(w)'
<1>1. Claimed(w) = 0 /\ Claimed(w)' = 0 /\ stage[w]' \notin {"take", "absent"}
  BY DEF Claimed, InTask, Waits
<1>2. Items(w)' = Items(w) /\ Uncounted(w)' = Uncounted(w) /\ pending'[w] = pending[w]
  BY DEF Items, Uncounted, queues, main
<1> QED
  BY <1>1, <1>2 DEF QueueInv

\* The steps of the launching thread keep the count of every queue right.
LEMMA QueueInvMain ==
  ASSUME PoolType, Queues, NEW w \in Workers,
         \/ Main \/ Notify \/ SignalForKill \/ Request
  PROVE  QueueInv(w)'
<1>0. w \in Threads /\ QueueInv(w) /\ (exclude => w # 0)
  BY DEF Workers, First, Queues, PoolType, ScalarType
<1>1. CASE UNCHANGED <<queues, stage>> /\ mpc # "count" /\ mpc' # "count"
  BY <1>0, <1>1, QueueFrame DEF Uncounted, queues
<1>2. CASE Enqueue
  <2>1. CASE w = next
    <3>1. /\ head[w] \in {0, 1} /\ tail[w] \in {0, 1}
          /\ (tail[w] + 1) % 2 # head[w] /\ tail'[w] = (tail[w] + 1) % 2
      BY <1>0, <1>2, <2>1 DEF PoolType, QueueType, Enqueue
    <3>2. head[w] = tail[w] /\ tail'[w] # head[w]
      BY <3>1
    <3>3. Items(w) = 0 /\ Uncounted(w) = 0 /\ Items(w)' = 1 /\ Uncounted(w)' = 1
      BY <1>2, <2>1, <3>2 DEF Items, Uncounted, Enqueue
    <3>4. Claimed(w)' = Claimed(w) /\ UNCHANGED <<stage, exitNow, pending>>
      BY <1>2 DEF Claimed, Enqueue
    <3>5. ~ (stage[w] = "take" /\ ~ exitNow[w])
      BY <1>0, <3>3 DEF QueueInv, Claimed, Waits
    <3> QED
      BY <1>0, <3>3, <3>4, <3>5 DEF QueueInv
  <2>2. CASE w # next
    <3>1. tail'[w] = tail[w] /\ Uncounted(w)' = Uncounted(w)
      BY <1>0, <1>2, <2>2 DEF Enqueue, Uncounted, PoolType, QueueType
    <3> QED
      BY <1>0, <1>2, <3>1, QueueFrame DEF Enqueue
  <2> QED
    BY <2>1, <2>2
<1>3. CASE Count
  <2>1. CASE w = next
    <3>1. pending[w] \in Int /\ pending'[w] = pending[w] + 1
      BY <1>0, <1>3, <2>1 DEF PoolType, QueueType, Count
    <3>2. Uncounted(w) = 1 /\ Uncounted(w)' = 0 /\ Items(w)' = Items(w)
      BY <1>3, <2>1 DEF Items, Uncounted, Count
    <3>3. Claimed(w)' = Claimed(w) /\ UNCHANGED <<stage, exitNow>> /\ Claimed(w) \in {0, 1}
      BY <1>3 DEF Claimed, Count
    <3>4. Items(w) = 1
      BY <1>0, <3>2 DEF QueueInv, Items
    <3>5. stage[w] = "take" => Claimed(w) = 1
      BY DEF Claimed, Waits
    <3> QED
      BY <1>0, <3>1, <3>2, <3>3, <3>4, <3>5 DEF QueueInv
  <2>2. CASE w # next
    <3>1. pending'[w] = pending[w] /\ Uncounted(w)' = Uncounted(w)
      BY <1>0, <1>3, <2>2 DEF Count, Uncounted, PoolType, QueueType
    <3> QED
      BY <1>0, <1>3, <3>1, QueueFrame DEF Count
  <2> QED
    BY <2>1, <2>2
<1>4. CASE Notify
  <2>1. stage[w] \in Stages /\ stage'[w] \in {stage[w], IF stage[w] = "wait" THEN "lock" ELSE stage[w]}
    BY <1>0, <1>4 DEF Notify, Notify_Unlocked, Woken, PoolType, StageType
  <2>2. UNCHANGED queues /\ Uncounted(w)' = Uncounted(w)
    BY <1>4 DEF Notify, Notify_Unlocked, Uncounted
  <2> QED
    BY <1>0, <2>1, <2>2 DEF QueueInv, Items, Claimed, Waits, queues
<1>5. CASE SignalForKill
  <2>1. stage[w] \in Stages /\ stage'[w] \in {stage[w], IF stage[w] = "wait" THEN "lock" ELSE stage[w]}
    BY <1>0, <1>5 DEF SignalForKill, Woken, PoolType, StageType
  <2>2. exitNow[w] \in BOOLEAN /\ exitNow'[w] \in {TRUE, exitNow[w]}
    BY <1>0, <1>5, Zenon DEF SignalForKill, PoolType, QueueType
  <2>3. UNCHANGED <<head, tail, pending>> /\ Uncounted(w)' = Uncounted(w)
    BY <1>5 DEF SignalForKill, Uncounted
  <2> QED
    BY <1>0, <2>1, <2>2, <2>3, Zenon DEF QueueInv, Items, Claimed, Waits
<1>6. CASE Join
  <2>1. CASE UNCHANGED <<queues, stage>>
    <3>1. mpc = "kill" /\ mpc' \in {"dead", "idle"}
      BY <1>6 DEF Join
    <3> QED
      BY <1>1, <2>1, <3>1
  <2>2. CASE /\ head' = Zero /\ tail' = Zero /\ pending' = Zero
             /\ exitNow' = NoExit /\ stage' = Started /\ mpc' = "idle"
    <3>1. /\ head'[w] = 0 /\ tail'[w] = 0 /\ pending'[w] = 0
          /\ ~ exitNow'[w] /\ stage'[w] = "pop"
      BY <1>0, <2>2 DEF Zero, NoExit, Started
    <3>2. Items(w)' = 0 /\ Uncounted(w)' = 0 /\ Claimed(w)' = 0
      BY <2>2, <3>1 DEF Items, Uncounted, Claimed, Waits
    <3> QED
      BY <3>1, <3>2 DEF QueueInv
  <2> QED
    BY <1>6, <2>1, <2>2 DEF Join
<1>7. CASE StartOwn
  <2>1. stage'[w] = stage[w] /\ UNCHANGED queues /\ Uncounted(w)' = Uncounted(w)
    BY <1>0, <1>7 DEF StartOwn, Uncounted, PoolType, StageType, ScalarType
  <2> QED
    BY <1>0, <2>1, QueueFrame DEF queues
<1>8. CASE WaitForJobs \/ CheckErrors \/ CollectErrors \/ Request
  <2>1. UNCHANGED <<queues, stage>> /\ mpc # "count" /\ mpc' # "count"
    BY <1>8 DEF WaitForJobs, CheckErrors, CollectErrors, Request, Configure,
       LaunchInline, BeginKill, Launch, Launching, main
  <2> QED
    BY <1>1, <2>1, Zenon
<1> QED
  BY <1>2, <1>3, <1>4, <1>5, <1>6, <1>7, <1>8 DEF Main

\* So do the steps of the workers and their tasks.
LEMMA QueueInvThread ==
  ASSUME PoolType, Queues, NEW w \in Workers, NEW t \in Threads, Stepping(t)
  PROVE  QueueInv(w)'
<1>0. w \in Threads /\ QueueInv(w) /\ stage[w] \in Stages /\ pending[w] \in Int
  BY WorkerThreads, Zenon DEF Queues, PoolType, StageType, QueueType
<1> USE DEF main
<1>1. CASE t # w
  <2>1. \E s : To(t, s)
    BY DEF Stepping, Thread, Worker, Lambda, Claim, Lock, Test, Sleep, Take,
       WakeSpuriously, Arrive, PassBarrier, Finish, Fail, StoreError, RaiseFlag
  <2>2. stage'[w] = stage[w]
    BY <1>0, <1>1, <2>1 DEF To, PoolType, StageType
  <2>3. UNCHANGED main /\ UNCHANGED <<tail, exitNow>>
    BY Zenon DEF Stepping, Thread, Worker, Lambda, Claim, Lock, Test, Sleep, Take,
       WakeSpuriously, Arrive, PassBarrier, Finish, Fail, StoreError, RaiseFlag, queues
  <2>4. head'[w] = head[w]
    BY <1>0, <1>1, Zenon DEF Stepping, Thread, Worker, Lambda, Claim, Lock, Test, Sleep, Take,
       WakeSpuriously, Arrive, PassBarrier, Finish, Fail, StoreError, RaiseFlag, queues,
       PoolType, QueueType
  <2>5. pending'[w] = pending[w]
    BY <1>0, <1>1, Zenon DEF Stepping, Thread, Worker, Lambda, Claim, Lock, Test, Sleep, Take,
       WakeSpuriously, Arrive, PassBarrier, Finish, Fail, StoreError, RaiseFlag, queues,
       PoolType, QueueType
  <2> QED
    BY <1>0, <2>2, <2>3, <2>4, <2>5, QueueFrame, Zenon DEF Uncounted
<1>2. CASE t = w
  <2>0. \A s : To(w, s) => stage'[w] = s
    BY <1>0 DEF To, PoolType, StageType
  <2>1. CASE Claim(w)
    <3>1. /\ stage[w] = "pop" /\ stage'[w] = IF pending[w] = 0 THEN "lock" ELSE "take"
          /\ pending'[w] = pending[w] - 1 /\ UNCHANGED <<head, tail, exitNow, mpc, next>>
      BY <1>0, <2>0, <2>1 DEF Claim, PoolType, QueueType
    <3>2. Claimed(w) = 0 /\ Claimed(w)' = 1
      BY <3>1 DEF Claimed, Waits
    <3>3. Items(w)' = Items(w) /\ Uncounted(w)' = Uncounted(w)
          /\ Items(w) \in {0, 1} /\ Uncounted(w) \in {0, 1}
      BY <3>1 DEF Items, Uncounted
    <3> QED
      BY <1>0, <3>1, <3>2, <3>3 DEF QueueInv
  <2>2. CASE Lock(w) \/ Sleep(w) \/ WakeSpuriously(w)
    <3>1. stage[w] \in Waits /\ stage'[w] \in {"check", "wait", "lock"}
          /\ UNCHANGED <<head, tail, pending, exitNow, mpc, next>>
      BY <2>0, <2>2 DEF Lock, Sleep, WakeSpuriously, Waits, queues
    <3>2. Claimed(w) = 1 /\ Claimed(w)' = 1
      BY <3>1 DEF Claimed, Waits
    <3> QED
      BY <1>0, <3>1, <3>2, ZenonT(60) DEF QueueInv, Items, Uncounted
  <2>3. CASE Test(w)
    <3>1. /\ stage[w] = "check"
          /\ stage'[w] = IF pending[w] >= 0 \/ exitNow[w] THEN "take" ELSE "doze"
          /\ UNCHANGED <<head, tail, pending, exitNow, mpc, next>>
      BY <2>0, <2>3 DEF Test, queues
    <3>2. Claimed(w) = 1 /\ Claimed(w)' = 1
      BY <3>1 DEF Claimed, Waits
    <3>3. Items(w) \in {0, 1} /\ Uncounted(w) \in {0, 1}
          /\ Items(w)' = Items(w) /\ Uncounted(w)' = Uncounted(w)
      BY <3>1, SMTT(30) DEF Items, Uncounted
    <3> QED
      BY <1>0, <3>1, <3>2, <3>3, SMTT(30) DEF QueueInv
  <2>4. CASE Take(w) /\ exitNow[w]
    <3>1. /\ stage[w] = "take" /\ stage'[w] = "absent" /\ exitNow'[w]
          /\ UNCHANGED <<head, tail, pending, exitNow, mpc, next>>
      BY <2>0, <2>4 DEF Take
    <3>2. Claimed(w) = 1 /\ Claimed(w)' = 1
      BY <3>1 DEF Claimed, Waits
    <3> QED
      BY <1>0, <3>1, <3>2, Zenon DEF QueueInv, Items, Uncounted
  <2>5. CASE Take(w) /\ ~ exitNow[w]
    <3>1. /\ stage[w] = "take" /\ stage'[w] = "body" /\ head'[w] = (head[w] + 1) % 2
          /\ UNCHANGED <<tail, pending, exitNow, mpc, next>>
      BY <1>0, <2>0, <2>5 DEF Take, PoolType, QueueType
    <3>2. Claimed(w) = 1 /\ Claimed(w)' = 0
      BY <3>1 DEF Claimed, Waits
    <3>3. pending[w] = 0 /\ Items(w) = 1 /\ Uncounted(w) = 0
      BY <1>0, <2>5, <3>1, <3>2 DEF QueueInv, Items, Uncounted
    <3>4. Items(w)' = 0
      <4>1. head[w] \in {0, 1} /\ tail[w] \in {0, 1} /\ head[w] # tail[w]
        BY <1>0, <3>3 DEF Items, PoolType, QueueType
      <4> QED
        BY <3>1, <4>1 DEF Items
    <3>5. Uncounted(w)' = 0
      BY <3>1, <3>3 DEF Uncounted
    <3> QED
      BY <3>1, <3>2, <3>3, <3>4, <3>5 DEF QueueInv
  <2>6. CASE Lambda(w)
    <3>1. UNCHANGED <<queues, main>>
      BY <2>6, SMTT(30) DEF Lambda, Arrive, PassBarrier, Finish, Fail, StoreError, RaiseFlag, launcher
    <3>2. stage[w] \in InTask /\ stage'[w] \in InTask \cup {"pop"}
      BY <2>0, <2>6, Zenon DEF Lambda, Arrive, PassBarrier, Finish, Fail, StoreError, RaiseFlag,
         Resume, InTask
    <3> QED
      BY <1>0, <3>1, <3>2, QueueLambda, Zenon DEF main
  <2> QED
    BY <1>2, <2>1, <2>2, <2>3, <2>4, <2>5, <2>6 DEF Stepping, Thread, Worker
<1> QED
  BY <1>1, <1>2

\* Thread 0 is a worker or the launching thread, never both.
LEMMA OwnSlotStep ==
  ASSUME PoolType, OwnSlot, [Next]_vars
  PROVE  OwnSlot'
<1> SUFFICES ASSUME exclude'
             PROVE  /\ stage'[0] \in {"absent"} \cup InTask
                    /\ stage'[0] # "absent" => mpc' = "work"
  BY DEF OwnSlot
<1>0. exclude
  BY Zenon DEF Next, vars, Main, Enqueue, Count, StartOwn, WaitForJobs, CheckErrors,
       CollectErrors, Join, Notify, Notify_Unlocked, SignalForKill, Request, Configure,
       LaunchInline, BeginKill, Launch, Launching, Thread, Worker, Lambda, Claim, Lock,
       Test, Sleep, Take, WakeSpuriously, Arrive, PassBarrier, Finish, Fail, StoreError,
       RaiseFlag, config
<1>1. 0 \in Threads /\ 0 \notin Workers
  BY <1>0 DEF Workers, First
<1>2. stage[0] \in {"absent"} \cup InTask /\ (stage[0] # "absent" => mpc = "work")
  BY <1>0 DEF OwnSlot
<1>3. CASE UNCHANGED stage
  <2>1. CASE stage[0] = "absent"
    BY <1>3, <2>1
  <2>2. CASE stage[0] # "absent"
    <3>1. mpc = "work"
      BY <1>2, <2>2
    <3>2. CASE Main \/ Notify \/ SignalForKill \/ Request
      BY <1>0, <2>2, <3>1, <3>2, Zenon DEF Main, Enqueue, Count, StartOwn, WaitForJobs,
         CheckErrors, CollectErrors, Join, Notify, Notify_Unlocked, SignalForKill, Request,
         Configure, LaunchInline, BeginKill, Launch, Launching
    <3>3. CASE UNCHANGED main
      BY <1>2, <1>3, <3>1, <3>3, ZenonT(60) DEF main
    <3>4. ASSUME NEW t \in Threads, Stepping(t) PROVE UNCHANGED main
      BY <3>4 DEF Stepping, Thread, Worker, Lambda, Claim, Lock, Test, Sleep, Take,
         WakeSpuriously, Arrive, PassBarrier, Finish, Fail, StoreError, RaiseFlag
    <3> QED
      BY <3>2, <3>3, <3>4 DEF Next, Stepping, vars
  <2> QED
    BY <2>1, <2>2
<1>4. CASE Notify \/ SignalForKill
  <2>1. stage'[0] = stage[0] /\ mpc # "work"
    BY <1>1, <1>2, <1>4 DEF Notify, Notify_Unlocked, SignalForKill, Woken, PoolType,
       StageType, InTask
  <2> QED
    BY <1>2, <2>1
<1>5. CASE StartOwn
  BY <1>0, <1>1, <1>5 DEF StartOwn, PoolType, StageType, InTask
<1>6. CASE Join
  BY <1>0, <1>1, <1>2, <1>6 DEF Join, Started, Workers, First
<1>7. ASSUME NEW t \in Threads, Stepping(t) PROVE
         /\ stage'[0] \in {"absent"} \cup InTask
         /\ stage'[0] # "absent" => mpc' = "work"
  <2>1. PICK s : To(t, s)
    BY <1>7 DEF Stepping, Thread, Worker, Lambda, Claim, Lock, Test, Sleep, Take,
       WakeSpuriously, Arrive, PassBarrier, Finish, Fail, StoreError, RaiseFlag
  <2>2. mpc' = mpc
    BY <1>7, Zenon DEF Stepping, Thread, Worker, Lambda, Claim, Lock, Test, Sleep, Take,
       WakeSpuriously, Arrive, PassBarrier, Finish, Fail, StoreError, RaiseFlag, main
  <2>3. CASE t # 0
    BY <1>1, <1>2, <2>1, <2>2, <2>3 DEF To, PoolType, StageType
  <2>4. CASE t = 0
    <3>1. Lambda(0)
      BY <1>2, <1>7, <2>4 DEF Stepping, Thread, Worker, Claim, Lock, Test, Sleep, Take,
         WakeSpuriously, InTask
    <3>2. stage[0] # "absent"
      BY <3>1, ZenonT(60) DEF Lambda, Arrive, PassBarrier, Finish, Fail, StoreError, RaiseFlag
    <3>3. stage'[0] \in {"absent"} \cup InTask
      BY <1>1, <3>1 DEF Lambda, Arrive, PassBarrier, Finish, Fail, StoreError, RaiseFlag,
         Resume, InTask, To, PoolType, StageType
    <3> QED
      BY <1>2, <2>2, <3>2, <3>3
  <2> QED
    BY <2>3, <2>4, ZenonT(60)
<1> QED
  BY <1>3, <1>4, <1>5, <1>6, <1>7, StageSteps

\* Types and queues together are inductive.
QInv == PoolType /\ Queues

\* The invariant behind QueueNotEmpty is inductive.
LEMMA QInvStep ==
  ASSUME QInv, [Next]_vars
  PROVE  QInv'
<1> USE DEF QInv
<1>1. PoolType'
  BY ScalarStep, QueueTypeStep, StageStep, TaskTypeStep DEF PoolType
<1>2. OwnSlot'
  BY OwnSlotStep DEF Queues
<1>3. ASSUME NEW w \in Workers' PROVE QueueInv(w)'
  <2>1. exclude' = exclude
    BY Zenon DEF Next, vars, Main, Enqueue, Count, StartOwn, WaitForJobs, CheckErrors,
       CollectErrors, Join, Notify, Notify_Unlocked, SignalForKill, Request, Configure,
       LaunchInline, BeginKill, Launch, Launching, Thread, Worker, Lambda, Claim, Lock,
       Test, Sleep, Take, WakeSpuriously, Arrive, PassBarrier, Finish, Fail, StoreError,
       RaiseFlag, config
  <2>2. w \in Workers
    BY <2>1 DEF Workers, First
  <2>3. CASE UNCHANGED vars
    <3>1. UNCHANGED <<head, tail, pending, exitNow, stage, mpc, next>>
      BY <2>3 DEF vars, queues, main
    <3> QED
      BY <2>2, <3>1, QueueFrame DEF Queues, Uncounted
  <2>4. CASE Next
    BY <2>2, <2>4, QueueInvMain, QueueInvThread DEF Next, Stepping
  <2> QED
    BY <2>3, <2>4
<1> QED
  BY <1>1, <1>2, <1>3 DEF Queues

\* It holds in the initial states.
LEMMA QInvInit ==
  ASSUME Init
  PROVE  QInv
<1> USE DEF Init
<1>1. ScalarType
  BY DEF ScalarType
<1>2. QueueType /\ StageType /\ TaskType
  BY StageNames DEF QueueType, StageType, TaskType, Zero, NoExit, Started
<1>3. OwnSlot
  BY DEF OwnSlot, Started, Workers, First
<1>4. ASSUME NEW w \in Workers PROVE QueueInv(w)
  BY DEF Workers, First, QueueInv, Items, Uncounted, Claimed, Waits, Zero, NoExit, Started
<1> QED
  BY <1>1, <1>2, <1>3, <1>4 DEF QInv, PoolType, Queues

\* A worker that takes a task finds one: Pop's sanity check cannot fail, for any
\* number of workers and launches, spurious wake-ups and resets included.
THEOREM PoolQueueNotEmpty == Safety => []QueueNotEmpty
<1>1. QInv => QueueNotEmpty
  <2> SUFFICES ASSUME QInv, NEW w \in Threads, stage[w] = "take", ~ exitNow[w]
               PROVE  head[w] # tail[w]
    BY DEF QueueNotEmpty
  <2>1. w \in Workers
    BY DEF QInv, Queues, OwnSlot, InTask, Workers, First, PoolType, ScalarType
  <2> QED
    BY <2>1 DEF QInv, Queues, QueueInv, Items, Uncounted, Claimed, Waits
<1> QED
  BY <1>1, QInvInit, QInvStep, PTL DEF Safety
-----------------------------------------------------------------------------
(* What num_pending_ counts. *)

Active == {"push", "count", "notify", "work"}
Pushing == {"push", "count", "notify"}

\* The tasks SignalJobFinish or SignalJobError has not counted yet.
Unfinished == {t \in Tasks : runs[t] = 0 \/ t \in Running}

HasItem == {w \in Workers : head[w] # tail[w]}

\* S has n elements: they can be numbered from 1 to n.
Numbered(n, S) ==
  /\ n \in Nat
  /\ \E f \in [1 .. n -> S] : /\ \A i, j \in 1 .. n : i # j => f[i] # f[j]
                             /\ \A t \in S : \E i \in 1 .. n : f[i] = t

\* The inductive invariant of a launch: num_pending_ is the number of unfinished
\* tasks; a queued task has not run, a running one is in no queue, and the tasks
\* still to be pushed have not run.
LaunchInv ==
  /\ \A t \in Running : mpc \in Active /\ t \in Tasks /\ runs[t] = 1
  /\ \A w \in HasItem : /\ mpc \in Active /\ w \in Tasks /\ runs[w] = 0
                        /\ w < next \/ (w = next /\ mpc \in {"count", "notify"})
  /\ \A t \in Threads : runs[t] \in {0, 1} /\ (runs[t] = 1 => t \in Tasks)
  /\ mpc \in Pushing => /\ \A t \in Threads : t > next => runs[t] = 0
                        /\ mpc = "push" /\ next \in Threads => runs[next] = 0
                        /\ exclude => runs[0] = 0
  /\ mpc \in Active => numTask >= 1 /\ Numbered(numPending, Unfinished)
  /\ mpc \notin Active => Unfinished = {}

\* A step that changes none of what LaunchInv is about.
LEMMA LaunchFrame ==
  ASSUME LaunchInv, UNCHANGED <<runs, numTask, numPending, mpc, next, exclude>>,
         Running' = Running, HasItem' = HasItem
  PROVE  LaunchInv'
<1>1. Tasks' = Tasks /\ Unfinished' = Unfinished
  BY DEF Tasks, Unfinished
<1> QED
  BY <1>1 DEF LaunchInv

\* The same when the launch is over before and after the step.
LEMMA IdleFrame ==
  ASSUME LaunchInv, UNCHANGED <<runs, numTask>>, mpc \notin Active, mpc' \notin Active,
         Running' \subseteq Running, HasItem' \subseteq HasItem
  PROVE  LaunchInv'
<1>1. Running = {} /\ HasItem = {}
  BY DEF LaunchInv
<1>2. Tasks' = Tasks /\ Unfinished' = Unfinished
  BY <1>1 DEF Tasks, Unfinished
<1> QED
  BY <1>1, <1>2 DEF LaunchInv, Active, Pushing

\* A thread that is outside the lambda before and after, or inside it before
\* and after, leaves the set of running tasks alone.
LEMMA RunningSame ==
  ASSUME PoolType, NEW t \in Threads, NEW s, To(t, s),
         (stage[t] \in {"body", "barrier"}) <=> (s \in {"body", "barrier"})
  PROVE  Running' = Running
BY DEF Running, To, PoolType, StageType

\* A task that leaves the lambda is one running task less.
LEMMA RunningLess ==
  ASSUME PoolType, NEW t \in Threads, NEW s, To(t, s), s \notin {"body", "barrier"}
  PROVE  Running' = Running \ {t}
BY DEF Running, To, PoolType, StageType

\* A task that enters the lambda is one running task more.
LEMMA RunningMore ==
  ASSUME PoolType, NEW t \in Threads, NEW s, To(t, s), s \in {"body", "barrier"}
  PROVE  Running' = Running \cup {t}
BY DEF Running, To, PoolType, StageType

\* The tasks of a launch number numTask.
LEMMA TaskCount ==
  ASSUME NEW n \in Nat
  PROVE  Numbered(n, 0 .. n - 1)
<1> DEFINE f == [i \in 1 .. n |-> i - 1]
<1>1. f \in [1 .. n -> 0 .. n - 1]
  OBVIOUS
<1>2. \A i, j \in 1 .. n : i # j => f[i] # f[j]
  OBVIOUS
<1>3. \A t \in 0 .. n - 1 : t + 1 \in 1 .. n /\ f[t + 1] = t
  OBVIOUS
<1> HIDE DEF f
<1> QED
  BY <1>1, <1>2, <1>3, ZenonT(60) DEF Numbered

\* Without one of its elements a set has one element less: the last one takes the
\* number of the one that left.
LEMMA OneLess ==
  ASSUME NEW n, NEW S, NEW t \in S, Numbered(n, S)
  PROVE  Numbered(n - 1, S \ {t})
<1>1. PICK f \in [1 .. n -> S] : /\ \A i, j \in 1 .. n : i # j => f[i] # f[j]
                                /\ \A u \in S : \E i \in 1 .. n : f[i] = u
  BY DEF Numbered
<1>2. PICK k \in 1 .. n : f[k] = t
  BY <1>1
<1>3. n \in Nat /\ n - 1 \in Nat /\ n \in 1 .. n
  BY <1>2 DEF Numbered
<1> DEFINE g == [i \in 1 .. n - 1 |-> IF i = k THEN f[n] ELSE f[i]]
<1>4. \A i \in 1 .. n - 1 : i \in 1 .. n /\ i # n
  BY <1>3
<1>5. g \in [1 .. n - 1 -> S \ {t}]
  BY <1>1, <1>2, <1>3, <1>4
<1>6. \A i, j \in 1 .. n - 1 : i # j => g[i] # g[j]
  BY <1>1, <1>3, <1>4
<1>7. ASSUME NEW u \in S \ {t} PROVE \E i \in 1 .. n - 1 : g[i] = u
  <2>1. PICK i \in 1 .. n : f[i] = u
    BY <1>1
  <2>2. i # k
    BY <1>2, <2>1
  <2>3. CASE i = n
    BY <1>2, <1>3, <2>1, <2>2, <2>3
  <2>4. CASE i # n
    <3>1. i \in 1 .. n - 1
      BY <1>3, <2>4
    <3> QED
      BY <2>1, <2>2, <3>1
  <2> QED
    BY <2>3, <2>4
<1> HIDE DEF g
<1> QED
  BY <1>3, <1>5, <1>6, <1>7, Zenon DEF Numbered

\* No elements, no set.
LEMMA NoneLeft ==
  ASSUME NEW S, Numbered(0, S)
  PROVE  S = {}
BY DEF Numbered

\* Tasks are run by threads the pool has.
LEMMA TaskThreads ==
  ASSUME PoolType
  PROVE  Tasks \subseteq Threads
BY DEF PoolType, ScalarType, Tasks

\* A launch starts with every task pending.
LEMMA LaunchInvLaunch ==
  ASSUME MinUsed = 1, PoolType, PoolType', LaunchInv,
         NEW n \in 0 .. NumWorkers, Launch(IF n = 0 THEN used ELSE n)
  PROVE  LaunchInv'
<1> DEFINE k == IF n = 0 THEN used ELSE n
<1>1. k \in 1 .. NumWorkers
  BY DEF PoolType, ScalarType
<1> HIDE DEF k
<1>2. /\ mpc = "idle" /\ mpc' = "push" /\ numTask' = k /\ numPending' = k /\ runs' = Zero
      /\ next' = First /\ UNCHANGED <<stage, head, tail, exclude>>
  <2>1. Launch(k)
    BY DEF k
  <2> QED
    BY <2>1 DEF Launch, Launching, queues, config
<1>3. Running = {} /\ HasItem = {}
  BY <1>2, SMTT(30) DEF LaunchInv, Active
<1>4. Running' = {} /\ HasItem' = {}
  BY <1>2, <1>3 DEF Running, HasItem, Workers, First
<1>5. Unfinished' = Tasks'
  <2>1. Tasks' \subseteq Threads
    BY <1>1, <1>2 DEF Tasks
  <2>2. \A t \in Tasks' : runs'[t] = 0
    BY <2>1, <1>2 DEF Zero
  <2> QED
    BY <2>2 DEF Unfinished
<1>6. Numbered(numPending', Unfinished')
  <2>1. k \in Nat /\ Tasks' = 0 .. k - 1
    BY <1>1, <1>2 DEF Tasks
  <2>2. Numbered(k, Tasks')
    BY <2>1, TaskCount
  <2> QED
    BY <1>2, <1>5, <2>2
<1>7. \A t \in Threads : runs'[t] = 0
  BY <1>2 DEF Zero
<1> QED
  BY <1>1, <1>2, <1>4, <1>6, <1>7 DEF LaunchInv, Active, Pushing

\* Pushing tasks moves them from the loop to the queues.
LEMMA LaunchInvPush ==
  ASSUME QInv, LaunchInv, Enqueue \/ Count \/ Notify
  PROVE  LaunchInv'
<1>0. PoolType
  BY DEF QInv
<1>1. next \in Threads /\ next \in Workers /\ next \in Tasks
  BY <1>0 DEF PoolType, ScalarType, Enqueue, Count, Notify, Workers, Tasks
<1>2. UNCHANGED <<runs, numTask, numPending, exclude>> /\ mpc \in Pushing /\ mpc' \in Pushing
  BY DEF Enqueue, Count, Notify, Notify_Unlocked, tasks, launcher, config, Pushing
<1>3. Running' = Running
  <2>1. CASE Enqueue \/ Count
    BY <2>1 DEF Enqueue, Count, Running
  <2>2. CASE Notify
    BY <2>2, <1>0, <1>1 DEF Notify, Notify_Unlocked, Woken, Running, PoolType, StageType
  <2> QED
    BY <2>1, <2>2, ZenonT(60)
<1>4. Tasks' = Tasks /\ Unfinished' = Unfinished /\ Workers' = Workers
  BY <1>2, <1>3, Zenon DEF Tasks, Unfinished, Workers, First
<1>5. CASE Enqueue
  <2>1. mpc = "push" /\ mpc' = "count" /\ next' = next /\ runs[next] = 0
    BY <1>1, <1>5, <1>2, ZenonT(60) DEF Enqueue, LaunchInv
  <2>2. HasItem' \subseteq HasItem \cup {next}
    BY <1>0, <1>4, <1>5 DEF HasItem, Enqueue, PoolType, QueueType, Workers, First, ScalarType
  <2> QED
    BY <1>1, <1>2, <1>3, <1>4, <2>1, <2>2, Zenon DEF LaunchInv, Active, Pushing
<1>6. CASE Count \/ Notify
  <2>1. HasItem' = HasItem /\ mpc \in {"count", "notify"}
    BY <1>4, <1>6, Zenon DEF HasItem, Count, Notify, Notify_Unlocked, queues
  <2>2. \/ mpc' = "notify" /\ next' = next
        \/ mpc' = "push" /\ next' = next + 1
    BY <1>6 DEF Count, Notify, Notify_Unlocked
  <2>3. next \in Int /\ \A w \in Workers : w \in Int
    BY <1>1 DEF Workers, First
  <2>4. \A w \in HasItem : w < next' \/ (w = next' /\ mpc' \in {"count", "notify"})
    BY <2>1, <2>2, <2>3 DEF LaunchInv, HasItem
  <2>5. \A t \in Threads : t > next' => runs[t] = 0
    BY <1>2, <2>2, <2>3 DEF LaunchInv
  <2>6. mpc' = "push" /\ next' \in Threads => runs[next'] = 0
    BY <1>2, <2>1, <2>2, <2>3 DEF LaunchInv
  <2> QED
    BY <1>2, <1>3, <1>4, <2>1, <2>4, <2>5, <2>6 DEF LaunchInv, Active, Pushing
<1> QED
  BY <1>5, <1>6

\* The launching thread starting task 0 keeps every task accounted for.
LEMMA LaunchInvStartOwn ==
  ASSUME QInv, LaunchInv, StartOwn
  PROVE  LaunchInv'
<1>0. PoolType /\ 0 \in Threads /\ mpc = "push" /\ mpc' = "work" /\ numTask >= 1
  BY DEF QInv, StartOwn, LaunchInv, Active
<1>1. UNCHANGED <<numTask, numPending, exclude, next, head, tail>> /\ numTask <= next
  BY DEF StartOwn, launcher, config, queues
<1>2. Tasks' = Tasks /\ HasItem' = HasItem
  BY <1>1, ZenonT(60) DEF Tasks, HasItem, Workers, First
<1>3. CASE ~ exclude
  <2>1. UNCHANGED <<stage, runs>>
    BY <1>3 DEF StartOwn
  <2>2. Running' = Running /\ Unfinished' = Unfinished
    BY <1>2, <2>1, ZenonT(60) DEF Running, Unfinished
  <2> QED
    BY <1>0, <1>1, <1>2, <2>1, <2>2 DEF LaunchInv, Active, Pushing
<1>4. CASE exclude
  <2>1. runs' = [runs EXCEPT ![0] = @ + 1] /\ To(0, "body")
    BY <1>4, ZenonT(60) DEF StartOwn, To
  <2>2. runs[0] = 0 /\ 0 \in Tasks /\ 0 \notin HasItem
    BY <1>0, <1>4 DEF LaunchInv, Pushing, Tasks, HasItem, Workers, First, PoolType, ScalarType
  <2>3. Running' = Running \cup {0}
    BY <1>0, <2>1, RunningMore
  <2>4. runs'[0] = 1 /\ \A t \in Threads \ {0} : runs'[t] = runs[t]
    BY <1>0, <2>1, <2>2 DEF PoolType, TaskType
  <2>5. Tasks \subseteq Threads
    BY <1>0, TaskThreads
  <2>6. Unfinished' = Unfinished
    BY <1>2, <2>2, <2>3, <2>4, <2>5, Zenon DEF Unfinished
  <2>7. \A w \in HasItem : w \in Threads \ {0}
    BY <2>2, <1>0 DEF HasItem, Workers, First, PoolType, ScalarType
  <2>8. \A t \in Running : t \in Threads
    BY DEF Running
  <2>9. 0 \notin Running
    BY <2>2 DEF LaunchInv
  <2>a. \A t \in Running' : t \in Tasks /\ runs'[t] = 1
    BY <2>2, <2>3, <2>4, <2>8, <2>9, Zenon DEF LaunchInv
  <2>b. \A w \in HasItem : w \in Tasks /\ runs'[w] = 0 /\ w < next
    BY <1>0, <2>4, <2>7 DEF LaunchInv
  <2>c. \A t \in Threads : runs'[t] \in {0, 1} /\ (runs'[t] = 1 => t \in Tasks)
    BY <2>2, <2>4, ZenonT(60) DEF LaunchInv
  <2> QED
    BY <1>0, <1>1, <1>2, <2>6, <2>a, <2>b, <2>c DEF LaunchInv, Active, Pushing
<1> QED
  BY <1>3, <1>4

\* Once num_pending_ is 0 no task is queued or running.
LEMMA LaunchInvWait ==
  ASSUME QInv, LaunchInv, WaitForJobs
  PROVE  LaunchInv'
<1>1. Unfinished = {}
  <2>1. numPending = 0 /\ Numbered(numPending, Unfinished)
    BY DEF WaitForJobs, LaunchInv, Active
  <2> QED
    BY <2>1, NoneLeft
<1>2. UNCHANGED <<runs, numTask, stage, head, tail, exclude>> /\ mpc' = "check"
  BY DEF WaitForJobs, launcher, tasks, queues, config
<1>3. Running = {} /\ HasItem = {}
  BY <1>1 DEF LaunchInv, Unfinished
<1>4. Running' = {} /\ HasItem' = {} /\ Tasks' = Tasks
  BY <1>2, <1>3 DEF Running, HasItem, Workers, First, Tasks
<1>5. Unfinished' = {}
  BY <1>1, <1>2, <1>3, <1>4 DEF Unfinished
<1> QED
  BY <1>2, <1>4, <1>5 DEF LaunchInv, Active, Pushing

\* What happens between launches leaves nothing queued or running.
LEMMA LaunchInvIdle ==
  ASSUME QInv, LaunchInv,
         \/ CheckErrors \/ CollectErrors \/ Configure \/ LaunchInline \/ BeginKill
         \/ SignalForKill \/ Join
  PROVE  LaunchInv'
<1>1. mpc \notin Active /\ mpc' \notin Active /\ UNCHANGED <<runs, numTask, exclude>>
  BY Zenon DEF CheckErrors, CollectErrors, Configure, LaunchInline, BeginKill, SignalForKill,
     Join, Active, launcher, tasks, config, main
<1>2. Workers' = Workers
  BY <1>1 DEF Workers, First
<1>3. CASE SignalForKill
  <2>1. Running' = Running
    BY <1>3 DEF SignalForKill, Woken, Running, QInv, PoolType, StageType
  <2>2. HasItem' = HasItem
    BY <1>2, <1>3, Zenon DEF HasItem, SignalForKill
  <2> QED
    BY <1>1, <2>1, <2>2, IdleFrame
<1>4. CASE UNCHANGED <<queues, stage>>
  <2>1. Running' = Running /\ HasItem' = HasItem
    BY <1>2, <1>4, Zenon DEF Running, HasItem, queues
  <2> QED
    BY <1>1, <2>1, IdleFrame
<1>5. CASE Join /\ head' = Zero /\ tail' = Zero /\ stage' = Started
  <2>1. Running' = {} /\ HasItem' = {}
    BY <1>2, <1>5, ZenonT(60) DEF Running, HasItem, Started
  <2> QED
    BY <1>1, <2>1, IdleFrame
<1>6. CASE Join
  BY <1>4, <1>5, <1>6 DEF Join
<1> QED
  BY <1>3, <1>4, <1>6, Zenon DEF CheckErrors, CollectErrors, Configure, LaunchInline, BeginKill

\* A thread takes, runs and counts off its task exactly once.
LEMMA LaunchInvThread ==
  ASSUME QInv, LaunchInv, NEW t \in Threads, Stepping(t)
  PROVE  LaunchInv'
<1>0. PoolType /\ UNCHANGED <<numTask, mpc, next, exclude>>
  BY Zenon DEF QInv, Stepping, Thread, Worker, Lambda, Claim, Lock, Test, Sleep, Take,
     WakeSpuriously, Arrive, PassBarrier, Finish, Fail, StoreError, RaiseFlag,
     launcher, config, main
<1>1. Tasks' = Tasks /\ Workers' = Workers /\ Tasks \subseteq Threads
  BY <1>0, TaskThreads DEF Tasks, Workers, First
<1>2. CASE \/ Claim(t) \/ Lock(t) \/ Test(t) \/ Sleep(t) \/ WakeSpuriously(t)
           \/ Arrive(t) \/ PassBarrier(t) \/ StoreError(t) \/ RaiseFlag(t)
           \/ Take(t) /\ exitNow[t]
  <2>1. UNCHANGED <<head, tail, runs, numPending>>
    BY <1>2, Zenon DEF Claim, Lock, Test, Sleep, Take, WakeSpuriously, Arrive, PassBarrier,
       StoreError, RaiseFlag, launcher, queues, tasks
  <2>2. \E s : To(t, s) /\ ((stage[t] \in {"body", "barrier"}) <=> (s \in {"body", "barrier"}))
    <3>1. CASE Claim(t)
      BY <3>1 DEF Claim
    <3>2. CASE Lock(t) \/ Test(t) \/ Sleep(t) \/ WakeSpuriously(t)
      BY <3>2 DEF Lock, Test, Sleep, WakeSpuriously
    <3>3. CASE Arrive(t) \/ PassBarrier(t)
      BY <3>3, Zenon DEF Arrive, PassBarrier
    <3>4. CASE StoreError(t) \/ RaiseFlag(t)
      BY <3>4 DEF StoreError, RaiseFlag, Resume
    <3>5. CASE Take(t) /\ exitNow[t]
      BY <3>5 DEF Take
    <3> QED
      BY <1>2, <3>1, <3>2, <3>3, <3>4, <3>5, Zenon
  <2>3. Running' = Running
    BY <1>0, <2>2, RunningSame
  <2>4. HasItem' = HasItem
    BY <1>1, <2>1, Zenon DEF HasItem
  <2> QED
    BY <1>0, <2>1, <2>3, <2>4, LaunchFrame
<1>3. CASE Take(t) /\ ~ exitNow[t]
  <2>1. /\ To(t, "body") /\ runs' = [runs EXCEPT ![t] = @ + 1] /\ numPending' = numPending
        /\ head' = [head EXCEPT ![t] = (@ + 1) % 2] /\ tail' = tail /\ stage[t] = "take"
    BY <1>3, Zenon DEF Take, launcher
  <2>2. t \in Workers
    BY <1>0, <2>1 DEF QInv, Queues, OwnSlot, InTask, Workers, First, PoolType, ScalarType
  <2>3. t \in HasItem /\ ~ (mpc = "count" /\ next = t)
    BY <1>3, <2>1, <2>2 DEF QInv, Queues, QueueInv, Items, Uncounted, Claimed, Waits, HasItem
  <2>4. mpc \in Active /\ t \in Tasks /\ runs[t] = 0 /\ t <= next /\ (t = next => mpc = "notify")
    BY <1>0, <2>3 DEF LaunchInv, PoolType, ScalarType
  <2>5. runs'[t] = 1 /\ \A u \in Threads \ {t} : runs'[u] = runs[u]
    BY <1>0, <2>1, <2>4 DEF PoolType, TaskType
  <2>6. Running' = Running \cup {t}
    BY <1>0, <2>1, RunningMore
  <2>7. HasItem' = HasItem \ {t}
    <3>1. head[t] \in {0, 1} /\ tail[t] \in {0, 1} /\ head[t] # tail[t]
      BY <1>0, <2>3, Zenon DEF PoolType, QueueType, HasItem
    <3>2. head'[t] = tail[t] /\ \A u \in Threads \ {t} : head'[u] = head[u]
      BY <1>0, <2>1, <3>1 DEF PoolType, QueueType
    <3>3. Workers \subseteq Threads
      BY WorkerThreads
    <3> QED
      BY <1>1, <2>1, <3>2, <3>3 DEF HasItem
  <2>8. Unfinished' = Unfinished
    BY <1>1, <2>4, <2>5, <2>6, Zenon DEF Unfinished
  <2>9. \A u \in Running : u \in Threads /\ u # t
    BY <2>4 DEF LaunchInv, Running
  <2>a. \A u \in Running' : u \in Tasks /\ runs'[u] = 1
    BY <2>4, <2>5, <2>6, <2>9, Zenon DEF LaunchInv
  <2>b. HasItem \subseteq Threads
    BY WorkerThreads, Zenon DEF HasItem
  <2>c. \A u \in HasItem' : runs'[u] = 0
    BY <2>5, <2>7, <2>b, Zenon DEF LaunchInv
  <2>d. \A u \in Threads : runs'[u] \in {0, 1} /\ (runs'[u] = 1 => u \in Tasks)
    BY <2>4, <2>5, Zenon DEF LaunchInv
  <2>e. mpc \in Pushing => /\ \A u \in Threads : u > next => runs'[u] = 0
                           /\ mpc = "push" /\ next \in Threads => runs'[next] = 0
                           /\ exclude => runs'[0] = 0
    <3> SUFFICES ASSUME mpc \in Pushing
                 PROVE  /\ \A u \in Threads : u > next => runs'[u] = 0
                        /\ mpc = "push" /\ next \in Threads => runs'[next] = 0
                        /\ exclude => runs'[0] = 0
      OBVIOUS
    <3>1. \A u \in Threads : u > next => u # t
      BY <1>0, <2>4 DEF PoolType, ScalarType
    <3>2. exclude => 0 \in Threads /\ t # 0
      BY <2>2 DEF Workers, First
    <3>3. mpc = "push" => next # t
      BY <2>4, Zenon
    <3> QED
      BY <2>5, <3>1, <3>2, <3>3 DEF LaunchInv
  <2> QED
    BY <1>0, <1>1, <2>1, <2>4, <2>7, <2>8, <2>a, <2>c, <2>d, <2>e, ZenonT(60) DEF LaunchInv
<1>4. CASE Finish(t) \/ Fail(t)
  <2>1. /\ stage[t] = "body" /\ numPending' = numPending - 1
        /\ UNCHANGED <<head, tail, runs>>
        /\ \E s : To(t, s) /\ s \notin {"body", "barrier"}
    BY <1>4, SMTT(30) DEF Finish, Fail, Resume, queues, tasks
  <2>2. Running' = Running \ {t} /\ t \in Running
    BY <1>0, <2>1, RunningLess, Zenon DEF Running
  <2>3. mpc \in Active /\ t \in Tasks /\ runs[t] = 1 /\ t \in Unfinished
    BY <2>2, Zenon DEF LaunchInv, Unfinished
  <2>4. Unfinished' = Unfinished \ {t}
    BY <1>1, <2>1, <2>2, <2>3 DEF Unfinished
  <2>5. Numbered(numPending - 1, Unfinished \ {t})
    <3>1. Numbered(numPending, Unfinished)
      BY <2>3, ZenonT(60) DEF LaunchInv
    <3> QED
      BY <2>3, <3>1, OneLess, Zenon
  <2>6. HasItem' = HasItem
    BY <1>1, <2>1 DEF HasItem
  <2> QED
    BY <1>0, <1>1, <2>1, <2>2, <2>3, <2>4, <2>5, <2>6, ZenonT(60) DEF LaunchInv
<1> QED
  BY <1>2, <1>3, <1>4 DEF Stepping, Thread, Worker, Lambda

\* The invariant behind LaunchComplete is inductive.
LEMMA LaunchInvStep ==
  ASSUME MinUsed = 1, QInv, LaunchInv, [Next]_vars
  PROVE  LaunchInv'
<1>1. QInv'
  BY QInvStep
<1>2. CASE Main
  BY <1>2, LaunchInvPush, LaunchInvStartOwn, LaunchInvWait, LaunchInvIdle DEF Main
<1>3. CASE Request
  BY <1>1, <1>3, LaunchInvLaunch, LaunchInvIdle DEF Request, QInv
<1>4. CASE Notify \/ SignalForKill
  BY <1>4, LaunchInvPush, LaunchInvIdle
<1>5. CASE \E t \in Threads : Stepping(t)
  BY <1>5, LaunchInvThread
<1>6. CASE UNCHANGED vars
  <2>1. UNCHANGED <<runs, numTask, numPending, mpc, next, exclude, stage, head, tail>>
    BY <1>6, Zenon DEF vars, config, main, launcher, queues, tasks
  <2>2. Running' = Running /\ HasItem' = HasItem
    BY <2>1, ZenonT(60) DEF Running, HasItem, Workers, First
  <2> QED
    BY <2>1, <2>2, LaunchFrame, Zenon
<1> QED
  BY <1>2, <1>3, <1>4, <1>5, <1>6 DEF Next, Stepping

\* It holds in the initial states.
LEMMA LaunchInvInit ==
  ASSUME Init
  PROVE  LaunchInv
<1>1. Tasks = {} /\ Running = {} /\ HasItem = {}
  BY DEF Init, Tasks, Running, HasItem, Started, Zero, Workers, First
<1>2. Unfinished = {}
  BY <1>1 DEF Unfinished
<1> QED
  BY <1>1, <1>2 DEF Init, LaunchInv, Zero, Active, Pushing

\* When Launch returns every task has run exactly once and none still uses the
\* closure, as long as configurations leave at least one worker in use.
THEOREM PoolLaunchComplete == MinUsed = 1 => (Safety => []LaunchComplete)
<1> SUFFICES ASSUME MinUsed = 1 PROVE Safety => []LaunchComplete
  OBVIOUS
<1>1. Init => QInv /\ LaunchInv
  BY QInvInit, LaunchInvInit
<1>2. QInv /\ LaunchInv /\ [Next]_vars => (QInv /\ LaunchInv)'
  BY QInvStep, LaunchInvStep, Zenon
<1>3. QInv /\ LaunchInv => LaunchComplete
  <2> SUFFICES ASSUME QInv, LaunchInv, mpc \in {"check", "collect", "idle", "kill"}
               PROVE  Running = {} /\ \A t \in Threads : runs[t] = IF t \in Tasks THEN 1 ELSE 0
    BY DEF LaunchComplete
  <2>1. Running = {} /\ Unfinished = {}
    BY DEF LaunchInv, Active
  <2> QED
    BY <2>1 DEF LaunchInv, Unfinished
<1> QED
  BY <1>1, <1>2, <1>3, PTL DEF Safety
-----------------------------------------------------------------------------
(* The barrier. *)

\* The inductive invariant of the barrier: a task's counter is one ahead of the
\* barriers it is past while it waits, and no task is past a barrier that
\* another's counter has not reached.
BarrierInv ==
  /\ \A t \in Tasks : sync[t] = passed[t] + IF stage[t] = "barrier" THEN 1 ELSE 0
  /\ \A t, u \in Tasks : passed[t] <= sync[u]

\* A step that changes no counter and no task keeps the barrier invariant.
LEMMA BarrierFrame ==
  ASSUME BarrierInv, UNCHANGED <<sync, passed, numTask>>,
         \A t \in Tasks : (stage'[t] = "barrier") <=> (stage[t] = "barrier")
  PROVE  BarrierInv'
BY DEF BarrierInv, Tasks

\* The invariant behind BarrierSeparates is inductive.
LEMMA BarrierInvStep ==
  ASSUME MinUsed = 1, QInv, LaunchInv, BarrierInv, [Next]_vars
  PROVE  BarrierInv'
<1>0. PoolType /\ Tasks \subseteq Threads
  BY TaskThreads DEF QInv
<1>1. ASSUME NEW n, n \in 0 .. NumWorkers, Launch(n) PROVE BarrierInv'
  <2>1. /\ mpc = "idle" /\ numTask' = n /\ passed' = Zero /\ stage' = stage
        /\ sync' = [t \in Threads |-> IF t < n THEN 0 ELSE sync[t]]
    BY <1>1, Zenon DEF Launch, Launching
  <2>2. \A t \in Threads : stage[t] # "barrier"
    BY <2>1 DEF LaunchInv, Active, Running
  <2>3. \A t \in Tasks' : t \in Threads /\ sync'[t] = 0 /\ passed'[t] = 0
    BY <1>1, <2>1 DEF Tasks, Zero
  <2>4. \A t \in Tasks' : stage'[t] # "barrier"
    BY <2>1, <2>2, <2>3, Zenon
  <2>5. \A t \in Tasks' : sync'[t] = passed'[t] + IF stage'[t] = "barrier" THEN 1 ELSE 0
    BY <2>3, <2>4
  <2>6. \A t, u \in Tasks' : passed'[t] <= sync'[u]
    BY <2>3
  <2> QED
    BY <2>5, <2>6, Zenon DEF BarrierInv
<1>2. CASE UNCHANGED <<sync, passed, numTask, stage>>
  BY <1>2, BarrierFrame
<1>3. CASE Notify \/ SignalForKill
  <2>1. UNCHANGED <<sync, passed, numTask>>
    BY <1>3 DEF Notify, Notify_Unlocked, SignalForKill, launcher, tasks
  <2>2. \A t \in Threads : (stage'[t] = "barrier") <=> (stage[t] = "barrier")
    BY <1>0, <1>3 DEF Notify, Notify_Unlocked, SignalForKill, Woken, PoolType, StageType
  <2> QED
    BY <1>0, <2>1, <2>2, BarrierFrame, Zenon
<1>4. CASE StartOwn
  <2>1. UNCHANGED <<sync, passed, numTask>> /\ mpc = "push"
    BY <1>4 DEF StartOwn, launcher
  <2>2. \A t \in Threads : (stage'[t] = "barrier") <=> (stage[t] = "barrier")
    <3>1. CASE ~ exclude
      BY <1>4, <3>1 DEF StartOwn
    <3>2. CASE exclude
      <4>1. stage[0] = "absent"
        BY <2>1, <3>2 DEF QInv, Queues, OwnSlot
      <4> QED
        BY <1>0, <1>4, <3>2, <4>1 DEF StartOwn, PoolType, StageType
    <3> QED
      BY <3>1, <3>2
  <2> QED
    BY <1>0, <2>1, <2>2, BarrierFrame
<1>5. CASE Join
  <2>1. UNCHANGED <<sync, passed, numTask>> /\ \A t \in Threads : stage[t] = "absent"
    BY <1>5 DEF Join, launcher, tasks
  <2>2. \A t \in Threads : stage'[t] # "barrier"
    BY <1>5, <2>1 DEF Join, Started
  <2> QED
    BY <1>0, <2>1, <2>2, BarrierFrame
<1>6. ASSUME NEW t \in Threads, Stepping(t) PROVE BarrierInv'
  <2>0. numTask' = numTask /\ Tasks' = Tasks
    BY <1>6, Zenon DEF Stepping, Thread, Worker, Lambda, Claim, Lock, Test, Sleep, Take,
       WakeSpuriously, Arrive, PassBarrier, Finish, Fail, StoreError, RaiseFlag, launcher, Tasks
  <2>1. CASE Arrive(t)
    <3>1. /\ stage[t] = "body" /\ stage'[t] = "barrier" /\ sync'[t] = sync[t] + 1
          /\ passed' = passed /\ sync[t] \in Nat
          /\ \A u \in Threads \ {t} : stage'[u] = stage[u] /\ sync'[u] = sync[u]
      BY <1>0, <2>1 DEF Arrive, To, PoolType, StageType, TaskType, tasks
    <3>2. \A u \in Tasks : passed[u] \in Nat /\ sync[u] \in Nat
      BY <1>0, Zenon DEF PoolType, TaskType
    <3> QED
      BY <1>0, <2>0, <3>1, <3>2 DEF BarrierInv
  <2>2. CASE PassBarrier(t)
    <3>1. /\ stage[t] = "barrier" /\ stage'[t] = "body" /\ passed'[t] = passed[t] + 1
          /\ sync' = sync
          /\ \A u \in Threads \ {t} : stage'[u] = stage[u] /\ passed'[u] = passed[u]
      BY <1>0, <2>2 DEF PassBarrier, To, PoolType, StageType, TaskType, launcher
    <3>2. \A u \in Tasks : passed[u] \in Nat /\ sync[u] \in Nat
      BY <1>0, Zenon DEF PoolType, TaskType
    <3>3. t \in Tasks
      BY <1>6, <3>1 DEF LaunchInv, Running
    <3>4. \A u \in Tasks : sync[t] <= sync[u]
      BY <2>2, <3>2, <3>3 DEF PassBarrier
    <3> QED
      BY <1>0, <2>0, <3>1, <3>2, <3>3, <3>4 DEF BarrierInv
  <2>3. CASE ~ Arrive(t) /\ ~ PassBarrier(t)
    <3>1. UNCHANGED <<sync, passed>>
      BY <1>6, <2>3, Zenon DEF Stepping, Thread, Worker, Lambda, Claim, Lock, Test, Sleep, Take,
         WakeSpuriously, Finish, Fail, StoreError, RaiseFlag, launcher, tasks
    <3>2. stage[t] # "barrier" /\ \E s : To(t, s) /\ s # "barrier"
      <4>1. CASE Claim(t) \/ Lock(t) \/ Test(t) \/ Sleep(t) \/ WakeSpuriously(t)
        BY <4>1 DEF Claim, Lock, Test, Sleep, WakeSpuriously
      <4>2. CASE Take(t)
        BY <4>2, SMTT(30) DEF Take
      <4>3. CASE Finish(t) \/ Fail(t) \/ StoreError(t) \/ RaiseFlag(t)
        BY <4>3 DEF Finish, Fail, StoreError, RaiseFlag, Resume
      <4> QED
        BY <1>6, <2>3, <4>1, <4>2, <4>3, ZenonT(60) DEF Stepping, Thread, Worker, Lambda
    <3>3. \A u \in Threads : (stage'[u] = "barrier") <=> (stage[u] = "barrier")
      BY <1>0, <3>2 DEF To, PoolType, StageType
    <3> QED
      BY <1>0, <2>0, <3>1, <3>3, BarrierFrame
  <2> QED
    BY <2>1, <2>2, <2>3
<1>7. CASE Request
  <2>1. CASE Configure \/ LaunchInline \/ BeginKill
    BY <1>2, <2>1, Zenon DEF Configure, LaunchInline, BeginKill, launcher, tasks
  <2>2. ASSUME NEW n \in 0 .. NumWorkers, Launch(IF n = 0 THEN used ELSE n) PROVE BarrierInv'
    <3>1. (IF n = 0 THEN used ELSE n) \in 0 .. NumWorkers
      BY <1>0, SMTT(30) DEF PoolType, ScalarType
    <3> QED
      BY <1>1, <2>2, <3>1
  <2> QED
    BY <1>7, <2>1, <2>2, SMTT(30) DEF Request
<1>8. CASE Main
  BY <1>2, <1>4, <1>5, <1>8, Zenon DEF Main, Enqueue, Count, WaitForJobs, CheckErrors,
     CollectErrors, launcher, tasks
<1>9. CASE UNCHANGED vars
  BY <1>2, <1>9 DEF vars, launcher, tasks
<1> QED
  BY <1>3, <1>6, <1>7, <1>8, <1>9 DEF Next, Stepping

\* The barrier separates the phases of a lambda, however the tasks interleave.
THEOREM PoolBarrierSeparates == MinUsed = 1 => (Safety => []BarrierSeparates)
<1> SUFFICES ASSUME MinUsed = 1 PROVE Safety => []BarrierSeparates
  OBVIOUS
<1>1. Init => QInv /\ LaunchInv /\ BarrierInv
  <2> SUFFICES ASSUME Init PROVE BarrierInv
    BY QInvInit, LaunchInvInit, Zenon
  <2>1. Tasks = {}
    BY DEF Init, Tasks
  <2> QED
    BY <2>1 DEF BarrierInv
<1>2. QInv /\ LaunchInv /\ BarrierInv /\ [Next]_vars => (QInv /\ LaunchInv /\ BarrierInv)'
  BY QInvStep, LaunchInvStep, BarrierInvStep, ZenonT(60)
<1>3. QInv /\ LaunchInv /\ BarrierInv => BarrierSeparates
  <2> SUFFICES ASSUME QInv, BarrierInv, NEW t \in Tasks, NEW u \in Tasks,
                      passed[u] < passed[t]
               PROVE  passed[t] = passed[u] + 1 /\ stage[u] = "barrier"
    BY DEF BarrierSeparates
  <2>1. passed[t] \in Nat /\ passed[u] \in Nat
    BY TaskThreads, Zenon DEF QInv, PoolType, TaskType
  <2> QED
    BY <2>1 DEF BarrierInv
<1> QED
  BY <1>1, <1>2, <1>3, PTL DEF Safety
-----------------------------------------------------------------------------
(* The rest of the type invariant. *)

Phases == {"idle", "push", "count", "notify", "work", "check", "collect", "kill", "dead"}

\* What the launching thread and the configuration keep beside ScalarType.
MainType ==
  /\ concurrency \in 1 .. NumWorkers /\ configs \in 0 .. MaxConfigs
  /\ mpc \in Phases /\ last \in BOOLEAN /\ launches \in 0 .. MaxLaunches
  /\ result \in {0, -1} /\ barriers \in 0 .. MaxBarriers

\* The launcher's arrays, what they hold, and the tasks that failed.
ErrorType ==
  /\ shape \in [errors : 0 .. NumWorkers + 1, counters : 0 .. NumWorkers]
  /\ hasError \in BOOLEAN /\ errors \subseteq 0 .. Outside /\ failed \subseteq Threads

\* Nobody claims or pushes a task in the queue of a thread that has none.
OwnQueue == exclude => pending[0] = 0

\* Every step keeps the phase, the counters and the bounds on them.
LEMMA MainTypeStep ==
  ASSUME MainType, [Next]_vars
  PROVE  MainType'
<1> USE DEF MainType, Phases
<1>1. ASSUME NEW n, Launch(n) PROVE MainType'
  BY <1>1 DEF Launch, Launching
<1>2. CASE Configure \/ LaunchInline \/ BeginKill
  <2>1. CASE Configure
    <3>1. configs' \in 0 .. MaxConfigs
      BY <2>1 DEF Configure
    <3>2. concurrency' \in 1 .. NumWorkers /\ UNCHANGED <<main, barriers>>
      BY <2>1, Zenon DEF Configure, launcher
    <3> QED
      BY <3>1, <3>2, Zenon DEF main
  <2>2. CASE LaunchInline
    BY <2>2 DEF LaunchInline, config, launcher
  <2>3. CASE BeginKill
    BY <2>3 DEF BeginKill, launcher
  <2> QED
    BY <1>2, <2>1, <2>2, <2>3, Zenon
<1>3. CASE Enqueue \/ Count \/ StartOwn \/ WaitForJobs
  BY <1>3, Zenon DEF Enqueue, Count, StartOwn, WaitForJobs, config, launcher
<1>4. CASE CheckErrors \/ CollectErrors \/ Join
  BY <1>4, ZenonT(60) DEF CheckErrors, CollectErrors, Join, config, launcher
<1>5. CASE Notify \/ SignalForKill
  BY <1>5 DEF Notify, Notify_Unlocked, SignalForKill, config, launcher
<1>6. CASE UNCHANGED <<config, main, barriers>>
  BY <1>6, SMTT(30) DEF config, main
<1>7. ASSUME NEW t \in Threads, Stepping(t) PROVE UNCHANGED <<config, main, barriers>>
  BY <1>7, ZenonT(60) DEF Stepping, Thread, Worker, Lambda, Claim, Lock, Test, Sleep, Take,
     WakeSpuriously, Arrive, PassBarrier, Finish, Fail, StoreError, RaiseFlag, launcher
<1>8. CASE UNCHANGED vars
  BY <1>6, <1>8 DEF vars, launcher
<1> QED
  BY <1>1, <1>2, <1>3, <1>4, <1>5, <1>6, <1>7, <1>8, ZenonT(60) DEF Next, Main, Request, Stepping

\* Init gives the launcher's arrays one more slot than tasks, at most one for each
\* worker and one more.
LEMMA ReshapedType ==
  ASSUME ErrorType, NEW n \in 0 .. NumWorkers
  PROVE  Reshaped(n) \in [errors : 0 .. NumWorkers + 1, counters : 0 .. NumWorkers]
<1>1. n + 1 \in 0 .. NumWorkers + 1
  OBVIOUS
<1>2. [errors |-> n + 1, counters |-> n] \in [errors : 0 .. NumWorkers + 1, counters : 0 .. NumWorkers]
  BY <1>1, Zenon
<1> QED
  BY <1>2, Zenon DEF Reshaped, ErrorType

\* Every step keeps the arrays and what they hold; an error is stored in a slot or Outside.
LEMMA ErrorTypeStep ==
  ASSUME ScalarType, ErrorType, [Next]_vars
  PROVE  ErrorType'
<1> DEFINE Shapes == [errors : 0 .. NumWorkers + 1, counters : 0 .. NumWorkers]
<1>0. /\ shape \in Shapes /\ hasError \in BOOLEAN /\ errors \subseteq 0 .. Outside
      /\ failed \subseteq Threads
  BY Zenon DEF ErrorType
<1> HIDE DEF Shapes
<1>00. ASSUME shape' \in Shapes, hasError' \in BOOLEAN, errors' \subseteq 0 .. Outside,
              failed' \subseteq Threads
       PROVE  ErrorType'
  BY <1>00, Zenon DEF ErrorType, Shapes
<1>1. ASSUME NEW n \in 0 .. NumWorkers, Launch(n) PROVE ErrorType'
  <2>1. Reshaped(n) \in Shapes
    BY ReshapedType DEF Shapes
  <2> QED
    BY <1>0, <1>00, <1>1, <2>1, Zenon DEF Launch, Launching
<1>2. CASE LaunchInline
  BY <1>0, <1>00, <1>2 DEF LaunchInline, config, launcher
<1>3. CASE CollectErrors
  BY <1>0, <1>00, <1>3 DEF CollectErrors, config, tasks
<1>4. CASE UNCHANGED <<shape, hasError, errors, failed>>
  BY <1>0, <1>00, <1>4, SMTT(30)
<1>5. CASE Configure \/ BeginKill \/ Enqueue \/ Count \/ StartOwn \/ WaitForJobs \/ CheckErrors
           \/ Join \/ Notify \/ SignalForKill \/ UNCHANGED vars
  BY <1>4, <1>5, Zenon DEF Configure, BeginKill, Enqueue, Count, StartOwn, WaitForJobs, CheckErrors,
     Join, Notify, Notify_Unlocked, SignalForKill, config, launcher, tasks, vars
<1>6. ASSUME NEW t \in Threads, Fail(t) PROVE ErrorType'
  BY <1>0, <1>00, <1>6 DEF Fail, config
<1>7. ASSUME NEW t \in Threads, StoreError(t) PROVE ErrorType'
  <2>1. ErrorSlots(t) \subseteq 0 .. Outside
    <3>1. CASE t \in Workers
      BY <3>1 DEF ErrorSlots, Outside
    <3>2. CASE t \notin Workers /\ numTask > 1
      BY <3>2 DEF ErrorSlots, ScalarType, Outside
    <3>3. CASE t \notin Workers /\ ~ (numTask > 1)
      <4>1. shape.errors \in 0 .. NumWorkers + 1
        BY <1>0 DEF Shapes
      <4> QED
        BY <3>3, <4>1 DEF ErrorSlots, Outside
    <3> QED
      BY <3>1, <3>2, <3>3
  <2> QED
    BY <1>0, <1>00, <1>7, <2>1, Zenon DEF StoreError, config, tasks
<1>8. ASSUME NEW t \in Threads, RaiseFlag(t) PROVE ErrorType'
  BY <1>0, <1>00, <1>8, SMTT(30) DEF RaiseFlag, config, tasks
<1>9. ASSUME NEW t \in Threads, Stepping(t), ~ Fail(t), ~ StoreError(t), ~ RaiseFlag(t)
      PROVE  UNCHANGED <<shape, hasError, errors, failed>>
  BY <1>9, Zenon DEF Stepping, Thread, Worker, Lambda, Claim, Lock, Test, Sleep, Take,
     WakeSpuriously, Arrive, PassBarrier, Finish, launcher, config, tasks
<1>10. CASE Request
  <2>1. ASSUME NEW n \in 0 .. NumWorkers, Launch(IF n = 0 THEN used ELSE n) PROVE ErrorType'
    <3>1. (IF n = 0 THEN used ELSE n) \in 0 .. NumWorkers
      BY DEF ScalarType
    <3> QED
      BY <1>1, <2>1, <3>1
  <2> QED
    BY <1>2, <1>5, <1>10, <2>1, Zenon DEF Request
<1> QED
  BY <1>3, <1>4, <1>5, <1>6, <1>7, <1>8, <1>9, <1>10 DEF Next, Main, Stepping
\* Every step leaves the unused queue of the launching thread alone.
LEMMA OwnQueueStep ==
  ASSUME PoolType, OwnSlot, OwnQueue, [Next]_vars
  PROVE  OwnQueue'
<1> SUFFICES ASSUME exclude' PROVE pending'[0] = 0
  BY DEF OwnQueue
<1>0. exclude
  BY Zenon DEF Next, vars, Main, Enqueue, Count, StartOwn, WaitForJobs, CheckErrors,
       CollectErrors, Join, Notify, Notify_Unlocked, SignalForKill, Request, Configure,
       LaunchInline, BeginKill, Launch, Launching, Thread, Worker, Lambda, Claim, Lock,
       Test, Sleep, Take, WakeSpuriously, Arrive, PassBarrier, Finish, Fail, StoreError,
       RaiseFlag, config
<1>1. pending[0] = 0 /\ 0 \in Threads /\ pending \in [Threads -> Int]
  BY <1>0 DEF OwnQueue, PoolType, QueueType
<1>2. CASE UNCHANGED pending
  BY <1>1, <1>2
<1>3. CASE Count
  <2>1. next >= 1 /\ next \in Int
    BY <1>0, <1>3 DEF Count, PoolType, ScalarType, First
  <2> QED
    BY <1>1, <1>3, <2>1 DEF Count
<1>4. CASE Join
  BY <1>1, <1>4, Zenon DEF Join, Zero, queues
<1>5. ASSUME NEW t \in Threads, Claim(t) PROVE pending'[0] = 0
  <2>1. t # 0
    BY <1>0, <1>5, ZenonT(60) DEF Claim, OwnSlot, InTask
  <2> QED
    BY <1>1, <1>5, <2>1 DEF Claim
<1>6. UNCHANGED queues \/ Enqueue \/ SignalForKill \/ (\E t \in Threads : Take(t))
        => UNCHANGED pending
  BY DEF queues, Enqueue, SignalForKill, Take
<1> QED
  BY <1>2, <1>3, <1>4, <1>5, <1>6, QueueSteps

\* pending_ of a worker's queue is at most one task ahead of or behind its worker.
LEMMA PendingRange ==
  ASSUME QInv, OwnQueue
  PROVE  pending \in [Threads -> -1 .. 1]
<1>1. pending \in [Threads -> Int]
  BY DEF QInv, PoolType, QueueType
<1>2. ASSUME NEW w \in Threads PROVE pending[w] \in -1 .. 1
  <2>1. CASE w \in Workers
    <3>1. /\ pending[w] = Items(w) - Uncounted(w) - Claimed(w)
          /\ Uncounted(w) <= Items(w)
      BY <2>1 DEF QInv, Queues, QueueInv
    <3>2. Items(w) \in {0, 1} /\ Uncounted(w) \in {0, 1} /\ Claimed(w) \in {0, 1}
      BY DEF Items, Uncounted, Claimed
    <3> QED
      BY <3>1, <3>2
  <2>2. CASE w \notin Workers
    <3>1. exclude /\ w = 0
      BY <2>2 DEF Workers, First
    <3> QED
      BY <3>1 DEF OwnQueue
  <2> QED
    BY <2>1, <2>2
<1> QED
  BY <1>1, <1>2

\* The pool's state stays within its bounds, for any number of workers, launches,
\* configurations and resets: a ring holds at most one task, pending_ stays between
\* -1 and 1, and par_errors_ and the counters have at most a slot for each worker,
\* the first one more.  Whether an error lands in a slot it does not say.
THEOREM PoolTypes == Safety => []TypeOK
<1> DEFINE TInv == QInv /\ MainType /\ ErrorType /\ OwnQueue
<1>1. Init => TInv
  <2> SUFFICES ASSUME Init PROVE TInv
    OBVIOUS
  <2>1. MainType
    <3>1. /\ concurrency = NumWorkers /\ configs = 0 /\ mpc = "idle" /\ last = FALSE
          /\ launches = 0 /\ result = 0 /\ barriers = 0
      BY Zenon DEF Init
    <3>2. /\ NumWorkers \in 1 .. NumWorkers /\ 0 \in 0 .. MaxConfigs
          /\ 0 \in 0 .. MaxLaunches /\ 0 \in 0 .. MaxBarriers
      OBVIOUS
    <3> QED
      BY <3>1, <3>2, Zenon DEF MainType, Phases
  <2>2. shape \in [errors : 0 .. NumWorkers + 1, counters : 0 .. NumWorkers]
    <3>1. 0 \in 0 .. NumWorkers + 1 /\ 0 \in 0 .. NumWorkers
      OBVIOUS
    <3> QED
      BY <3>1, Zenon DEF Init
  <2>3. ErrorType
    BY <2>2, Zenon DEF Init, ErrorType
  <2>4. OwnQueue
    BY DEF Init, OwnQueue, Zero
  <2> QED
    BY <2>1, <2>3, <2>4, QInvInit
<1>2. TInv /\ [Next]_vars => TInv'
  <2> SUFFICES ASSUME QInv, MainType, ErrorType, OwnQueue, [Next]_vars PROVE TInv'
    OBVIOUS
  <2>1. QInv'
    BY QInvStep
  <2>2. ErrorType'
    BY ErrorTypeStep DEF QInv, PoolType
  <2>3. OwnQueue'
    BY OwnQueueStep DEF QInv, Queues
  <2>4. MainType'
    BY MainTypeStep
  <2> QED
    BY <2>1, <2>2, <2>3, <2>4
<1>3. TInv => TypeOK
  <2> SUFFICES ASSUME QInv, MainType, ErrorType, OwnQueue PROVE TypeOK
    OBVIOUS
  <2>1. /\ exclude \in BOOLEAN /\ used \in 0 .. NumWorkers /\ next \in 0 .. NumWorkers
        /\ numTask \in 0 .. NumWorkers /\ numPending \in Int
    BY DEF QInv, PoolType, ScalarType
  <2>2. /\ head \in [Threads -> 0 .. RingSize - 1] /\ tail \in [Threads -> 0 .. RingSize - 1]
        /\ exitNow \in [Threads -> BOOLEAN]
    <3>1. {0, 1} = 0 .. RingSize - 1
      OBVIOUS
    <3> QED
      BY <3>1, Zenon DEF QInv, PoolType, QueueType
  <2>3. pending \in [Threads -> -1 .. 1]
    BY PendingRange
  <2>4. stage \in [Threads -> {"absent", "pop", "lock", "check", "doze", "wait", "take",
                               "body", "barrier", "error", "flag"}]
    BY StageNames DEF QInv, PoolType, StageType
  <2>5. /\ sync \in [Threads -> Nat] /\ runs \in [Threads -> Nat]
        /\ passed \in [Threads -> Nat]
    BY Zenon DEF QInv, PoolType, TaskType
  <2> QED
    BY <2>1, <2>2, <2>3, <2>4, <2>5, Zenon DEF TypeOK, MainType, Phases, ErrorType
<1> QED
  BY <1>1, <1>2, <1>3, PTL DEF Safety
=============================================================================
