--------------------------- MODULE TaskScheduler ---------------------------
(***************************************************************************)
(* The pool of threads that login and world hand blocking work to          *)
(* (common/event/task_scheduler.h), with the threads that use it: the main *)
(* loop of the login server and the threads of its web server              *)
(* (loginserver/account_management.cpp), and the look-up of a host name    *)
(* (common/ip_util.cpp).  The owner is the thread that constructs the      *)
(* scheduler and later destroys it.                                        *)
(*                                                                         *)
(* A critical section of _lock is one step, so a worker's test of the      *)
(* condition and its falling asleep are one; notify_one, notify_all and    *)
(* the joins come after the lock is given up and are steps of their own.   *)
(* No call begins once the object is destroyed.                            *)
(***************************************************************************)
EXTENDS Integers, Sequences, FiniteSets

CONSTANTS
  Workers,  \* _threads
  Callers,  \* the threads that call Enqueue and wait for the result
  MaxTasks  \* bound: tasks accepted in a behaviour

ASSUME SchedulerAssumption ==
  /\ IsFiniteSet(Workers) /\ Workers # {}
  /\ IsFiniteSet(Callers)
  /\ MaxTasks \in Nat

VARIABLES
  running,   \* _running
  tasks,     \* _tasks
  worker,    \* where each thread is
  job,       \* work: the task a thread has taken
  caller,    \* where each caller is
  awaited,   \* the task whose future a caller holds
  owner,     \* where the owner is
  future,    \* what each task's future holds
  accepted   \* tasks accepted so far, which names the next one

workers == <<worker, job>>
callers == <<caller, awaited>>
vars == <<running, tasks, workers, callers, owner, future, accepted>>

Tasks == 1..MaxTasks
NoTask == 0

At(pc) == {w \in Workers : worker[w] = pc}
Calling(pc) == {c \in Callers : caller[c] = pc}

Init ==
  /\ running = TRUE
  /\ tasks = <<>>
  /\ worker = [w \in Workers |-> "none"]
  /\ job = [w \in Workers |-> NoTask]
  /\ caller = [c \in Callers |-> "idle"]
  /\ awaited = [c \in Callers |-> NoTask]
  /\ owner = "starting"
  /\ future = [t \in Tasks |-> "none"]
  /\ accepted = 0

-----------------------------------------------------------------------------
(* The constructor: Start sets _running and creates the threads, each of   *)
(* which may be under way before the next is created.                      *)

StartThread(w) ==
  /\ owner = "starting"
  /\ worker[w] = "none"
  /\ worker' = [worker EXCEPT ![w] = "check"]
  /\ UNCHANGED <<running, tasks, job, callers, owner, future, accepted>>

Started ==
  /\ owner = "starting"
  /\ At("none") = {}
  /\ owner' = "alive"
  /\ UNCHANGED <<running, tasks, workers, callers, future, accepted>>

-----------------------------------------------------------------------------
(* Enqueue, and the caller's wait for the future.                          *)

Enqueue(c) ==
  /\ owner \notin {"starting", "destroyed"}
  /\ caller[c] = "idle"
  /\ running
  /\ accepted < MaxTasks
  /\ accepted' = accepted + 1
  /\ tasks' = Append(tasks, accepted + 1)
  /\ future' = [future EXCEPT ![accepted + 1] = "pending"]
  /\ awaited' = [awaited EXCEPT ![c] = accepted + 1]
  /\ caller' = [caller EXCEPT ![c] = "notify"]
  /\ UNCHANGED <<running, workers, owner>>

\* "Enqueue on stopped scheduler.": the call throws and the caller goes on.
EnqueueThrows(c) ==
  /\ owner \notin {"starting", "destroyed"}
  /\ caller[c] = "idle"
  /\ ~running
  /\ UNCHANGED vars

\* Mutant: the workers are notified when the queue was empty, since
\* otherwise one must already be on its way.
WokenIfFirst(w) == worker[w] = "asleep" /\ Len(tasks) = 1

\* A thread notify_one may wake.
Woken(w) == worker[w] = "asleep"

NotifyOne(c) ==
  /\ caller[c] = "notify"
  /\ \/ \E w \in Workers :
          Woken(w) /\ worker' = [worker EXCEPT ![w] = "check"]
     \/ (\A w \in Workers : ~Woken(w)) /\ UNCHANGED worker
  /\ caller' = [caller EXCEPT ![c] = "await"]
  /\ UNCHANGED <<running, tasks, job, awaited, owner, future, accepted>>

\* res.get() returns the value, or throws when the promise was broken.
Get(c) ==
  /\ caller[c] = "await"
  /\ future[awaited[c]] # "pending"
  /\ caller' = [caller EXCEPT ![c] = "idle"]
  /\ awaited' = [awaited EXCEPT ![c] = NoTask]
  /\ UNCHANGED <<running, tasks, workers, owner, future, accepted>>

-----------------------------------------------------------------------------
(* ProcessWork.  A thread at "check" is about to take the lock and test    *)
(* the condition it waits for, for the first time or after a wake-up.      *)

Return(w) ==
  /\ worker[w] = "check"
  /\ ~running
  /\ worker' = [worker EXCEPT ![w] = "returned"]
  /\ UNCHANGED <<running, tasks, job, callers, owner, future, accepted>>

Sleep(w) ==
  /\ worker[w] = "check"
  /\ running
  /\ tasks = <<>>
  /\ worker' = [worker EXCEPT ![w] = "asleep"]
  /\ UNCHANGED <<running, tasks, job, callers, owner, future, accepted>>

Take(w) ==
  /\ worker[w] = "check"
  /\ running
  /\ tasks # <<>>
  /\ worker' = [worker EXCEPT ![w] = "work"]
  /\ job' = [job EXCEPT ![w] = Head(tasks)]
  /\ tasks' = Tail(tasks)
  /\ UNCHANGED <<running, callers, owner, future, accepted>>

\* work is local to the loop's body.
WorkAfter(w) == NoTask

\* work(): a packaged task leaves its result, or its exception, in the
\* future.  The tasks end by themselves: they have deadlines.
Work(w) ==
  /\ worker[w] = "work"
  /\ worker' = [worker EXCEPT ![w] = "check"]
  /\ job' = [job EXCEPT ![w] = WorkAfter(w)]
  /\ future' = [future EXCEPT ![job[w]] = "value"]
  /\ UNCHANGED <<running, tasks, callers, owner, accepted>>

\* A condition variable may wake a thread for no reason.
WakeUp(w) ==
  /\ worker[w] = "asleep"
  /\ worker' = [worker EXCEPT ![w] = "check"]
  /\ UNCHANGED <<running, tasks, job, callers, owner, future, accepted>>

-----------------------------------------------------------------------------
(* The destructor: Stop, then the members go.                              *)

Stop ==
  /\ owner = "alive"
  /\ running
  /\ running' = FALSE
  /\ owner' = "stopping"
  /\ UNCHANGED <<tasks, workers, callers, future, accepted>>

\* Mutant: one thread is notified of the stop, as if it were a task.
WokenByStopOne(w) ==
  worker[w] = "asleep" /\ w = CHOOSE v \in Workers : worker[v] = "asleep"

\* The threads notify_all wakes.
WokenByStop(w) == worker[w] = "asleep"

NotifyAll ==
  /\ owner = "stopping"
  /\ worker' = [w \in Workers |->
                  IF WokenByStop(w) THEN "check" ELSE worker[w]]
  /\ owner' = "joining"
  /\ UNCHANGED <<running, tasks, job, callers, future, accepted>>

\* Mutant: the threads are detached and not waited for.
JoinedDetached(w) == TRUE

\* t.join() of a thread returns.
Joined(w) == worker[w] = "returned"

\* The tasks left in the queue.
NeverRan(t) == \E i \in 1..Len(tasks) : tasks[i] = t

\* Every thread is joined and _tasks is destroyed: a packaged task that
\* never ran breaks its promise.
Destroy ==
  /\ owner = "joining"
  /\ \A w \in Workers : Joined(w)
  /\ tasks' = <<>>
  /\ future' = [t \in Tasks |-> IF NeverRan(t) THEN "broken" ELSE future[t]]
  /\ owner' = "destroyed"
  /\ UNCHANGED <<running, workers, callers, accepted>>

\* The end, when no caller is inside any more.
Gone ==
  /\ owner = "destroyed"
  /\ Calling("idle") = Callers
  /\ UNCHANGED vars

-----------------------------------------------------------------------------
Next ==
  \/ \E w \in Workers : StartThread(w) \/ Return(w) \/ Sleep(w) \/ Take(w)
                        \/ Work(w) \/ WakeUp(w)
  \/ \E c \in Callers : Enqueue(c) \/ EnqueueThrows(c) \/ NotifyOne(c) \/ Get(c)
  \/ Started \/ Stop \/ NotifyAll \/ Destroy \/ Gone

Spec == Init /\ [][Next]_vars

\* Every thread that can go on does; nobody has to call Enqueue or destroy
\* the scheduler, and no thread wakes up by itself.
FairSpec ==
  /\ Spec
  /\ \A w \in Workers : /\ WF_vars(StartThread(w))
                        /\ WF_vars(Return(w) \/ Sleep(w) \/ Take(w))
                        /\ WF_vars(Work(w))
  /\ \A c \in Callers : WF_vars(NotifyOne(c)) /\ WF_vars(Get(c))
  /\ WF_vars(Started) /\ WF_vars(NotifyAll) /\ WF_vars(Destroy)

-----------------------------------------------------------------------------
(* Properties                                                              *)

\* The values the variables range over; a thread holds a task while it works
\* on it and a caller one from Enqueue until it has the result.
TypeOK ==
  /\ running \in BOOLEAN
  /\ tasks \in Seq(Tasks)
  /\ worker \in [Workers -> {"none", "check", "asleep", "work", "returned"}]
  /\ job \in [Workers -> Tasks \union {NoTask}]
  /\ caller \in [Callers -> {"idle", "notify", "await"}]
  /\ awaited \in [Callers -> Tasks \union {NoTask}]
  /\ owner \in {"starting", "alive", "stopping", "joining", "destroyed"}
  /\ future \in [Tasks -> {"none", "pending", "value", "broken"}]
  /\ accepted \in 0..MaxTasks
  /\ \A w \in Workers : job[w] # NoTask <=> worker[w] = "work"
  /\ \A c \in Callers : awaited[c] # NoTask <=> caller[c] # "idle"

\* No wake-up is lost: while a thread sleeps, each task in the queue has a
\* thread that is on its way to the queue or a caller that is about to wake
\* one (the notify_one after the lock is given up, task_scheduler.h:81, and
\* the condition tested again under the lock, line 92).
NoLostWakeUp ==
  running /\ At("asleep") # {} =>
    Len(tasks) <= Cardinality(At("check")) + Cardinality(Calling("notify"))

\* Nobody sleeps through a stop: a thread that Stop still has to wake or to
\* join is not asleep once notify_all was called (task_scheduler.h:50-59).
NobodySleepsThroughStop ==
  owner \in {"joining", "destroyed"} => At("asleep") = {}

\* A caller whose task was accepted gets its value or an exception, whether
\* or not the scheduler is destroyed under it: nothing waits for ever.
EveryCallReturns ==
  \A c \in Callers : caller[c] = "await" ~> caller[c] = "idle"

\* The destructor returns.
StopReturns == owner = "stopping" ~> owner = "destroyed"

\* Refinement mapping: a task's state in TaskPool.
Begun(t) == \E w \in Workers : worker[w] = "work" /\ job[w] = t
TaskState(t) ==
  IF Begun(t) THEN "begun"
  ELSE IF NeverRan(t) THEN "queued"
  ELSE IF future[t] = "value" THEN "finished" ELSE future[t]

Pool == INSTANCE TaskPool
  WITH Threads <- Cardinality(Workers), open <- running,
       task <- [t \in Tasks |-> TaskState(t)]

\* The scheduler is such a pool: tasks begin in the order of acceptance and
\* once, nothing is accepted after Stop, and no promise is broken while a
\* task of the pool is still under way.
PoolSafety == Pool!Spec
=============================================================================
