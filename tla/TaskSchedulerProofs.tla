------------------------- MODULE TaskSchedulerProofs -------------------------
(***************************************************************************)
(* The safety of the pool of threads, for any threads, callers and tasks.  *)
(***************************************************************************)
EXTENDS TaskScheduler, FiniteSetTheorems, TLAPS

Types ==
  /\ running \in BOOLEAN
  /\ tasks \in Seq(Tasks)
  /\ worker \in [Workers -> {"none", "check", "asleep", "work", "returned"}]
  /\ job \in [Workers -> Tasks \union {NoTask}]
  /\ caller \in [Callers -> {"idle", "notify", "await"}]
  /\ awaited \in [Callers -> Tasks \union {NoTask}]
  /\ owner \in {"starting", "alive", "stopping", "joining", "destroyed"}
  /\ future \in [Tasks -> {"none", "pending", "value", "broken"}]
  /\ accepted \in 0..MaxTasks

Holding ==
  /\ \A w \in Workers : job[w] # NoTask <=> worker[w] = "work"
  /\ \A c \in Callers : awaited[c] # NoTask <=> caller[c] # "idle"

\* Threads return only after Stop, and are gone when the object is.
Phases ==
  /\ running <=> owner \in {"starting", "alive"}
  /\ \A w \in Workers : worker[w] = "returned" => ~running
  /\ owner = "destroyed" =>
       tasks = <<>> /\ \A w \in Workers : worker[w] = "returned"
  /\ NobodySleepsThroughStop

\* The queue holds the tasks accepted last, in order, and each that was taken
\* out of it is in one thread or has ended.
Waiting == Len(tasks)
Queued ==
  /\ owner # "destroyed" => Waiting <= accepted
  /\ \A i \in 1..Waiting : tasks[i] = accepted - Waiting + i
  /\ \A t \in Tasks : future[t] = "none" <=> t > accepted
Taken ==
  /\ \A w \in Workers : worker[w] = "work" =>
       job[w] <= accepted - Waiting /\ future[job[w]] = "pending"
  /\ \A v, w \in Workers :
       worker[v] = "work" /\ worker[w] = "work" /\ job[v] = job[w] => v = w
  /\ \A i \in 1..Waiting : future[tasks[i]] = "pending"

\* The inductive invariant.
IInv == Types /\ Holding /\ Phases /\ Queued /\ Taken

\* The initial states satisfy it.
LEMMA InitIInv == Init => IInv
  BY SchedulerAssumption
  DEF Init, IInv, Types, Holding, Phases, Queued, Taken, Waiting,
      NobodySleepsThroughStop, At, Tasks, NoTask

\* Types are kept by every step.
LEMMA NextTypes == Types /\ [Next]_vars => Types'
<1> SUFFICES ASSUME Types, [Next]_vars PROVE Types'
  OBVIOUS
<1> USE SchedulerAssumption DEF Types, Tasks, NoTask
<1>1. ASSUME NEW w \in Workers,
             StartThread(w) \/ Return(w) \/ Sleep(w) \/ WakeUp(w)
      PROVE  Types'
  BY <1>1 DEF StartThread, Return, Sleep, WakeUp, callers, workers
<1>2. ASSUME NEW w \in Workers, Take(w) PROVE Types'
  <2>1. Head(tasks) \in Tasks /\ Tail(tasks) \in Seq(Tasks)
    BY <1>2 DEF Take
  <2> QED
    BY <1>2, <2>1 DEF Take, callers
<1>3. ASSUME NEW w \in Workers, Work(w) PROVE Types'
  BY <1>3 DEF Work, WorkAfter, callers
<1>4. ASSUME NEW c \in Callers, Enqueue(c) PROVE Types'
  <2>1. accepted + 1 \in Tasks /\ accepted + 1 \in 0..MaxTasks
    BY <1>4 DEF Enqueue
  <2> QED
    BY <1>4, <2>1 DEF Enqueue, workers
<1>5. ASSUME NEW c \in Callers, NotifyOne(c) PROVE Types'
  BY <1>5 DEF NotifyOne, Woken
<1>6. ASSUME NEW c \in Callers, Get(c) PROVE Types'
  BY <1>6 DEF Get, workers
<1>7. CASE Started \/ Stop \/ NotifyAll
  BY <1>7 DEF Started, Stop, NotifyAll, workers, callers
<1>8. CASE Destroy
  BY <1>8 DEF Destroy, workers, callers
<1>9. CASE UNCHANGED vars
  BY <1>9 DEF vars, workers, callers
<1> QED
  BY <1>1, <1>2, <1>3, <1>4, <1>5, <1>6, <1>7, <1>8, <1>9
  DEF Next, EnqueueThrows, Gone

\* Whoever works holds a task, whoever waits awaits one.
LEMMA NextHolding == Types /\ Holding /\ [Next]_vars => Holding'
<1> SUFFICES ASSUME Types, Holding, [Next]_vars PROVE Holding'
  OBVIOUS
<1> USE SchedulerAssumption DEF Types, Holding, NoTask
<1>1. ASSUME NEW w \in Workers,
             StartThread(w) \/ Return(w) \/ Sleep(w) \/ WakeUp(w)
      PROVE  Holding'
  BY <1>1 DEF StartThread, Return, Sleep, WakeUp, callers
<1>2. ASSUME NEW w \in Workers, Take(w) PROVE Holding'
  <2>1. Head(tasks) # 0
    BY <1>2 DEF Take, Tasks
  <2> QED
    BY <1>2, <2>1 DEF Take, callers
<1>3. ASSUME NEW w \in Workers, Work(w) PROVE Holding'
  BY <1>3 DEF Work, WorkAfter, callers
<1>4. ASSUME NEW c \in Callers, Enqueue(c) \/ Get(c) PROVE Holding'
  BY <1>4 DEF Enqueue, Get, workers
<1>5. ASSUME NEW c \in Callers, NotifyOne(c) PROVE Holding'
  BY <1>5 DEF NotifyOne, Woken
<1>6. CASE Started \/ Stop \/ NotifyAll \/ Destroy
  BY <1>6 DEF Started, Stop, NotifyAll, WokenByStop, Destroy, workers, callers
<1>7. CASE UNCHANGED vars
  BY <1>7 DEF vars, workers, callers
<1> QED
  BY <1>1, <1>2, <1>3, <1>4, <1>5, <1>6, <1>7 DEF Next, EnqueueThrows, Gone

\* The phases of the scheduler's life.
LEMMA NextPhases == Types /\ Phases /\ [Next]_vars => Phases'
<1> SUFFICES ASSUME Types, Phases, [Next]_vars PROVE Phases'
  OBVIOUS
<1> USE SchedulerAssumption DEF Types, Phases, NobodySleepsThroughStop, At
<1>1. ASSUME NEW w \in Workers,
             \/ StartThread(w) \/ Return(w) \/ Sleep(w) \/ WakeUp(w)
             \/ Take(w) \/ Work(w)
      PROVE  Phases'
  BY <1>1 DEF StartThread, Return, Sleep, WakeUp, Take, Work, callers
<1>2. ASSUME NEW c \in Callers, Enqueue(c) \/ Get(c) PROVE Phases'
  BY <1>2 DEF Enqueue, Get, workers
<1>3. ASSUME NEW c \in Callers, NotifyOne(c) PROVE Phases'
  BY <1>3 DEF NotifyOne, Woken
<1>4. CASE Started \/ Stop \/ NotifyAll
  BY <1>4 DEF Started, Stop, NotifyAll, WokenByStop, workers, callers
<1>5. CASE Destroy
  BY <1>5 DEF Destroy, Joined, workers, callers
<1>6. CASE UNCHANGED vars
  BY <1>6 DEF vars, workers, callers
<1> QED
  BY <1>1, <1>2, <1>3, <1>4, <1>5, <1>6 DEF Next, EnqueueThrows, Gone

\* The head of the queue, and the queue without it.
LEMMA HeadOfQueue ==
  ASSUME Types, Queued, owner # "destroyed", tasks # <<>>
  PROVE  /\ Waiting \in Nat /\ Waiting >= 1
         /\ Head(tasks) = accepted - Waiting + 1
         /\ Head(tasks) \in Tasks
         /\ Len(Tail(tasks)) = Waiting - 1
         /\ \A i \in 1..(Waiting - 1) : Tail(tasks)[i] = tasks[i + 1]
<1>1. Waiting \in Nat /\ Waiting >= 1
  BY DEF Types, Waiting
<1>2. Head(tasks) = tasks[1] /\ 1 \in 1..Waiting
  BY <1>1 DEF Waiting, Types
<1>3. tasks[1] = accepted - Waiting + 1 /\ tasks[1] \in Tasks
  BY <1>1, <1>2 DEF Types, Queued, Waiting
<1>4. /\ Len(Tail(tasks)) = Waiting - 1
      /\ \A i \in 1..(Waiting - 1) : Tail(tasks)[i] = tasks[i + 1]
  BY <1>1 DEF Types, Waiting
<1> QED
  BY <1>1, <1>2, <1>3, <1>4

\* Steps that leave the queue and the promises alone.
LEMMA SameQueue ==
  ASSUME Types, Queued, Taken, UNCHANGED <<tasks, future, accepted>>,
         owner = "destroyed" => owner' = "destroyed",
         \A w \in Workers :
           worker'[w] = "work" => worker[w] = "work" /\ job'[w] = job[w]
  PROVE  Queued' /\ Taken'
<1>1. Queued'
  BY DEF Queued, Waiting
<1>2. Taken'
  BY DEF Taken, Waiting
<1> QED
  BY <1>1, <1>2

\* The queue stays in order and every task has one place.
LEMMA NextQueue == IInv /\ [Next]_vars => Queued' /\ Taken'
<1> SUFFICES ASSUME IInv, [Next]_vars PROVE Queued' /\ Taken'
  OBVIOUS
<1> USE SchedulerAssumption DEF IInv
<1>1. ASSUME NEW w \in Workers,
             StartThread(w) \/ Return(w) \/ Sleep(w) \/ WakeUp(w)
      PROVE  Queued' /\ Taken'
  BY <1>1, SameQueue DEF StartThread, Return, Sleep, WakeUp, callers, Types
<1>2. ASSUME NEW w \in Workers, Take(w) PROVE Queued' /\ Taken'
  <2>1. owner # "destroyed" /\ tasks # <<>>
    BY <1>2 DEF Take, Phases
  <2>2. /\ Waiting \in Nat /\ Waiting >= 1
        /\ Head(tasks) = accepted - Waiting + 1
        /\ Head(tasks) \in Tasks
        /\ Waiting' = Waiting - 1
        /\ \A i \in 1..Waiting' : tasks'[i] = tasks[i + 1]
    BY <1>2, <2>1, HeadOfQueue DEF Take, Waiting
  <2>3. Queued'
    <3>1. \A i \in 1..Waiting' : tasks'[i] = accepted - Waiting' + i
      <4> SUFFICES ASSUME NEW i \in 1..Waiting'
                   PROVE  tasks'[i] = accepted - Waiting' + i
        OBVIOUS
      <4>1. i + 1 \in 1..Waiting /\ tasks'[i] = tasks[i + 1]
        BY <2>2
      <4>2. tasks[i + 1] = accepted - Waiting + (i + 1)
        BY <4>1 DEF Queued
      <4> QED
        BY <2>2, <4>1, <4>2 DEF Types
    <3>2. UNCHANGED <<future, accepted, owner>>
      BY <1>2 DEF Take
    <3> QED
      BY <2>1, <2>2, <3>1, <3>2 DEF Queued, Types
  <2>4. future[Head(tasks)] = "pending"
    <3>1. 1 \in 1..Waiting /\ tasks[1] = Head(tasks)
      BY <2>1, <2>2 DEF Types
    <3> QED
      BY <3>1 DEF Taken
  <2>5. \A v \in Workers : worker'[v] = "work" =>
          \/ v = w /\ job'[v] = Head(tasks)
          \/ v # w /\ worker[v] = "work" /\ job'[v] = job[v]
    BY <1>2 DEF Take, Types
  <2>6. \A v \in Workers : worker'[v] = "work" =>
          job'[v] <= accepted - Waiting' /\ future[job'[v]] = "pending"
    <3> SUFFICES ASSUME NEW v \in Workers, worker'[v] = "work"
                 PROVE  /\ job'[v] <= accepted - Waiting'
                        /\ future[job'[v]] = "pending"
      OBVIOUS
    <3>1. CASE job'[v] = Head(tasks)
      BY <2>2, <2>4, <3>1 DEF Types
    <3>2. CASE worker[v] = "work" /\ job'[v] = job[v]
      BY <2>2, <3>2 DEF Taken, Types, NoTask, Tasks
    <3> QED
      BY <2>5, <3>1, <3>2
  <2>7. \A u, v \in Workers :
          worker'[u] = "work" /\ worker'[v] = "work" /\ job'[u] = job'[v]
            => u = v
    BY <2>2, <2>5 DEF Taken, Types, Tasks, NoTask
  <2>8. \A i \in 1..Waiting' : future[tasks'[i]] = "pending"
    <3> SUFFICES ASSUME NEW i \in 1..Waiting'
                 PROVE  future[tasks'[i]] = "pending"
      OBVIOUS
    <3>1. i + 1 \in 1..Waiting /\ tasks'[i] = tasks[i + 1]
      BY <2>2
    <3> QED
      BY <3>1 DEF Taken
  <2>9. accepted' = accepted /\ future' = future
    BY <1>2 DEF Take
  <2> QED
    BY <2>3, <2>6, <2>7, <2>8, <2>9 DEF Taken
<1>3. ASSUME NEW w \in Workers, Work(w) PROVE Queued' /\ Taken'
  <2>1. /\ tasks' = tasks /\ accepted' = accepted /\ owner' = owner
        /\ Waiting' = Waiting
    BY <1>3 DEF Work, Waiting
  <2>2. job[w] \in Tasks /\ job[w] <= accepted - Waiting
    BY <1>3 DEF Work, Taken, Types, Holding, NoTask
  <2>3. future' = [future EXCEPT ![job[w]] = "value"]
    BY <1>3 DEF Work
  <2>4. Queued'
    BY <2>1, <2>2, <2>3 DEF Queued, Types, Tasks, Waiting
  <2>5. \A v \in Workers : worker'[v] = "work" =>
          v # w /\ worker[v] = "work" /\ job'[v] = job[v]
    BY <1>3 DEF Work, Types
  <2>6. \A v \in Workers : worker'[v] = "work" => job'[v] # job[w]
    BY <1>3, <2>5 DEF Work, Taken
  <2>7. \A v \in Workers : worker'[v] = "work" => job[v] \in Tasks
    BY <2>5 DEF Types, Holding, NoTask
  <2>8. \A i \in 1..Waiting : tasks[i] # job[w] /\ tasks[i] \in Tasks
    BY <2>2 DEF Queued, Types, Tasks, Waiting
  <2>9. \A i \in 1..Waiting : future'[tasks[i]] = "pending"
    BY <2>3, <2>8 DEF Taken, Types
  <2>10. \A v \in Workers : worker'[v] = "work" => future'[job'[v]] = "pending"
    BY <2>3, <2>5, <2>6, <2>7 DEF Taken, Types
  <2> QED
    BY <2>1, <2>4, <2>5, <2>9, <2>10 DEF Taken
<1>4. ASSUME NEW c \in Callers, Enqueue(c) PROVE Queued' /\ Taken'
  <2>1. /\ accepted \in Nat /\ accepted + 1 \in Tasks /\ Waiting \in Nat
        /\ accepted' = accepted + 1 /\ Waiting' = Waiting + 1
        /\ \A i \in 1..Waiting : tasks'[i] = tasks[i]
        /\ tasks'[Waiting + 1] = accepted + 1
    BY <1>4 DEF Enqueue, Types, Tasks, Waiting
  <2>2. /\ future' = [future EXCEPT ![accepted + 1] = "pending"]
        /\ UNCHANGED <<worker, job, owner>>
        /\ owner # "destroyed"
    BY <1>4 DEF Enqueue, workers
  <2>3. Queued'
    <3>1. \A i \in 1..Waiting' : tasks'[i] = accepted' - Waiting' + i
      BY <2>1 DEF Queued
    <3>2. \A t \in Tasks : future'[t] = "none" <=> t > accepted'
      BY <2>1, <2>2 DEF Queued, Types, Tasks
    <3> QED
      BY <2>1, <2>2, <3>1, <3>2 DEF Queued
  <2>4. \A w \in Workers : worker[w] = "work" => job[w] # accepted + 1
    BY <2>1 DEF Taken, Types, Tasks, NoTask
  <2>5. \A w \in Workers : worker'[w] = "work" =>
          job'[w] <= accepted' - Waiting' /\ future'[job'[w]] = "pending"
    BY <2>1, <2>2, <2>4 DEF Taken, Types, Holding, NoTask
  <2>6. \A i \in 1..Waiting' : future'[tasks'[i]] = "pending"
    <3> SUFFICES ASSUME NEW i \in 1..Waiting'
                 PROVE  future'[tasks'[i]] = "pending"
      OBVIOUS
    <3>1. CASE i = Waiting + 1
      BY <2>1, <2>2, <3>1 DEF Types
    <3>2. CASE i # Waiting + 1
      <4>1. i \in 1..Waiting /\ tasks'[i] = tasks[i]
        BY <2>1, <3>2
      <4>2. tasks[i] # accepted + 1 /\ tasks[i] \in Tasks
        BY <2>1, <4>1 DEF Queued, Types, Waiting
      <4> QED
        BY <2>2, <4>1, <4>2 DEF Taken, Types
    <3> QED
      BY <3>1, <3>2
  <2> QED
    BY <2>2, <2>3, <2>5, <2>6 DEF Taken
<1>5. ASSUME NEW c \in Callers, NotifyOne(c) PROVE Queued' /\ Taken'
  BY <1>5, SameQueue DEF NotifyOne, Woken, Types
<1>6. ASSUME NEW c \in Callers, Get(c) PROVE Queued' /\ Taken'
  BY <1>6, SameQueue DEF Get, workers
<1>7. CASE Started \/ Stop \/ NotifyAll
  BY <1>7, SameQueue DEF Started, Stop, NotifyAll, WokenByStop, workers,
                         callers, Types
<1>8. CASE Destroy
  <2>1. \A w \in Workers : worker'[w] = "returned"
    BY <1>8 DEF Destroy, Joined, workers
  <2>2. Waiting' = 0 /\ owner' = "destroyed" /\ accepted' = accepted
    BY <1>8 DEF Destroy, Waiting
  <2>3. \A t \in Tasks : future'[t] = "none" <=> future[t] = "none"
    <3> SUFFICES ASSUME NEW t \in Tasks
                 PROVE  future'[t] = "none" <=> future[t] = "none"
      OBVIOUS
    <3>1. CASE NeverRan(t)
      BY <1>8, <3>1 DEF Destroy, NeverRan, Taken, Waiting, Types
    <3>2. CASE ~NeverRan(t)
      BY <1>8, <3>2 DEF Destroy
    <3> QED
      BY <3>1, <3>2
  <2> QED
    BY <2>1, <2>2, <2>3 DEF Queued, Taken
<1>9. CASE UNCHANGED vars
  BY <1>9, SameQueue DEF vars, workers
<1> QED
  BY <1>1, <1>2, <1>3, <1>4, <1>5, <1>6, <1>7, <1>8, <1>9
  DEF Next, EnqueueThrows, Gone

\* The invariant is inductive.
LEMMA NextIInv == IInv /\ [Next]_vars => IInv'
  BY NextTypes, NextHolding, NextPhases, NextQueue DEF IInv

\* IInv holds in every reachable state.
LEMMA Invariance == Spec => []IInv
  BY InitIInv, NextIInv, PTL DEF Spec

\* The values the variables range over, and who holds which task.
THEOREM SchedulerTypeOK == Spec => []TypeOK
<1>1. IInv => TypeOK
  BY DEF IInv, Types, Holding, TypeOK
<1> QED
  BY <1>1, Invariance, PTL

\* No thread is asleep once Stop has woken them all.
THEOREM SchedulerNobodySleeps == Spec => []NobodySleepsThroughStop
<1>1. IInv => NobodySleepsThroughStop
  BY DEF IInv, Phases
<1> QED
  BY <1>1, Invariance, PTL

-----------------------------------------------------------------------------
(* No wake-up is lost.                                                     *)

Coming == Cardinality(At("check")) + Cardinality(Calling("notify"))

\* Counting threads and callers.
LEMMA Counted ==
  /\ \A pc : IsFiniteSet(At(pc)) /\ Cardinality(At(pc)) \in Nat
  /\ \A pc : IsFiniteSet(Calling(pc)) /\ Cardinality(Calling(pc)) \in Nat
<1>1. ASSUME NEW pc PROVE IsFiniteSet(At(pc)) /\ Cardinality(At(pc)) \in Nat
  <2>1. At(pc) \in SUBSET Workers
    BY DEF At
  <2> QED
    BY <2>1, FS_Subset, FS_CardinalityType, SchedulerAssumption
<1>2. ASSUME NEW pc
      PROVE  IsFiniteSet(Calling(pc)) /\ Cardinality(Calling(pc)) \in Nat
  <2>1. Calling(pc) \in SUBSET Callers
    BY DEF Calling
  <2> QED
    BY <2>1, FS_Subset, FS_CardinalityType, SchedulerAssumption
<1> QED
  BY <1>1, <1>2

\* A thread that goes to the queue is one more on its way.
LEMMA OneMoreAtCheck ==
  ASSUME Types, NEW w \in Workers, worker[w] # "check",
         worker' = [worker EXCEPT ![w] = "check"]
  PROVE  Cardinality(At("check"))' = Cardinality(At("check")) + 1
<1>1. At("check")' = At("check") \union {w} /\ w \notin At("check")
  BY DEF At, Types
<1> QED
  BY <1>1, Counted, FS_AddElement

\* A thread that leaves it is one less.
LEMMA OneLessAtCheck ==
  ASSUME Types, NEW w \in Workers, worker[w] = "check",
         NEW pc \in {"asleep", "work", "returned"},
         worker' = [worker EXCEPT ![w] = pc]
  PROVE  Cardinality(At("check"))' = Cardinality(At("check")) - 1
<1>1. At("check")' = At("check") \ {w} /\ w \in At("check")
  BY DEF At, Types
<1> QED
  BY <1>1, Counted, FS_RemoveElement

\* A step takes no more from those on their way than from the queue.
LEMMA NextNoLostWakeUp == IInv /\ NoLostWakeUp /\ [Next]_vars => NoLostWakeUp'
<1> SUFFICES ASSUME IInv, NoLostWakeUp, [Next]_vars,
                    running', At("asleep")' # {}
             PROVE  Len(tasks)' <= Coming'
  BY DEF NoLostWakeUp, Coming
<1> USE DEF Coming
<1>a. Types
  BY DEF IInv
<1>b. running /\ Len(tasks) \in Nat
  <2>1. Len(tasks) \in Nat
    BY <1>a DEF Types
  <2>2. CASE running' = running
    BY <2>1, <2>2
  <2>3. CASE Stop
    BY <2>1, <2>3 DEF Stop
  <2>4. running' = running \/ Stop
    <3>1. CASE UNCHANGED vars
      BY <3>1 DEF vars
    <3>2. ASSUME NEW w \in Workers,
                 StartThread(w) \/ Return(w) \/ Sleep(w) \/ Take(w) \/ Work(w)
                 \/ WakeUp(w)
          PROVE  running' = running
      BY <3>2 DEF StartThread, Return, Sleep, Take, Work, WakeUp
    <3>3. ASSUME NEW c \in Callers,
                 Enqueue(c) \/ EnqueueThrows(c) \/ NotifyOne(c) \/ Get(c)
          PROVE  running' = running
      BY <3>3 DEF Enqueue, EnqueueThrows, NotifyOne, Get, vars
    <3>4. CASE Started \/ NotifyAll \/ Destroy \/ Gone
      BY <3>4 DEF Started, NotifyAll, Destroy, Gone, vars
    <3> QED
      BY <3>1, <3>2, <3>3, <3>4 DEF Next
  <2> QED
    BY <2>2, <2>3, <2>4
<1>c. At("asleep") # {} => Len(tasks) <= Coming
  BY <1>b DEF NoLostWakeUp
<1>1. ASSUME NEW w \in Workers, StartThread(w) PROVE Len(tasks)' <= Coming'
  <2>1. At("asleep")' = At("asleep") /\ tasks' = tasks /\ Calling("notify")' = Calling("notify")
    BY <1>1, <1>a DEF StartThread, At, Calling, callers, Types
  <2>2. Cardinality(At("check"))' = Cardinality(At("check")) + 1
    BY <1>1, <1>a, OneMoreAtCheck DEF StartThread
  <2> QED
    BY <2>1, <2>2, <1>b, <1>c, Counted
<1>2. ASSUME NEW w \in Workers, Work(w) PROVE Len(tasks)' <= Coming'
  <2>1. At("asleep")' = At("asleep") /\ tasks' = tasks /\ Calling("notify")' = Calling("notify")
    BY <1>2, <1>a DEF Work, At, Calling, callers, Types
  <2>2. Cardinality(At("check"))' = Cardinality(At("check")) + 1
    BY <1>2, <1>a, OneMoreAtCheck DEF Work
  <2> QED
    BY <2>1, <2>2, <1>b, <1>c, Counted
<1>3. ASSUME NEW w \in Workers, WakeUp(w) PROVE Len(tasks)' <= Coming'
  <2>1. w \in At("asleep") /\ tasks' = tasks /\ Calling("notify")' = Calling("notify")
    BY <1>3, <1>a DEF WakeUp, At, Calling, callers, Types
  <2>2. Cardinality(At("check"))' = Cardinality(At("check")) + 1
    BY <1>3, <1>a, OneMoreAtCheck DEF WakeUp
  <2> QED
    BY <2>1, <2>2, <1>b, <1>c, Counted
<1>4. ASSUME NEW w \in Workers, Take(w) PROVE Len(tasks)' <= Coming'
  <2>1. /\ At("asleep")' = At("asleep") /\ Calling("notify")' = Calling("notify")
        /\ Len(tasks)' = Len(tasks) - 1
    BY <1>4, <1>a DEF Take, At, Calling, callers, Types
  <2>2. Cardinality(At("check"))' = Cardinality(At("check")) - 1
    BY <1>4, <1>a, OneLessAtCheck DEF Take
  <2> QED
    BY <2>1, <2>2, <1>b, <1>c, Counted
<1>5. ASSUME NEW w \in Workers, Sleep(w) PROVE Len(tasks)' <= Coming'
  <2>1. tasks' = tasks /\ Len(tasks) = 0 /\ Calling("notify")' = Calling("notify")
    BY <1>5 DEF Sleep, Calling, callers
  <2>2. Cardinality(At("check"))' = Cardinality(At("check")) - 1 /\ w \in At("check")
    BY <1>5, <1>a, OneLessAtCheck DEF Sleep, At
  <2>3. At("check") # {}
    BY <2>2
  <2>4. Cardinality(At("check")) # 0
    BY <2>3, Counted, FS_EmptySet
  <2> QED
    BY <2>1, <2>2, <2>4, Counted
<1>6. ASSUME NEW c \in Callers, Enqueue(c) PROVE Len(tasks)' <= Coming'
  <2>1. /\ At("asleep")' = At("asleep") /\ At("check")' = At("check")
        /\ Len(tasks)' = Len(tasks) + 1
    BY <1>6, <1>a DEF Enqueue, At, workers, Types, Tasks
  <2>2. /\ Calling("notify")' = Calling("notify") \union {c}
        /\ c \notin Calling("notify")
    BY <1>6, <1>a DEF Enqueue, Calling, Types
  <2>3. Cardinality(Calling("notify"))' = Cardinality(Calling("notify")) + 1
    BY <2>2, Counted, FS_AddElement
  <2> QED
    BY <2>1, <2>3, <1>b, <1>c, Counted
<1>7. ASSUME NEW c \in Callers, NotifyOne(c) PROVE Len(tasks)' <= Coming'
  <2>1. /\ Calling("notify")' = Calling("notify") \ {c}
        /\ c \in Calling("notify") /\ tasks' = tasks
    BY <1>7, <1>a DEF NotifyOne, Calling, Types
  <2>2. Cardinality(Calling("notify"))' = Cardinality(Calling("notify")) - 1
    BY <2>1, Counted, FS_RemoveElement
  <2>3. PICK w \in Workers :
          worker[w] = "asleep" /\ worker' = [worker EXCEPT ![w] = "check"]
    BY <1>7, <1>a DEF NotifyOne, Woken, At, Types
  <2>4. Cardinality(At("check"))' = Cardinality(At("check")) + 1
        /\ At("asleep") # {}
    BY <1>a, <2>3, OneMoreAtCheck DEF At
  <2> QED
    BY <2>1, <2>2, <2>4, <1>b, <1>c, Counted
<1>8. ASSUME NEW c \in Callers, Get(c) PROVE Len(tasks)' <= Coming'
  <2>1. /\ At("asleep")' = At("asleep") /\ At("check")' = At("check")
        /\ tasks' = tasks /\ Calling("notify")' = Calling("notify")
    BY <1>8, <1>a DEF Get, At, Calling, workers, Types
  <2> QED
    BY <2>1, <1>c
<1>9. CASE Started \/ UNCHANGED vars
  <2>1. /\ At("asleep")' = At("asleep") /\ At("check")' = At("check")
        /\ tasks' = tasks /\ Calling("notify")' = Calling("notify")
    BY <1>9 DEF Started, vars, At, Calling, workers, callers
  <2> QED
    BY <2>1, <1>c
<1> QED
  BY <1>1, <1>2, <1>3, <1>4, <1>5, <1>6, <1>7, <1>8, <1>9, <1>a, <1>b
  DEF Next, Return, EnqueueThrows, Stop, NotifyAll, Destroy, Gone, IInv, Phases

\* Each task in the queue has a thread or a notification coming for it.
THEOREM SchedulerNoLostWakeUp == Spec => []NoLostWakeUp
<1>1. Init => NoLostWakeUp
  BY DEF Init, NoLostWakeUp, At
<1> QED
  BY <1>1, NextNoLostWakeUp, Invariance, PTL DEF Spec

-----------------------------------------------------------------------------
(* The scheduler implements TaskPool.                                      *)

PoolTask == [t \in Tasks |-> TaskState(t)]

\* The tasks in the queue are the last ones accepted.
LEMMA NeverRanIs ==
  ASSUME IInv, NEW t \in Tasks
  PROVE  NeverRan(t) <=> accepted - Waiting < t /\ t <= accepted
<1>1. Waiting \in Nat /\ accepted \in Nat /\ t \in Nat
  BY SchedulerAssumption DEF IInv, Types, Waiting, Tasks
<1>2. \A i \in 1..Waiting : tasks[i] = accepted - Waiting + i
  BY DEF IInv, Queued
<1>3. ASSUME accepted - Waiting < t, t <= accepted PROVE NeverRan(t)
  <2>1. t - (accepted - Waiting) \in 1..Waiting
    BY <1>1, <1>3
  <2>2. tasks[t - (accepted - Waiting)] = t
    BY <1>1, <1>2, <2>1
  <2> QED
    BY <2>1, <2>2 DEF NeverRan, Waiting
<1>4. ASSUME NeverRan(t) PROVE accepted - Waiting < t /\ t <= accepted
  <2>1. PICK i \in 1..Waiting : tasks[i] = t
    BY <1>4 DEF NeverRan, Waiting
  <2> QED
    BY <1>1, <1>2, <2>1
<1> QED
  BY <1>3, <1>4

QueueIsSuffix ==
  \A t \in Tasks : NeverRan(t) <=> accepted - Waiting < t /\ t <= accepted

\* ... before a step and after it.
LEMMA SuffixBefore == IInv => QueueIsSuffix
  BY NeverRanIs DEF QueueIsSuffix

\* ... before a step and after it.
LEMMA SuffixAfter == IInv' => QueueIsSuffix'
  BY SuffixBefore, PTL

\* What the state of a task says of it.
LEMMA TaskIs ==
  ASSUME IInv, NEW t \in Tasks
  PROVE  /\ TaskState(t) = "begun" <=> Begun(t)
         /\ TaskState(t) = "queued" <=> NeverRan(t)
         /\ TaskState(t) = "none" <=> t > accepted
         /\ Begun(t) => ~NeverRan(t) /\ future[t] = "pending"
<1>1. Waiting \in Nat /\ accepted \in Nat /\ t \in Nat
  BY SchedulerAssumption DEF IInv, Types, Waiting, Tasks
<1>2. Begun(t) => t <= accepted - Waiting /\ future[t] = "pending"
  BY DEF Begun, IInv, Taken
<1>3. NeverRan(t) <=> accepted - Waiting < t /\ t <= accepted
  BY NeverRanIs
<1>4. future[t] = "none" <=> t > accepted
  BY DEF IInv, Queued
<1>5. future[t] \in {"none", "pending", "value", "broken"}
  BY DEF IInv, Types
<1>6. Begun(t) => ~NeverRan(t) /\ future[t] = "pending"
  BY <1>1, <1>2, <1>3
<1>7. Begun(t) \/ NeverRan(t) => t <= accepted
  BY <1>1, <1>2, <1>3
<1>8. TaskState(t) = "none" <=> t > accepted
  <2>1. CASE Begun(t) \/ NeverRan(t)
    BY <1>1, <1>7, <2>1 DEF TaskState
  <2>2. CASE ~(Begun(t) \/ NeverRan(t))
    BY <1>4, <2>2 DEF TaskState
  <2> QED
    BY <2>1, <2>2
<1> QED
  BY <1>5, <1>6, <1>8 DEF TaskState

\* A step that moves no task moves none in the pool.
LEMMA SameTasks ==
  ASSUME UNCHANGED <<tasks, future>>, UNCHANGED running,
         \A t \in Tasks : Begun(t)' <=> Begun(t)
  PROVE  UNCHANGED <<running, PoolTask>>
<1>1. ASSUME NEW t \in Tasks PROVE TaskState(t)' = TaskState(t)
  <2>1. NeverRan(t)' <=> NeverRan(t)
    BY DEF NeverRan
  <2> QED
    BY <2>1 DEF TaskState
<1> QED
  BY <1>1 DEF PoolTask

\* Fewer than all the tasks a pool can have under way are, while a thread is
\* at the queue.
LEMMA RoomForOne ==
  ASSUME IInv, NEW w \in Workers, worker[w] = "check"
  PROVE  Cardinality({t \in Tasks : Begun(t)}) < Cardinality(Workers)
<1> DEFINE Busy == At("work")
           Jobs == {t \in Tasks : Begun(t)}
           taken == [v \in Busy |-> job[v]]
<1>1. /\ IsFiniteSet(Workers) /\ Cardinality(Workers) \in Nat
      /\ IsFiniteSet(Busy) /\ Cardinality(Busy) \in Nat
  BY Counted, SchedulerAssumption, FS_CardinalityType
<1>2. Busy \in SUBSET Workers /\ Busy # Workers
  BY DEF At
<1>3. Cardinality(Busy) < Cardinality(Workers)
  BY <1>1, <1>2, FS_Subset
<1>4. taken \in Surjection(Busy, Jobs)
  <2>1. ASSUME NEW v \in Busy PROVE job[v] \in Jobs
    BY <2>1 DEF At, Begun, IInv, Types, Holding, NoTask
  <2>2. ASSUME NEW t \in Jobs PROVE \E v \in Busy : taken[v] = t
    BY <2>2 DEF Begun, At
  <2> QED
    BY <2>1, <2>2 DEF Surjection
<1>5. IsFiniteSet(Jobs) /\ Cardinality(Jobs) <= Cardinality(Busy)
  BY <1>1, <1>4, FS_Surjection
<1>6. Cardinality(Jobs) \in Nat
  BY <1>5, FS_CardinalityType
<1> QED
  BY <1>1, <1>3, <1>5, <1>6

\* Enqueue accepts the next task.
LEMMA EnqueueAccepts ==
  ASSUME IInv, IInv', NEW c \in Callers, Enqueue(c)
  PROVE  Pool!Accept(accepted + 1)
<1> DEFINE n == accepted + 1
<1>1. /\ running /\ running' = running /\ accepted \in Nat /\ n \in Tasks
      /\ accepted' = n /\ Waiting \in Nat /\ Waiting' = Waiting + 1
      /\ future' = [future EXCEPT ![n] = "pending"]
      /\ worker' = worker /\ job' = job
  BY SchedulerAssumption DEF Enqueue, workers, IInv, Types, Tasks, Waiting
<1>2. PoolTask[n] = "none"
  BY <1>1, TaskIs DEF PoolTask
<1>3. \A u \in Tasks : PoolTask[u] = "none" => n <= u
  BY <1>1, TaskIs DEF PoolTask, Tasks
<1>4. ASSUME NEW t \in Tasks PROVE Begun(t)' <=> Begun(t)
  BY <1>1 DEF Begun
<1>5. ASSUME NEW t \in Tasks PROVE NeverRan(t)' <=> NeverRan(t) \/ t = n
  <2>1. NeverRan(t) <=> accepted - Waiting < t /\ t <= accepted
    BY NeverRanIs
  <2>2. NeverRan(t)' <=> accepted' - Waiting' < t /\ t <= accepted'
    BY SuffixAfter DEF QueueIsSuffix
  <2> QED
    BY <1>1, <2>1, <2>2 DEF Tasks
<1>6. ~Begun(n)
  BY <1>1, <1>2, TaskIs DEF PoolTask
<1>7. ASSUME NEW t \in Tasks
      PROVE  TaskState(t)' = IF t = n THEN "queued" ELSE TaskState(t)
  <2>1. CASE t = n
    BY <1>4, <1>5, <1>6, <2>1 DEF TaskState
  <2>2. CASE t # n
    BY <1>1, <1>4, <1>5, <2>2 DEF TaskState, IInv, Types
  <2> QED
    BY <2>1, <2>2
<1>8. PoolTask' = [PoolTask EXCEPT ![n] = "queued"]
  BY <1>7 DEF PoolTask
<1> QED
  BY <1>1, <1>2, <1>3, <1>8 DEF Pool!Accept, Pool!In, Pool!Tasks, PoolTask, Tasks

\* A thread begins the task it takes out of the queue.
LEMMA TakeBegins ==
  ASSUME IInv, IInv', NEW w \in Workers, Take(w)
  PROVE  Head(tasks) \in Tasks /\ Pool!Begin(Head(tasks))
<1> DEFINE h == Head(tasks)
<1>1. owner # "destroyed" /\ tasks # <<>> /\ worker[w] = "check"
  BY DEF Take, IInv, Phases
<1>2. /\ Waiting \in Nat /\ Waiting >= 1 /\ h = accepted - Waiting + 1
      /\ h \in Tasks /\ Waiting' = Waiting - 1
  BY <1>1, HeadOfQueue DEF IInv, Take, Waiting
<1>3. /\ running' = running /\ future' = future
      /\ accepted' = accepted /\ accepted \in Nat
      /\ worker' = [worker EXCEPT ![w] = "work"] /\ job' = [job EXCEPT ![w] = h]
  BY SchedulerAssumption DEF Take, IInv, Types
<1>4. NeverRan(h)
  BY <1>2, <1>3, NeverRanIs
<1>5. PoolTask[h] = "queued"
  BY <1>2, <1>4, TaskIs DEF PoolTask
<1>6. \A u \in Tasks : PoolTask[u] = "queued" => h <= u
  BY <1>2, <1>3, TaskIs, NeverRanIs DEF PoolTask, Tasks
<1>7. Pool!In("begun") = {t \in Tasks : Begun(t)}
  BY TaskIs DEF Pool!In, Pool!Tasks, Tasks
<1>8. Pool!Cardinality(Pool!In("begun")) < Cardinality(Workers)
  <2>1. Pool!Cardinality(Pool!In("begun")) = Cardinality(Pool!In("begun"))
    BY DEF Cardinality, Pool!Cardinality
  <2> QED
    BY <1>1, <1>7, <2>1, RoomForOne
<1>9. ASSUME NEW t \in Tasks PROVE Begun(t)' <=> Begun(t) \/ t = h
  BY <1>1, <1>3 DEF Begun, IInv, Types
<1>10. ASSUME NEW t \in Tasks, t # h PROVE NeverRan(t)' <=> NeverRan(t)
  <2>1. NeverRan(t) <=> accepted - Waiting < t /\ t <= accepted
    BY NeverRanIs
  <2>2. NeverRan(t)' <=> accepted' - Waiting' < t /\ t <= accepted'
    BY SuffixAfter DEF QueueIsSuffix
  <2> QED
    BY <1>2, <1>3, <1>10, <2>1, <2>2 DEF Tasks
<1>11. ASSUME NEW t \in Tasks
       PROVE  TaskState(t)' = IF t = h THEN "begun" ELSE TaskState(t)
  BY <1>3, <1>9, <1>10 DEF TaskState
<1>12. PoolTask' = [PoolTask EXCEPT ![h] = "begun"]
  BY <1>11 DEF PoolTask
<1>13. \A u \in Pool!In("queued") : h <= u
  BY <1>6 DEF Pool!In, Pool!Tasks, PoolTask, Tasks
<1> HIDE DEF h
<1>14. Pool!Begin(h)
  BY <1>3, <1>5, <1>8, <1>12, <1>13 DEF Pool!Begin, PoolTask
<1> QED
  BY <1>2, <1>14 DEF h

\* A thread that ends its task finishes it.
LEMMA WorkFinishes ==
  ASSUME IInv, NEW w \in Workers, Work(w)
  PROVE  job[w] \in Tasks /\ Pool!Finish(job[w])
<1> DEFINE j == job[w]
<1>1. j \in Tasks /\ worker[w] = "work"
  BY DEF Work, IInv, Types, Holding, NoTask
<1>2. /\ running' = running /\ tasks' = tasks
      /\ future' = [future EXCEPT ![j] = "value"]
      /\ worker' = [worker EXCEPT ![w] = "check"]
      /\ job' = [job EXCEPT ![w] = NoTask]
  BY DEF Work, WorkAfter
<1>3. Begun(j) /\ ~NeverRan(j) /\ PoolTask[j] = "begun"
  BY <1>1, TaskIs DEF Begun, PoolTask
<1>4. ASSUME NEW t \in Tasks PROVE NeverRan(t)' <=> NeverRan(t)
  BY <1>2 DEF NeverRan
<1>5. ASSUME NEW t \in Tasks PROVE Begun(t)' <=> Begun(t) /\ t # j
  BY <1>1, <1>2 DEF Begun, IInv, Types, Taken
<1>6. ASSUME NEW t \in Tasks
      PROVE  TaskState(t)' = IF t = j THEN "finished" ELSE TaskState(t)
  <2>1. CASE t = j
    BY <1>1, <1>2, <1>3, <1>4, <1>5, <2>1 DEF TaskState, IInv, Types
  <2>2. CASE t # j
    BY <1>1, <1>2, <1>4, <1>5, <2>2 DEF TaskState, IInv, Types
  <2> QED
    BY <2>1, <2>2
<1>7. PoolTask' = [PoolTask EXCEPT ![j] = "finished"]
  BY <1>6 DEF PoolTask
<1> QED
  BY <1>1, <1>2, <1>3, <1>7 DEF Pool!Finish, PoolTask

\* The destructor abandons the tasks that never began.
LEMMA DestroyAbandons == ASSUME IInv, Destroy PROVE Pool!Abandon
<1>1. /\ ~running /\ running' = running /\ tasks' = <<>>
      /\ worker' = worker /\ job' = job
      /\ \A v \in Workers : worker[v] = "returned"
      /\ future' = [t \in Tasks |-> IF NeverRan(t) THEN "broken" ELSE future[t]]
  BY DEF Destroy, Joined, workers, IInv, Phases
<1>2. ASSUME NEW t \in Tasks PROVE ~Begun(t) /\ ~Begun(t)' /\ ~NeverRan(t)'
  BY <1>1 DEF Begun, NeverRan
<1>3. ASSUME NEW t \in Tasks
      PROVE  TaskState(t)' =
               IF TaskState(t) = "queued" THEN "broken" ELSE TaskState(t)
  <2>1. CASE NeverRan(t)
    BY <1>1, <1>2, <2>1 DEF TaskState
  <2>2. CASE ~NeverRan(t)
    <3>1. TaskState(t) # "queued" /\ future'[t] = future[t]
      BY <1>1, <2>2, TaskIs
    <3> QED
      BY <1>2, <2>2, <3>1 DEF TaskState
  <2> QED
    BY <2>1, <2>2
<1>4. {t \in Tasks : PoolTask[t] = "begun"} = {}
  BY <1>2, TaskIs DEF PoolTask
<1>5. PoolTask' =
        [t \in Tasks |-> IF PoolTask[t] = "queued" THEN "broken" ELSE PoolTask[t]]
  BY <1>3 DEF PoolTask
<1> QED
  BY <1>1, <1>4, <1>5 DEF Pool!Abandon, Pool!In, Pool!Tasks, PoolTask, Tasks

\* Every step is one of the pool's, or none.
LEMMA NextIsPool == IInv /\ IInv' /\ [Next]_vars => [Pool!Next]_(Pool!vars)
<1> SUFFICES ASSUME IInv, IInv', [Next]_vars PROVE [Pool!Next]_(Pool!vars)
  OBVIOUS
<1>1. ASSUME NEW w \in Workers,
             StartThread(w) \/ Return(w) \/ Sleep(w) \/ WakeUp(w)
      PROVE  UNCHANGED <<running, PoolTask>>
  BY <1>1, SameTasks
  DEF StartThread, Return, Sleep, WakeUp, Begun, IInv, Types
<1>2. ASSUME NEW c \in Callers, NotifyOne(c)
      PROVE  UNCHANGED <<running, PoolTask>>
  BY <1>2, SameTasks DEF NotifyOne, Woken, Begun, IInv, Types
<1>3. ASSUME NEW c \in Callers, Get(c) PROVE UNCHANGED <<running, PoolTask>>
  BY <1>3, SameTasks DEF Get, workers, Begun
<1>4. ASSUME Started \/ UNCHANGED vars PROVE UNCHANGED <<running, PoolTask>>
  BY <1>4, SameTasks DEF Started, vars, workers, Begun
<1>5. ASSUME NotifyAll PROVE UNCHANGED <<running, PoolTask>>
  BY <1>5, SameTasks DEF NotifyAll, WokenByStop, Begun, IInv, Types
<1>6. CASE Stop
  <2>1. ASSUME NEW t \in Tasks PROVE TaskState(t)' = TaskState(t)
    BY <1>6 DEF Stop, workers, TaskState, Begun, NeverRan
  <2> QED
    BY <1>6, <2>1 DEF Stop, Pool!Next, Pool!Close, PoolTask
<1>7. ASSUME NEW c \in Callers, Enqueue(c) PROVE Pool!Next
  <2>1. accepted + 1 \in Pool!Tasks
    BY <1>7, SchedulerAssumption DEF Enqueue, IInv, Types, Pool!Tasks
  <2> QED
    BY <1>7, <2>1, EnqueueAccepts DEF Pool!Next
<1>8. ASSUME NEW w \in Workers, Take(w) PROVE Pool!Next
  BY <1>8, TakeBegins DEF Pool!Next, Pool!Tasks, Tasks
<1>9. ASSUME NEW w \in Workers, Work(w) PROVE Pool!Next
  BY <1>9, WorkFinishes DEF Pool!Next, Pool!Tasks, Tasks
<1>10. CASE Destroy
  BY <1>10, DestroyAbandons DEF Pool!Next
<1>11. Pool!vars = <<running, PoolTask>> /\ Pool!vars' = <<running', PoolTask'>>
  BY DEF Pool!vars, PoolTask
<1> QED
  BY <1>1, <1>2, <1>3, <1>4, <1>5, <1>6, <1>7, <1>8, <1>9, <1>10, <1>11
  DEF Next, EnqueueThrows, Gone

\* The scheduler is the pool of TaskPool.
THEOREM SchedulerIsPool == Spec => PoolSafety
<1>1. Init => Pool!Init
  <2> SUFFICES ASSUME Init PROVE Pool!Init
    OBVIOUS
  <2>1. ASSUME NEW t \in Tasks PROVE TaskState(t) = "none"
    BY DEF Init, TaskState, Begun, NeverRan
  <2> QED
    BY <2>1 DEF Init, Pool!Init, Pool!Tasks, Tasks
<1>2. IInv /\ IInv' /\ [Next]_vars => [Pool!Next]_(Pool!vars)
  BY NextIsPool
<1> QED
  BY <1>1, <1>2, Invariance, PTL DEF Spec, PoolSafety, Pool!Spec
=============================================================================
