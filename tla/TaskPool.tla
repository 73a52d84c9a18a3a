------------------------------ MODULE TaskPool ------------------------------
(***************************************************************************)
(* What a pool of threads promises to those who hand it tasks: tasks begin *)
(* in the order in which they were accepted, each at most once and no more *)
(* than there are threads at a time; when the pool is closed nothing new   *)
(* is accepted, and what has not begun may be abandoned once what had      *)
(* begun is over.                                                          *)
(***************************************************************************)
EXTENDS Integers, FiniteSets

CONSTANTS
  MaxTasks,  \* bound: tasks in a behaviour
  Threads    \* how many tasks may be under way at a time

VARIABLES
  open,   \* the pool accepts tasks
  task    \* what has become of each task, by the order of acceptance

vars == <<open, task>>

Tasks == 1..MaxTasks
In(state) == {t \in Tasks : task[t] = state}

Init == open = TRUE /\ task = [t \in Tasks |-> "none"]

\* Tasks are accepted in the order of their numbers.
Accept(t) ==
  /\ open
  /\ task[t] = "none"
  /\ \A u \in In("none") : t <= u
  /\ task' = [task EXCEPT ![t] = "queued"]
  /\ UNCHANGED open

\* ... and begin in that order.
Begin(t) ==
  /\ task[t] = "queued"
  /\ \A u \in In("queued") : t <= u
  /\ Cardinality(In("begun")) < Threads
  /\ task' = [task EXCEPT ![t] = "begun"]
  /\ UNCHANGED open

Finish(t) ==
  /\ task[t] = "begun"
  /\ task' = [task EXCEPT ![t] = "finished"]
  /\ UNCHANGED open

Close == open' = FALSE /\ UNCHANGED task

Abandon ==
  /\ ~open
  /\ In("begun") = {}
  /\ task' = [t \in Tasks |-> IF task[t] = "queued" THEN "broken" ELSE task[t]]
  /\ UNCHANGED open

Next == (\E t \in Tasks : Accept(t) \/ Begin(t) \/ Finish(t)) \/ Close \/ Abandon
Spec == Init /\ [][Next]_vars
=============================================================================
