------------------------------ MODULE TaskTimer ------------------------------
(***************************************************************************)
(* detail::task_timer (crow/task_timer.h): the timer wheel of one worker.  *)
(* A task is identified by a number that its owner keeps and hands back to *)
(* cancel it.  Time is counted in ticks: `left' is how many more calls of   *)
(* process_tasks find the time of the task still ahead.                    *)
(***************************************************************************)
EXTENDS Integers, FiniteSets, Functions

CONSTANT Timeout          \* the default timeout, in ticks (set_default_timeout)

ASSUME TimeoutAssumption == Timeout \in Nat

VARIABLES tasks,          \* tasks_: identifier -> [owner, left]
          highest_id      \* highest_id_: the last identifier given out

timerVars == <<tasks, highest_id>>

EmptyTimer == tasks = <<>> /\ highest_id = 0

Without(id) == Restrict(tasks, DOMAIN tasks \ {id})

\* cancel: erase whatever task carries this identifier, if any does.
CancelNothing(id) == UNCHANGED timerVars
CancelTask(id) == tasks' = Without(id) /\ UNCHANGED highest_id

\* start_deadline: cancel the identifier held so far, schedule a new task.
Scheduled(kept, id, owner) ==
  [i \in DOMAIN kept \cup {id} |->
     IF i = id THEN [owner |-> owner, left |-> Timeout] ELSE kept[i]]
ScheduleAnother(id, owner) ==
  highest_id' = highest_id + 1 /\ tasks' = Scheduled(tasks, highest_id', owner)
Reschedule(id, owner) ==
  highest_id' = highest_id + 1 /\ tasks' = Scheduled(Without(id), highest_id', owner)

\* process_tasks: the tasks whose time has passed, and the reset of the
\* identifiers once no task is left.
Expired == {i \in DOMAIN tasks : tasks[i].left = 0}

ProcessTasks ==
  /\ tasks' = [i \in DOMAIN tasks \ Expired |-> [tasks[i] EXCEPT !.left = @ - 1]]
  /\ highest_id' = IF DOMAIN tasks = Expired THEN 0 ELSE highest_id
=============================================================================
