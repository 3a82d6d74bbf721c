-------------------------- MODULE RuntimeSupervisor --------------------------
(***************************************************************************)
(* The runtime supervisor of src/runtime/runtime_supervisor.cpp with the   *)
(* JobRuntime (src/jobs/job_runtime.cpp) it owns.  Any thread may submit,  *)
(* wait for a task, report a failure, request the stop and drain; the      *)
(* Taskflow executor runs the accepted tasks, each of which succeeds or    *)
(* throws.                                                                 *)
(*                                                                         *)
(* A step is one critical section of m_submission_mutex (the JobRuntime's  *)
(* own mutex is only taken inside it or for a single assignment), or one   *)
(* blocking wait.  m_drain_mutex is held across a whole Drain.             *)
(***************************************************************************)
EXTENDS Naturals, Sequences, SequencesExt, FiniteSets

CONSTANTS
  Threads,      \* the threads that use the supervisor
  MaxTasks,     \* bound of the model on the tasks submitted
  MaxPending,   \* MAX_PENDING_RUNTIME_TASKS
  NoThread      \* nobody holds m_drain_mutex

ASSUME SupervisorAssumption ==
  /\ IsFiniteSet(Threads) /\ NoThread \notin Threads
  /\ MaxTasks \in Nat \ {0} /\ MaxPending \in Nat \ {0}

TaskIds   == 1 .. MaxTasks
NoTask    == 0
NoFailure == "none"
Sources   == {"Job", "Owner", "FrameChannel"}

VARIABLES
  m_state, m_failure, m_pending_tasks, m_next_task_id, m_active_consumers,
  stop_token,      \* m_stop_source
  drain_holder,    \* owner of m_drain_mutex
  idle_sleepers,   \* threads asleep on m_consumers_idle
  jobs_state,      \* JobRuntime::m_state
  task,            \* what the executor knows of each task
  consumed,        \* how often the result of each task has been taken
  pc, return_to,   \* where each thread is, and where RequestStop returns to
  held,            \* the task a Wait has moved out of the registry
  drained          \* the tasks a Drain has swapped out of the registry

supervisorVars == <<m_state, m_failure, m_pending_tasks, m_next_task_id,
                    m_active_consumers, stop_token, drain_holder>>
executorVars   == <<jobs_state, task, consumed>>
threadVars     == <<pc, return_to, held, drained>>
vars == <<supervisorVars, idle_sleepers, executorVars, threadVars>>

Goto(t, label) == pc' = [pc EXCEPT ![t] = label]

Stoppable == {"Starting", "Running"}

-----------------------------------------------------------------------------
(* Start, Submit and SubmitReusable.  Calls that throw change nothing.     *)

Start(t) ==
  /\ pc[t] = "idle"
  /\ m_state = "Starting" /\ m_failure = NoFailure
  /\ m_state' = "Running"
  /\ UNCHANGED <<m_failure, m_pending_tasks, m_next_task_id,
                 m_active_consumers, stop_token, drain_holder, idle_sleepers,
                 executorVars, threadVars>>

(* JobRuntime::Submit hands the task to the executor; the handle is        *)
(* registered before the mutex is released.                                *)
Submit(t) ==
  /\ pc[t] = "idle"
  /\ m_state = "Running" /\ jobs_state = "Running"
  /\ Len(m_pending_tasks) < MaxPending
  /\ m_next_task_id \in TaskIds
  /\ task' = [task EXCEPT ![m_next_task_id] = "running"]
  /\ m_pending_tasks' = Append(m_pending_tasks, m_next_task_id)
  /\ m_next_task_id' = m_next_task_id + 1
  /\ UNCHANGED <<m_state, m_failure, m_active_consumers, stop_token,
                 drain_holder, idle_sleepers, jobs_state, consumed, threadVars>>

(* The executor finishes a task, with or without an exception.             *)
TaskEnds(id) ==
  /\ task[id] = "running"
  /\ \E result \in {"succeeded", "failed"} : task' = [task EXCEPT ![id] = result]
  /\ UNCHANGED <<supervisorVars, idle_sleepers, jobs_state, consumed,
                 threadVars>>

(* TaskHandle::Wait: the future is consumed.                               *)
TakeResult(id) ==
  /\ task[id] # "running"
  /\ consumed' = [consumed EXCEPT ![id] = @ + 1]
  /\ UNCHANGED <<jobs_state, task>>

-----------------------------------------------------------------------------
(* RecordFailure, RequestStop.                                             *)

KeepFirst(source) == IF m_failure = NoFailure THEN source ELSE m_failure

StopState == IF m_state \in Stoppable THEN "StopRequested" ELSE m_state

(* RecordFailure; after shutdown it throws instead.                        *)
RecordFailure(source) ==
  /\ m_state # "Stopped"
  /\ m_failure' = KeepFirst(source)
  /\ m_state' = StopState

(* RecordFailure and then RequestStop, on behalf of Wait or Drain.         *)
RecordJobFailure(t) ==
  /\ pc[t] = "recordFailure"
  /\ IF m_state = "Stopped"
     THEN Goto(t, return_to[t]) /\ UNCHANGED <<m_failure, m_state>>
     ELSE RecordFailure("Job") /\ Goto(t, "requestStop")
  /\ UNCHANGED <<m_pending_tasks, m_next_task_id, m_active_consumers,
                 stop_token, drain_holder, idle_sleepers, executorVars,
                 return_to, held, drained>>

ReportFailure(t, source) ==
  /\ pc[t] = "idle"
  /\ RecordFailure(source)
  /\ Goto(t, "requestStop") /\ return_to' = [return_to EXCEPT ![t] = "idle"]
  /\ UNCHANGED <<m_pending_tasks, m_next_task_id, m_active_consumers,
                 stop_token, drain_holder, idle_sleepers, executorVars, held,
                 drained>>

(* request_stop comes before the mutex is taken.                           *)
SignalStop(t) ==
  /\ \/ pc[t] = "idle" /\ return_to' = [return_to EXCEPT ![t] = "idle"]
     \/ pc[t] = "requestStop" /\ UNCHANGED return_to
  /\ stop_token' = TRUE
  /\ Goto(t, "stopJobs")
  /\ UNCHANGED <<m_state, m_failure, m_pending_tasks, m_next_task_id,
                 m_active_consumers, drain_holder, idle_sleepers,
                 executorVars, held, drained>>

(* JobRuntime::RequestStop.                                                *)
StopJobs_Mutant == UNCHANGED jobs_state
StopJobs ==
  jobs_state' = IF jobs_state = "Running" THEN "StopRequested" ELSE jobs_state

RequestStop(t) ==
  /\ pc[t] = "stopJobs"
  /\ m_state' = StopState
  /\ IF m_state = "Stopped" THEN UNCHANGED jobs_state ELSE StopJobs
  /\ Goto(t, return_to[t])
  /\ UNCHANGED <<m_failure, m_pending_tasks, m_next_task_id,
                 m_active_consumers, stop_token, drain_holder, idle_sleepers,
                 task, consumed, return_to, held, drained>>

-----------------------------------------------------------------------------
(* Wait: the task is moved out under the mutex, waited for without it, and *)
(* a failure is recorded before the consumer is released.                  *)

Erase_Mutant(i) == m_pending_tasks
Erase(i) == RemoveAt(m_pending_tasks, i)

CountConsumer == m_active_consumers + 1

WaitTakes(t) ==
  /\ pc[t] = "idle"
  /\ \E i \in DOMAIN m_pending_tasks :
       /\ held' = [held EXCEPT ![t] = m_pending_tasks[i]]
       /\ m_pending_tasks' = Erase(i)
  /\ m_active_consumers' = CountConsumer
  /\ Goto(t, "wait") /\ return_to' = [return_to EXCEPT ![t] = "release"]
  /\ UNCHANGED <<m_state, m_failure, m_next_task_id, stop_token, drain_holder,
                 idle_sleepers, executorVars, drained>>

WaitReturns(t) ==
  /\ pc[t] = "wait"
  /\ TakeResult(held[t])
  /\ held' = [held EXCEPT ![t] = NoTask]
  /\ Goto(t, IF task[held[t]] = "failed" THEN "recordFailure" ELSE "release")
  /\ UNCHANGED <<supervisorVars, idle_sleepers, return_to, drained>>

NotifyIdle_Mutant == UNCHANGED idle_sleepers
NotifyIdle ==
  idle_sleepers' = IF m_active_consumers = 1 THEN {} ELSE idle_sleepers

ReleaseConsumer(t) ==
  /\ pc[t] = "release"
  /\ m_active_consumers' = m_active_consumers - 1
  /\ NotifyIdle
  /\ Goto(t, "idle")
  /\ UNCHANGED <<m_state, m_failure, m_pending_tasks, m_next_task_id,
                 stop_token, drain_holder, executorVars, return_to, held,
                 drained>>

-----------------------------------------------------------------------------
(* Drain, also run by the destructor.                                      *)

DrainLocks(t) ==
  /\ pc[t] = "idle" /\ drain_holder = NoThread
  /\ drain_holder' = t
  /\ stop_token' = TRUE
  /\ Goto(t, "drain") /\ return_to' = [return_to EXCEPT ![t] = "consume"]
  /\ UNCHANGED <<m_state, m_failure, m_pending_tasks, m_next_task_id,
                 m_active_consumers, idle_sleepers, executorVars, held, drained>>

(* A supervisor that is Stopped returns at once, one that Failed does not. *)
DrainSwaps(t) ==
  /\ pc[t] = "drain"
  /\ IF m_state = "Stopped"
     THEN /\ drain_holder' = NoThread /\ Goto(t, "idle")
          /\ UNCHANGED <<m_state, jobs_state, m_pending_tasks, drained>>
     ELSE /\ m_state' = IF m_state \in Stoppable \cup {"StopRequested"}
                        THEN "Draining" ELSE m_state
          /\ StopJobs
          /\ drained' = [drained EXCEPT ![t] = m_pending_tasks]
          /\ m_pending_tasks' = <<>>
          /\ Goto(t, "consume") /\ UNCHANGED drain_holder
  /\ UNCHANGED <<m_failure, m_next_task_id, m_active_consumers, stop_token,
                 idle_sleepers, task, consumed, return_to, held>>

(* ConsumePendingTasks waits for the tasks in order and records failures.  *)
DrainConsumes(t) ==
  /\ pc[t] = "consume" /\ drained[t] # <<>>
  /\ TakeResult(Head(drained[t]))
  /\ drained' = [drained EXCEPT ![t] = Tail(@)]
  /\ Goto(t, IF task[Head(drained[t])] = "failed"
             THEN "recordFailure" ELSE "consume")
  /\ UNCHANGED <<supervisorVars, idle_sleepers, return_to, held>>

(* It ends by clearing the registry, without the mutex; then JobRuntime    *)
(* starts draining.                                                        *)
DrainClears(t) ==
  /\ pc[t] = "consume" /\ drained[t] = <<>>
  /\ m_pending_tasks' = <<>>
  /\ jobs_state' = IF jobs_state = "Stopped" THEN "Stopped" ELSE "Draining"
  /\ Goto(t, "waitForAll")
  /\ UNCHANGED <<m_state, m_failure, m_next_task_id, m_active_consumers,
                 stop_token, drain_holder, idle_sleepers, task, consumed,
                 return_to, held, drained>>

(* m_executor.wait_for_all; a stopped JobRuntime has returned already.     *)
JobsDrained(t) ==
  /\ pc[t] = "waitForAll"
  /\ jobs_state = "Stopped" \/ \A id \in TaskIds : task[id] # "running"
  /\ jobs_state' = "Stopped"
  /\ Goto(t, "waitIdle")
  /\ UNCHANGED <<supervisorVars, idle_sleepers, task, consumed, return_to,
                 held, drained>>

DrainSleeps(t) ==
  /\ pc[t] = "waitIdle" /\ t \notin idle_sleepers
  /\ m_active_consumers # 0
  /\ idle_sleepers' = idle_sleepers \cup {t}
  /\ UNCHANGED <<supervisorVars, executorVars, threadVars>>

WaitersGone_Mutant == TRUE
WaitersGone == m_active_consumers = 0

DrainEnds(t) ==
  /\ pc[t] = "waitIdle" /\ t \notin idle_sleepers
  /\ WaitersGone
  /\ m_state' = IF m_failure # NoFailure THEN "Failed" ELSE "Stopped"
  /\ drain_holder' = NoThread
  /\ Goto(t, "idle")
  /\ UNCHANGED <<m_failure, m_pending_tasks, m_next_task_id,
                 m_active_consumers, stop_token, idle_sleepers, executorVars,
                 return_to, held, drained>>

SpuriousWakeUp(t) ==
  /\ t \in idle_sleepers
  /\ idle_sleepers' = idle_sleepers \ {t}
  /\ UNCHANGED <<supervisorVars, executorVars, threadVars>>

-----------------------------------------------------------------------------

Init ==
  /\ m_state = "Starting" /\ m_failure = NoFailure
  /\ m_pending_tasks = <<>> /\ m_next_task_id = 1
  /\ m_active_consumers = 0
  /\ stop_token = FALSE /\ drain_holder = NoThread /\ idle_sleepers = {}
  /\ jobs_state = "Running"
  /\ task = [id \in TaskIds |-> "none"]
  /\ consumed = [id \in TaskIds |-> 0]
  /\ pc = [t \in Threads |-> "idle"]
  /\ return_to = [t \in Threads |-> "idle"]
  /\ held = [t \in Threads |-> NoTask]
  /\ drained = [t \in Threads |-> <<>>]

(* The steps by which a call that has begun goes on.                       *)
Continues(t) ==
  \/ RecordJobFailure(t)
  \/ pc[t] = "requestStop" /\ SignalStop(t)
  \/ RequestStop(t)
  \/ WaitReturns(t) \/ ReleaseConsumer(t)
  \/ DrainSwaps(t) \/ DrainConsumes(t) \/ DrainClears(t) \/ JobsDrained(t)
  \/ DrainSleeps(t) \/ DrainEnds(t)

Begins(t) ==
  \/ Start(t) \/ Submit(t) \/ WaitTakes(t)
  \/ \E source \in Sources : ReportFailure(t, source)
  \/ pc[t] = "idle" /\ SignalStop(t)
  \/ DrainLocks(t)

Next ==
  \/ \E t \in Threads : Begins(t) \/ Continues(t) \/ SpuriousWakeUp(t)
  \/ \E id \in TaskIds : TaskEnds(id)

(* Threads inside a call are scheduled and every task ends (tasks that     *)
(* ignore the stop token for ever are outside the supervisor's contract).  *)
Fairness ==
  /\ \A t \in Threads : WF_vars(Continues(t))
  /\ \A id \in TaskIds : WF_vars(TaskEnds(id))

Spec == Init /\ [][Next]_vars /\ Fairness

-----------------------------------------------------------------------------
(* Properties.                                                             *)

(* Each variable keeps the type of the member it models.                   *)
TypeOK ==
  /\ m_state \in {"Starting", "Running", "StopRequested", "Draining",
                  "Stopped", "Failed"}
  /\ m_failure \in Sources \cup {NoFailure}
  /\ m_pending_tasks \in Seq(TaskIds) /\ Len(m_pending_tasks) <= MaxPending
  /\ m_next_task_id \in 1 .. MaxTasks + 1
  /\ m_active_consumers \in 0 .. Cardinality(Threads)
  /\ stop_token \in BOOLEAN /\ drain_holder \in Threads \cup {NoThread}
  /\ jobs_state \in {"Running", "StopRequested", "Draining", "Stopped"}
  /\ held \in [Threads -> TaskIds \cup {NoTask}]

Accepted == 1 .. m_next_task_id - 1

(* How many places will still consume, or have consumed, task id.          *)
Trackers(id) ==
  Cardinality({i \in DOMAIN m_pending_tasks : m_pending_tasks[i] = id})
    + Cardinality({t \in Threads : held[t] = id})
    + Cardinality({t \in Threads : \E i \in DOMAIN drained[t] :
                                     drained[t][i] = id})
    + consumed[id]

(* A task accepted before the stop is tracked and consumed exactly once,   *)
(* by a Wait or by the drain, whatever the order of Wait, Drain, failures  *)
(* and the unlocked clear of the registry.                                 *)
AcceptedTasksTracked == \A id \in Accepted : Trackers(id) = 1

(* When Drain has ended nothing is left running or unconsumed, and the     *)
(* supervisor is Failed exactly when a failure was recorded.               *)
ShutdownComplete ==
  m_state \in {"Stopped", "Failed"} =>
    /\ \A id \in Accepted : task[id] # "running" /\ consumed[id] = 1
    /\ m_state = "Failed" <=> m_failure # NoFailure
    /\ stop_token /\ jobs_state # "Running"

(* A Wait that has taken its task is over before the shutdown is: its      *)
(* failure is never refused as reported after shutdown, and it never       *)
(* returns into a supervisor that Drain has declared finished.             *)
InWait(t) ==
  \/ pc[t] \in {"wait", "release"}
  \/ pc[t] \in {"recordFailure", "requestStop", "stopJobs"}
       /\ return_to[t] = "release"

WaitBeforeShutdown ==
  \A t \in Threads : InWait(t) => m_state \notin {"Stopped", "Failed"}

(* While the supervisor accepts tasks the JobRuntime does too.             *)
JobsFollowSupervisor ==
  /\ m_state = "Running" => jobs_state = "Running"
  /\ m_state \in {"Draining", "Stopped", "Failed"} => jobs_state # "Running"

(* The shutdown happens in order, over the supervisor's mutex, the         *)
(* JobRuntime's and the waits outside both: waits end before the drain     *)
(* does, the JobRuntime stops before it, and then nothing is left          *)
(* (Drain, RequestStop, Wait).                                             *)
ShutdownInOrder == WaitBeforeShutdown /\ JobsFollowSupervisor /\ ShutdownComplete

(* A Drain that holds the drain mutex ends, and with it the shutdown.      *)
DrainTerminates ==
  \A t \in Threads :
    (drain_holder = t) ~> (m_state \in {"Stopped", "Failed"} /\ pc[t] = "idle")

=============================================================================
