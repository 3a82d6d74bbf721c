----------------------- MODULE RuntimeSupervisorProofs -----------------------
(***************************************************************************)
(* Proofs about RuntimeSupervisor, for every number of threads, tasks and  *)
(* pending tasks: an accepted task is tracked in exactly one place until   *)
(* it is consumed, once; and the shutdown happens in order.                *)
(***************************************************************************)
EXTENDS RuntimeSupervisor, SequenceTheorems, FiniteSetTheorems, TLAPS

Elems(s) == {s[i] : i \in DOMAIN s}

Distinct(s) == \A i, j \in DOMAIN s : s[i] = s[j] => i = j

Labels == {"idle", "recordFailure", "requestStop", "stopJobs", "wait",
           "release", "drain", "consume", "waitForAll", "waitIdle"}

(* The types of what the module keeps of the executor and of the threads.  *)
ThreadTypes ==
  /\ task \in [TaskIds -> {"none", "running", "succeeded", "failed"}]
  /\ consumed \in [TaskIds -> Nat]
  /\ pc \in [Threads -> Labels]
  /\ return_to \in [Threads -> {"idle", "release", "consume"}]
  /\ drained \in [Threads -> Seq(TaskIds)]

(* Thread t has taken task id out of the registry.                         *)
Has(t, id) == held[t] = id \/ id \in Elems(drained[t])

(* The places where a task id is tracked exclude one another, and it is in *)
(* none of them exactly when it has been consumed.                         *)
TrackedOnce(id) ==
  /\ consumed[id] \in {0, 1}
  /\ consumed[id] = 1 =>
       id \notin Elems(m_pending_tasks) /\ \A t \in Threads : ~Has(t, id)
  /\ consumed[id] = 0 =>
       id \in Elems(m_pending_tasks) \/ \E t \in Threads : Has(t, id)
  /\ id \in Elems(m_pending_tasks) => \A t \in Threads : ~Has(t, id)
  /\ \A t, u \in Threads : Has(t, id) /\ Has(u, id) => t = u
  /\ \A t \in Threads : ~(held[t] = id /\ id \in Elems(drained[t]))

Tracking ==
  /\ Elems(m_pending_tasks) \subseteq Accepted /\ Distinct(m_pending_tasks)
  /\ \A t \in Threads : /\ held[t] \in Accepted \cup {NoTask}
                        /\ Elems(drained[t]) \subseteq Accepted
                        /\ Distinct(drained[t])
  /\ \A id \in TaskIds \ Accepted : consumed[id] = 0
  /\ \A id \in Accepted : TrackedOnce(id)
  /\ \A id \in TaskIds : consumed[id] > 0 => task[id] # "running"

(* t is inside a call to RecordFailure or RequestStop.                     *)
Stopping(t) == pc[t] \in {"recordFailure", "requestStop", "stopJobs"}

(* t is in a Drain that has emptied the registry.                          *)
Swapped(t) ==
  \/ pc[t] \in {"consume", "waitForAll", "waitIdle"}
  \/ Stopping(t) /\ return_to[t] = "consume"

(* Where a thread is says what it holds.                                   *)
Control ==
  \A t \in Threads :
    /\ pc[t] = "wait" => return_to[t] = "release"
    /\ held[t] # NoTask => pc[t] = "wait"
    /\ pc[t] = "wait" => held[t] # NoTask
    /\ pc[t] \in {"drain", "consume"} => return_to[t] = "consume"
    /\ pc[t] = "drain" \/ Swapped(t) => drain_holder = t /\ stop_token
    /\ drained[t] # <<>> => Swapped(t) /\ pc[t] \notin {"waitForAll", "waitIdle"}
    /\ Swapped(t) => m_state \in {"Draining", "Failed"}

(* How far the shutdown has got.                                           *)
Stages ==
  /\ m_state \in Stoppable => jobs_state = "Running"
  /\ m_state \in {"Draining", "Stopped", "Failed"} =>
       m_pending_tasks = <<>> /\ stop_token /\ jobs_state # "Running"
  /\ m_state = "Stopped" => m_failure = NoFailure
  /\ m_state = "Failed" => m_failure # NoFailure

Waiting == {t \in Threads : InWait(t)}

(* m_active_consumers counts the threads inside a Wait.                    *)
ConsumersCounted == m_active_consumers = Cardinality(Waiting)

(* The inductive invariant.                                                *)
IInv ==
  /\ TypeOK /\ ThreadTypes
  /\ Tracking
  /\ Control
  /\ Stages
  /\ ConsumersCounted
  /\ ShutdownInOrder

-----------------------------------------------------------------------------
(* The sequences of task ids.                                              *)

(* An empty registry holds nothing.                                        *)
LEMMA ElemsEmpty ==
  Elems(<<>>) = {} /\ Distinct(<<>>)
BY DEF Elems, Distinct

(* A sequence that holds nothing is empty.                                 *)
LEMMA ElemsNone ==
  ASSUME NEW s \in Seq(TaskIds), s # <<>>
  PROVE  Head(s) \in Elems(s) /\ Elems(s) \subseteq TaskIds
BY DEF Elems

(* push_back of a task that the registry does not hold yet.                *)
LEMMA ElemsAppend ==
  ASSUME NEW s \in Seq(TaskIds), NEW id \in TaskIds, Distinct(s),
         id \notin Elems(s)
  PROVE  /\ Elems(Append(s, id)) = Elems(s) \cup {id}
         /\ Distinct(Append(s, id))
<1> DEFINE n == Len(s)
           r == Append(s, id)
<1>1. n \in Nat /\ DOMAIN s = 1 .. n /\ DOMAIN r = 1 .. n + 1
      /\ r[n + 1] = id /\ \A i \in 1 .. n : r[i] = s[i]
  OBVIOUS
<1>2. \A i \in DOMAIN r : i \in DOMAIN s \/ i = n + 1
  BY <1>1
<1> HIDE DEF n, r
<1>3. Elems(r) = Elems(s) \cup {id}
  <2>1. Elems(r) \subseteq Elems(s) \cup {id}
    BY <1>1, <1>2 DEF Elems
  <2>2. Elems(s) \subseteq Elems(r)
    BY <1>1 DEF Elems
  <2>3. id \in Elems(r)
    BY <1>1 DEF Elems
  <2> QED
    BY <2>1, <2>2, <2>3
<1>4. Distinct(r)
  BY <1>1, <1>2 DEF Distinct, Elems
<1> QED
  BY <1>3, <1>4 DEF r

(* Taking the first of a sequence of different tasks.                      *)
LEMMA ElemsTail ==
  ASSUME NEW s \in Seq(TaskIds), Distinct(s), s # <<>>
  PROVE  /\ Elems(Tail(s)) = Elems(s) \ {Head(s)}
         /\ Distinct(Tail(s)) /\ Tail(s) \in Seq(TaskIds)
<1> DEFINE n == Len(s)
           r == Tail(s)
<1>1. n \in Nat \ {0} /\ DOMAIN s = 1 .. n /\ DOMAIN r = 1 .. n - 1
      /\ Head(s) = s[1] /\ \A i \in 1 .. n - 1 : r[i] = s[i + 1]
      /\ r \in Seq(TaskIds)
  BY EmptySeq, HeadTailProperties
<1> HIDE DEF n, r
<1>2. Elems(r) = Elems(s) \ {Head(s)}
  <2>1. ASSUME NEW x \in Elems(r) PROVE x \in Elems(s) \ {Head(s)}
    <3>1. PICK i \in 1 .. n - 1 : x = s[i + 1]
      BY <1>1 DEF Elems
    <3>2. i + 1 \in DOMAIN s /\ 1 \in DOMAIN s /\ i + 1 # 1
      BY <1>1
    <3> QED
      BY <1>1, <3>1, <3>2 DEF Elems, Distinct
  <2>2. ASSUME NEW x \in Elems(s) \ {Head(s)} PROVE x \in Elems(r)
    <3>1. PICK i \in 1 .. n : x = s[i] /\ i # 1
      BY <1>1 DEF Elems
    <3>2. i - 1 \in DOMAIN r /\ (i - 1) + 1 = i
      BY <1>1, <3>1
    <3>3. r[i - 1] = x
      BY <1>1, <3>1, <3>2
    <3> QED
      BY <3>2, <3>3 DEF Elems
  <2> QED
    BY <2>1, <2>2
<1>3. Distinct(r)
  <2> SUFFICES ASSUME NEW i \in 1 .. n - 1, NEW j \in 1 .. n - 1, r[i] = r[j]
               PROVE  i = j
    BY <1>1 DEF Distinct
  <2>1. i + 1 \in DOMAIN s /\ j + 1 \in DOMAIN s /\ s[i + 1] = s[j + 1]
    BY <1>1
  <2>2. i + 1 = j + 1
    BY <2>1 DEF Distinct
  <2> QED
    BY <2>2
<1> QED
  BY <1>1, <1>2, <1>3 DEF r

(* erase of one of a sequence of different tasks (Wait).                   *)
LEMMA ElemsErase ==
  ASSUME m_pending_tasks \in Seq(TaskIds), Distinct(m_pending_tasks),
         NEW i \in DOMAIN m_pending_tasks
  PROVE  /\ Erase(i) \in Seq(TaskIds)
         /\ Len(Erase(i)) < Len(m_pending_tasks)
         /\ Elems(Erase(i)) = Elems(m_pending_tasks) \ {m_pending_tasks[i]}
         /\ Distinct(Erase(i))
<1> DEFINE s == m_pending_tasks
           n == Len(s)
           a == SubSeq(s, 1, i - 1)
           b == SubSeq(s, i + 1, Len(s))
           r == a \o b
<1>1. i \in 1 .. n /\ n \in Nat /\ DOMAIN s = 1 .. n
  BY LenProperties
<1>2. /\ a \in Seq(TaskIds) /\ Len(a) = i - 1
      /\ \A j \in 1 .. i - 1 : a[j] = s[j]
  OBVIOUS
<1>3. /\ b \in Seq(TaskIds) /\ Len(b) = n - i
      /\ \A j \in 1 .. n - i : b[j] = s[i + j]
  OBVIOUS
<1>4. Erase(i) = r
  BY DEF Erase, RemoveAt
<1> HIDE DEF a, b, n
<1>5. /\ r \in Seq(TaskIds) /\ Len(r) = n - 1 /\ DOMAIN r = 1 .. n - 1
      /\ \A j \in 1 .. n - 1 : r[j] = IF j < i THEN s[j] ELSE s[j + 1]
  <2>0. r \in Seq(TaskIds) /\ Len(r) = Len(a) + Len(b)
    BY <1>2, <1>3, ConcatProperties
  <2>1. r \in Seq(TaskIds) /\ Len(r) = n - 1
    BY <1>1, <1>2, <1>3, <2>0
  <2>2. DOMAIN r = 1 .. n - 1
    BY <1>1, <2>1, LenProperties
  <2>3. ASSUME NEW j \in 1 .. n - 1
        PROVE  r[j] = IF j < i THEN s[j] ELSE s[j + 1]
    <3>1. r[j] = IF j <= i - 1 THEN a[j] ELSE b[j - (i - 1)]
      BY <1>1, <1>2, <1>3, ConcatProperties
    <3>2. CASE j < i
      BY <1>1, <1>2, <3>1, <3>2
    <3>3. CASE ~(j < i)
      <4>1. j - (i - 1) \in 1 .. n - i /\ i + (j - (i - 1)) = j + 1
        BY <1>1, <3>3
      <4>2. ~(j <= i - 1)
        BY <1>1, <3>3
      <4> QED
        BY <1>1, <1>3, <3>1, <3>3, <4>1, <4>2
    <3> QED
      BY <3>2, <3>3
  <2> QED
    BY <2>1, <2>2, <2>3
<1> HIDE DEF r
<1>6. Elems(r) = Elems(s) \ {s[i]}
  <2>1. ASSUME NEW x \in Elems(r) PROVE x \in Elems(s) \ {s[i]}
    <3>1. PICK j \in 1 .. n : x = s[j] /\ j # i
      BY <1>1, <1>5 DEF Elems
    <3> QED
      BY <1>1, <3>1 DEF Elems, Distinct
  <2>2. ASSUME NEW x \in Elems(s) \ {s[i]} PROVE x \in Elems(r)
    <3>1. PICK j \in 1 .. n : x = s[j] /\ j # i
      BY <1>1 DEF Elems
    <3>2. CASE j < i
      <4>1. j \in DOMAIN r /\ r[j] = x
        BY <1>1, <1>5, <3>1, <3>2
      <4> QED
        BY <4>1 DEF Elems
    <3>3. CASE j > i
      <4>1. j - 1 \in 1 .. n - 1 /\ ~(j - 1 < i) /\ (j - 1) + 1 = j
        BY <1>1, <3>1, <3>3
      <4>2. j - 1 \in DOMAIN r /\ r[j - 1] = x
        BY <1>5, <3>1, <4>1
      <4> QED
        BY <4>2 DEF Elems
    <3> QED
      BY <1>1, <3>1, <3>2, <3>3
  <2> QED
    BY <2>1, <2>2
<1>7. Distinct(r)
  <2> DEFINE up(j) == IF j < i THEN j ELSE j + 1
  <2> SUFFICES ASSUME NEW j \in 1 .. n - 1, NEW k \in 1 .. n - 1, r[j] = r[k]
               PROVE  j = k
    BY <1>5 DEF Distinct
  <2>1. /\ up(j) \in DOMAIN s /\ up(k) \in DOMAIN s
        /\ s[up(j)] = s[up(k)]
    BY <1>1, <1>5
  <2>2. up(j) = up(k)
    BY <2>1 DEF Distinct
  <2> QED
    BY <1>1, <2>2
<1> QED
  BY <1>1, <1>4, <1>5, <1>6, <1>7 DEF n

-----------------------------------------------------------------------------
(* Each part of the inductive invariant is preserved by every step.        *)

(* The types of the threads and of the tasks.                              *)
LEMMA ThreadTypesNext ==
  IInv /\ Next => ThreadTypes'
<1> SUFFICES ASSUME IInv, Next PROVE ThreadTypes'
  OBVIOUS
<1> USE DEF IInv, TypeOK, ThreadTypes, Control, Labels, TaskIds, vars, supervisorVars, executorVars,
           threadVars, Goto
<1>1. ASSUME NEW t \in Threads, Start(t) PROVE ThreadTypes'
  BY <1>1 DEF Start
<1>2. ASSUME NEW t \in Threads, Submit(t) PROVE ThreadTypes'
  BY <1>2 DEF Submit
<1>3. ASSUME NEW t \in Threads, WaitTakes(t) PROVE ThreadTypes'
  BY <1>3 DEF WaitTakes
<1>4. ASSUME NEW t \in Threads, NEW source \in Sources, ReportFailure(t, source)
      PROVE  ThreadTypes'
  BY <1>4 DEF ReportFailure, RecordFailure, KeepFirst, StopState
<1>5. ASSUME NEW t \in Threads, SignalStop(t) PROVE ThreadTypes'
  BY <1>5 DEF SignalStop
<1>6. ASSUME NEW t \in Threads, DrainLocks(t) PROVE ThreadTypes'
  BY <1>6 DEF DrainLocks
<1>7. ASSUME NEW t \in Threads, RecordJobFailure(t) PROVE ThreadTypes'
  BY <1>7 DEF RecordJobFailure, RecordFailure, KeepFirst, StopState
<1>8. ASSUME NEW t \in Threads, RequestStop(t) PROVE ThreadTypes'
  BY <1>8 DEF RequestStop, StopJobs, StopState
<1>9. ASSUME NEW t \in Threads, WaitReturns(t) PROVE ThreadTypes'
  BY <1>9 DEF WaitReturns, TakeResult
<1>10. ASSUME NEW t \in Threads, ReleaseConsumer(t) PROVE ThreadTypes'
  BY <1>10 DEF ReleaseConsumer, NotifyIdle
<1>11. ASSUME NEW t \in Threads, DrainSwaps(t) PROVE ThreadTypes'
  <2>1. CASE m_state = "Stopped"
    BY <1>11, <2>1 DEF DrainSwaps
  <2>2. CASE m_state # "Stopped"
    <3>1. drained' = [drained EXCEPT ![t] = m_pending_tasks] /\ m_pending_tasks \in Seq(TaskIds)
      BY <1>11, <2>2 DEF DrainSwaps
    <3>2. drained' \in [Threads -> Seq(TaskIds)]
      BY <3>1
    <3>3. pc' \in [Threads -> Labels]
      BY <1>11, <2>2 DEF DrainSwaps
    <3> QED
      BY <1>11, <3>2, <3>3 DEF DrainSwaps
  <2> QED
    BY <2>1, <2>2
<1>12. ASSUME NEW t \in Threads, DrainConsumes(t) PROVE ThreadTypes'
  <2>1. Tail(drained[t]) \in Seq(TaskIds) /\ Head(drained[t]) \in TaskIds
    BY <1>12, ElemsNone, ElemsTail, HeadTailProperties DEF DrainConsumes
  <2> QED
    BY <1>12, <2>1 DEF DrainConsumes, TakeResult
<1>13. ASSUME NEW t \in Threads, DrainClears(t) PROVE ThreadTypes'
  BY <1>13 DEF DrainClears
<1>14. ASSUME NEW t \in Threads, JobsDrained(t) PROVE ThreadTypes'
  BY <1>14 DEF JobsDrained
<1>15. ASSUME NEW t \in Threads, DrainSleeps(t) PROVE ThreadTypes'
  BY <1>15 DEF DrainSleeps
<1>16. ASSUME NEW t \in Threads, DrainEnds(t) PROVE ThreadTypes'
  BY <1>16 DEF DrainEnds, WaitersGone
<1>17. ASSUME NEW t \in Threads, SpuriousWakeUp(t) PROVE ThreadTypes'
  BY <1>17 DEF SpuriousWakeUp
<1>18. ASSUME NEW id \in TaskIds, TaskEnds(id) PROVE ThreadTypes'
  BY <1>18 DEF TaskEnds
<1> QED
  BY <1>1, <1>2, <1>3, <1>4, <1>5, <1>6, <1>7, <1>8, <1>9,
     <1>10, <1>11, <1>12, <1>13, <1>14, <1>15, <1>16, <1>17, <1>18
     DEF Next, Begins, Continues

(* Where a thread is says what it holds.                                   *)
LEMMA ControlNext ==
  IInv /\ Next => Control'
<1> SUFFICES ASSUME IInv, Next PROVE Control'
  OBVIOUS
<1> USE DEF IInv, TypeOK, ThreadTypes, Control, Stages, Swapped, Stopping, Labels,
           Stoppable, vars, supervisorVars, executorVars,
           threadVars, Goto
<1>1. ASSUME NEW t \in Threads, Start(t) PROVE Control'
  BY <1>1, SupervisorAssumption DEF Start
<1>2. ASSUME NEW t \in Threads, Submit(t) PROVE Control'
  BY <1>2, SupervisorAssumption DEF Submit
<1>3. ASSUME NEW t \in Threads, WaitTakes(t) PROVE Control'
  <2>1. \A i \in DOMAIN m_pending_tasks : m_pending_tasks[i] # NoTask
    BY SupervisorAssumption DEF NoTask, TaskIds
  <2> QED
    BY <1>3, <2>1, SupervisorAssumption DEF WaitTakes
<1>4. ASSUME NEW t \in Threads, NEW source \in Sources, ReportFailure(t, source)
      PROVE  Control'
  BY <1>4, SupervisorAssumption DEF ReportFailure, RecordFailure, KeepFirst, StopState
<1>5. ASSUME NEW t \in Threads, SignalStop(t) PROVE Control'
  BY <1>5, SupervisorAssumption DEF SignalStop
<1>6. ASSUME NEW t \in Threads, DrainLocks(t) PROVE Control'
  BY <1>6, SupervisorAssumption DEF DrainLocks
<1>7. ASSUME NEW t \in Threads, RecordJobFailure(t) PROVE Control'
  BY <1>7, SupervisorAssumption DEF RecordJobFailure, RecordFailure, KeepFirst, StopState
<1>8. ASSUME NEW t \in Threads, RequestStop(t) PROVE Control'
  BY <1>8, SupervisorAssumption DEF RequestStop, StopJobs, StopState
<1>9. ASSUME NEW t \in Threads, WaitReturns(t) PROVE Control'
  BY <1>9, SupervisorAssumption DEF WaitReturns, TakeResult
<1>10. ASSUME NEW t \in Threads, ReleaseConsumer(t) PROVE Control'
  BY <1>10, SupervisorAssumption DEF ReleaseConsumer, NotifyIdle
<1>11. ASSUME NEW t \in Threads, DrainSwaps(t) PROVE Control'
  BY <1>11, SupervisorAssumption DEF DrainSwaps, StopJobs
<1>12. ASSUME NEW t \in Threads, DrainConsumes(t) PROVE Control'
  BY <1>12, SupervisorAssumption DEF DrainConsumes, TakeResult
<1>13. ASSUME NEW t \in Threads, DrainClears(t) PROVE Control'
  BY <1>13, SupervisorAssumption DEF DrainClears
<1>14. ASSUME NEW t \in Threads, JobsDrained(t) PROVE Control'
  BY <1>14, SupervisorAssumption DEF JobsDrained
<1>15. ASSUME NEW t \in Threads, DrainSleeps(t) PROVE Control'
  BY <1>15, SupervisorAssumption DEF DrainSleeps
<1>16. ASSUME NEW t \in Threads, DrainEnds(t) PROVE Control'
  BY <1>16, SupervisorAssumption DEF DrainEnds, WaitersGone
<1>17. ASSUME NEW t \in Threads, SpuriousWakeUp(t) PROVE Control'
  BY <1>17, SupervisorAssumption DEF SpuriousWakeUp
<1>18. ASSUME NEW id \in TaskIds, TaskEnds(id) PROVE Control'
  BY <1>18, SupervisorAssumption DEF TaskEnds
<1> QED
  BY <1>1, <1>2, <1>3, <1>4, <1>5, <1>6, <1>7, <1>8, <1>9,
     <1>10, <1>11, <1>12, <1>13, <1>14, <1>15, <1>16, <1>17, <1>18
     DEF Next, Begins, Continues

(* The stages of the shutdown.                                             *)
LEMMA StagesNext ==
  IInv /\ Next => Stages'
<1> SUFFICES ASSUME IInv, Next PROVE Stages'
  OBVIOUS
<1> USE DEF IInv, TypeOK, ThreadTypes, Control, Stages, Swapped, Stopping,
           Stoppable, vars, supervisorVars, executorVars,
           threadVars, Goto
<1>1. ASSUME NEW t \in Threads, Start(t) PROVE Stages'
  BY <1>1, SupervisorAssumption DEF Start
<1>2. ASSUME NEW t \in Threads, Submit(t) PROVE Stages'
  BY <1>2, SupervisorAssumption DEF Submit
<1>3. ASSUME NEW t \in Threads, WaitTakes(t) PROVE Stages'
  BY <1>3, SupervisorAssumption DEF WaitTakes
<1>4. ASSUME NEW t \in Threads, NEW source \in Sources, ReportFailure(t, source)
      PROVE  Stages'
  BY <1>4, SupervisorAssumption DEF ReportFailure, RecordFailure, KeepFirst, StopState
<1>5. ASSUME NEW t \in Threads, SignalStop(t) PROVE Stages'
  BY <1>5, SupervisorAssumption DEF SignalStop
<1>6. ASSUME NEW t \in Threads, DrainLocks(t) PROVE Stages'
  BY <1>6, SupervisorAssumption DEF DrainLocks
<1>7. ASSUME NEW t \in Threads, RecordJobFailure(t) PROVE Stages'
  BY <1>7, SupervisorAssumption DEF RecordJobFailure, RecordFailure, KeepFirst, StopState
<1>8. ASSUME NEW t \in Threads, RequestStop(t) PROVE Stages'
  BY <1>8, SupervisorAssumption DEF RequestStop, StopJobs, StopState
<1>9. ASSUME NEW t \in Threads, WaitReturns(t) PROVE Stages'
  BY <1>9, SupervisorAssumption DEF WaitReturns, TakeResult
<1>10. ASSUME NEW t \in Threads, ReleaseConsumer(t) PROVE Stages'
  BY <1>10, SupervisorAssumption DEF ReleaseConsumer, NotifyIdle
<1>11. ASSUME NEW t \in Threads, DrainSwaps(t) PROVE Stages'
  BY <1>11, SupervisorAssumption DEF DrainSwaps, StopJobs
<1>12. ASSUME NEW t \in Threads, DrainConsumes(t) PROVE Stages'
  BY <1>12, SupervisorAssumption DEF DrainConsumes, TakeResult
<1>13. ASSUME NEW t \in Threads, DrainClears(t) PROVE Stages'
  BY <1>13, SupervisorAssumption DEF DrainClears
<1>14. ASSUME NEW t \in Threads, JobsDrained(t) PROVE Stages'
  BY <1>14, SupervisorAssumption DEF JobsDrained
<1>15. ASSUME NEW t \in Threads, DrainSleeps(t) PROVE Stages'
  BY <1>15, SupervisorAssumption DEF DrainSleeps
<1>16. ASSUME NEW t \in Threads, DrainEnds(t) PROVE Stages'
  BY <1>16, SupervisorAssumption DEF DrainEnds, WaitersGone
<1>17. ASSUME NEW t \in Threads, SpuriousWakeUp(t) PROVE Stages'
  BY <1>17, SupervisorAssumption DEF SpuriousWakeUp
<1>18. ASSUME NEW id \in TaskIds, TaskEnds(id) PROVE Stages'
  BY <1>18, SupervisorAssumption DEF TaskEnds
<1> QED
  BY <1>1, <1>2, <1>3, <1>4, <1>5, <1>6, <1>7, <1>8, <1>9,
     <1>10, <1>11, <1>12, <1>13, <1>14, <1>15, <1>16, <1>17, <1>18
     DEF Next, Begins, Continues

(* A step that touches neither the tasks nor what tracks them.             *)
LEMMA TrackingUntouched ==
  ASSUME Tracking,
         UNCHANGED <<m_pending_tasks, held, drained, consumed, m_next_task_id, task>>
  PROVE  Tracking'
BY DEF Tracking, TrackedOnce, Has, Accepted

(* Submit: the new task is registered in the step that hands it over.      *)
LEMMA SubmitTracked ==
  ASSUME IInv, NEW t \in Threads, Submit(t)
  PROVE  Tracking'
<1>0. PICK new \in TaskIds : new = m_next_task_id
  BY DEF Submit
<1>1. new \in TaskIds /\ new \in Nat /\ new \notin Accepted
  BY <1>0 DEF Submit, TaskIds, Accepted
<1>2. Accepted' = Accepted \cup {new}
  BY <1>0, <1>1 DEF Submit, Accepted, TaskIds
<1>3. /\ Elems(m_pending_tasks') = Elems(m_pending_tasks) \cup {new}
      /\ Distinct(m_pending_tasks')
  BY <1>0, <1>1, ElemsAppend DEF Submit, IInv, TypeOK, Tracking
<1>4. /\ UNCHANGED <<held, drained, consumed>>
      /\ \A id \in TaskIds : id # new => task'[id] = task[id]
  BY <1>0 DEF Submit, threadVars, IInv, ThreadTypes
<1>5. new # NoTask
  BY <1>1 DEF TaskIds, NoTask
<1>6. ASSUME NEW u \in Threads PROVE ~Has(u, new) /\ ~Has(u, new)'
  BY <1>1, <1>4, <1>5 DEF Has, IInv, Tracking
<1>7. ASSUME NEW id \in Accepted PROVE TrackedOnce(id)'
  BY <1>1, <1>3, <1>4 DEF IInv, Tracking, TrackedOnce, Has
<1>8. TrackedOnce(new)'
  BY <1>1, <1>3, <1>4, <1>6 DEF IInv, Tracking, TrackedOnce, Has
<1>9. \A id \in TaskIds : consumed'[id] > 0 => task'[id] # "running"
  BY <1>1, <1>4 DEF IInv, Tracking
<1> QED
  BY <1>1, <1>2, <1>3, <1>4, <1>7, <1>8, <1>9 DEF IInv, Tracking

(* Wait moves a task out of the registry into the caller's hands.          *)
LEMMA WaitTakesTracked ==
  ASSUME IInv, NEW t \in Threads, WaitTakes(t)
  PROVE  Tracking'
<1>1. PICK i \in DOMAIN m_pending_tasks :
        /\ held' = [held EXCEPT ![t] = m_pending_tasks[i]]
        /\ m_pending_tasks' = Erase(i)
  BY DEF WaitTakes
<1> DEFINE x == m_pending_tasks[i]
<1>2. /\ Elems(m_pending_tasks') = Elems(m_pending_tasks) \ {x}
      /\ Distinct(m_pending_tasks')
  BY <1>1, ElemsErase DEF IInv, TypeOK, Tracking
<1>3. x \in Elems(m_pending_tasks) /\ x \in Accepted
  BY DEF Elems, IInv, Tracking
<1> HIDE DEF x
<1>4. UNCHANGED <<drained, consumed, m_next_task_id, task>> /\ Accepted' = Accepted
  BY DEF WaitTakes, executorVars, Accepted
<1>5. held[t] = NoTask /\ held'[t] = x
      /\ \A u \in Threads : u # t => held'[u] = held[u]
  BY <1>1 DEF WaitTakes, IInv, Control, TypeOK, x
<1>6. NoTask \notin Accepted
  BY DEF NoTask, Accepted
<1>7. ASSUME NEW id \in Accepted PROVE TrackedOnce(id)'
  <2>1. CASE id = x
    BY <1>2, <1>3, <1>4, <1>5, <1>6, <2>1 DEF IInv, Tracking, TrackedOnce, Has
  <2>2. CASE id # x
    <3>1. \A u \in Threads : held'[u] = id <=> held[u] = id
      BY <1>5, <1>6, <2>2
    <3> QED
      BY <1>2, <1>4, <2>2, <3>1 DEF IInv, Tracking, TrackedOnce, Has
  <2> QED
    BY <2>1, <2>2
<1> QED
  BY <1>2, <1>3, <1>4, <1>5, <1>7 DEF IInv, Tracking

(* The future of a task is consumed by the Wait that holds the task.       *)
LEMMA WaitReturnsTracked ==
  ASSUME IInv, NEW t \in Threads, WaitReturns(t)
  PROVE  Tracking'
<1> DEFINE x == held[t]
<1>1. x \in Accepted /\ x \in TaskIds /\ task[x] # "running"
  BY DEF WaitReturns, TakeResult, IInv, Tracking, Control, TypeOK
<1>2. /\ UNCHANGED <<m_pending_tasks, drained, m_next_task_id, task>>
      /\ Accepted' = Accepted
      /\ held' = [held EXCEPT ![t] = NoTask]
      /\ consumed' = [consumed EXCEPT ![x] = @ + 1]
  BY DEF WaitReturns, TakeResult, supervisorVars, Accepted
<1>3. NoTask \notin Accepted
  BY DEF NoTask, Accepted
<1>4. consumed[x] = 0
  BY <1>1 DEF IInv, Tracking, TrackedOnce, Has
<1>5. consumed'[x] = 1 /\ \A id \in TaskIds : id # x => consumed'[id] = consumed[id]
  BY <1>1, <1>2, <1>4 DEF IInv, ThreadTypes
<1>6. held'[t] = NoTask /\ \A u \in Threads : u # t => held'[u] = held[u]
  BY <1>2 DEF IInv, TypeOK
<1>7. Accepted \subseteq TaskIds
  BY SupervisorAssumption DEF IInv, TypeOK, Accepted, TaskIds
<1>8. ASSUME NEW id \in Accepted PROVE TrackedOnce(id)'
  <2>1. CASE id = x
    <3>1. \A u \in Threads : ~Has(u, id)'
      BY <1>1, <1>2, <1>3, <1>6, <2>1 DEF IInv, Tracking, TrackedOnce, Has
    <3>2. id \notin Elems(m_pending_tasks')
      BY <1>1, <1>2, <2>1 DEF IInv, Tracking, TrackedOnce, Has
    <3> QED
      BY <1>5, <2>1, <3>1, <3>2 DEF TrackedOnce, Has
  <2>2. CASE id # x
    <3>1. \A u \in Threads : held'[u] = id <=> held[u] = id
      BY <1>3, <1>6, <2>2
    <3>2. consumed'[id] = consumed[id]
      BY <1>5, <1>7, <2>2
    <3> QED
      BY <1>2, <2>2, <3>1, <3>2 DEF IInv, Tracking, TrackedOnce, Has
  <2> QED
    BY <2>1, <2>2
<1>9. \A id \in TaskIds : consumed'[id] > 0 => task'[id] # "running"
  BY <1>1, <1>2, <1>5 DEF IInv, Tracking
<1> QED
  BY <1>1, <1>2, <1>5, <1>6, <1>8, <1>9 DEF IInv, Tracking

(* Drain swaps the whole registry out.                                     *)
LEMMA DrainSwapsTracked ==
  ASSUME IInv, NEW t \in Threads, DrainSwaps(t)
  PROVE  Tracking'
<1>1. CASE m_state = "Stopped"
  BY <1>1, TrackingUntouched DEF DrainSwaps, IInv
<1>2. CASE m_state # "Stopped"
  <2>1. /\ UNCHANGED <<held, consumed, m_next_task_id, task>>
        /\ Accepted' = Accepted /\ m_pending_tasks' = <<>>
        /\ drained' = [drained EXCEPT ![t] = m_pending_tasks]
    BY <1>2 DEF DrainSwaps, Accepted
  <2>2. drained[t] = <<>>
    BY DEF DrainSwaps, IInv, Control, Swapped, Stopping
  <2>3. /\ Elems(drained[t]) = {} /\ Elems(m_pending_tasks') = {}
        /\ Distinct(m_pending_tasks')
    BY <2>1, <2>2, ElemsEmpty
  <2>4. /\ drained'[t] = m_pending_tasks
        /\ \A u \in Threads : u # t => drained'[u] = drained[u]
    BY <2>1 DEF IInv, ThreadTypes
  <2>5. ASSUME NEW id \in Accepted PROVE TrackedOnce(id)'
    <3>1. CASE id \in Elems(m_pending_tasks)
      BY <2>1, <2>3, <2>4, <3>1 DEF IInv, Tracking, TrackedOnce, Has
    <3>2. CASE id \notin Elems(m_pending_tasks)
      <4>1. \A u \in Threads : id \in Elems(drained'[u]) <=> id \in Elems(drained[u])
        BY <2>3, <2>4, <3>2
      <4> QED
        BY <2>1, <2>3, <3>2, <4>1 DEF IInv, Tracking, TrackedOnce, Has
    <3> QED
      BY <3>1, <3>2
  <2> QED
    BY <2>1, <2>3, <2>4, <2>5 DEF IInv, Tracking
<1> QED
  BY <1>1, <1>2

(* The drain consumes the first of the tasks it has swapped out.           *)
LEMMA DrainConsumesTracked ==
  ASSUME IInv, NEW t \in Threads, DrainConsumes(t)
  PROVE  Tracking'
<1> DEFINE x == Head(drained[t])
<1>1. drained[t] \in Seq(TaskIds) /\ Distinct(drained[t]) /\ drained[t] # <<>>
  BY DEF DrainConsumes, IInv, ThreadTypes, Tracking
<1>2. x \in Elems(drained[t]) /\ x \in TaskIds /\ x \in Accepted
  BY <1>1, ElemsNone DEF IInv, Tracking
<1>3. /\ UNCHANGED <<m_pending_tasks, held, m_next_task_id, task>>
      /\ Accepted' = Accepted /\ task[x] # "running"
      /\ drained' = [drained EXCEPT ![t] = Tail(drained[t])]
      /\ consumed' = [consumed EXCEPT ![x] = @ + 1]
  BY DEF DrainConsumes, TakeResult, supervisorVars, Accepted
<1>4. /\ Elems(drained'[t]) = Elems(drained[t]) \ {x} /\ Distinct(drained'[t])
      /\ \A u \in Threads : u # t => drained'[u] = drained[u]
  BY <1>1, <1>3, ElemsTail DEF IInv, ThreadTypes
<1> HIDE DEF x
<1>5. consumed[x] = 0
  BY <1>2 DEF IInv, Tracking, TrackedOnce, Has
<1>6. consumed'[x] = 1 /\ \A id \in TaskIds : id # x => consumed'[id] = consumed[id]
  BY <1>2, <1>3, <1>5 DEF IInv, ThreadTypes
<1>7. Accepted \subseteq TaskIds
  BY SupervisorAssumption DEF IInv, TypeOK, Accepted, TaskIds
<1>8. ASSUME NEW id \in Accepted PROVE TrackedOnce(id)'
  <2>1. CASE id = x
    <3>1. \A u \in Threads : ~Has(u, id)'
      BY <1>2, <1>3, <1>4, <2>1 DEF IInv, Tracking, TrackedOnce, Has
    <3>2. id \notin Elems(m_pending_tasks')
      BY <1>2, <1>3, <2>1 DEF IInv, Tracking, TrackedOnce, Has
    <3> QED
      BY <1>6, <2>1, <3>1, <3>2 DEF TrackedOnce, Has
  <2>2. CASE id # x
    <3>1. \A u \in Threads : id \in Elems(drained'[u]) <=> id \in Elems(drained[u])
      BY <1>4, <2>2
    <3>2. consumed'[id] = consumed[id]
      BY <1>6, <1>7, <2>2
    <3> QED
      BY <1>3, <2>2, <3>1, <3>2 DEF IInv, Tracking, TrackedOnce, Has
  <2> QED
    BY <2>1, <2>2
<1>9. \A id \in TaskIds : consumed'[id] > 0 => task'[id] # "running"
  BY <1>2, <1>3, <1>6 DEF IInv, Tracking
<1>10. ASSUME NEW u \in Threads
       PROVE  Elems(drained'[u]) \subseteq Accepted /\ Distinct(drained'[u])
  BY <1>4 DEF IInv, Tracking
<1> QED
  BY <1>2, <1>3, <1>6, <1>8, <1>9, <1>10 DEF IInv, Tracking

(* Every task is tracked in one place.                                     *)
LEMMA TrackingNext ==
  IInv /\ Next => Tracking'
<1> SUFFICES ASSUME IInv, Next PROVE Tracking'
  OBVIOUS
<1> USE DEF IInv, vars, supervisorVars, executorVars,
           threadVars, Goto
<1>1. ASSUME NEW t \in Threads, Start(t) PROVE Tracking'
  BY <1>1, TrackingUntouched DEF Start
<1>2. ASSUME NEW t \in Threads, Submit(t) PROVE Tracking'
  BY <1>2, SubmitTracked
<1>3. ASSUME NEW t \in Threads, WaitTakes(t) PROVE Tracking'
  BY <1>3, WaitTakesTracked
<1>4. ASSUME NEW t \in Threads, NEW source \in Sources, ReportFailure(t, source)
      PROVE  Tracking'
  BY <1>4, TrackingUntouched DEF ReportFailure
<1>5. ASSUME NEW t \in Threads, SignalStop(t) PROVE Tracking'
  BY <1>5, TrackingUntouched DEF SignalStop
<1>6. ASSUME NEW t \in Threads, DrainLocks(t) PROVE Tracking'
  BY <1>6, TrackingUntouched DEF DrainLocks
<1>7. ASSUME NEW t \in Threads, RecordJobFailure(t) PROVE Tracking'
  BY <1>7, TrackingUntouched DEF RecordJobFailure
<1>8. ASSUME NEW t \in Threads, RequestStop(t) PROVE Tracking'
  BY <1>8, TrackingUntouched DEF RequestStop
<1>9. ASSUME NEW t \in Threads, WaitReturns(t) PROVE Tracking'
  BY <1>9, WaitReturnsTracked
<1>10. ASSUME NEW t \in Threads, ReleaseConsumer(t) PROVE Tracking'
  BY <1>10, TrackingUntouched DEF ReleaseConsumer
<1>11. ASSUME NEW t \in Threads, DrainSwaps(t) PROVE Tracking'
  BY <1>11, DrainSwapsTracked
<1>12. ASSUME NEW t \in Threads, DrainConsumes(t) PROVE Tracking'
  BY <1>12, DrainConsumesTracked
<1>13. ASSUME NEW t \in Threads, DrainClears(t) PROVE Tracking'
  <2>1. m_pending_tasks' = m_pending_tasks
    BY <1>13 DEF DrainClears, Control, Swapped, Stages
  <2> QED
    BY <1>13, <2>1, TrackingUntouched DEF DrainClears
<1>14. ASSUME NEW t \in Threads, JobsDrained(t) PROVE Tracking'
  BY <1>14, TrackingUntouched DEF JobsDrained
<1>15. ASSUME NEW t \in Threads, DrainSleeps(t) PROVE Tracking'
  BY <1>15, TrackingUntouched DEF DrainSleeps
<1>16. ASSUME NEW t \in Threads, DrainEnds(t) PROVE Tracking'
  BY <1>16, TrackingUntouched DEF DrainEnds
<1>17. ASSUME NEW t \in Threads, SpuriousWakeUp(t) PROVE Tracking'
  BY <1>17, TrackingUntouched DEF SpuriousWakeUp
<1>18. ASSUME NEW id \in TaskIds, TaskEnds(id) PROVE Tracking'
  <2>1. UNCHANGED <<m_pending_tasks, held, drained, consumed, m_next_task_id>>
    BY <1>18 DEF TaskEnds
  <2>2. \A k \in TaskIds : task'[k] = "running" => task[k] = "running"
    BY <1>18 DEF TaskEnds, ThreadTypes
  <2> QED
    BY <2>1, <2>2 DEF Tracking, TrackedOnce, Has, Accepted
<1> QED
  BY <1>1, <1>2, <1>3, <1>4, <1>5, <1>6, <1>7, <1>8, <1>9,
     <1>10, <1>11, <1>12, <1>13, <1>14, <1>15, <1>16, <1>17, <1>18
     DEF Next, Begins, Continues

(* The threads inside a Wait are finitely many.                            *)
LEMMA WaitingFinite ==
  /\ IsFiniteSet(Waiting) /\ Cardinality(Waiting) \in Nat
  /\ Cardinality(Waiting) \in 0 .. Cardinality(Threads)
<1>1. IsFiniteSet(Waiting) /\ Cardinality(Waiting) <= Cardinality(Threads)
  BY SupervisorAssumption, FS_Subset DEF Waiting
<1> QED
  BY <1>1, SupervisorAssumption, FS_CardinalityType

(* A consumer is counted when it takes its task and released when it has   *)
(* recorded what became of it: no other step begins or ends a Wait.        *)
LEMMA ConsumersNext ==
  IInv /\ Next => ConsumersCounted'
<1> SUFFICES ASSUME IInv, Next PROVE ConsumersCounted'
  OBVIOUS
<1> USE DEF IInv, TypeOK, ThreadTypes, Control, Stopping, InWait, Waiting, vars, supervisorVars, executorVars,
           threadVars, Goto
<1>1. ASSUME NEW t \in Threads, Start(t) PROVE ConsumersCounted'
  <2>1. Waiting' = Waiting /\ m_active_consumers' = m_active_consumers
    BY <1>1 DEF Start
  <2> QED
    BY <2>1 DEF ConsumersCounted
<1>2. ASSUME NEW t \in Threads, Submit(t) PROVE ConsumersCounted'
  <2>1. Waiting' = Waiting /\ m_active_consumers' = m_active_consumers
    BY <1>2 DEF Submit
  <2> QED
    BY <2>1 DEF ConsumersCounted
<1>3. ASSUME NEW t \in Threads, WaitTakes(t) PROVE ConsumersCounted'
  <2>1. t \notin Waiting /\ Waiting' = Waiting \cup {t}
    BY <1>3 DEF WaitTakes
  <2>2. m_active_consumers' = m_active_consumers + 1
    BY <1>3 DEF WaitTakes, CountConsumer
  <2> HIDE DEF Waiting
  <2>3. Cardinality(Waiting \cup {t}) = Cardinality(Waiting) + 1
    BY <2>1, WaitingFinite, FS_AddElement
  <2> QED
    BY <2>1, <2>2, <2>3 DEF ConsumersCounted
<1>4. ASSUME NEW t \in Threads, NEW source \in Sources, ReportFailure(t, source)
      PROVE  ConsumersCounted'
  <2>1. Waiting' = Waiting /\ m_active_consumers' = m_active_consumers
    BY <1>4 DEF ReportFailure, RecordFailure, KeepFirst, StopState
  <2> QED
    BY <2>1 DEF ConsumersCounted
<1>5. ASSUME NEW t \in Threads, SignalStop(t) PROVE ConsumersCounted'
  <2>1. Waiting' = Waiting /\ m_active_consumers' = m_active_consumers
    BY <1>5 DEF SignalStop
  <2> QED
    BY <2>1 DEF ConsumersCounted
<1>6. ASSUME NEW t \in Threads, DrainLocks(t) PROVE ConsumersCounted'
  <2>1. Waiting' = Waiting /\ m_active_consumers' = m_active_consumers
    BY <1>6 DEF DrainLocks
  <2> QED
    BY <2>1 DEF ConsumersCounted
<1>7. ASSUME NEW t \in Threads, RecordJobFailure(t) PROVE ConsumersCounted'
  <2>1. Waiting' = Waiting /\ m_active_consumers' = m_active_consumers
    BY <1>7 DEF RecordJobFailure, RecordFailure, KeepFirst, StopState
  <2> QED
    BY <2>1 DEF ConsumersCounted
<1>8. ASSUME NEW t \in Threads, RequestStop(t) PROVE ConsumersCounted'
  <2>1. Waiting' = Waiting /\ m_active_consumers' = m_active_consumers
    BY <1>8 DEF RequestStop, StopJobs, StopState
  <2> QED
    BY <2>1 DEF ConsumersCounted
<1>9. ASSUME NEW t \in Threads, WaitReturns(t) PROVE ConsumersCounted'
  <2>1. Waiting' = Waiting /\ m_active_consumers' = m_active_consumers
    BY <1>9 DEF WaitReturns, TakeResult
  <2> QED
    BY <2>1 DEF ConsumersCounted
<1>10. ASSUME NEW t \in Threads, ReleaseConsumer(t) PROVE ConsumersCounted'
  <2>1. t \in Waiting /\ Waiting' = Waiting \ {t}
    BY <1>10 DEF ReleaseConsumer
  <2>2. m_active_consumers' = m_active_consumers - 1
    BY <1>10 DEF ReleaseConsumer
  <2> HIDE DEF Waiting
  <2>3. Cardinality(Waiting \ {t}) = Cardinality(Waiting) - 1
    BY <2>1, WaitingFinite, FS_RemoveElement
  <2> QED
    BY <2>1, <2>2, <2>3 DEF ConsumersCounted
<1>11. ASSUME NEW t \in Threads, DrainSwaps(t) PROVE ConsumersCounted'
  <2>1. Waiting' = Waiting /\ m_active_consumers' = m_active_consumers
    BY <1>11 DEF DrainSwaps, StopJobs
  <2> QED
    BY <2>1 DEF ConsumersCounted
<1>12. ASSUME NEW t \in Threads, DrainConsumes(t) PROVE ConsumersCounted'
  <2>1. Waiting' = Waiting /\ m_active_consumers' = m_active_consumers
    BY <1>12 DEF DrainConsumes, TakeResult
  <2> QED
    BY <2>1 DEF ConsumersCounted
<1>13. ASSUME NEW t \in Threads, DrainClears(t) PROVE ConsumersCounted'
  <2>1. Waiting' = Waiting /\ m_active_consumers' = m_active_consumers
    BY <1>13 DEF DrainClears
  <2> QED
    BY <2>1 DEF ConsumersCounted
<1>14. ASSUME NEW t \in Threads, JobsDrained(t) PROVE ConsumersCounted'
  <2>1. Waiting' = Waiting /\ m_active_consumers' = m_active_consumers
    BY <1>14 DEF JobsDrained
  <2> QED
    BY <2>1 DEF ConsumersCounted
<1>15. ASSUME NEW t \in Threads, DrainSleeps(t) PROVE ConsumersCounted'
  <2>1. Waiting' = Waiting /\ m_active_consumers' = m_active_consumers
    BY <1>15 DEF DrainSleeps
  <2> QED
    BY <2>1 DEF ConsumersCounted
<1>16. ASSUME NEW t \in Threads, DrainEnds(t) PROVE ConsumersCounted'
  <2>1. Waiting' = Waiting /\ m_active_consumers' = m_active_consumers
    BY <1>16 DEF DrainEnds, WaitersGone
  <2> QED
    BY <2>1 DEF ConsumersCounted
<1>17. ASSUME NEW t \in Threads, SpuriousWakeUp(t) PROVE ConsumersCounted'
  <2>1. Waiting' = Waiting /\ m_active_consumers' = m_active_consumers
    BY <1>17 DEF SpuriousWakeUp
  <2> QED
    BY <2>1 DEF ConsumersCounted
<1>18. ASSUME NEW id \in TaskIds, TaskEnds(id) PROVE ConsumersCounted'
  <2>1. Waiting' = Waiting /\ m_active_consumers' = m_active_consumers
    BY <1>18 DEF TaskEnds
  <2> QED
    BY <2>1 DEF ConsumersCounted
<1> QED
  BY <1>1, <1>2, <1>3, <1>4, <1>5, <1>6, <1>7, <1>8, <1>9,
     <1>10, <1>11, <1>12, <1>13, <1>14, <1>15, <1>16, <1>17, <1>18
     DEF Next, Begins, Continues

(* No Wait is left when the drain ends, and none can begin after it.       *)
LEMMA WaitsNext ==
  IInv /\ Next => WaitBeforeShutdown'
<1> SUFFICES ASSUME IInv, Next PROVE WaitBeforeShutdown'
  OBVIOUS
<1> USE DEF IInv, TypeOK, ThreadTypes, Control, Stages, Stopping, InWait,
           ShutdownInOrder, WaitBeforeShutdown, Stoppable, vars, supervisorVars, executorVars,
           threadVars, Goto
<1>1. ASSUME NEW t \in Threads, Start(t) PROVE WaitBeforeShutdown'
  BY <1>1 DEF Start
<1>2. ASSUME NEW t \in Threads, Submit(t) PROVE WaitBeforeShutdown'
  BY <1>2 DEF Submit
<1>3. ASSUME NEW t \in Threads, WaitTakes(t) PROVE WaitBeforeShutdown'
  BY <1>3 DEF WaitTakes
<1>4. ASSUME NEW t \in Threads, NEW source \in Sources, ReportFailure(t, source)
      PROVE  WaitBeforeShutdown'
  BY <1>4 DEF ReportFailure, RecordFailure, KeepFirst, StopState
<1>5. ASSUME NEW t \in Threads, SignalStop(t) PROVE WaitBeforeShutdown'
  BY <1>5 DEF SignalStop
<1>6. ASSUME NEW t \in Threads, DrainLocks(t) PROVE WaitBeforeShutdown'
  BY <1>6 DEF DrainLocks
<1>7. ASSUME NEW t \in Threads, RecordJobFailure(t) PROVE WaitBeforeShutdown'
  BY <1>7 DEF RecordJobFailure, RecordFailure, KeepFirst, StopState
<1>8. ASSUME NEW t \in Threads, RequestStop(t) PROVE WaitBeforeShutdown'
  BY <1>8 DEF RequestStop, StopJobs, StopState
<1>9. ASSUME NEW t \in Threads, WaitReturns(t) PROVE WaitBeforeShutdown'
  BY <1>9 DEF WaitReturns, TakeResult
<1>10. ASSUME NEW t \in Threads, ReleaseConsumer(t) PROVE WaitBeforeShutdown'
  BY <1>10 DEF ReleaseConsumer, NotifyIdle
<1>11. ASSUME NEW t \in Threads, DrainSwaps(t) PROVE WaitBeforeShutdown'
  BY <1>11 DEF DrainSwaps, StopJobs
<1>12. ASSUME NEW t \in Threads, DrainConsumes(t) PROVE WaitBeforeShutdown'
  BY <1>12 DEF DrainConsumes, TakeResult
<1>13. ASSUME NEW t \in Threads, DrainClears(t) PROVE WaitBeforeShutdown'
  BY <1>13 DEF DrainClears
<1>14. ASSUME NEW t \in Threads, JobsDrained(t) PROVE WaitBeforeShutdown'
  BY <1>14 DEF JobsDrained
<1>15. ASSUME NEW t \in Threads, DrainSleeps(t) PROVE WaitBeforeShutdown'
  BY <1>15 DEF DrainSleeps
<1>16. ASSUME NEW t \in Threads, DrainEnds(t) PROVE WaitBeforeShutdown'
  <2>1. Cardinality(Waiting) = 0
    BY <1>16 DEF DrainEnds, WaitersGone, ConsumersCounted
  <2>2. Waiting = {}
    BY <2>1, WaitingFinite, FS_EmptySet
  <2>3. \A u \in Threads : ~InWait(u)
    BY <2>2 DEF Waiting
  <2>4. \A u \in Threads : InWait(u)' => InWait(u)
    BY <1>16 DEF DrainEnds
  <2> QED
    BY <2>3, <2>4 DEF WaitBeforeShutdown
<1>17. ASSUME NEW t \in Threads, SpuriousWakeUp(t) PROVE WaitBeforeShutdown'
  BY <1>17 DEF SpuriousWakeUp
<1>18. ASSUME NEW id \in TaskIds, TaskEnds(id) PROVE WaitBeforeShutdown'
  BY <1>18 DEF TaskEnds
<1> QED
  BY <1>1, <1>2, <1>3, <1>4, <1>5, <1>6, <1>7, <1>8, <1>9,
     <1>10, <1>11, <1>12, <1>13, <1>14, <1>15, <1>16, <1>17, <1>18
     DEF Next, Begins, Continues

(* After the shutdown every accepted task has been consumed.               *)
AllConsumed ==
  m_state \in {"Stopped", "Failed"} => \A id \in Accepted : consumed[id] = 1

(* When the drain ends the registry, the waits and the drain are empty: by *)
(* the tracking every accepted task has been consumed.                     *)
LEMMA AllConsumedNext ==
  IInv /\ Next => AllConsumed'
<1> SUFFICES ASSUME IInv, Next PROVE AllConsumed'
  OBVIOUS
<1> USE DEF IInv, AllConsumed, ShutdownInOrder, ShutdownComplete,
           StopState, Stoppable, vars, supervisorVars, executorVars,
           threadVars, Goto
<1>1. ASSUME NEW t \in Threads, Start(t) PROVE AllConsumed'
  BY <1>1 DEF Start, Accepted
<1>2. ASSUME NEW t \in Threads, Submit(t) PROVE AllConsumed'
  BY <1>2 DEF Submit, Accepted
<1>3. ASSUME NEW t \in Threads, WaitTakes(t) PROVE AllConsumed'
  BY <1>3 DEF WaitTakes, Accepted
<1>4. ASSUME NEW t \in Threads, NEW source \in Sources, ReportFailure(t, source)
      PROVE  AllConsumed'
  BY <1>4 DEF ReportFailure, RecordFailure, KeepFirst, StopState, Accepted
<1>5. ASSUME NEW t \in Threads, SignalStop(t) PROVE AllConsumed'
  BY <1>5 DEF SignalStop, Accepted
<1>6. ASSUME NEW t \in Threads, DrainLocks(t) PROVE AllConsumed'
  BY <1>6 DEF DrainLocks, Accepted
<1>7. ASSUME NEW t \in Threads, RecordJobFailure(t) PROVE AllConsumed'
  BY <1>7 DEF RecordJobFailure, RecordFailure, KeepFirst, StopState, Accepted
<1>8. ASSUME NEW t \in Threads, RequestStop(t) PROVE AllConsumed'
  BY <1>8 DEF RequestStop, StopJobs, StopState, Accepted
<1>9. ASSUME NEW t \in Threads, WaitReturns(t) PROVE AllConsumed'
  <2>1. held[t] \in Accepted /\ consumed[held[t]] = 0
    BY <1>9 DEF WaitReturns, Control, Tracking, TrackedOnce, Has
  <2>2. m_state' = m_state /\ ~(m_state \in {"Stopped", "Failed"})
    BY <1>9, <2>1 DEF WaitReturns, ShutdownInOrder, ShutdownComplete
  <2> QED
    BY <2>2
<1>10. ASSUME NEW t \in Threads, ReleaseConsumer(t) PROVE AllConsumed'
  BY <1>10 DEF ReleaseConsumer, NotifyIdle, Accepted
<1>11. ASSUME NEW t \in Threads, DrainSwaps(t) PROVE AllConsumed'
  BY <1>11 DEF DrainSwaps, StopJobs, Accepted
<1>12. ASSUME NEW t \in Threads, DrainConsumes(t) PROVE AllConsumed'
  <2>1. Head(drained[t]) \in Elems(drained[t])
    BY <1>12, ElemsNone DEF DrainConsumes, ThreadTypes
  <2>2. Head(drained[t]) \in Accepted /\ consumed[Head(drained[t])] = 0
    BY <2>1 DEF Tracking, TrackedOnce, Has
  <2>3. m_state' = m_state /\ ~(m_state \in {"Stopped", "Failed"})
    BY <1>12, <2>2 DEF DrainConsumes, ShutdownInOrder, ShutdownComplete
  <2> QED
    BY <2>3
<1>13. ASSUME NEW t \in Threads, DrainClears(t) PROVE AllConsumed'
  BY <1>13 DEF DrainClears, Accepted
<1>14. ASSUME NEW t \in Threads, JobsDrained(t) PROVE AllConsumed'
  BY <1>14 DEF JobsDrained, Accepted
<1>15. ASSUME NEW t \in Threads, DrainSleeps(t) PROVE AllConsumed'
  BY <1>15 DEF DrainSleeps, Accepted
<1>16. ASSUME NEW t \in Threads, DrainEnds(t) PROVE AllConsumed'
  <2>1. Cardinality(Waiting) = 0
    BY <1>16 DEF DrainEnds, WaitersGone, ConsumersCounted
  <2>2. Waiting = {}
    BY <2>1, WaitingFinite, FS_EmptySet
  <2>3. \A u \in Threads : held[u] = NoTask
    BY <2>2 DEF Waiting, InWait, Control
  <2>4. \A u \in Threads : drained[u] = <<>>
    BY <1>16 DEF DrainEnds, Control, Swapped
  <2>5. m_pending_tasks = <<>>
    BY <1>16 DEF DrainEnds, Control, Swapped, Stages
  <2>6. NoTask \notin Accepted
    BY DEF NoTask, Accepted
  <2>7. \A id \in Accepted : consumed[id] = 1
    BY <2>3, <2>4, <2>5, <2>6, ElemsEmpty DEF Tracking, TrackedOnce, Has
  <2> QED
    BY <1>16, <2>7 DEF DrainEnds, Accepted
<1>17. ASSUME NEW t \in Threads, SpuriousWakeUp(t) PROVE AllConsumed'
  BY <1>17 DEF SpuriousWakeUp, Accepted
<1>18. ASSUME NEW id \in TaskIds, TaskEnds(id) PROVE AllConsumed'
  BY <1>18 DEF TaskEnds, Accepted
<1> QED
  BY <1>1, <1>2, <1>3, <1>4, <1>5, <1>6, <1>7, <1>8, <1>9,
     <1>10, <1>11, <1>12, <1>13, <1>14, <1>15, <1>16, <1>17, <1>18
     DEF Next, Begins, Continues

(* No more threads wait than there are.                                    *)
WaitingBounded == Cardinality(Waiting) \in 0 .. Cardinality(Threads)

(* The same of the state a step leads to.                                  *)
LEMMA WaitingBoundedNext ==
  WaitingBounded'
<1>1. WaitingBounded
  BY WaitingFinite DEF WaitingBounded
<1> QED
  BY <1>1, PTL

(* Every variable of the supervisor keeps its type.                        *)
LEMMA TypesNext ==
  IInv /\ Next => TypeOK'
<1> SUFFICES ASSUME IInv, Next PROVE TypeOK'
  OBVIOUS
<1> USE DEF IInv, TypeOK, ThreadTypes, vars, supervisorVars, executorVars,
           threadVars, Goto
<1>0. m_active_consumers' \in 0 .. Cardinality(Threads)
  BY ConsumersNext, WaitingBoundedNext DEF ConsumersCounted, WaitingBounded
<1>1. ASSUME NEW t \in Threads, Start(t) PROVE TypeOK'
  BY <1>0, <1>1, SupervisorAssumption DEF Start
<1>2. ASSUME NEW t \in Threads, Submit(t) PROVE TypeOK'
  <2>1. /\ m_pending_tasks' \in Seq(TaskIds)
        /\ Len(m_pending_tasks') = Len(m_pending_tasks) + 1
    BY <1>2, AppendProperties DEF Submit
  <2>2. m_next_task_id' \in 1 .. MaxTasks + 1
    BY <1>2, SupervisorAssumption DEF Submit, TaskIds
  <2>3. Len(m_pending_tasks') <= MaxPending
    BY <1>2, <2>1, SupervisorAssumption, LenProperties DEF Submit
  <2> QED
    BY <1>0, <1>2, <2>1, <2>2, <2>3 DEF Submit
<1>3. ASSUME NEW t \in Threads, WaitTakes(t) PROVE TypeOK'
  <2>1. PICK i \in DOMAIN m_pending_tasks :
          /\ held' = [held EXCEPT ![t] = m_pending_tasks[i]]
          /\ m_pending_tasks' = Erase(i)
    BY <1>3 DEF WaitTakes
  <2>2. m_pending_tasks[i] \in TaskIds
    OBVIOUS
  <2>3. /\ m_pending_tasks' \in Seq(TaskIds)
        /\ Len(m_pending_tasks') <= MaxPending
    <3>1. /\ m_pending_tasks' \in Seq(TaskIds)
          /\ Len(m_pending_tasks') < Len(m_pending_tasks)
      BY <2>1, ElemsErase DEF Tracking
    <3> QED
      BY <3>1, SupervisorAssumption, LenProperties
  <2> QED
    BY <1>0, <1>3, <2>1, <2>2, <2>3 DEF WaitTakes
<1>4. ASSUME NEW t \in Threads, NEW source \in Sources, ReportFailure(t, source)
      PROVE  TypeOK'
  BY <1>0, <1>4, SupervisorAssumption DEF ReportFailure, RecordFailure, KeepFirst, StopState
<1>5. ASSUME NEW t \in Threads, SignalStop(t) PROVE TypeOK'
  BY <1>0, <1>5, SupervisorAssumption DEF SignalStop
<1>6. ASSUME NEW t \in Threads, DrainLocks(t) PROVE TypeOK'
  BY <1>0, <1>6, SupervisorAssumption DEF DrainLocks
<1>7. ASSUME NEW t \in Threads, RecordJobFailure(t) PROVE TypeOK'
  BY <1>0, <1>7 DEF RecordJobFailure, RecordFailure, KeepFirst, StopState,
                   Sources
<1>8. ASSUME NEW t \in Threads, RequestStop(t) PROVE TypeOK'
  BY <1>0, <1>8, SupervisorAssumption DEF RequestStop, StopJobs, StopState
<1>9. ASSUME NEW t \in Threads, WaitReturns(t) PROVE TypeOK'
  BY <1>0, <1>9, SupervisorAssumption DEF WaitReturns, TakeResult
<1>10. ASSUME NEW t \in Threads, ReleaseConsumer(t) PROVE TypeOK'
  BY <1>0, <1>10, SupervisorAssumption DEF ReleaseConsumer, NotifyIdle
<1>11. ASSUME NEW t \in Threads, DrainSwaps(t) PROVE TypeOK'
  <2>1. /\ m_pending_tasks' \in Seq(TaskIds)
        /\ Len(m_pending_tasks') <= MaxPending
    <3>1. <<>> \in Seq(TaskIds) /\ Len(<<>>) <= MaxPending
      BY SupervisorAssumption
    <3> QED
      BY <1>11, <3>1 DEF DrainSwaps
  <2>2. /\ UNCHANGED <<m_failure, m_next_task_id, m_active_consumers, stop_token, held>>
        /\ drain_holder' \in {drain_holder, NoThread}
        /\ m_state' \in {m_state, "Draining"}
        /\ jobs_state' \in {jobs_state, "StopRequested"}
    BY <1>11 DEF DrainSwaps, StopJobs
  <2> QED
    BY <1>0, <2>1, <2>2
<1>12. ASSUME NEW t \in Threads, DrainConsumes(t) PROVE TypeOK'
  BY <1>0, <1>12, SupervisorAssumption DEF DrainConsumes, TakeResult
<1>13. ASSUME NEW t \in Threads, DrainClears(t) PROVE TypeOK'
  BY <1>0, <1>13, SupervisorAssumption DEF DrainClears
<1>14. ASSUME NEW t \in Threads, JobsDrained(t) PROVE TypeOK'
  BY <1>0, <1>14, SupervisorAssumption DEF JobsDrained
<1>15. ASSUME NEW t \in Threads, DrainSleeps(t) PROVE TypeOK'
  BY <1>0, <1>15, SupervisorAssumption DEF DrainSleeps
<1>16. ASSUME NEW t \in Threads, DrainEnds(t) PROVE TypeOK'
  BY <1>0, <1>16, SupervisorAssumption DEF DrainEnds, WaitersGone
<1>17. ASSUME NEW t \in Threads, SpuriousWakeUp(t) PROVE TypeOK'
  BY <1>0, <1>17, SupervisorAssumption DEF SpuriousWakeUp
<1>18. ASSUME NEW id \in TaskIds, TaskEnds(id) PROVE TypeOK'
  BY <1>0, <1>18, SupervisorAssumption DEF TaskEnds
<1> QED
  BY <1>1, <1>2, <1>3, <1>4, <1>5, <1>6, <1>7, <1>8, <1>9,
     <1>10, <1>11, <1>12, <1>13, <1>14, <1>15, <1>16, <1>17, <1>18
     DEF Next, Begins, Continues

(* The parts together say that the shutdown happens in order.              *)
LEMMA ShutdownNext ==
  IInv /\ Next => ShutdownInOrder'
<1> SUFFICES ASSUME IInv, Next PROVE ShutdownInOrder'
  OBVIOUS
<1>1. WaitBeforeShutdown' /\ AllConsumed' /\ Stages' /\ Tracking' /\ TypeOK'
  BY WaitsNext, AllConsumedNext, StagesNext, TrackingNext, TypesNext
<1>2. JobsFollowSupervisor'
  BY <1>1 DEF Stages, JobsFollowSupervisor, Stoppable
<1>3. Accepted' \subseteq TaskIds
  <2>1. PICK n \in 1 .. MaxTasks + 1 : n = m_next_task_id'
    BY <1>1 DEF TypeOK
  <2>2. 1 .. n - 1 \subseteq 1 .. MaxTasks
    BY SupervisorAssumption
  <2> QED
    BY <2>1, <2>2 DEF Accepted, TaskIds
<1>4. ShutdownComplete'
  BY <1>1, <1>3 DEF Stages, Tracking, AllConsumed, ShutdownComplete
<1> QED
  BY <1>1, <1>2, <1>4 DEF ShutdownInOrder

(* The initial state satisfies the inductive invariant.                    *)
LEMMA InitEstablishes ==
  Init => IInv
<1> SUFFICES ASSUME Init PROVE IInv
  OBVIOUS
<1> USE DEF Init
<1>1. Waiting = {} /\ Cardinality(Waiting) = 0
  <2>1. Waiting = {}
    BY DEF Waiting, InWait
  <2> QED
    BY <2>1, FS_EmptySet
<1>2. ConsumersCounted
  BY <1>1 DEF ConsumersCounted
<1>3. TypeOK
  <2>1. m_active_consumers \in 0 .. Cardinality(Threads)
    BY <1>2, WaitingFinite DEF ConsumersCounted
  <2>2. /\ m_pending_tasks \in Seq(TaskIds) /\ Len(m_pending_tasks) <= MaxPending
        /\ m_next_task_id \in 1 .. MaxTasks + 1
    BY SupervisorAssumption
  <2> QED
    BY <2>1, <2>2 DEF TypeOK
<1>4. ThreadTypes
  BY DEF ThreadTypes, Labels
<1>5. Accepted = {}
  BY DEF Accepted
<1>6. Tracking
  BY <1>5, ElemsEmpty DEF Tracking
<1>7. Control
  BY DEF Control, Swapped, Stopping
<1>8. Stages
  BY DEF Stages, Stoppable
<1>9. ShutdownInOrder
  BY DEF ShutdownInOrder, WaitBeforeShutdown, JobsFollowSupervisor, ShutdownComplete
<1> QED
  BY <1>2, <1>3, <1>4, <1>6, <1>7, <1>8, <1>9 DEF IInv

(* A step that changes nothing preserves everything.                       *)
LEMMA StutterPreserves ==
  ASSUME IInv, UNCHANGED vars
  PROVE  IInv'
<1> USE DEF vars, supervisorVars, executorVars, threadVars, IInv
<1>1. TypeOK' /\ ThreadTypes'
  BY DEF TypeOK, ThreadTypes
<1>2. Tracking'
  BY TrackingUntouched
<1>3. Control' /\ Stages'
  BY DEF Control, Swapped, Stopping, Stages
<1>4. ConsumersCounted'
  BY DEF ConsumersCounted, Waiting, InWait
<1>5. ShutdownInOrder'
  BY DEF ShutdownInOrder, WaitBeforeShutdown, InWait, JobsFollowSupervisor,
         ShutdownComplete, Accepted
<1> QED
  BY <1>1, <1>2, <1>3, <1>4, <1>5

-----------------------------------------------------------------------------
(* The theorems.                                                           *)

(* The inductive invariant holds in every reachable state.                 *)
THEOREM Invariance ==
  Spec => []IInv
<1>1. IInv /\ Next => IInv'
  BY ThreadTypesNext, TypesNext, TrackingNext, ControlNext, StagesNext,
     ConsumersNext, ShutdownNext DEF IInv
<1>2. IInv /\ [Next]_vars => IInv'
  BY <1>1, StutterPreserves
<1> QED
  BY <1>2, InitEstablishes, PTL DEF Spec

(* Each member of runtime_supervisor.cpp keeps its type: in particular     *)
(* m_active_consumers never underflows.                                    *)
THEOREM TypeCorrect ==
  Spec => []TypeOK
<1>1. IInv => TypeOK
  BY DEF IInv
<1> QED
  BY <1>1, Invariance, PTL

(* The tracking that the inductive invariant describes by exclusion is the *)
(* count of AcceptedTasksTracked.                                          *)
LEMMA TrackedCount ==
  ASSUME IInv, NEW id \in Accepted
  PROVE  Trackers(id) = 1
<1> DEFINE P == {i \in DOMAIN m_pending_tasks : m_pending_tasks[i] = id}
           H == {t \in Threads : held[t] = id}
           D == {t \in Threads : \E i \in DOMAIN drained[t] : drained[t][i] = id}
<1>1. TrackedOnce(id) /\ Distinct(m_pending_tasks)
  BY DEF IInv, Tracking
<1>2. /\ P # {} <=> id \in Elems(m_pending_tasks)
      /\ \A t \in Threads : t \in D <=> id \in Elems(drained[t])
  BY DEF Elems
<1>3. Trackers(id) = Cardinality(P) + Cardinality(H) + Cardinality(D) + consumed[id]
  BY DEF Trackers
<1>4. /\ P = {} \/ \E x : P = {x}
      /\ H = {} \/ \E x : H = {x}
      /\ D = {} \/ \E x : D = {x}
  <2>1. P = {} \/ \E x : P = {x}
    <3>1. \A i, j \in P : i = j
      BY <1>1 DEF Distinct
    <3> QED
      BY <3>1
  <2>2. \A t, u \in H : t = u
    BY <1>1 DEF TrackedOnce, Has
  <2>3. \A t, u \in D : t = u
    BY <1>1, <1>2 DEF TrackedOnce, Has
  <2> HIDE DEF P, H, D
  <2>4. H = {} \/ \E x : H = {x}
    BY <2>2
  <2>5. D = {} \/ \E x : D = {x}
    BY <2>3
  <2> QED
    BY <2>1, <2>4, <2>5
<1>5. /\ P # {} => H = {} /\ D = {} /\ consumed[id] = 0
      /\ H # {} => P = {} /\ D = {} /\ consumed[id] = 0
      /\ D # {} => P = {} /\ H = {} /\ consumed[id] = 0
      /\ P = {} /\ H = {} /\ D = {} => consumed[id] = 1
  <2> HIDE DEF P, D
  <2>1. \A t \in Threads : t \in H \cup D <=> Has(t, id)
    BY <1>2 DEF Has
  <2>2. H \subseteq Threads /\ D \subseteq Threads
    BY DEF D
  <2>3. P # {} => H = {} /\ D = {} /\ consumed[id] = 0
    BY <1>1, <1>2, <2>1, <2>2 DEF TrackedOnce
  <2>4. H # {} \/ D # {} => P = {} /\ consumed[id] = 0
    BY <1>1, <1>2, <2>1, <2>2 DEF TrackedOnce
  <2>5. H = {} \/ D = {}
    <3>1. \A t, u \in Threads : t \in H /\ u \in D => t = u /\ t \in D
      BY <1>1, <2>1 DEF TrackedOnce
    <3> QED
      BY <1>1, <1>2, <2>2, <3>1 DEF TrackedOnce
  <2>6. P = {} /\ H = {} /\ D = {} => consumed[id] = 1
    BY <1>1, <1>2, <2>1 DEF TrackedOnce
  <2> QED
    BY <2>3, <2>4, <2>5, <2>6
<1> HIDE DEF P, H, D
<1>6. /\ Cardinality(P) = IF P = {} THEN 0 ELSE 1
      /\ Cardinality(H) = IF H = {} THEN 0 ELSE 1
      /\ Cardinality(D) = IF D = {} THEN 0 ELSE 1
  BY <1>4, FS_EmptySet, FS_Singleton
<1> QED
  BY <1>3, <1>5, <1>6

(* Every task accepted before the stop is in the registry, held by one     *)
(* Wait, swapped out by one Drain or consumed, in exactly one of these     *)
(* places and exactly once, whatever the order of Submit, Wait, Drain and  *)
(* failures (RuntimeSupervisor::Submit, Wait, Drain, ConsumePendingTasks). *)
THEOREM TasksTracked ==
  Spec => []AcceptedTasksTracked
<1>1. IInv => AcceptedTasksTracked
  BY TrackedCount DEF AcceptedTasksTracked
<1> QED
  BY <1>1, Invariance, PTL

(* Waits end before the drain does, the JobRuntime stops before it, and    *)
(* when the supervisor is Stopped or Failed every accepted task has ended  *)
(* and was consumed (RuntimeSupervisor::Drain, Wait, RequestStop).         *)
THEOREM OrderlyShutdown ==
  Spec => []ShutdownInOrder
<1>1. IInv => ShutdownInOrder
  BY DEF IInv
<1> QED
  BY <1>1, Invariance, PTL
=============================================================================
