---------------------------- MODULE WorkerTicks ----------------------------
(***************************************************************************)
(* The programs that tick the ECS world on a job runtime:                   *)
(*   integration  stage3_multicore_integration: phases of ticks, each with  *)
(*                its own supervisor and number of workers, fresh snapshots *)
(*                and a thread-local scratch arena in every worker;         *)
(*   host         stage3_carbon_host_integration: one phase on a reused     *)
(*                task graph, snapshot and journals, between the start and  *)
(*                the shutdown of the Carbon host;                          *)
(* and two callers that use a component in any order its interface allows:  *)
(*   owner        an EcsWorld and a vector of journals,                     *)
(*   arena        a ScratchAllocator.                                       *)
(* The supervisor and the frame exchange are modules of their own; here     *)
(* they are what the programs see of them.                                  *)
(***************************************************************************)
EXTENDS EcsWorld, ScratchAllocator, ThreadBudget

CONSTANTS
    Drivers,        \* the programs and callers above
    Entities,       \* INTEGRATION_ENTITY_COUNT, HOST_ENTITY_COUNT
    Ticks,          \* INTEGRATION_TICK_COUNT, HOST_TICK_COUNT
    MaxWorkers,     \* MAX_INTEGRATION_WORKERS, HOST_MAX_WORKERS
    TickCapacity,   \* TICK_SCRATCH_CAPACITY
    RecordSize,     \* sizeof(ScratchTickRecord)
    RecordAlign,    \* alignof(ScratchTickRecord)
    MaxPumps,       \* MAX_DRAIN_PUMPS
    CpuCounts,      \* CPUs the process may be given
    MaxCpuChanges,  \* bound: changes of the CPU set while a program runs
    MaxPending,     \* bound: resources the Carbon host is ever asked for
    MaxJournals,    \* bound: journals the owner's vector holds
    Counts,         \* the worker counts the owner builds journals for
    MaxMerges,      \* bound: merges that succeed under the owner
    Sizes           \* the sizes a caller allocates

ASSUME TicksAssumption ==
    /\ Drivers \subseteq {"integration", "host", "owner", "arena"}
    /\ Entities \in Nat /\ Ticks \in Nat /\ MaxWorkers \in Nat \ {0}
    /\ MaxJournals \in Nat /\ MaxMerges \in Nat /\ MaxPumps \in Nat
    /\ MaxCpuChanges \in Nat /\ MaxPending \in Nat
    /\ TickCapacity \in Nat /\ RecordSize \in Nat /\ RecordAlign \in Nat \ {0}
    /\ CpuCounts \subseteq Nat /\ Sizes \subseteq Nat

(* The programs ask for no more than the world can merge: 10'000 entities *)
(* and 4 workers of 1'000'000 updates and 64 workers.                     *)
ASSUME FitsAssumption ==
    Entities <= MaxUpdates /\ MaxWorkers <= MaxWorldWorkers

VARIABLES
    driver,    \* which program this is
    pc,        \* where its main thread is
    step,      \* captures of the budget made before the ticks
    budget,    \* the ThreadBudget
    schedule,  \* worker counts of the phases to come
    phase,     \* phases begun
    workers,   \* worker_count of the running supervisor, 0 without one
    left,      \* ticks left in the phase
    tick,      \* ticks merged
    world,     \* EcsWorld
    snapshot,  \* WorldSnapshot
    journals,  \* std::vector<EcsJournal>
    task,      \* worker -> what became of its task
    thread,    \* executor thread -> the worker whose task it runs, or Nobody
    arenas,    \* executor thread -> its thread-local ScratchAllocator
    cpus,      \* CPUs the process has
    changes,   \* how often that number changed
    host,      \* the Carbon host: "none", "started", "checking", "drained", "prepared"
    pending,   \* resources it still loads (GetPendingLoads)
    queued,    \* loaded ones the main thread has to prepare (GetPendingPrepares)
    latent,    \* resources that others, or callbacks, will still ask for
    pumps,     \* rounds of DrainResourceQueue
    error      \* the exception that ended the last call

budgetVars == <<step, budget, cpus, changes>>
hostVars == <<host, pending, queued, latent, pumps>>
jobVars == <<task, thread, arenas>>
ecsVars == <<world, snapshot, journals>>
planVars == <<schedule, phase, workers, left, tick>>
vars == <<driver, pc, error, budgetVars, hostVars, jobVars, ecsVars, planVars>>

Program == driver \in {"integration", "host"}

-----------------------------------------------------------------------------
(* Start-up. *)

NoWorld == <<>>
Nobody == MaxWorkers
NoArena == NewArena(Nobody, 0)
Threads == 0..(MaxWorkers - 1)

(* Blue and Tracy, as far as a worker and the headroom remain. *)
SoftReservations(count) == Least(2, IF count > 3 THEN count - 3 ELSE 0)

(* The captures before the ticks; the host also starts between two of them. *)
Captures == IF driver = "host" THEN 5 ELSE 1
CapturesBeforeStart == 2

Init ==
    /\ driver \in Drivers
    /\ pc = IF Program THEN "capture" ELSE driver
    /\ cpus \in CpuCounts
    /\ budget = NewBudget(1, IF driver = "host" THEN SoftReservations(cpus) ELSE 0, 1)
    /\ step = 0 /\ changes = 0
    /\ schedule = <<>> /\ phase = 0 /\ workers = 0 /\ left = 0 /\ tick = 0
    /\ world = NoWorld /\ snapshot = NoWorld /\ journals = <<>>
    /\ task = [w \in Threads |-> "none"]
    /\ thread = [t \in Threads |-> Nobody]
    /\ arenas = [t \in Threads |->
                    IF driver = "arena" THEN NewArena(t, TickCapacity) ELSE NoArena]
    /\ host = "none" /\ pending = 0 /\ queued = 0 /\ latent = 0 /\ pumps = 0
    /\ error = ""

(* An exception leaves main: the supervisor is drained on the way, and a *)
(* host that has started is aborted.                                     *)
Exit(why) ==
    /\ pc' = "exit" /\ error' = why /\ workers' = 0

(* One Capture of the process's threads and CPUs (CapturePlatformSnapshot). *)
CaptureBudget ==
    /\ pc = "capture" /\ step < Captures
    /\ driver = "host" => (step = CapturesBeforeStart => host = "started")
    /\ \/ /\ CanCapture(budget, step + 1, cpus)
          /\ budget' = Capture(budget, step + 1, cpus)
          /\ step' = step + 1
          /\ pc' = IF step' = Captures THEN "plan" ELSE pc
          /\ UNCHANGED <<error, workers>>
       \/ Exit("budget") /\ UNCHANGED <<step, budget>>
    /\ UNCHANGED <<driver, schedule, phase, left, tick, ecsVars, jobVars, cpus, changes,
                   hostVars>>

(* Python, Blue and the bridge come up, or one of them throws. *)
StartHost ==
    /\ pc = "capture" /\ driver = "host" /\ step = CapturesBeforeStart /\ host = "none"
    /\ \/ host' = "started" /\ UNCHANGED <<pc, error, workers>>
       \/ Exit("host") /\ UNCHANGED host
    /\ \E loads, later \in 0..MaxPending :
          loads + later <= MaxPending /\ pending' = loads /\ latent' = later
    /\ UNCHANGED <<driver, schedule, phase, left, tick, ecsVars, jobVars, budgetVars,
                   queued, pumps>>

(* The operating system gives the process another CPU set. *)
CpuSetChanges ==
    /\ Program /\ pc # "exit" /\ changes < MaxCpuChanges
    /\ \E n \in CpuCounts \ {cpus} : cpus' = n
    /\ changes' = changes + 1
    /\ UNCHANGED <<driver, pc, error, step, budget, hostVars, jobVars, ecsVars, planVars>>

Orders(n) == {p \in [1..n -> 1..n] : \A i, j \in 1..n : p[i] = p[j] => i = j}

(* BuildWorkerSchedule shuffles 1..limit; the host takes what was asked for. *)
Plan ==
    /\ pc = "plan"
    /\ LET available == AvailableWorkerCount(budget)
           limit == Least(MaxWorkers, available)
       IN \/ driver = "integration" /\ limit > 0
             /\ schedule' \in Orders(limit) /\ pc' = "phase"
             /\ UNCHANGED <<error, workers>>
          \/ /\ driver = "host"
             /\ \E requested \in 0..MaxWorkers :
                   LET count == IF requested = 0 THEN Least(1, available) ELSE requested
                   IN IF count \in 1..available
                      THEN /\ schedule' = <<count>> /\ pc' = "phase"
                           /\ UNCHANGED <<error, workers>>
                      ELSE /\ Exit(IF requested = 0 THEN "headroom" ELSE "request")
                           /\ UNCHANGED schedule
          \/ /\ driver = "integration" /\ limit = 0
             /\ Exit("headroom") /\ UNCHANGED schedule
    /\ world' = NewEntities(0, Entities)
    /\ UNCHANGED <<driver, phase, left, tick, snapshot, journals, jobVars, budgetVars,
                   hostVars>>

-----------------------------------------------------------------------------
(* Ticks. *)

Phases == phase + Len(schedule)

(* The share of the ticks that goes to the next phase. *)
PhaseTicks ==
    Ticks \div Phases + (IF phase < Ticks % Phases THEN 1 ELSE 0)

Remeasured_Mutant == budget

Remeasured == Capture(budget, step + 1, cpus)

(* RuntimeSupervisor, JobRuntime::PrepareWorkerCount: measure, then reserve. *)
BeginPhase ==
    /\ pc = "phase" /\ schedule # <<>>
    /\ \/ /\ CanCapture(budget, step + 1, cpus)
          /\ budget' = Remeasured
          /\ IF CanReserveWorkers(budget', Head(schedule))
             THEN /\ workers' = Head(schedule) /\ pc' = "tick" /\ UNCHANGED error
             ELSE Exit("reserve")
       \/ Exit("budget") /\ UNCHANGED budget
    /\ schedule' = Tail(schedule)
    /\ left' = PhaseTicks
    /\ phase' = phase + 1
    /\ arenas' = [t \in Threads |-> NoArena]
    /\ snapshot' = IF driver = "host" THEN world ELSE snapshot
    /\ journals' = [w \in 1..Head(schedule) |-> NoJournal]
    /\ UNCHANGED <<driver, tick, world, task, thread, step, cpus, changes, hostVars>>

(* RunTick: a snapshot and empty journals, or the ones of the tick before; *)
(* then a task for every worker is submitted and main waits.               *)
SubmitTasks ==
    /\ pc = "tick" /\ left > 0
    /\ snapshot' = IF driver = "host" THEN snapshot ELSE world
    /\ journals' = IF driver = "host" THEN journals
                   ELSE [w \in 1..workers |-> NoJournal]
    /\ task' = [w \in Threads |-> IF w < workers THEN "ready" ELSE "none"]
    /\ pc' = "wait"
    /\ UNCHANGED <<driver, error, planVars, world, thread, arenas, budgetVars, hostVars>>

(* An executor thread takes any task that is ready. *)
TakeTask(t, w) ==
    /\ t < workers /\ thread[t] = Nobody /\ task[w] = "ready"
    /\ thread' = [thread EXCEPT ![t] = w]
    /\ task' = [task EXCEPT ![w] = IF driver = "host" THEN "build" ELSE "scratch"]
    /\ UNCHANGED <<driver, pc, error, arenas, ecsVars, planVars, budgetVars, hostVars>>

(* UseWorkerScratch on the thread's own arena, made at its first use. *)
UseWorkerScratch(t) ==
    /\ thread[t] # Nobody /\ task[thread[t]] = "scratch"
    /\ LET arena == Emptied(IF arenas[t] = NoArena THEN NewArena(t, TickCapacity)
                            ELSE arenas[t])
       IN /\ ValidateCapacity(TickCapacity) /\ AssertOwner(arena, t)
          /\ ~Exceeds(arena, RecordSize, RecordAlign)
          /\ arenas' = [arenas EXCEPT ![t] =
                           Emptied(Allocated(arena, RecordSize, RecordAlign))]
    /\ task' = [task EXCEPT ![thread[t]] = "build"]
    /\ UNCHANGED <<driver, pc, error, thread, ecsVars, planVars, budgetVars, hostVars>>

(* The task's journal, in its own element of the vector. *)
BuildJournal(t) ==
    /\ thread[t] # Nobody /\ task[thread[t]] = "build"
    /\ journals' = [journals EXCEPT ![thread[t] + 1] =
                       BuildTransformJournal(snapshot, thread[t], workers)]
    /\ task' = [task EXCEPT ![thread[t]] =
                   IF BuildThrows(snapshot, thread[t], workers) THEN "threw" ELSE "done"]
    /\ thread' = [thread EXCEPT ![t] = Nobody]
    /\ UNCHANGED <<driver, pc, error, arenas, world, snapshot, planVars, budgetVars,
                   hostVars>>

(* The arena, the record or the journal cannot be allocated. *)
TaskThrows(t) ==
    /\ thread[t] # Nobody
    /\ journals' = [journals EXCEPT ![thread[t] + 1].updates = <<>>]
    /\ task' = [task EXCEPT ![thread[t]] = "threw"]
    /\ thread' = [thread EXCEPT ![t] = Nobody]
    /\ UNCHANGED <<driver, pc, error, arenas, world, snapshot, planVars, budgetVars,
                   hostVars>>

Finished == \A t \in Threads : thread[t] = Nobody
NoneThrew == \A w \in Threads : task[w] # "threw"

ApplyJournals_Mutant(states, updates) == states

(* ApplyJournalsToSnapshot: the host's snapshot follows the world. *)
ApplyJournals(states, updates) ==
    [i \in DOMAIN states |-> [states[i] EXCEPT !.value = updates[i].value]]

(* Its checks on the way: order, previous and current values. *)
JournalsAsExpected(states, updates, sequences, now) ==
    /\ Len(updates) = Len(states)
    /\ \A i \in DOMAIN states :
          /\ updates[i].sequence = sequences[i] /\ updates[i].entity = states[i].entity
          /\ states[i].value = i - 1 + now - 1 /\ states[i].delta = 1
          /\ updates[i].value = i - 1 + now

(* VerifyWorldTick, VerifyWorld. *)
VerifyWorld(states, now) ==
    /\ Len(states) = Entities
    /\ \A i \in DOMAIN states : states[i].value = i - 1 + now /\ states[i].delta = 1

(* Wait returns, the journals are merged and the result is verified. *)
MergeTick ==
    /\ pc = "wait" /\ Finished /\ NoneThrew
    /\ \A w \in Threads : task[w] # "ready"
    /\ \E outcome \in MergeJournals(world, journals) :
          LET verified == IF driver = "host"
                          THEN JournalsAsExpected(snapshot, AllUpdates(journals),
                                                  SequenceNumbers(journals), tick + 1)
                          ELSE VerifyWorld(outcome.world, tick + 1)
          IN /\ world' = outcome.world
             /\ tick' = IF outcome.ok THEN tick + 1 ELSE tick
             /\ snapshot' = IF driver = "host" /\ outcome.ok /\ verified
                            THEN ApplyJournals(snapshot, AllUpdates(journals))
                            ELSE snapshot
             /\ IF outcome.ok /\ verified
                THEN pc' = "publish" /\ left' = left - 1 /\ UNCHANGED <<error, workers>>
                ELSE Exit("tick") /\ UNCHANGED left
    /\ task' = [w \in Threads |-> "none"]
    /\ UNCHANGED <<driver, schedule, phase, journals, thread, arenas, budgetVars, hostVars>>

(* A task threw; the executor may drop those that have not begun.  Wait *)
(* rethrows, and the catch drains the supervisor.                       *)
WaitThrows ==
    /\ pc = "wait" /\ Finished /\ ~NoneThrew
    /\ Exit("worker")
    /\ task' = [w \in Threads |-> "none"]
    /\ UNCHANGED <<driver, schedule, phase, left, tick, ecsVars, thread, arenas, budgetVars,
                   hostVars>>

(* The frame of the tick goes to the frame exchange, or times out there; the *)
(* host pumps Blue instead, which throws when Blue is gone.                  *)
PublishTick ==
    /\ pc = "publish"
    /\ \/ pc' = "tick" /\ UNCHANGED <<error, workers>>
       \/ driver = "integration" /\ Exit("frames")
       \/ driver = "host" /\ Exit("host")
    /\ UNCHANGED <<driver, schedule, phase, left, tick, ecsVars, jobVars, budgetVars,
                   hostVars>>

(* RequestStop and Drain at the end of the phase, and the next one. *)
EndPhase ==
    /\ pc = "tick" /\ left = 0
    /\ workers' = 0
    /\ pc' = IF schedule # <<>> THEN "phase"
             ELSE IF driver = "host" THEN "shutdown" ELSE "exit"
    /\ error' = IF schedule = <<>> /\ (tick # Ticks \/ ~VerifyWorld(world, Ticks))
                THEN "tick" ELSE error
    /\ UNCHANGED <<driver, schedule, phase, left, tick, ecsVars, jobVars, budgetVars,
                   hostVars>>

-----------------------------------------------------------------------------
(* Shutdown of the Carbon host.  The resource manager is external: its      *)
(* loader thread leaves a loaded resource to the main thread, which prepares *)
(* it when it pumps the queue; that may ask for resources again.             *)

ResourceLoads ==
    /\ pending > 0 /\ pc # "exit"
    /\ pending' = pending - 1 /\ queued' = queued + 1
    /\ UNCHANGED <<driver, pc, error, host, latent, pumps, jobVars, ecsVars, planVars,
                   budgetVars>>

MorePumps_Mutant == TRUE

MorePumps == pumps < MaxPumps

Draining == pc = "shutdown" /\ host = "started"

(* The inner loop of a round: a resource of the queue is prepared, or the *)
(* queue is empty and the loop ends.                                      *)
PumpMainThreadQueue ==
    /\ Draining /\ MorePumps
    /\ \/ /\ queued > 0 /\ queued' = queued - 1
          /\ \E asked \in 0..latent : pending' = pending + asked /\ latent' = latent - asked
          /\ UNCHANGED host
       \/ queued = 0 /\ host' = "checking" /\ UNCHANGED <<pending, queued, latent>>
    /\ UNCHANGED <<driver, pc, error, pumps, jobVars, ecsVars, planVars, budgetVars>>

(* The end of a round of DrainResourceQueue that finds resources pending, *)
(* loaded since the queue was empty or not.                               *)
DrainAgain ==
    /\ pc = "shutdown" /\ host = "checking" /\ pending + queued > 0
    /\ host' = "started" /\ pumps' = Least(pumps + 1, MaxPumps)
    /\ UNCHANGED <<driver, pc, error, pending, queued, latent, jobVars, ecsVars, planVars,
                   budgetVars>>

(* After the last round nobody looks again. *)
DrainTimesOut ==
    /\ Draining /\ ~MorePumps
    /\ Exit("drain")
    /\ UNCHANGED <<driver, schedule, phase, left, tick, ecsVars, jobVars, budgetVars,
                   hostVars>>

DrainReturns ==
    /\ pc = "shutdown" /\ host = "checking" /\ pending + queued = 0
    /\ host' = "drained"
    /\ UNCHANGED <<driver, pc, error, pending, queued, latent, pumps, jobVars, ecsVars,
                   planVars, budgetVars>>

(* The callbacks are stopped, and what they asked for last is not waited for. *)
PrepareShutdown ==
    /\ pc = "shutdown" /\ host = "drained"
    /\ \E asked \in 0..latent :
          /\ pending' = asked /\ latent' = latent - asked
          /\ IF asked = 0 THEN host' = "prepared" /\ UNCHANGED <<pc, error, workers>>
             ELSE Exit("retained") /\ UNCHANGED host
    /\ UNCHANGED <<driver, queued, pumps, jobVars, ecsVars, schedule, phase, left, tick,
                   budgetVars>>

FinalizeShutdown ==
    /\ pc = "shutdown" /\ host = "prepared"
    /\ Exit("")
    /\ UNCHANGED <<driver, schedule, phase, left, tick, ecsVars, jobVars, budgetVars,
                   hostVars>>

-----------------------------------------------------------------------------
(* The owner of a world, and a caller of an arena.  Calls of the owner that *)
(* throw before they change anything are steps it does not take.            *)

ownerFrame == <<driver, pc, jobVars, schedule, phase, workers, left, budgetVars, hostVars>>

CreateEntities ==
    /\ pc = "owner"
    /\ \E count \in 1..2 : /\ FitsWorld(Len(world), count)
                           /\ world' = world \o NewEntities(Len(world), count)
    /\ error' = ""
    /\ UNCHANGED <<ownerFrame, tick, snapshot, journals>>

CopySnapshot ==
    /\ pc = "owner"
    /\ snapshot' = world /\ error' = ""
    /\ UNCHANGED <<ownerFrame, tick, world, journals>>

(* BuildTransformJournalInto a new element of the vector. *)
AddJournal ==
    /\ pc = "owner" /\ Len(journals) < MaxJournals
    /\ \E count \in Counts, worker \in 0..MaxWorldWorkers :
          /\ ValidWorker(worker, count)
          /\ journals' = Append(journals, BuildTransformJournal(snapshot, worker, count))
          /\ error' = IF BuildThrows(snapshot, worker, count) THEN "overflow" ELSE ""
    /\ UNCHANGED <<ownerFrame, tick, world, snapshot>>

ClearJournals ==
    /\ pc = "owner" /\ journals # <<>>
    /\ journals' = <<>> /\ error' = ""
    /\ UNCHANGED <<ownerFrame, tick, world, snapshot>>

OwnerMerges ==
    /\ pc = "owner" /\ tick < MaxMerges
    /\ \E outcome \in MergeJournals(world, journals) :
          /\ world' = outcome.world
          /\ tick' = IF outcome.ok THEN tick + 1 ELSE tick
          /\ error' = IF outcome.ok THEN "" ELSE "merge"
    /\ UNCHANGED <<ownerFrame, snapshot, journals>>

(* Allocate by any thread: a wrong owner, alignment or size throws, and a *)
(* size of zero returns an empty span.                                    *)
Allocate(t) ==
    /\ pc = "arena"
    /\ \E size \in Sizes, alignment \in 0..(BaseAlignment + 1) :
          IF \/ ~AssertOwner(arenas[0], t) \/ ~ValidateAlignment(alignment)
             \/ size > 0 /\ Exceeds(arenas[0], size, alignment)
          THEN error' = "scratch" /\ UNCHANGED arenas
          ELSE /\ error' = ""
               /\ arenas' = IF size = 0 THEN arenas
                            ELSE [arenas EXCEPT ![0] = Allocated(@, size, alignment)]
    /\ UNCHANGED <<driver, pc, task, thread, ecsVars, planVars, budgetVars, hostVars>>

Reset(t) ==
    /\ pc = "arena" /\ AssertOwner(arenas[0], t)
    /\ arenas' = [arenas EXCEPT ![0] = Emptied(@)] /\ error' = ""
    /\ UNCHANGED <<driver, pc, task, thread, ecsVars, planVars, budgetVars, hostVars>>

-----------------------------------------------------------------------------
MainNext ==
    \/ CaptureBudget \/ StartHost \/ Plan \/ BeginPhase \/ SubmitTasks \/ MergeTick
    \/ WaitThrows \/ PublishTick \/ EndPhase
    \/ PumpMainThreadQueue \/ DrainAgain \/ DrainTimesOut \/ DrainReturns
    \/ PrepareShutdown \/ FinalizeShutdown

WorkerNext ==
    \E t \in Threads :
        \/ \E w \in Threads : TakeTask(t, w)
        \/ UseWorkerScratch(t)
        \/ BuildJournal(t)
        \/ TaskThrows(t)

CallerNext ==
    \/ CreateEntities \/ CopySnapshot \/ AddJournal \/ ClearJournals \/ OwnerMerges
    \/ \E t \in Threads : Allocate(t) \/ Reset(t)

Next == MainNext \/ WorkerNext \/ CallerNext \/ CpuSetChanges \/ ResourceLoads

(* Threads that have something to do go on; resources need never load. *)
Spec == Init /\ [][Next]_vars /\ WF_vars(MainNext) /\ WF_vars(WorkerNext)

-----------------------------------------------------------------------------
(* Properties. *)

TypeOK ==
    /\ pc \in {"capture", "plan", "phase", "tick", "wait", "publish", "shutdown", "exit",
               "owner", "arena"}
    /\ workers \in 0..MaxWorkers /\ tick \in 0..Ticks
    /\ Len(world) <= MaxEntities /\ Len(journals) <= MaxJournals + MaxWorkers
    /\ host \in {"none", "started", "checking", "drained", "prepared"}

(* Whatever the number of workers, the order of their tasks and the place of *)
(* a failure, the world is what sequential ticks make of it: a failed tick   *)
(* leaves no trace, and no tick fails a check of the program (RunTick,       *)
(* RunTicks, BuildTransformJournal, MergeJournals).                          *)
WorldAtTick ==
    Program /\ world # NoWorld =>
        VerifyWorld(world, tick) /\ error # "tick"

(* Journals made from one snapshot for one number of workers are merged *)
(* entirely or not at all, in whatever order the vector holds them,     *)
(* unless two are of the same worker (EcsWorld::MergeJournals).         *)
MergeAllOrNothing ==
    [][(/\ pc = "owner" /\ world' # world /\ Len(world') = Len(world)
        /\ \A i, j \in DOMAIN journals :
               /\ journals[i].of = journals[j].of
               /\ journals[i].count = journals[j].count
               /\ journals[i].worker = journals[j].worker => i = j)
       => error' = "" /\ world' = Sequential(journals[1].of)]_vars

(* The spans handed out since the last Reset lie inside the arena, are *)
(* aligned and do not overlap (ScratchAllocator::Allocate).            *)
SpansDisjoint ==
    \A t \in Threads : \A a \in arenas[t].spans :
        /\ a.end <= arenas[t].capacity /\ a.start % a.alignment = 0
        /\ \A b \in arenas[t].spans : a # b => a.end <= b.start \/ b.end <= a.start

(* Workers that start leave room for the reservations within the CPUs the    *)
(* process has at that moment, however the set has changed since the workers *)
(* were planned, and a host whose CPU set of three or more never changes is  *)
(* not refused its default worker (JobRuntime::PrepareWorkerCount,           *)
(* ThreadBudget, main of the host).                                          *)
HeadroomKept ==
    /\ [][workers = 0 /\ workers' > 0 => workers' + Reserved(budget') <= cpus]_vars
    /\ [](driver = "host" /\ changes = 0 /\ cpus >= 3
           => error \notin {"headroom", "reserve"})

(* The programs end, whatever fails and however slowly resources load, if the *)
(* resources that loaded ones ask for come to an end: MAX_DRAIN_PUMPS bounds  *)
(* the rounds of DrainResourceQueue, and nothing but the number of resources  *)
(* (MaxPending) the loop inside a round.                                      *)
ProgramEnds == Program ~> pc = "exit"
=============================================================================
