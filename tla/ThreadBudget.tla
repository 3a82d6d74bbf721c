---------------------------- MODULE ThreadBudget ----------------------------
(***************************************************************************)
(* The thread budget: reservations against the CPUs the process may use, as *)
(* last measured.                                                           *)
(***************************************************************************)
EXTENDS Naturals

CONSTANT MaxSnapshots   \* MAX_SNAPSHOT_COUNT

ASSUME BudgetAssumption == MaxSnapshots \in Nat

NewBudget(hard, soft, headroom) ==
    [hard |-> hard, soft |-> soft, headroom |-> headroom,
     cpus |-> 0, peak |-> 0, snapshots |-> 0]

(* Capture throws on a full list, and when the platform reports nothing. *)
CanCapture(budget, threads, cpus) ==
    budget.snapshots < MaxSnapshots /\ threads > 0 /\ cpus > 0

Capture(budget, threads, cpus) ==
    [budget EXCEPT !.cpus = cpus,
                   !.peak = IF threads > @ THEN threads ELSE @,
                   !.snapshots = @ + 1]

Reserved(budget) == budget.hard + budget.soft + budget.headroom

AvailableWorkerCount_Mutant(budget) ==
    IF budget.hard + budget.soft >= budget.cpus THEN 0
    ELSE budget.cpus - budget.hard - budget.soft

AvailableWorkerCount(budget) ==
    IF Reserved(budget) >= budget.cpus THEN 0 ELSE budget.cpus - Reserved(budget)

CanReserveWorkers(budget, requested) ==
    requested > 0 /\ requested <= AvailableWorkerCount(budget)
=============================================================================
