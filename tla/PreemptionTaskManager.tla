----------------------- MODULE PreemptionTaskManager -----------------------
(***************************************************************************)
(* core/lsp/PreemptionTaskManager: the slot through which the processing   *)
(* thread hands a preemption task to a running slow path.  A task is       *)
(* identified by a positive number, the number of PreemptionLoop objects   *)
(* created so far; 0 stands for nullptr.                                   *)
(***************************************************************************)
EXTENDS TypecheckEpochManager

VARIABLES
    preemptTask,    \* the scheduled task, 0 when there is none
    runnableAt      \* the stratum a deferred task waits for

slotVars == <<preemptTask, runnableAt>>

SlotInit ==
    /\ preemptTask = 0
    /\ runnableAt = 0

\* Mutant: the status is not checked under the epoch lock.
CanSchedule_NoStatus == preemptTask = 0

\* When trySchedulePreemptionTask succeeds: it holds the epoch lock, so the
\* status cannot change before the slot is filled.
CanSchedule == SlowPathRunning /\ ~SlowPathWasCanceled /\ preemptTask = 0

ScheduleTask(task) ==
    /\ CanSchedule
    /\ runnableAt' = 0
    /\ preemptTask' = task

\* The load and the early exits of tryRunScheduledPreemptionTask.
CanRunAt(stratum, allowReschedule) ==
    /\ preemptTask # 0
    /\ allowReschedule => stratum >= runnableAt

\* A compare-and-swap of the slot to nullptr, by tryRunScheduledPreemptionTask
\* (which loaded the task before) and by tryCancelScheduledPreemptionTask.
TakeTask(task) ==
    /\ preemptTask = task
    /\ preemptTask' = 0
    /\ UNCHANGED runnableAt

\* A task that could not finish below stratum is put back in the slot.
RescheduleTask(task, stratum) ==
    /\ runnableAt' = stratum
    /\ preemptTask' = task
=============================================================================
