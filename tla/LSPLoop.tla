------------------------------ MODULE LSPLoop ------------------------------
(***************************************************************************)
(* The scheduling core of the language server: the processing thread of    *)
(* LSPLoop::runLSP, the typechecker thread of LSPTypecheckerCoordinator    *)
(* with the slow path of LSPTypechecker it runs, and the preprocessor      *)
(* thread that fills the task queue, after initialization.                 *)
(*                                                                         *)
(* What an edit does to the typechecker's GlobalState is abstracted to the *)
(* set of client edits the state reflects.                                 *)
(***************************************************************************)
EXTENDS TaskQueue, PreemptionTaskManager

CONSTANT MaxMessages    \* bound on the client messages of one session

ASSUME MaxMessagesIsNat == MaxMessages \in Nat

VARIABLES
    tasks,          \* TaskQueue::pendingTasks
    exit,           \* whether the client ended the session: "none", "normal"
    sent,           \* client messages received so far
    answered,       \* requests responded to
    main,           \* where the processing thread is
    mainTask,       \* the task it popped from the queue
    loops,          \* PreemptionLoop objects scheduled so far
    finished,       \* the last PreemptionLoop whose finished was notified
    pending,        \* edits of LSPIndexer::pendingTypecheckUpdates
    tcQueue,        \* LSPTypecheckerCoordinator::tasks
    tc,             \* where the typechecker thread is
    ret,            \* where it goes on after a preemption point
    stratum,        \* the stratum of the slow path
    outcome,        \* whether tryCommitEpoch committed it
    taken,          \* the preemption task it loaded from the slot
    tcTask,         \* the task the PreemptionLoop is running
    resched,        \* the stratum the PreemptionLoop asked for, -1 for none
    applied,        \* edits the typechecker's GlobalState reflects
    undo,           \* cancellationUndoState: "none", "held", "restored"
    undoApplied     \* applied in the evicted GlobalState

queueVars == <<tasks, exit, sent>>
mainVars == <<main, mainTask, loops>>
tcVars == <<tc, ret, stratum, outcome, taken, tcTask, resched>>
gsVars == <<applied, undo, undoApplied>>
vars == <<epochVars, slotVars, queueVars, mainVars, tcVars, gsVars,
          answered, finished, pending, tcQueue>>

NoTask == [kind |-> "references", path |-> "Slow", files |-> {},
           epoch |-> 0, covers |-> {}]

\* A unit of work of the typechecker thread: a task run by syncRun, an edit run
\* by typecheckOnSlowPath, or the ShutdownTask.  canceled is
\* LSPFileUpdates::canceledSlowPath.
Work == [how : {"sync", "slow", "shutdown"}, task : Task, canceled : BOOLEAN]

Preempting == tc \in {"preempt", "run", "settle"}

\* The typechecker thread is inside typechecker.typecheck of a slow path.
InSlowPath == tc \notin {"idle", "done"}

Init ==
    /\ EpochInit
    /\ SlotInit
    /\ tasks = <<>>
    /\ exit = "none"
    /\ sent = 0
    /\ answered = {}
    /\ main = "idle"
    /\ mainTask = NoTask
    /\ loops = 0
    /\ finished = 0
    /\ pending = {}
    /\ tcQueue = <<>>
    /\ tc = "idle"
    /\ ret = "typecheck"
    /\ stratum = 0
    /\ outcome = TRUE
    /\ taken = 0
    /\ tcTask = NoTask
    /\ resched = -1
    /\ applied = {}
    /\ undo = "none"
    /\ undoApplied = {}

-----------------------------------------------------------------------------
\* The preprocessor thread.

\* preprocessAndEnqueue: only an edit triggers a merge.
Enqueue(kind, path, files) ==
    LET task == [kind |-> kind, path |-> path, files |-> files,
                 epoch |-> sent + 1, covers |-> {sent + 1}]
    IN  /\ exit = "none"
        /\ sent < MaxMessages
        /\ sent' = sent + 1
        /\ IF kind = "edit"
           THEN MergeFileChanges(Append(tasks, task), tasks')
           ELSE tasks' = Append(tasks, task)
        /\ UNCHANGED <<epochVars, slotVars, mainVars, tcVars, gsVars, exit,
                       answered, finished, pending, tcQueue>>

\* cancelRequest erases the canceled task, which may bring two edits together.
AfterCancel(i, r) == MergeFileChanges(WithoutTask(tasks, i), r)

\* CancelRequestTask: the request is answered with an error.
CancelRequest(i) ==
    /\ exit = "none"
    /\ ~IsEdit(tasks[i])
    /\ answered' = answered \cup tasks[i].covers
    /\ AfterCancel(i, tasks')
    /\ UNCHANGED <<epochVars, slotVars, mainVars, tcVars, gsVars, exit, sent,
                   finished, pending, tcQueue>>

\* ExitTask and the end of the preprocessor thread.  The error code of the queue
\* is always 0: ExitTask has no other, and nobody reads the one Watchman sets.
Terminate ==
    /\ exit = "none"
    /\ exit' = "normal"
    /\ UNCHANGED <<epochVars, slotVars, mainVars, tcVars, gsVars, tasks, sent,
                   answered, finished, pending, tcQueue>>

-----------------------------------------------------------------------------
\* The processing thread, the loop of runLSP.

\* taskQueue->ready() with a task to run
MainReady == main = "idle" /\ tasks # <<>>

\* The head of the queue may preempt the running slow path and the slot takes a
\* PreemptionLoop.  The status is checked again under the epoch lock.
WantsPreemption == CanPreempt(tasks[1]) /\ CanSchedule

SchedulePreemption ==
    /\ MainReady
    /\ WantsPreemption
    /\ ScheduleTask(loops + 1)
    /\ loops' = loops + 1
    /\ main' = "await"
    /\ UNCHANGED <<epochVars, queueVars, tcVars, gsVars, mainTask, answered,
                   finished, pending, tcQueue>>

\* What follows the wait: slow edits behind preempting tasks go to the front.
PromoteSlowEdits ==
    \/ /\ \A c \in DOMAIN tasks : ~Promotable(tasks, c)
       /\ tasks' = tasks
    \/ \E c \in DOMAIN tasks : Promotable(tasks, c) /\ Promote(tasks, c, tasks')

\* Await returns, and tryCancelPreemption takes the task back.
AwaitAndCancel ==
    /\ main = "await"
    /\ ~PreemptionPossible(tasks)
    /\ TakeTask(loops)
    /\ PromoteSlowEdits
    /\ main' = "idle"
    /\ UNCHANGED <<epochVars, tcVars, gsVars, exit, sent, mainTask, loops,
                   answered, finished, pending, tcQueue>>

\* Mutant: goes on without waiting for the running task.
AwaitAndWait_NoWait ==
    /\ main = "await"
    /\ ~PreemptionPossible(tasks)
    /\ preemptTask # loops
    /\ main' = "idle"
    /\ UNCHANGED <<epochVars, slotVars, queueVars, tcVars, gsVars, mainTask,
                   loops, answered, finished, pending, tcQueue>>

\* Await returns, and the task has already been taken by the typechecker.
AwaitAndWait ==
    /\ main = "await"
    /\ ~PreemptionPossible(tasks)
    /\ preemptTask # loops
    /\ main' = "waitFinished"
    /\ UNCHANGED <<epochVars, slotVars, queueVars, tcVars, gsVars, mainTask,
                   loops, answered, finished, pending, tcQueue>>

\* finished.WaitForNotification returns and the mutex is taken again.
PreemptionFinished ==
    /\ main = "waitFinished"
    /\ finished = loops
    /\ PromoteSlowEdits
    /\ main' = "idle"
    /\ UNCHANGED <<epochVars, slotVars, tcVars, gsVars, exit, sent, mainTask,
                   loops, answered, finished, pending, tcQueue>>

PopTask ==
    /\ MainReady
    /\ ~WantsPreemption
    /\ mainTask' = Head(tasks)
    /\ tasks' = Tail(tasks)
    /\ main' = "index"
    /\ UNCHANGED <<epochVars, slotVars, tcVars, gsVars, exit, sent, loops,
                   answered, finished, pending, tcQueue>>

\* LSPIndexer::commitEdit of an edit whose path is the one given.  A slow edit
\* cancels the running slow path and takes over its edits; newPath is the path
\* of the two together.
Cancels(task, path) == path = "Slow" /\ CanCancel(task.epoch)

\* Mutant: the pending updates of the canceled slow path are not merged.
Covered_DropsPending(task, path) == task.covers


Covered(task, path) ==
    IF Cancels(task, path) THEN task.covers \cup pending ELSE task.covers

CommitEdit(task, path, newPath) ==
    /\ Cancels(task, path) \/ newPath = path
    /\ IF Cancels(task, path) THEN CancelSlowPath(task.epoch) ELSE UNCHANGED epochVars
    /\ pending' = IF newPath = "Fast" THEN Covered(task, path) \cup pending
                                      ELSE Covered(task, path)

\* The LSPFileUpdates that commitEdit returns, with the way runTask runs it.
Update(task, path, newPath) ==
    [how |-> IF newPath = "Fast" THEN "sync" ELSE "slow",
     task |-> [task EXCEPT !.covers = Covered(task, path), !.path = newPath],
     canceled |-> Cancels(task, path)]

\* The end of runTask: hands the work over and waits.
Dispatch(w) ==
    /\ tcQueue' = Append(tcQueue, w)
    /\ main' = IF w.how = "sync" THEN "sync" ELSE "start"
    /\ mainTask' = NoTask
    /\ UNCHANGED <<slotVars, queueVars, tcVars, gsVars, loops, answered, finished>>

\* runTask of an edit that is indexed by this thread.
RunEdit ==
    /\ main = "index"
    /\ IsEdit(mainTask) /\ mainTask.path # "Huge"
    /\ \E path, newPath \in {"Fast", "Slow"} :
         /\ CommitEdit(mainTask, path, newPath)
         /\ Dispatch(Update(mainTask, path, newPath))

\* runTask of a request, and of an edit that runSpecial indexes later.
RunOther ==
    /\ main = "index"
    /\ IsEdit(mainTask) => mainTask.path = "Huge"
    /\ Dispatch([how |-> IF IsEdit(mainTask) THEN "slow" ELSE "sync",
                 task |-> mainTask, canceled |-> FALSE])
    /\ UNCHANGED <<epochVars, pending>>

\* LSPTypecheckerCoordinator::shutdown, once the queue is drained.
Shutdown ==
    /\ main = "idle"
    /\ exit = "normal"
    /\ tasks = <<>>
    /\ main' = "shutdown"
    /\ tcQueue' = Append(tcQueue, [how |-> "shutdown", task |-> NoTask,
                                   canceled |-> FALSE])
    /\ UNCHANGED <<epochVars, slotVars, queueVars, tcVars, gsVars, mainTask,
                   loops, answered, finished, pending>>

-----------------------------------------------------------------------------
\* The typechecker thread.

\* typechecker.typecheck of an update that canceled a slow path drops the undo
\* state that the canceled slow path left behind.
ConsumedUndo(work) == IF work.canceled THEN "none" ELSE undo

\* A task of syncRun: a request, or an edit on the fast path.
RunSync ==
    LET work == Head(tcQueue)
        edits == IF IsEdit(work.task) THEN work.task.covers ELSE {}
    IN  /\ tc = "idle" /\ tcQueue # <<>>
        /\ work.how = "sync"
        /\ tcQueue' = Tail(tcQueue)
        /\ applied' = applied \cup edits
        /\ answered' = answered \cup (work.task.covers \ edits)
        /\ undo' = ConsumedUndo(work)
        /\ main' = "idle"
        /\ UNCHANGED <<epochVars, slotVars, queueVars, tcVars, undoApplied,
                       mainTask, loops, finished, pending>>

RunShutdown ==
    /\ tc = "idle" /\ tcQueue # <<>>
    /\ Head(tcQueue).how = "shutdown"
    /\ tcQueue' = Tail(tcQueue)
    /\ tc' = "done"
    /\ main' = "done"
    /\ UNCHANGED <<epochVars, slotVars, queueVars, gsVars, mainTask, loops, ret,
                   stratum, outcome, taken, tcTask, resched, answered, finished,
                   pending>>

\* runSpecial: indexes a huge edit, starts the epoch, lets the processing thread
\* go on, saves the undo state and updates the file table.  The first stratum
\* is the one determineMaximumPrefix found.
StartSlowPath ==
    LET work == Head(tcQueue)
    IN  /\ tc = "idle" /\ tcQueue # <<>>
        /\ work.how = "slow"
        /\ tcQueue' = Tail(tcQueue)
        /\ pending' = IF work.task.path = "Huge" THEN work.task.covers ELSE pending
        /\ StartCommitEpoch(work.task.epoch)
        /\ main' = "idle"
        /\ undo' = "held"
        /\ undoApplied' = applied
        /\ applied' = applied \cup work.task.covers
        /\ stratum' \in Strata
        /\ outcome' = TRUE
        /\ tc' = "index"
        /\ UNCHANGED <<slotVars, queueVars, mainTask, loops, ret, taken, tcTask,
                       resched, answered, finished>>

\* Indexes, names and resolves one stratum; every stage may notice a
\* cancellation.
IndexStratum ==
    /\ tc = "index"
    /\ tc' = IF SlowPathWasCanceled THEN "commit" ELSE "typecheck"
    /\ UNCHANGED <<epochVars, slotVars, queueVars, mainVars, gsVars, ret, stratum,
                   outcome, taken, tcTask, resched, answered, finished, pending, tcQueue>>

\* The loop of runSlowPath over the strata goes on.
\* Mutants: one stratum too many, one too few.
MoreStrata_TooMany == stratum <= LastStratum
MoreStrata_TooFew == stratum < LastStratum - 1
MoreStrata == stratum < LastStratum

\* pipeline::typecheck returns, canceled or not.
FinishStratum ==
    /\ tc = "typecheck"
    /\ IF MoreStrata
       THEN stratum' = stratum + 1 /\ tc' = "index"
       ELSE stratum' = stratum /\ tc' = "commit"
    /\ UNCHANGED <<epochVars, slotVars, queueVars, mainVars, gsVars, ret, outcome,
                   taken, tcTask, resched, answered, finished, pending, tcQueue>>

\* tryCommitEpoch, once typecheck() has returned
TryCommitEpoch ==
    /\ tc = "commit"
    /\ CommitEpoch
    /\ outcome' = ~SlowPathWasCanceled
    /\ tc' = "final"
    /\ UNCHANGED <<slotVars, queueVars, mainVars, gsVars, ret, stratum, taken,
                   tcTask, resched, answered, finished, pending, tcQueue>>

\* What runSlowPath leaves of the undo state.  Mutant: it is always freed.
UndoLeft_Freed == "none"
UndoLeft == IF outcome THEN "none" ELSE "restored"

\* The end of runSlowPath: the undo state is freed or restored.
FinishSlowPath ==
    /\ tc = "finish"
    /\ applied' = IF outcome THEN applied ELSE undoApplied
    /\ undo' = UndoLeft
    /\ undoApplied' = {}
    /\ tc' = "idle"
    /\ UNCHANGED <<epochVars, slotVars, queueVars, mainVars, ret, stratum, outcome,
                   taken, tcTask, resched, answered, finished, pending, tcQueue>>

-----------------------------------------------------------------------------
\* The preemption points of the slow path: tryRunScheduledPreemptionTask and the
\* PreemptionLoop it runs.  pipeline::typecheck calls it before and between
\* files, tryCommitEpoch once more at the end, where the task is not deferred.

AllowReschedule == ret = "typecheck"

\* The call at the end of tryCommitEpoch.  Mutant: it is left out.
LastRun_LeftOut == FALSE
LastRun == CanRunAt(stratum, FALSE)

\* The load of the slot, and the early exits of the call.
LoadPreemptTask ==
    /\ \/ /\ tc = "typecheck"
          /\ CanRunAt(stratum, TRUE)
          /\ ret' = "typecheck"
          /\ tc' = "cas"
       \/ /\ tc = "final"
          /\ ret' = "finish"
          /\ tc' = IF LastRun THEN "cas" ELSE "finish"
    /\ taken' = preemptTask
    /\ UNCHANGED <<epochVars, slotVars, queueVars, mainVars, gsVars, stratum,
                   outcome, tcTask, resched, answered, finished, pending, tcQueue>>

\* The compare-and-swap: it fails when the processing thread canceled the task.
SwapPreemptTask ==
    /\ tc = "cas"
    /\ \/ TakeTask(taken) /\ tc' = "preempt"
       \/ preemptTask # taken /\ tc' = ret /\ UNCHANGED slotVars
    /\ resched' = -1
    /\ UNCHANGED <<epochVars, queueVars, mainVars, gsVars, ret, stratum, outcome,
                   taken, tcTask, answered, finished, pending, tcQueue>>

\* PreemptionLoop::run, one round under the queue's mutex: there is nothing to
\* do, or the head of the queue needs a later stratum ...
LeavePreemptionLoop ==
    /\ tc = "preempt"
    /\ \/ ~PreemptionPossible(tasks) /\ resched' = -1
       \/ /\ PreemptionPossible(tasks)
          /\ resched' \in {s \in Strata : s > stratum /\ NeedsStratum(tasks[1], s)}
    /\ tc' = "settle"
    /\ UNCHANGED <<epochVars, slotVars, queueVars, mainVars, gsVars, ret, stratum,
                   outcome, taken, tcTask, answered, finished, pending, tcQueue>>

\* ... or the head of the queue is popped, and indexed if it is an edit.  Its
\* cached decision says Fast; commitEdit is assumed to come to the same one.
PopPreemptingTask ==
    /\ tc = "preempt"
    /\ PreemptionPossible(tasks)
    /\ \E s \in Strata : s <= stratum /\ NeedsStratum(tasks[1], s)
    /\ tcTask' = Head(tasks)
    /\ tasks' = Tail(tasks)
    /\ IF IsEdit(Head(tasks)) THEN CommitEdit(Head(tasks), "Fast", "Fast")
                              ELSE UNCHANGED <<epochVars, pending>>
    /\ tc' = "run"
    /\ UNCHANGED <<slotVars, mainVars, gsVars, exit, sent, ret, stratum, outcome,
                   taken, resched, answered, finished, tcQueue>>

\* task->run outside the mutex.
RunPreemptingTask ==
    /\ tc = "run"
    /\ IF IsEdit(tcTask)
       THEN applied' = applied \cup tcTask.covers /\ answered' = answered
       ELSE answered' = answered \cup tcTask.covers /\ applied' = applied
    /\ tcTask' = NoTask
    /\ tc' = "preempt"
    /\ UNCHANGED <<epochVars, slotVars, queueVars, mainVars, undo, undoApplied,
                   ret, stratum, outcome, taken, resched, finished, pending, tcQueue>>

\* preemptTask->finish().  Mutant: it does not notify after the last run.
Finish_Silent == finished' = IF AllowReschedule THEN taken ELSE finished
Finish == finished' = taken

\* The task goes back to the slot, or is finished.
SettlePreemptTask ==
    /\ tc = "settle"
    /\ IF AllowReschedule /\ resched # -1
       THEN RescheduleTask(taken, resched) /\ finished' = finished
       ELSE Finish /\ UNCHANGED slotVars
    /\ tc' = ret
    /\ UNCHANGED <<epochVars, queueVars, mainVars, gsVars, ret, stratum, outcome,
                   taken, tcTask, resched, answered, pending, tcQueue>>

-----------------------------------------------------------------------------
Preprocessor ==
    \/ \E f \in Files, path \in Paths : Enqueue("edit", path, {f})
    \/ \E f \in Files : Enqueue("hover", "Slow", {f})
    \/ \E kind \in {"symbols", "references"} : Enqueue(kind, "Slow", {})
    \/ \E i \in DOMAIN tasks : CancelRequest(i)
    \/ Terminate

ProcessingThread ==
    \/ SchedulePreemption
    \/ AwaitAndCancel
    \/ AwaitAndWait
    \/ PreemptionFinished
    \/ PopTask
    \/ RunEdit
    \/ RunOther
    \/ Shutdown

TypecheckerThread ==
    \/ RunSync
    \/ RunShutdown
    \/ StartSlowPath
    \/ IndexStratum
    \/ FinishStratum
    \/ TryCommitEpoch
    \/ FinishSlowPath
    \/ LoadPreemptTask
    \/ SwapPreemptTask
    \/ LeavePreemptionLoop
    \/ PopPreemptingTask
    \/ RunPreemptingTask
    \/ SettlePreemptTask

Next == Preprocessor \/ ProcessingThread \/ TypecheckerThread

Spec == Init /\ [][Next]_vars

\* The two threads are never descheduled forever; the client owes nothing.
FairSpec ==
    Spec /\ WF_vars(ProcessingThread) /\ WF_vars(TypecheckerThread)

-----------------------------------------------------------------------------
\* Every variable has the type the code gives it.
TypeOK ==
    /\ processing \in Nat /\ committed \in Nat /\ invalidator \in Nat
    /\ preemptTask \in Nat /\ runnableAt \in Strata
    /\ tasks \in Seq(Task)
    /\ exit \in {"none", "normal"}
    /\ sent \in Nat
    /\ answered \subseteq Nat
    /\ main \in {"idle", "await", "waitFinished", "index", "sync", "start",
                 "shutdown", "done"}
    /\ mainTask \in Task
    /\ loops \in Nat /\ finished \in Nat
    /\ pending \subseteq Nat
    /\ tcQueue \in Seq(Work)
    /\ tc \in {"idle", "index", "typecheck", "commit", "final", "finish", "cas",
               "preempt", "run", "settle", "done"}
    /\ ret \in {"typecheck", "finish"}
    /\ stratum \in Strata
    /\ outcome \in BOOLEAN
    /\ taken \in Nat
    /\ tcTask \in Task
    /\ resched \in Strata \cup {-1}
    /\ applied \subseteq Nat
    /\ undo \in {"none", "held", "restored"}
    /\ undoApplied \subseteq Nat

\* A scheduled preemption task belongs to the processing thread, which is blocked
\* on it, and to a slow path that has not been canceled and has its last
\* preemption point still ahead: nothing is left in the slot for a later slow
\* path to trip over (the ENFORCE of trySchedulePreemptionTask).
SlotOwned ==
    preemptTask # 0 =>
        /\ preemptTask = loops
        /\ main \in {"await", "waitFinished"}
        /\ tc \in {"index", "typecheck", "cas", "commit", "final"}
        /\ ~SlowPathWasCanceled
        /\ tc = "final" => outcome

\* A preemption task only runs while the processing thread is blocked on it, so
\* the indexer is never used by two threads, and never on the half-built
\* GlobalState of a slow path that was canceled: the undo state restored after
\* it would silently drop the edits it applied.
PreemptsLiveSlowPath ==
    Preempting =>
        /\ main \in {"await", "waitFinished"}
        /\ taken = loops /\ finished # loops
        /\ ~SlowPathWasCanceled
        /\ ret = "finish" => outcome

\* The last run of a preemption task, with allowReschedule = false, never leaves
\* a task behind that asked for a later stratum: it would be finished without
\* having run, and the processing thread would wait for it forever.
LastRunDefersNothing ==
    tc = "settle" /\ ret = "finish" => resched = -1

\* An update that canceled a slow path finds the undo state restored by that slow
\* path, any other work finds none (the ENFORCEs of typecheck and runSlowPath).
UndoStateMatches ==
    tc = "idle" =>
        undo = IF tcQueue # <<>> /\ Head(tcQueue).canceled THEN "restored" ELSE "none"

\* Epochs only move forward: the committed epoch is not ahead of the one being
\* processed, which is not ahead of the invalidator, and the epoch of an edit
\* that has yet to start is ahead of all three, which is what the ENFORCEs of
\* startCommitEpoch and tryCancelSlowPath ask.
EpochsAdvance ==
    /\ committed <= processing /\ processing <= invalidator
    /\ \A i \in DOMAIN tasks : IsEdit(tasks[i]) =>
         /\ tasks[i].epoch > invalidator
         /\ \A j \in 1..(i - 1) : IsEdit(tasks[j]) => tasks[j].epoch < tasks[i].epoch
    /\ main = "index" /\ IsEdit(mainTask) => mainTask.epoch > invalidator
    /\ \A i \in DOMAIN tcQueue : tcQueue[i].how = "slow" =>
         tcQueue[i].task.epoch > processing

\* The edits the typechecker will still reflect when the slow path is over.
Doomed == undo = "held" /\ (SlowPathWasCanceled \/ ~outcome)
Durable == IF Doomed THEN undoApplied ELSE applied

QueuedTasks == {tasks[i] : i \in DOMAIN tasks} \cup {mainTask, tcTask}
HandedOver == {tcQueue[i].task : i \in DOMAIN tcQueue}
InFlight == UNION {task.covers : task \in QueuedTasks \cup HandedOver}

\* No message is ever lost or acted on twice: it has been answered, or the
\* typechecker's state reflects it and will not be rolled back without it, or
\* some task that still has to run stands for it, and then no other task of the
\* queue does and it has not been answered.  Merging, promotion, cancellation of
\* requests and of a slow path and the merge of its pending updates all have to
\* keep this up.
NoMessageLost ==
    /\ 1..sent \subseteq answered \cup Durable \cup InFlight
    /\ answered \cap (InFlight \cup applied) = {}
    /\ \A i, j \in DOMAIN tasks :
         i # j => tasks[i].covers \cap tasks[j].covers = {}

\* A slow path comes to an end, committed or canceled, whatever preempts it.
SlowPathEnds == SlowPathRunning ~> ~SlowPathRunning

\* "If it returns true, the task is guaranteed to run": a task in the slot is run
\* to completion, or taken back by the thread that scheduled it.
ScheduledTaskSettles ==
    (preemptTask # 0) ~> (preemptTask = 0 /\ (finished = loops \/ main = "idle"))

\* The processing thread blocks in Await on a PreemptionLoop that is done, because
\* a new preempting task arrived after the loop left and before Await woke up.
MissedWakeup == main = "await" /\ finished = loops /\ PreemptionPossible(tasks)

\* After a normal exit the queue is drained and both threads stop, unless the
\* processing thread missed the wakeup.
DrainsUnlessWakeupMissed == (exit = "normal") ~> (main = "done" \/ MissedWakeup)

\* "Normal termination. Wait until all pending requests finish."
Drains == (exit = "normal") ~> (main = "done")
=============================================================================
