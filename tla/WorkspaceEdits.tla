--------------------------- MODULE WorkspaceEdits ---------------------------
(***************************************************************************)
(* How an edit gets from the task queue to the typechecker:                *)
(* SorbetWorkspaceEditTask (notifications/sorbet_workspace_edit.cc), the   *)
(* processing thread of LSPLoop.cc and the PreemptionLoop of               *)
(* LSPTypecheckerCoordinator.cc around the indexer, and what               *)
(* LSPTypechecker.cc does to the typechecker's own file table.             *)
(*                                                                         *)
(* The scheduling is LSPLoop's, with one stratum and the preemption slot   *)
(* reduced to its state; what the edits contain, which LSPLoop leaves out, *)
(* is here.  A request ("hover") is a task that preempts and keeps the     *)
(* edits around it from being merged.                                      *)
(***************************************************************************)
EXTENDS LSPIndexer, TypecheckEpochManager, Sequences

CONSTANTS
    InitialTables,  \* file tables to begin with
    Edits,          \* what one client message can do to the files
    MaxMessages     \* bound on the messages of one session

ASSUME EditsAssumption ==
    /\ InitialTables \subseteq FileTable
    /\ Edits \subseteq FileTable
    /\ MaxMessages \in Nat

VARIABLES
    tasks,          \* TaskQueue::pendingTasks
    nextVersion,    \* LSPPreprocessor::nextVersion, the number of the last message
    skipped,        \* whether a number went to an edit that never was a task
    main,           \* the processing thread: "idle", "await" a preemption, or
                    \* waiting for the typechecker to run ("fast") or start ("slow") work
    slot,           \* the PreemptionLoop: "none", "scheduled", "running", "finished"
    work,           \* the update the typechecker is given
    deferred,       \* the edit that runSpecial has to index, NoEdit for none
    tc,             \* the typechecker thread: "idle", "slow", "run" (an edit that
                    \* preempts), "raised" (an exception nobody handles)
    tcFiles,        \* the file table of the typechecker's GlobalState
    undo            \* the file table evicted when the slow path began

queueVars == <<tasks, nextVersion, skipped>>
tcVars == <<work, deferred, tc, tcFiles, undo>>
vars == <<indexerVars, epochVars, queueVars, main, slot, tcVars>>

\* A task is an edit or a request; decision is cachedFastPathDecision.
Edit(changed, epoch) ==
    [kind |-> "edit", files |-> changed, epoch |-> epoch, mergeCount |-> 0, decision |-> "none"]
Hover == [Edit(Nothing, 0) EXCEPT !.kind = "hover"]
NoEdit == Edit(Nothing, 0)

Init ==
    /\ \E table \in InitialTables : IndexerInit(table) /\ tcFiles = table
    /\ EpochInit
    /\ tasks = <<>>
    /\ nextVersion = 0
    /\ skipped = FALSE
    /\ main = "idle"
    /\ slot = "none"
    /\ work = NoUpdate
    /\ deferred = NoEdit
    /\ tc = "idle"
    /\ undo = Nothing

-----------------------------------------------------------------------------
(* The preprocessor thread                                                 *)

\* mergeNewer: the newer files win, and the decision is forgotten.
\* Mutant: the epochs are added like the counts.
MergeNewer_AddsEpochs(older, newer) ==
    [older EXCEPT !.files = Overlay(@, newer.files), !.epoch = @ + newer.epoch,
                  !.mergeCount = @ + newer.mergeCount + 1, !.decision = "none"]
MergeNewer(older, newer) ==
    [older EXCEPT !.files = Overlay(@, newer.files), !.epoch = newer.epoch,
                  !.mergeCount = @ + newer.mergeCount + 1, !.decision = "none"]

\* push_back and mergeFileChanges: the queue was merged before.
Enqueue(edit) ==
    IF tasks # <<>> /\ tasks[Len(tasks)].kind = "edit"
    THEN [tasks EXCEPT ![Len(tasks)] = MergeNewer(@, edit)]
    ELSE Append(tasks, edit)

ClientEdits(changed) ==
    /\ nextVersion < MaxMessages
    /\ nextVersion' = nextVersion + 1
    /\ tasks' = Enqueue(Edit(changed, nextVersion + 1))
    /\ UNCHANGED <<indexerVars, epochVars, skipped, main, slot, tcVars>>

\* An edit outside of the workspace, or a change of the configuration: it gets
\* a number and changes no file.
ClientEditsNothing ==
    /\ nextVersion < MaxMessages
    /\ nextVersion' = nextVersion + 1
    /\ skipped' = TRUE
    /\ UNCHANGED <<indexerVars, epochVars, tasks, main, slot, tcVars>>

\* Requests have no number: one between two edits is enough.
ClientHovers ==
    /\ tasks # <<>>
    /\ tasks[Len(tasks)].kind = "edit"
    /\ nextVersion < MaxMessages
    /\ tasks' = Append(tasks, Hover)
    /\ UNCHANGED <<indexerVars, epochVars, nextVersion, skipped, main, slot, tcVars>>

-----------------------------------------------------------------------------
(* What may preempt                                                        *)

\* getTypecheckingPath of a task that is not indexed yet: the decision is made
\* once, on the file table of that moment.
Decision(task) == IF task.decision = "none" THEN PathInQueue(task.files) ELSE task.decision
CanPreempt(task) == task.kind = "hover" \/ Decision(task) = "Fast"

Blocks(q, i) == ~CanPreempt(q[i]) /\ \A j \in 1 .. i - 1 : CanPreempt(q[j])

\* preemptionPossible
PreemptionPossible(q) ==
    /\ q # <<>>
    /\ CanPreempt(q[1])
    /\ \A i \in DOMAIN q : Blocks(q, i) => q[i].kind # "edit"

\* ... and the decisions it leaves in the tasks up to the first that blocks
Asked(q) ==
    [i \in DOMAIN q |->
        IF q[i].kind = "edit" /\ \A j \in 1 .. i - 1 : CanPreempt(q[j])
        THEN [q[i] EXCEPT !.decision = Decision(q[i])]
        ELSE q[i]]

\* The indexer and the epochs after the update r of an edit.
Commit(r) ==
    /\ files' = r.files
    /\ pending' = r.pending
    /\ evicted' = r.evicted
    /\ work' = r.update
    /\ IF r.update.canceledSlowPath THEN CancelSlowPath(r.update.epoch)
                                    ELSE UNCHANGED epochVars

Indexed(edit) == [edit EXCEPT !.files = WithoutNoops(@)]

-----------------------------------------------------------------------------
(* The processing thread                                                   *)

MainReady == main = "idle" /\ tasks # <<>> /\ tc # "raised"

\* The slow path is running and the head of the queue may preempt it.
SchedulePreemption ==
    /\ MainReady
    /\ SlowPathRunning /\ ~SlowPathWasCanceled
    /\ CanPreempt(tasks[1])
    /\ tasks' = Asked(tasks)
    /\ main' = "await"
    /\ slot' = "scheduled"
    /\ UNCHANGED <<indexerVars, epochVars, nextVersion, skipped, tcVars>>

\* An edit goes to the front, or into the edit that is there; the other tasks
\* keep their order.
Promote(q, task) ==
    CASE task.kind # "edit" -> Append(q, task)
      [] task.kind = "edit" /\ q # <<>> /\ q[1].kind = "edit" ->
           [q EXCEPT ![1] = MergeNewer(@, task)]
      [] OTHER -> <<task>> \o q

\* The edits up to the first task that blocks, which is one of them
Promoted(q) ==
    LET last == CHOOSE i \in DOMAIN q : Blocks(q, i)
        promotion[i \in 0 .. Len(q)] ==
            IF i = 0 THEN <<>> ELSE Promote(promotion[i - 1], q[i])
    IN  promotion[last] \o SubSeq(q, last + 1, Len(q))

\* Await is over: the loop was canceled before it ran, or has finished.  A slow
\* edit behind tasks that preempt is moved to the front.
AwaitEnds ==
    /\ main = "await"
    /\ slot # "running"
    /\ ~PreemptionPossible(tasks)
    /\ tc # "raised"
    /\ main' = "idle"
    /\ slot' = "none"
    /\ tasks' = IF /\ tasks # <<>>
                   /\ CanPreempt(tasks[1])
                   /\ \E i \in DOMAIN tasks : Blocks(tasks, i) /\ tasks[i].kind = "edit"
                THEN Promoted(Asked(tasks))
                ELSE Asked(tasks)
    /\ UNCHANGED <<indexerVars, epochVars, nextVersion, skipped, tcVars>>

\* runTask: an edit is indexed and handed to the typechecker, unless it has too
\* many files to be indexed on this thread.
PopEdit ==
    LET edit == Indexed(tasks[1]) IN
    /\ MainReady
    /\ tasks[1].kind = "edit"
    /\ SlowPathRunning => SlowPathWasCanceled \/ ~CanPreempt(tasks[1])
    /\ tasks' = Tail(tasks)
    /\ IF Cardinality(Touched(edit.files)) =< MaxFiles
       THEN LET r == CommitEdit(edit, CanCancel(edit.epoch)) IN
            /\ Commit(r)
            /\ main' = IF r.update.path = "Fast" THEN "fast" ELSE "slow"
            /\ UNCHANGED deferred
       ELSE /\ deferred' = edit
            /\ main' = "slow"
            /\ UNCHANGED <<indexerVars, epochVars, work>>
    /\ UNCHANGED <<nextVersion, skipped, slot, tc, tcFiles, undo>>

\* A request waits for the typechecker and changes nothing here.
PopHover ==
    /\ MainReady
    /\ tasks[1].kind = "hover"
    /\ ~SlowPathRunning
    /\ tasks' = Tail(tasks)
    /\ UNCHANGED <<indexerVars, epochVars, nextVersion, skipped, main, slot, tcVars>>

-----------------------------------------------------------------------------
(* The typechecker thread                                                  *)

\* run, typecheckOnFastPath: an update that canceled a slow path is applied to
\* the state from before it, which was restored by then.
RunFast ==
    /\ main = "fast"
    /\ tc = "idle"
    /\ tcFiles' = Overlay(tcFiles, work.files)
    /\ work' = NoUpdate
    /\ main' = "idle"
    /\ UNCHANGED <<indexerVars, epochVars, queueVars, slot, deferred, tc, undo>>

\* runSpecial and the beginning of runSlowPath
StartSlow ==
    LET r == CommitEdit(deferred, FALSE)
        update == IF deferred = NoEdit THEN work ELSE r.update
    IN
    /\ main = "slow"
    /\ tc = "idle"
    /\ IF deferred = NoEdit THEN UNCHANGED indexerVars
       ELSE files' = r.files /\ pending' = r.pending /\ evicted' = r.evicted
    /\ StartCommitEpoch(update.epoch)
    /\ undo' = tcFiles
    /\ tcFiles' = Overlay(tcFiles, update.files)
    /\ work' = NoUpdate
    /\ deferred' = NoEdit
    /\ tc' = "slow"
    /\ main' = "idle"
    /\ UNCHANGED <<queueVars, slot>>

\* The slow path commits, or is canceled and restores the evicted state.  A
\* PreemptionLoop that is still scheduled runs first.
EndSlow ==
    /\ tc = "slow"
    /\ slot \notin {"scheduled", "running"}
    /\ CommitEpoch
    /\ tcFiles' = IF SlowPathWasCanceled THEN undo ELSE tcFiles
    /\ undo' = Nothing
    /\ tc' = "idle"
    /\ UNCHANGED <<indexerVars, queueVars, main, slot, work, deferred>>

\* The PreemptionLoop starts between two files of the slow path.
Preempt ==
    /\ tc = "slow"
    /\ slot = "scheduled"
    /\ slot' = "running"
    /\ UNCHANGED <<indexerVars, epochVars, queueVars, main, tcVars>>

\* One turn of the loop takes a task, and indexes an edit under the mutex of
\* the queue.  An update that turns out not to be a fast one raises; one that
\* canceled the slow path on whose thread it runs fails the check that the
\* evicted state was restored.
PreemptNext ==
    /\ tc = "slow"
    /\ slot = "running"
    /\ PreemptionPossible(tasks)
    /\ tasks' = Tail(Asked(tasks))
    /\ IF tasks[1].kind = "hover"
       THEN UNCHANGED <<indexerVars, epochVars, work, tc>>
       ELSE LET edit == Indexed(tasks[1])
                r == CommitEdit(edit, CanCancel(edit.epoch))
            IN  /\ Commit(r)
                /\ tc' = IF r.update.path = "Fast" /\ ~r.update.canceledSlowPath
                         THEN "run" ELSE "raised"
    /\ UNCHANGED <<nextVersion, skipped, main, slot, deferred, tcFiles, undo>>

\* ... and runs it on the state of the slow path.
PreemptRun ==
    /\ tc = "run"
    /\ tcFiles' = Overlay(tcFiles, work.files)
    /\ work' = NoUpdate
    /\ tc' = "slow"
    /\ UNCHANGED <<indexerVars, epochVars, queueVars, main, slot, deferred, undo>>

PreemptEnds ==
    /\ tc = "slow"
    /\ slot = "running"
    /\ ~PreemptionPossible(tasks)
    /\ tasks' = Asked(tasks)
    /\ slot' = "finished"
    /\ UNCHANGED <<indexerVars, epochVars, nextVersion, skipped, main, tcVars>>

Next ==
    \/ \E changed \in Edits : ClientEdits(changed)
    \/ ClientEditsNothing \/ ClientHovers
    \/ SchedulePreemption \/ AwaitEnds \/ PopEdit \/ PopHover
    \/ RunFast \/ StartSlow \/ EndSlow
    \/ Preempt \/ PreemptNext \/ PreemptRun \/ PreemptEnds

Spec == Init /\ [][Next]_vars

-----------------------------------------------------------------------------
(* Properties                                                              *)

\* Every variable has the type its declaration in the code gives it.
TypeOK ==
    /\ files \in FileTable /\ tcFiles \in FileTable /\ undo \in FileTable
    /\ evicted \in FileTable /\ pending.files \in FileTable
    /\ \A i \in DOMAIN tasks :
          /\ tasks[i].kind = "edit" => tasks[i].epoch \in 1 .. nextVersion
          /\ tasks[i].decision \in {"none", "Fast", "Slow"}
    /\ main \in {"idle", "await", "fast", "slow"}
    /\ slot \in {"none", "scheduled", "running", "finished"}
    /\ tc \in {"idle", "slow", "run", "raised"}
    /\ {processing, committed, invalidator} \subseteq 0 .. nextVersion

\* Edits indexed and given to the typechecker have been applied.
Settled == main \in {"idle", "await"} /\ tc \in {"idle", "slow"}

\* Whatever was preempted, canceled, restored, merged or indexed elsewhere:
\* once the edits that were indexed have been applied, the typechecker has the
\* files of the indexer.
TypecheckerHasTheFiles == Settled => tcFiles = files

\* What commitEdit remembers of the state before the slow path, old: the file
\* versions evicted since, and every file to be typechecked again in update.
CanBeUndone(table, update, evictions, old) ==
    \A f \in Files :
      /\ update.files[f] # None <=> table[f] # old[f] \/ evictions[f] # None
      /\ update.files[f] # None => update.files[f] = table[f]
      /\ old[f] # None => OldFile(table, evictions, f) = old[f]
      /\ old[f] = None /\ table[f] # None => update.hasNewFiles

\* The slow path that an edit may cancel: mergeEvictedFiles keeps "the file
\* version just prior to the currently pending slow path", so that the decision
\* after a cancelation is made against the state that will be restored, and
\* pendingTypecheckUpdates has every file to be typechecked again.
SlowPathCanBeUndone ==
    Settled /\ tc = "slow" => CanBeUndone(files, pending, evicted, undo)

\* The fast path redoes a few files and leaves the rest of the typechecker's
\* state alone.  When it is about to run update u, that is enough: against the
\* files the typechecker has by then, no file is new, no hierarchy changes, and
\* whoever uses a symbol that changes is among the files it redoes.
EnoughFor(table, u) ==
    LET after == Overlay(table, u.files)
        redone == Touched(u.files) \cup u.extra
        names == UNION {ChangedNames(table[f], after[f]) : f \in Touched(table)}
    IN  /\ \A f \in Files :
              table[f] # after[f] =>
                  /\ table[f] # None
                  /\ after[f] \notin Invalid
                  /\ Hierarchy[table[f]] = Hierarchy[after[f]]
        /\ \A f \in Files : after[f] # None /\ Uses[after[f]] \cap names # {} => f \in redone
        /\ Cardinality(redone) =< MaxFiles

FastPathIsEnough ==
    (main = "fast" /\ tc = "idle") \/ tc = "run" => EnoughFor(tcFiles, work)

\* commitEdit's ENFORCEs about the epoch of the slow path, when every number
\* went to an edit.
EpochIsPending ==
    SlowPathRunning /\ ~SlowPathWasCanceled /\ ~skipped =>
        /\ processing =< pending.epoch
        /\ processing > pending.epoch - pending.editCount

\* LSPIndexer.cc:375: "runningSlowPath.epoch should be in the interval
\* (pendingTypecheckUpdates.epoch - editCount, pendingTypecheckUpdates.epoch]".
EpochIsInInterval ==
    SlowPathRunning /\ ~SlowPathWasCanceled =>
        /\ processing =< pending.epoch
        /\ processing > pending.epoch - pending.editCount

\* sorbet_workspace_edit.cc:92: no edit preempts a slow path and then turns out
\* to be a slow one ("Attempted to run a slow path update on the fast path!").
PreemptingEditsAreFast == tc # "raised"

=============================================================================
