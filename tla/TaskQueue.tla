----------------------------- MODULE TaskQueue -----------------------------
(***************************************************************************)
(* The tasks of main/lsp/TaskQueue, what the scheduler asks of a task      *)
(* (canPreempt, isDelayable, preemptionStratum), and the rewrites of the   *)
(* queue: the preprocessor's mergeFileChanges and the promotion of a slow  *)
(* edit by LSPLoop::runLSP.                                                *)
(*                                                                         *)
(* A task is one of four kinds, one for each combination of answers the    *)
(* subclasses of LSPTask give: an edit (SorbetWorkspaceEditTask), a hover  *)
(* (preempts, for one file), symbols (WorkspaceSymbols: preempts in the    *)
(* last stratum, delayable) and references (never preempts).               *)
(***************************************************************************)
EXTENDS Integers, Sequences

CONSTANTS
    LastStratum,    \* the package strata are 0..LastStratum
    Files,          \* the files of the workspace
    StratumOf       \* fileToStratum

ASSUME LastStratumIsNat == LastStratum \in Nat
ASSUME StratumOfType == StratumOf \in [Files -> 0..LastStratum]

Strata == 0..LastStratum

\* The cached decision of getTypecheckingPath.  A Huge edit is a slow one with
\* more than lspMaxFilesOnFastPath files.
Paths == {"Fast", "Slow", "Huge"}

\* covers holds the numbers of the client messages the task stands for; an
\* edit's epoch is the number of the newest of them.
Task == [kind : {"edit", "hover", "symbols", "references"},
         path : Paths,
         files : SUBSET Files,
         epoch : Nat,
         covers : SUBSET Nat]

IsEdit(task) == task.kind = "edit"

IsDelayable(task) == task.kind = "symbols"

CanPreempt(task) ==
    IF IsEdit(task) THEN task.path = "Fast" ELSE task.kind # "references"

\* stratum = task->preemptionStratum(...): the highest stratum of its files
\* (0 without files), the last one for a request on the whole workspace.
NeedsStratum(task, stratum) ==
    IF task.kind \in {"edit", "hover"}
    THEN /\ \A f \in task.files : StratumOf[f] <= stratum
         /\ stratum = 0 \/ \E f \in task.files : StratumOf[f] = stratum
    ELSE stratum = LastStratum

\* The first task of the queue that cannot preempt is at position c.
FirstBlocker(q, c) ==
    /\ ~CanPreempt(q[c])
    /\ \A i \in 1..(c - 1) : CanPreempt(q[i])

\* LSPIndexer::preemptionPossible
PreemptionPossible(q) ==
    /\ q # <<>>
    /\ CanPreempt(q[1])
    /\ \A c \in DOMAIN q : FirstBlocker(q, c) => ~IsEdit(q[c])

\* SorbetWorkspaceEditTask::mergeNewer.  The merge drops the cached decision;
\* path is the one computed the next time it is asked for.
MergeNewer(older, newer, path) ==
    [older EXCEPT !.path = path,
                  !.epoch = newer.epoch,
                  !.files = @ \cup newer.files,
                  !.covers = @ \cup newer.covers]

WithoutTask(q, i) == SubSeq(q, 1, i - 1) \o SubSeq(q, i + 1, Len(q))

\* mergeFileChanges merges the edit at j into the edit at i: only delayable
\* requests stand between them.
Mergeable(q, i, j) ==
    /\ i < j
    /\ IsEdit(q[i]) /\ IsEdit(q[j])
    /\ \A k \in (i + 1)..(j - 1) : ~IsEdit(q[k]) /\ IsDelayable(q[k])

FullyMerged(q) == \A i, j \in DOMAIN q : ~Mergeable(q, i, j)

\* r is q after LSPPreprocessor::mergeFileChanges.  The queue is fully merged
\* before a task is added or canceled, so at most one pair is left to merge.
MergeFileChanges(q, r) ==
    \/ FullyMerged(q) /\ r = q
    \/ \E i, j \in DOMAIN q, path \in Paths :
         /\ Mergeable(q, i, j)
         /\ r = WithoutTask([q EXCEPT ![i] = MergeNewer(q[i], q[j], path)], j)

\* The edit at c cannot preempt and is behind tasks that can.
Promotable(q, c) ==
    /\ CanPreempt(q[1])
    /\ FirstBlocker(q, c)
    /\ IsEdit(q[c])

EditsUpTo(q, c) == {i \in 1..c : IsEdit(q[i])}

\* order lists the positions of the tasks other than edits among the first c,
\* as std::stable_partition leaves them.
OtherTasksInOrder(q, c, order) ==
    /\ {order[i] : i \in DOMAIN order} = (1..c) \ EditsUpTo(q, c)
    /\ \A i, j \in DOMAIN order : i < j => order[i] < order[j]

\* r is q after runLSP moved the edits of its first c tasks to the front and
\* merged them into the oldest; a single edit is moved and keeps its decision.
Promote(q, c, r) ==
    \E oldest \in EditsUpTo(q, c), path \in Paths, n \in 0..(c - 1) :
      \E order \in [1..n -> 1..c] :
        /\ \A i \in EditsUpTo(q, c) : oldest <= i
        /\ OtherTasksInOrder(q, c, order)
        /\ oldest = c => path = q[c].path
        /\ r = <<[q[oldest] EXCEPT
                     !.path = path,
                     !.epoch = q[c].epoch,
                     !.files = UNION {q[i].files : i \in EditsUpTo(q, c)},
                     !.covers = UNION {q[i].covers : i \in EditsUpTo(q, c)}]>>
               \o [i \in 1..n |-> q[order[i]]]
               \o SubSeq(q, c + 1, Len(q))
=============================================================================
