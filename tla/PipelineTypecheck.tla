------------------------- MODULE PipelineTypecheck -------------------------
(***************************************************************************)
(* A typecheck run from its edit to the diagnostics in the editor: the     *)
(* typechecker thread in LSPTypechecker::typecheck and runSlowPath, the    *)
(* worker threads of pipeline::typecheck with the two concurrent queues    *)
(* and the preemption lock between them, the fast paths that preempt a     *)
(* slow path, and its cancellation.  How edits are scheduled, and when a   *)
(* slow path is preempted or canceled, is the subject of LSPLoop; here the *)
(* processing thread may preempt or cancel whenever LSPLoop allows it.     *)
(*                                                                         *)
(* Sources are abstracted to truth[f], the number of errors typechecking   *)
(* file f against the typechecker's GlobalState yields.  A fast path       *)
(* changes it for the files it typechecks (the edited ones and the files   *)
(* fastPathFilesToTypecheck adds) and for no other: this is what the file  *)
(* hashes are for, and is assumed.                                         *)
(***************************************************************************)
EXTENDS ErrorReporter

CONSTANTS
    Workers,        \* the threads of the WorkerPool
    LastStratum,    \* the package strata are 0..LastStratum
    StratumOf,      \* fileToStratum
    MaxErrors,      \* bound on the errors of one file
    MaxEdits        \* bound on the edits of one session

ASSUME LastStratumIsNat == LastStratum \in Nat
ASSUME StratumOfType == StratumOf \in [Files -> 0..LastStratum]
ASSUME MaxErrorsIsNat == MaxErrors \in Nat
ASSUME MaxEditsIsNat == MaxEdits \in Nat

VARIABLES
    rep,            \* the ErrorReporter
    truth,          \* the errors of each file in the GlobalState
    fileEpoch,      \* File::epoch of the files of the GlobalState
    tree,           \* the epoch of the source the slow path parsed
    undo,           \* cancellationUndoState
    edits,          \* the epoch of the newest edit
    pend,           \* files of the edits that no commit covers yet
    slow,           \* the edit of the slow path
    canceled,       \* TypecheckEpochManager::wasTypecheckingCanceled
    cancels,        \* slow paths canceled since the last one that checked all
    errq,           \* the errors in the slow path's ErrorQueue, by file
    flushed,        \* its filesFlushedCount
    tc,             \* where the typechecker thread is
    ret,            \* the point at which it was preempted
    stratum,        \* the stratum it works on
    retry,          \* shouldRetry of the last wait_pop_timed
    item,           \* the file it popped
    fileq,          \* files nobody popped from fileq yet
    outq,           \* the items in outputq
    left,           \* outputq's elementsLeftToPush
    worker          \* the worker threads

repVars == <<rep, cancels>>
gsVars == <<truth, fileEpoch, tree, undo>>
editVars == <<edits, pend, slow, canceled>>
errVars == <<errq, flushed>>
tcVars == <<tc, ret, stratum, retry, item>>
queueVars == <<fileq, outq, left>>
vars == <<repVars, gsVars, editVars, errVars, tcVars, queueVars, worker>>

Strata == 0..LastStratum
NoFile == 0
NoUndo == -1
Errors == [Files -> 0..MaxErrors]

FilesOf(s) == {f \in Files : StratumOf[f] = s}

\* The files a worker holds the preemption lock for.
LockedBy(w) ==
    worker[w].pc \in {"decide", "check", "enqueue", "count"} /\ worker[w].file # NoFile
Unlocked == \A w \in Workers : ~LockedBy(w)

\* mine: the closure the worker runs belongs to the current pipeline::typecheck
\* call; queued: the closures waiting in its thread queue.
IdleWorker == [pc |-> "idle", file |-> NoFile, processed |-> 0,
               mine |-> FALSE, queued |-> 0]

Init ==
    /\ rep = NewReporter
    /\ cancels = 0
    /\ truth \in Errors
    /\ fileEpoch = [f \in Files |-> 0]
    /\ tree = [f \in Files |-> 0]
    /\ undo = [epoch |-> NoUndo, truth |-> truth, fileEpoch |-> fileEpoch]
    /\ edits = 0
    /\ pend = {}
    /\ slow = [epoch |-> 0, start |-> 0, relevant |-> Files, cancelable |-> FALSE]
    /\ canceled = FALSE
    /\ errq = [f \in Files |-> 0]
    /\ flushed = 0
    /\ tc = "new"
    /\ ret = "begin"
    /\ stratum = 0
    /\ retry = FALSE
    /\ item = NoFile
    /\ fileq = {}
    /\ outq = {}
    /\ left = 0
    /\ worker = [w \in Workers |-> IdleWorker]

-----------------------------------------------------------------------------
\* LSPTypechecker

\* initialize: a slow path of epoch 0 that cannot be canceled.
Initialize ==
    /\ tc = "new"
    /\ rep' = BeginEpoch(rep, 0, FALSE)
    /\ tc' = "index"
    /\ UNCHANGED <<cancels, gsVars, editVars, errVars, ret, stratum, retry, item,
                   queueVars, worker>>

\* The files typecheck adds to an edit that canceled a slow path: those with
\* errors reported since that slow path began.
FilesToRecheck ==
    IF undo.epoch = NoUndo THEN {} ELSE FilesWithErrorsSince(rep, undo.epoch)

\* typecheck and runSlowPath, up to the call of tryCommitEpoch.  The merged edit
\* updates the files of the canceled ones too.  determineMaximumPrefix: the
\* slow path starts below every updated file, and checks the packages that
\* depend on one; the errors of the other files do not change.
StartSlowPath(f) ==
    LET updated == pend \cup {f}
        merged == updated \cup FilesToRecheck
    IN  /\ tc = "idle"
        /\ edits < MaxEdits
        /\ \E start \in Strata, relevant \in SUBSET Files, errors \in Errors :
             /\ merged \subseteq relevant
             /\ \A g \in merged : start <= StratumOf[g]
             /\ \A g \in Files :
                  g \notin relevant \/ StratumOf[g] < start => errors[g] = truth[g]
             /\ slow' = [epoch |-> edits + 1, start |-> start,
                         relevant |-> relevant, cancelable |-> TRUE]
             /\ stratum' = start
             /\ truth' = errors
        /\ edits' = edits + 1
        /\ pend' = updated
        /\ fileEpoch' = [g \in Files |-> IF g \in updated THEN edits + 1 ELSE fileEpoch[g]]
        /\ undo' = [epoch |-> edits + 1, truth |-> truth, fileEpoch |-> fileEpoch]
        /\ rep' = BeginEpoch(rep, edits + 1, FALSE)
        /\ errq' = [g \in Files |-> 0]
        /\ flushed' = 0
        /\ tc' = "index"
        /\ UNCHANGED <<cancels, tree, canceled, ret, retry, item, queueVars, worker>>

\* Mutant: sortParsedFiles compares the epochs of the files only.
Sorted_NoEntries(r, S) == r
\* sortParsedFiles: every comparison asks lastDiagnosticEpochForFile for two
\* files, so that all of them have an entry unless there is only one.
Sorted(r, S) ==
    IF Cardinality(S) < 2 THEN r ELSE WithEntry(r, Max(S))

\* One turn of the loop over the strata, up to pipeline::typecheck: index, name
\* and resolve.  A cancellation is seen at the latest before the resolver.
IndexStratum ==
    /\ tc = "index"
    /\ IF slow.cancelable /\ canceled
       THEN /\ tc' = "commit"
            /\ UNCHANGED <<rep, tree>>
       ELSE /\ tc' = "begin"
            /\ tree' = [f \in Files |-> IF StratumOf[f] = stratum
                                        THEN fileEpoch[f] ELSE tree[f]]
            /\ rep' = Sorted(rep, FilesOf(stratum))
    /\ UNCHANGED <<cancels, truth, fileEpoch, undo, editVars, errVars, ret, stratum,
                   retry, item, queueVars, worker>>

\* The next stratum, or tryCommitEpoch.
NextStratum ==
    IF stratum = LastStratum
    THEN tc' = "commit" /\ UNCHANGED stratum
    ELSE tc' = "index" /\ stratum' = stratum + 1

\* The critical section of tryCommitEpoch.
TryCommit ==
    /\ tc = "commit"
    /\ tc' = IF slow.cancelable THEN "last" ELSE "finish"
    /\ UNCHANGED <<repVars, gsVars, editVars, errVars, ret, stratum, retry, item,
                   queueVars, worker>>

\* The end of runSlowPath.  The files of a canceled edit stay pending, and the
\* undo state keeps the epoch of the slow path.
FinishSlowPath ==
    /\ tc = "finish"
    /\ tc' = "idle"
    /\ IF canceled
       THEN /\ truth' = undo.truth
            /\ fileEpoch' = undo.fileEpoch
            /\ cancels' = cancels + 1
            /\ UNCHANGED <<pend, undo>>
       ELSE /\ undo' = [undo EXCEPT !.epoch = NoUndo]
            /\ pend' = {}
            /\ cancels' = IF slow.start = 0 /\ slow.relevant = Files THEN 0 ELSE cancels
            /\ UNCHANGED <<truth, fileEpoch>>
    /\ canceled' = FALSE
    /\ UNCHANGED <<rep, tree, edits, slow, errVars, ret, stratum, retry, item,
                   queueVars, worker>>

-----------------------------------------------------------------------------
\* The fast path.  It holds the typechecker thread, and when it preempts the
\* slow path also the preemption lock, from its first step to its last: it is
\* one step here.  Its own workers flush the files in any order.

\* known: the files the GlobalState is complete enough to typecheck.  The errors
\* found in another file are arbitrary.
RunFastPath(updated, recheck, known) ==
    \E extra \in SUBSET Files, errors \in Errors, found \in Errors :
      LET S == updated \cup extra \cup recheck
          n == Cardinality(S)
      IN  /\ \A g \in Files \ (updated \cup extra) : errors[g] = truth[g]
          /\ \A g \in Files : g \notin S \/ g \in known => found[g] = errors[g]
          /\ truth' = errors
          /\ fileEpoch' = [g \in Files |-> IF g \in updated THEN edits + 1 ELSE fileEpoch[g]]
          /\ \E order \in Bijection(1 .. n, S) :
               rep' = PushAll(Sorted(rep, S), edits + 1, order, n, found)
          /\ edits' = edits + 1

\* An edit that takes the fast path while no slow path is running.
FastEdit(f) ==
    /\ tc = "idle"
    /\ edits < MaxEdits
    /\ RunFastPath(pend \cup {f}, FilesToRecheck, Files)
    /\ undo' = [undo EXCEPT !.epoch = NoUndo]
    /\ pend' = {}
    /\ UNCHANGED <<cancels, tree, slow, canceled, errVars, tcVars, queueVars, worker>>

\* The three calls of tryRunScheduledPreemptionTask: with a task in the slot
\* the thread asks for the (writer) lock.
PreemptionPoint == tc \in {"begin", "poll", "last"}

Preempt ==
    /\ PreemptionPoint
    /\ slow.cancelable /\ ~canceled
    /\ edits < MaxEdits
    /\ ret' = tc
    /\ tc' = "park"
    /\ UNCHANGED <<repVars, gsVars, editVars, errVars, stratum, retry, item,
                   queueVars, worker>>

AfterPreemption(point) ==
    CASE point = "begin" -> "fill"
      [] point = "poll" -> "load"
      [] point = "last" -> "finish"

\* One edit of the PreemptionLoop.  It is deferred below the stratum of the
\* edited file, whatever the strata of the files it makes the fast path add.
PreemptingEdit(f) ==
    /\ tc = "park"
    /\ Unlocked
    /\ edits < MaxEdits
    /\ StratumOf[f] <= stratum
    /\ RunFastPath({f}, {}, {g \in Files : StratumOf[g] <= stratum})
    /\ pend' = pend \cup {f}
    /\ UNCHANGED <<cancels, tree, undo, slow, canceled, errVars, tcVars, queueVars, worker>>

EndPreemption ==
    /\ tc = "park"
    /\ Unlocked
    /\ tc' = AfterPreemption(ret)
    /\ UNCHANGED <<repVars, gsVars, editVars, errVars, ret, stratum, retry, item,
                   queueVars, worker>>

NoPreemption ==
    /\ PreemptionPoint
    /\ tc' = AfterPreemption(tc)
    /\ UNCHANGED <<repVars, gsVars, editVars, errVars, ret, stratum, retry, item,
                   queueVars, worker>>

\* The processing thread cancels the slow path for a new edit.  It waits while
\* a preemption task runs, and cannot cancel a committed epoch.
CancelSlowPath ==
    /\ tc \in {"index", "begin", "fill", "load", "dequeue", "flush", "poll",
               "drained", "commit"}
    /\ slow.cancelable /\ ~canceled
    /\ edits < MaxEdits
    /\ canceled' = TRUE
    /\ UNCHANGED <<repVars, gsVars, edits, pend, slow, errVars, tcVars, queueVars, worker>>

-----------------------------------------------------------------------------
\* pipeline::typecheck, the typechecker thread

\* The files are pushed to fileq, the closure to the queue of every worker.
FillQueue ==
    /\ tc = "fill"
    /\ fileq' = FilesOf(stratum)
    /\ outq' = {}
    /\ left' = Cardinality(FilesOf(stratum))
    /\ worker' = [w \in Workers |-> [worker[w] EXCEPT !.queued = @ + 1, !.mine = FALSE]]
    /\ tc' = "load"
    /\ UNCHANGED <<repVars, gsVars, editVars, errVars, ret, stratum, retry, item>>

\* wait_pop_timed reads elementsLeftToPush before it dequeues.
LoadRetry ==
    /\ tc = "load"
    /\ retry' = (left # 0)
    /\ tc' = "dequeue"
    /\ UNCHANGED <<repVars, gsVars, editVars, errVars, ret, stratum, item, queueVars, worker>>

\* Mutant: the loop is left as soon as the slow path is canceled.
KeepsWaiting_UntilCanceled == retry /\ ~canceled
KeepsWaiting == retry

Dequeue ==
    /\ tc = "dequeue"
    /\ \/ \E x \in outq :
            /\ outq' = outq \ {x}
            /\ item' = x.file
            /\ tc' = IF x.file # NoFile THEN "flush" ELSE "poll"
       \/ /\ outq = {}
          /\ tc' = IF KeepsWaiting THEN "poll" ELSE "drained"
          /\ UNCHANGED <<outq, item>>
    /\ UNCHANGED <<repVars, gsVars, editVars, errVars, ret, stratum, retry,
                   fileq, left, worker>>

\* flushErrorsForFile, with the ErrorFlusherLSP of the slow path's epoch.
Flush ==
    /\ tc = "flush"
    /\ rep' = PushDiagnostics(rep, slow.epoch, item, errq[item])
    /\ errq' = [errq EXCEPT ![item] = 0]
    /\ flushed' = flushed + 1
    /\ tc' = "poll"
    /\ UNCHANGED <<cancels, gsVars, editVars, ret, stratum, retry, item, queueVars, worker>>

ResetFlushed == flushed' = 0

\* After the loop.  Unless it was canceled, the thread waits for the counters of
\* every worker, which come behind the closure in the thread queues.
LeaveLoop ==
    /\ tc = "drained"
    /\ IF slow.cancelable /\ canceled
       THEN UNCHANGED flushed
       ELSE /\ \A w \in Workers : worker[w].pc = "idle" /\ worker[w].queued = 0
            /\ ResetFlushed
    /\ NextStratum
    /\ UNCHANGED <<repVars, gsVars, editVars, errq, ret, retry, item, queueVars, worker>>

-----------------------------------------------------------------------------
\* pipeline::typecheck, a worker thread w

WorkerStep(w, new) ==
    /\ worker' = [worker EXCEPT ![w] = new]
    /\ UNCHANGED <<repVars, gsVars, editVars, tcVars>>

\* The worker takes a closure from its queue; a closure that waited for long
\* may belong to an earlier call.
StartClosure(w) ==
    /\ worker[w].pc = "idle"
    /\ worker[w].queued > 0
    /\ WorkerStep(w, [worker[w] EXCEPT !.pc = "pop", !.queued = @ - 1,
                                       !.mine = worker[w].queued = 1])
    /\ UNCHANGED <<errVars, queueVars>>

PopFile(w) ==
    /\ worker[w].pc = "pop"
    /\ worker[w].mine
    /\ \E f \in fileq :
         /\ fileq' = fileq \ {f}
         /\ WorkerStep(w, [worker[w] EXCEPT !.pc = "lock", !.file = f])
    /\ UNCHANGED <<errVars, outq, left>>

\* Mutant: files that were not typechecked are not accounted for.
AfterLastFile_Dropped(processed) == "idle"
\* The files a worker skipped since its last push are counted by one more.
AfterLastFile(processed) == IF processed > 0 THEN "enqueue" ELSE "idle"

NoFileLeft(w) ==
    /\ worker[w].pc = "pop"
    /\ worker[w].mine => fileq = {}
    /\ WorkerStep(w, [worker[w] EXCEPT !.pc = AfterLastFile(worker[w].processed)])
    /\ UNCHANGED <<errVars, queueVars>>

\* A reader waits behind the typechecker thread that holds or wants the lock.
LockFree == tc # "park"

LockPreemption(w) ==
    /\ worker[w].pc = "lock"
    /\ LockFree
    /\ WorkerStep(w, [worker[w] EXCEPT !.pc = "decide"])
    /\ UNCHANGED <<errVars, queueVars>>

\* Mutant: the epoch of the file is not compared.
ShouldCheck_IgnoresEpoch(f) ==
    ~(slow.cancelable /\ canceled) /\ f \in slow.relevant
\* The file is still the one that was resolved, its errors would be published,
\* and its package is affected by the edit.
ShouldCheck(f) ==
    /\ ~(slow.cancelable /\ canceled)
    /\ fileEpoch[f] <= slow.epoch
    /\ WouldReportForFile(rep, slow.epoch, f)
    /\ f \in slow.relevant

Decide(w) ==
    /\ worker[w].pc = "decide"
    /\ IF ShouldCheck(worker[w].file)
       THEN WorkerStep(w, [worker[w] EXCEPT !.pc = "check", !.processed = @ + 1])
       ELSE WorkerStep(w, [worker[w] EXCEPT !.pc = "pop", !.processed = @ + 1,
                                            !.file = NoFile])
    /\ UNCHANGED <<errVars, queueVars>>

\* typecheckOne
TypecheckOne(w) ==
    /\ worker[w].pc = "check"
    /\ errq' = [errq EXCEPT ![worker[w].file] = truth[worker[w].file]]
    /\ WorkerStep(w, [worker[w] EXCEPT !.pc = "enqueue"])
    /\ UNCHANGED <<flushed, queueVars>>

\* push on outputq enqueues the file, or no file for the skipped ones, ...
EnqueueResult(w) ==
    /\ worker[w].pc = "enqueue"
    /\ outq' = outq \cup {[file |-> worker[w].file, by |-> w]}
    /\ WorkerStep(w, [worker[w] EXCEPT !.pc = "count"])
    /\ UNCHANGED <<errVars, fileq, left>>

\* ... and then lowers elementsLeftToPush.
CountResult(w) ==
    /\ worker[w].pc = "count"
    /\ left' = left - worker[w].processed
    /\ WorkerStep(w, [worker[w] EXCEPT
                        !.pc = IF worker[w].file # NoFile THEN "pop" ELSE "idle",
                        !.processed = 0, !.file = NoFile])
    /\ UNCHANGED <<errVars, fileq, outq>>

-----------------------------------------------------------------------------
TypecheckerStep ==
    \/ Initialize \/ IndexStratum \/ TryCommit \/ FinishSlowPath
    \/ EndPreemption \/ NoPreemption
    \/ FillQueue \/ LoadRetry \/ Dequeue \/ Flush \/ LeaveLoop

WorkerNext(w) ==
    \/ StartClosure(w) \/ PopFile(w) \/ NoFileLeft(w) \/ LockPreemption(w)
    \/ Decide(w) \/ TypecheckOne(w) \/ EnqueueResult(w) \/ CountResult(w)

ClientStep ==
    \/ \E f \in Files : StartSlowPath(f) \/ FastEdit(f) \/ PreemptingEdit(f)
    \/ Preempt
    \/ CancelSlowPath

Next ==
    \/ TypecheckerStep
    \/ \E w \in Workers : WorkerNext(w)
    \/ ClientStep

Spec == Init /\ [][Next]_vars

\* Every thread that can run is scheduled, and typecheckMutex, an absl::Mutex,
\* queues its waiters: a worker is not overtaken forever by preemptions.  Edits,
\* preemption and cancellation come from the client and are not fair.
FairSpec ==
    /\ Spec
    /\ WF_vars(TypecheckerStep)
    /\ \A w \in Workers : WF_vars(WorkerNext(w)) /\ SF_vars(LockPreemption(w))

-----------------------------------------------------------------------------
\* Properties

Points == {"new", "idle", "index", "begin", "fill", "load", "dequeue", "flush",
           "poll", "drained", "commit", "last", "finish", "park"}
WorkerPoints == {"idle", "pop", "lock", "decide", "check", "enqueue", "count"}

\* The types of the variables; elementsLeftToPush never gets negative and no
\* more closures are queued than slow paths were started.
TypeOK ==
    /\ rep \in Reporter
    /\ cancels \in 0..MaxEdits
    /\ truth \in Errors
    /\ fileEpoch \in [Files -> 0..MaxEdits]
    /\ tree \in [Files -> 0..MaxEdits]
    /\ undo \in [epoch : {NoUndo} \cup 0..MaxEdits, truth : Errors,
                 fileEpoch : [Files -> 0..MaxEdits]]
    /\ edits \in 0..MaxEdits
    /\ pend \in SUBSET Files
    /\ slow \in [epoch : 0..MaxEdits, start : Strata, relevant : SUBSET Files,
                 cancelable : BOOLEAN]
    /\ canceled \in BOOLEAN
    /\ errq \in Errors
    /\ flushed \in 0..NumFiles
    /\ tc \in Points
    /\ ret \in {"begin", "poll", "last"}
    /\ stratum \in Strata
    /\ retry \in BOOLEAN
    /\ item \in Files \cup {NoFile}
    /\ fileq \in SUBSET Files
    /\ outq \in SUBSET [file : Files \cup {NoFile}, by : Workers]
    /\ left \in 0..NumFiles
    /\ worker \in [Workers -> [pc : WorkerPoints, file : Files \cup {NoFile},
                               processed : 0..NumFiles, mine : BOOLEAN,
                               queued : 0..((MaxEdits + 1) * (LastStratum + 1))]]

\* The closure that pipeline::typecheck hands to the workers captures gs,
\* recordedErrors and preemptionManager of its caller by reference, and a worker
\* may start or still run it after the call has returned: the early return for
\* a canceled slow path waits for no worker.  Outside of the call no worker is
\* in, or can still enter, the part of the closure that uses them; and the next
\* call finds the count of flushed files at zero, as the ENFORCE at its top asks.
NoUseAfterReturn ==
    /\ tc \notin {"fill", "load", "dequeue", "flush", "poll", "park", "drained"} =>
        /\ fileq = {}
        /\ outq = {}
        /\ \A w \in Workers : worker[w].pc \in {"idle", "pop"} /\ worker[w].processed = 0
    /\ tc = "begin" => flushed = 0

\* A worker only typechecks a tree that was parsed from the file's current
\* source, though fast paths replace files while the slow path runs.
FreshTrees ==
    \A w \in Workers : worker[w].pc = "check" =>
        tree[worker[w].file] = fileEpoch[worker[w].file]

\* Diagnostics of an edit never replace those of a newer one: what the editor
\* shows for a file only changes with a report of the same or a later epoch.
ReportsMoveForward ==
    [][\A f \in Files : /\ rep'.last[f] >= rep.last[f]
                        /\ rep'.count[f] # rep.count[f] =>
                             rep'.last[f] > rep.last[f] \/ rep'.last[f] = slow.epoch]_vars

\* ErrorReporter::sanityCheck, which the code runs at the end of an epoch, holds
\* after every step.
ClientErrorCountIsExact == SanityCheck(rep)

\* flushErrorsForFile runs without the preemption lock while workers read
\* fileErrorStatuses: it must not reallocate the vector under them.
NoResizeUnderReaders ==
    tc = "flush" /\ item >= rep.size => \A w \in Workers : worker[w].pc # "decide"

\* Once the typechecker is idle again, with no cancellation since every file was
\* last checked, the editor shows the errors of every file, whatever fast paths
\* preempted the slow paths and in whatever order results were flushed.
EditorShowsTruth ==
    tc = "idle" /\ undo.epoch = NoUndo /\ cancels = 0 => rep.count = truth

\* What the server status documentation promises of a cancellation: the canceled
\* edit and the new one are processed as if they were a single edit.
EditorShowsTruthAfterCancel ==
    tc = "idle" /\ undo.epoch = NoUndo => rep.count = truth

\* The edit that follows a cancellation takes back the errors that exist no
\* longer: typecheck adds the files with errors reported since the canceled slow
\* path began.
CanceledErrorsAreRevoked ==
    tc = "idle" /\ undo.epoch = NoUndo /\ cancels <= 1 =>
        \A f \in Files : rep.count[f] <= truth[f]

\* The same after any number of cancellations in a row.
AllCanceledErrorsAreRevoked ==
    tc = "idle" /\ undo.epoch = NoUndo => \A f \in Files : rep.count[f] <= truth[f]

\* The limit of --lsp-error-cap on the diagnostics the editor shows.
ErrorCapIsKept == Cap > 0 /\ tc = "idle" => SumOf(rep.count, Files) <= Cap

\* Every typecheck run ends: the typechecker thread leaves the wait loop, and
\* does not wait forever for the preemption lock or for the workers.
RunsEnd == tc # "idle" ~> tc = "idle"
=============================================================================
