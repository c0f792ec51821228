# scip-ruby: a TLA+ model of the concurrent core

scip-ruby is a fork of the Sorbet typechecker for Ruby. It is a batch typechecker,
a language server and an indexer that emits SCIP, in C++. This directory models the
parts of it whose correctness depends on an order of events: threads that preempt and
cancel each other, queues that are rewritten while they are drained, and state that
is built up over many calls. TLC checks the models on small instances, TLAPS proves the
central invariants for every instance.

## The system and its parts

The language server (`main/lsp`) runs five kinds of threads.

* The *reader* and *Watchman* threads put client and file-system messages in a message
  queue.
* The *preprocessor* thread turns messages into tasks, canonicalizes edits, and keeps the
  task queue merged (`LSPPreprocessor`).
* The *processing* thread (`LSPLoop::runLSP`) owns the indexer (`LSPIndexer`). It pops
  tasks, indexes edits, decides between fast and slow path, and hands work over to the
  typechecker thread.
* The *typechecker* thread (`LSPTypecheckerCoordinator`, `LSPTypechecker`) owns the
  GlobalState. A slow path is asynchronous, may be canceled by a newer edit and may be
  preempted by requests and fast edits.
* *Worker* threads (`WorkerPool`, `ConcurrentQueue`) index and typecheck files.

The epoch manager (`core/lsp/TypecheckEpochManager`) and the preemption slot
(`core/lsp/PreemptionTaskManager`) are the only state shared by the processing and the
typechecker thread besides the task queue.

The batch program (`main/realmain.cc`) runs the same pipeline once per package stratum,
and scip-ruby hangs its indexer (`scip_indexer`) off it as a semantic extension: each
worker thread collects occurrences in a state of its own, and the states are merged into
one index file. Behind both sits an LMDB store (`common/kvstore`, `main/cache`) that
keeps the name table and parsed trees between runs, and that all processes started with
the same `--cache-dir` share. A language server takes a private copy of it for its
session, which later processes remove when its process is gone.

The rest is sequential: the phases from parser to inference turn trees into trees and
errors, requests compute an answer from a finished GlobalState, and `gems/`, `rbi/` and
`website/` hold no C++. They appear in the models by their effect only: a file has a
number of errors, a request is answered, a tree mentions symbols.

## Modules and what they stand for

| Module | Code | State and actions |
|---|---|---|
| `TypecheckEpochManager` | `core/lsp/TypecheckEpochManager.cc` | the three epochs; start, cancel and commit of a slow path |
| `PreemptionTaskManager` | `core/lsp/PreemptionTaskManager.cc` | the slot and the stratum it is runnable at; schedule, cancel, take, reschedule |
| `TaskQueue` | `main/lsp/TaskQueue`, `LSPPreprocessor::mergeFileChanges`, `LSPIndexer::preemptionPossible`, the promotion in `LSPLoop::runLSP` | operators on sequences of tasks |
| `LSPLoop` | `LSPLoop::runLSP`, `LSPTypecheckerCoordinator`, `LSPTypechecker::runSlowPath` | composes the three above with the preprocessor, processing and typechecker threads, one action per step between two synchronizations |
| `ErrorReporter` | `main/lsp/ErrorReporter.cc` | the reporter as a record, its operations as operators |
| `PipelineTypecheck` | `pipeline::typecheck`, `ConcurrentQueue`, `WorkerPool`, `LSPTypechecker::typecheck` | typechecker and worker threads around `fileq`, `outputq` and the preemption lock, through to the diagnostics in the editor |
| `SCIPState` | `class SCIPState` in `scip_indexer/SCIPIndexer.cc` | the per-thread state as a record with its caches |
| `SCIPIndexer` | `SCIPSemanticExtension`, `typecheckOne`, the loop over strata in `realmain` | worker threads that walk files, `finishTypecheck` that writes the index |
| `UnresolvedFields` | `CollectUnresolvedFieldsWalk` in `resolver/resolver.cc` | the parallel collection of the fields that classes mention, and its merge; a stage of `SCIPIndexer` |
| `FieldResolver` | `scip_indexer/SCIPFieldResolve.cc` | operators: the class a field is inherited from, the mixins that mention it |
| `LSPIndexer` | `main/lsp/LSPIndexer.cc`, `LSPFileUpdates.cc` | the indexer's file table, pending updates and evicted files; the fast path decision and `commitEdit` |
| `WorkspaceEdits` | `notifications/sorbet_workspace_edit.cc`, and the part of `LSPLoop`, `LSPTypecheckerCoordinator` and `LSPTypechecker` an edit goes through | composes `LSPIndexer` and `TypecheckEpochManager` with queue, processing and typechecker threads and the typechecker's file table |
| `LSPSession` | `LSPLoop::runLSP`, `LSPPreprocessor`, `WatchmanProcess`, `LSPTypechecker::initialize`, the tasks of the handshake | the threads of a server from start to end, and where the text of each file comes from |
| `KeyValueStore` | `common/kvstore/KeyValueStore.cc` | the committed database, the writer and its transaction |
| `Cache` | `main/cache/cache.cc`, its uses in `realmain.cc`, `payload.cc`, `pipeline.cc` and `LSPTypechecker.cc` | processes that load, index, write back, copy, reap and crash |
| `NameStore` | | what `Cache` promises, as a specification of two variables and two actions |
| `LSPLoopProofs` | | the theorems about `LSPLoop`: the task queue, types, slot and undo state; epochs and messages |
| `WorkspaceEditsProofs` | | the theorems about `WorkspaceEdits`: the numbers of the edits in the queue, `commitEdit`, the steps and the results |
| `LSPSessionProofs` | | the theorems about `LSPSession`: the handshake, the end and the texts of the files |
| `PipelineTypecheckInvariant` | | the inductive invariant of `PipelineTypecheck` (definitions only) |
| `PipelineTypecheckReports`, `PipelineTypecheckWorkers`, `PipelineTypecheckProofs` | | the theorems about `PipelineTypecheck`: the reporter, the steps of the workers and of the call, the steps of the slow and fast path and the results |
| `CacheInvariant`, `CacheProofs` | | the theorems about `Cache`: the operators on databases and the inductive invariant, the steps that keep it and the results |
| `MC...` | | instances for TLC |

### LSPLoop

`main` and `tc` say where the two threads are. The processing thread schedules a
preemption, awaits (`Mutex::Await`), cancels or waits for it, pops a task, and dispatches
it. The typechecker thread takes work, and for a slow path goes through `index`,
`typecheck`, `commit`, `final`, `finish`; at the preemption points it loads the slot
(`LoadPreemptTask`) and swaps it (`SwapPreemptTask`) in two steps, because the code's load
and compare-and-swap are two steps and the processing thread may take the task back
between them. Everything under the task queue's mutex is one action. What an edit does
to the GlobalState is the set of client messages it covers: `applied` is what the
typechecker reflects, `undoApplied` what it would fall back to. Four kinds of task
(`edit`, `hover`, `symbols`, `references`) stand for the answers the subclasses of
`LSPTask` give to `canPreempt`, `isDelayable` and `preemptionStratum`. Whether an edit
takes the fast path is an input; merged edits choose again. A task that preempts is
assumed to take the path it had cached. `WorkspaceEdits` models the decision itself and
shows where that assumption fails (`stale_decision`).

### LSPIndexer and WorkspaceEdits

A version of a file is its file hash: the hash of its hierarchy, its symbols with their
signatures, the names it uses. `TakesFastPath` is `getTypecheckingPathInternal` on those,
`CommitEdit` is `commitEdit` with both of its decisions, the one of the edit alone and the
one of the edit together with a slow path that it cancels. The scheduling around it is
that of `LSPLoop` with one stratum and a slot without compare-and-swap. A queued task
remembers its decision (`decision`), and every call of `preemptionPossible` leaves
decisions behind (`Asked`) as `canPreempt` does. Indexer and typechecker have a file table
each; the slow path saves the typechecker's in `undo`. `FastPathIsEnough` is stated on the
typechecker's table, which the indexer never sees.

### LSPSession

The message queue, the task queue with its `paused` and `terminated` flags, the flag that
ends the other threads and the notification that lets Watchman's thread go on are
variables; each thread's loop is a few actions, split where it gives up a mutex. The
typechecker thread is folded into the processing thread, which waits for it in all the
tasks of this model. The disk, the editor's buffers and the preprocessor's `openFiles` hold the
texts. `unseen` is not a variable of the code: it is the set of files whose last change on
disk nobody will report, because it happened before Watchman's subscription.

### KeyValueStore, Cache and NameStore

LMDB is modelled by what the code uses of it: one write transaction at a time across
processes, which works on a private copy and becomes visible at once. A `Cache` process
follows `realmain` and, if it is a language server, `LSPTypechecker`. `pc` names the next
point at which it touches shared state; what it does while it owns the store is one action,
and every action that lets go of the store ends there. The name table is a sequence in
memory and a chain of diffs on disk, a tree is the position of its name. A commit may fail
silently, as `bestEffortCommit` ignores the result; a process may die at any point, and
its pid may be used again. Removal of a session directory is four steps (is there a
data.mdb, remove it, remove the directory, go on), as other processes remove the same ones.

`NameStore` says what all of that amounts to: a table of names that is emptied or
extended, and trees that are stored together with the names they need.
`ImplementsNameStore` is `NS!Spec` with `names <- NameTable(main)` and
`trees <- main.trees`.

### PipelineTypecheck and ErrorReporter

The data is `truth[f]`, the number of errors file `f` has in the current GlobalState, and
what the reporter last told the editor. A worker takes a file, takes the preemption lock,
compares epochs, typechecks, enqueues the result and then lowers the queue's counter: five
steps, since the queue's push is not atomic with its count. The typechecker thread loads
`shouldRetry`, dequeues, flushes, and lets preempting fast paths run under the writer lock.
A cancellation makes it return without waiting for the workers. That fast paths change
errors only in the files they typecheck is what the file hashes are for, and is assumed.
When preemption and cancellation may happen is taken from `LSPLoop`.

### FieldResolver, UnresolvedFields, SCIPState and SCIPIndexer

A program is given as the calls that the walk over each file makes. For each stratum the
workers first gather the fields that the trees mention, the main thread merges what they
found into `unresolvedFields` (`UnresolvedFields`), and then the workers walk the files. As
a `SCIPState` belongs to one thread, a call is one step, and the interleaving that matters
is which thread gets which file after which other. `Populate` asks `FieldResolver` for
the origin of each field a method mentions. Sorted lists are bags. A symbol string is the
pair of gem and symbol. An exception in inference drops the rest of the file.

The code in a class body has two owners. In the tree, where the fields are collected, it
is the class, so `UnresolvedIn` files the body's instance variables with those of the
instances. In the control flow graph the body is the `<static-init>` of the singleton class
(`MethodOwner`), where `Populate` and the occurrences place them.

## What the runs check

Passing runs:

| Run | Bounds | What it shows |
|---|---|---|
| `scheduling` | 4 messages, 2 files in 2 strata; 707,559 states | In every interleaving of the three threads: the preemption slot is only filled while its owner is blocked and a preemption point is ahead (`SlotOwned`), preemption excludes the processing thread and canceled slow paths (`PreemptsLiveSlowPath`), the last run defers nothing, the undo state is there exactly when an update needs it, epochs advance, no message is lost |
| `scheduling_live` | 3 messages | Slow paths end, scheduled tasks settle, an exit completes unless the wakeup was missed |
| `typecheck` | 2 workers (symmetric), 2 files, 2 edits; 3.4 million states | No worker touches the caller's objects after `pipeline::typecheck` returned early, only fresh trees are checked, reports never go back, the status vector is not resized under readers, the editor shows the truth when no cancellation intervened, and `clientErrorCount` agrees with `sanityCheck` (with the cap off; the theorem is for every cap) |
| `typecheck_live` | 2 workers, 2 strata, 2 edits | Every run of `pipeline::typecheck` ends |
| `scip_index` | 4 files (one RBI), 8 classes, 3 workers | Whatever thread gathered, merged and walked what: the document of a file is the one a thread writes that walks only this file and knows all fields, with all its locals, with each field traced to the class it comes from (but for names that the body of a superclass uses too, see below), and no file is missing. One gem and one stratum |
| `cache` | 2 pids, 3 processes, 2 versions, 2 texts, 2 strata; 292,017 states | What is committed is sound after any crash and failed commit, a cached tree means the same where it is read, an owner has the names that are stored, nobody waits for a lock of their own, and the store implements `NameStore` |
| `workspace_edits` | 3 files, 4 messages, `lspMaxFilesOnFastPath` = 2; 811,206 states | Once what was indexed is applied, the typechecker has the indexer's files; what is remembered of a slow path is what it takes to undo it; a fast path rechecks every user of a symbol that changed, against the typechecker's files; the epoch of the slow path is in the interval of the pending edits |
| `session` | 1 file, 2 texts, 3 events besides handshake and end; 423,663 states | After everything sent and reported has been run the server has the editor's text of open files and the disk's of others, no edit is run before the indexer is initialized and both file tables agree after each task, nothing is left in a queue, and all threads stop |

Runs that end in a counterexample, each for a sentence of the repository the code does not
keep (the quotations are in `PROJECT.json`):

| Run | Behaviour found |
|---|---|
| `missed_wakeup` | A preempting task that arrives after the PreemptionLoop has left and before `Await` wakes up is run by nobody; the processing thread stays blocked, after a normal exit forever |
| `fixed_error_after_cancel` | A canceled slow path cleared the errors of a file; the next edit does not bring them back |
| `stale_decision` | The decision for the fast path that a queued edit has cached is not made again after the edits before it were indexed; it preempts and raises on the typechecker thread |
| `reopened_class` | The fields of a class that two workers met are those of the worker that was merged first, so the relationships in the index depend on the schedule; this would explain the varying counts the comment after the merge reports |

### Further observations

These came up in the models too, and have no run of their own. In the scheduling and
typechecking models:

* `TypecheckEpochManager.h:29` calls the committed epoch ">= currentlyProcessingLSPEpoch".
  It is behind during every slow path, as `EpochsAdvance` says; the code relies on that and only
  the comment is wrong.
* `AllCanceledErrorsAreRevoked` (`PipelineTypecheck`), with three edits and one worker: errors
  of a slow path canceled two slow paths ago are not revoked.
* `ErrorCapIsKept` (`PipelineTypecheck`, with `Cap = 1` and two errors): `beginEpoch` resets
  `clientErrorCount`, but a slow path that is canceled has not checked every file again, so
  more errors than the cap may be shown.
* `EditorShowsTruth` with `StratumOf <- TwoStrata`: `preemptionStratum` looks at the edited
  files only, but the fast path also checks users of changed symbols in a stratum that the
  slow path has not reached, which then skips them (only with
  `--experimental-package-directed`).
* `EpochIsInInterval` (`WorkspaceEdits`): a number that went to an edit of no file (a file
  outside of the workspace) is counted in no update, and the interval that
  `LSPIndexer.cc:375` describes may miss the epoch of the slow path. `EpochIsPending` is
  the same without such numbers.

In the session:

* Initialization does not wait for Watchman's subscription, which asks for no files to
  start with: a change between the reading of a file and the subscription is never
  reported. `ServerHasTheText` leaves these files out (`unseen`).
* `WatchmanProcess` stores its exit code in the message queue, but nobody reads it, so the
  server ends with 0 and the branch "Abnormal termination" of `runLSP` is never taken.
* `ENFORCE(!taskQueue->isPaused())` in `runLSP` fails in builds with checks when the server is told to
  exit while it is paused, as `ready()` is true then.

In the cache:

* `VersionIsGuaranteed`: between the commit of `checkVersions` and the transaction the owner
  keeps, a process of another version may take the store, so "checkVersions should have
  guaranteed this" (`KeyValueStore.cc:156`) may fail. Nothing wrong is read, as the UUID
  differs then.
* `SessionTreesMeanTheSame` (one stratum): `copyTo` lets go of the store before it copies,
  another process may write in between, and `SessionCache::open` does not compare the UUID; the
  copy may hold trees of another name table, where `cache.h` says that its table
  "will not change".
* Two processes that reap the same directory may both find `data.mdb`; the second one's
  `removeFile` raises an exception nobody catches. A reaper that looked before a pid was used
  again may remove the session directory of a live server, whose copy then fails or whose
  session goes on without a cache.
* UUIDs are random 32-bit numbers, and 0 stands for none; the model takes fresh ones.

In the SCIP indexer:

* With two gems, `IndexIsDeterministic` fails: `symbolStringCache` is keyed by the symbol
  alone, while the gem of a definition is that of its file and the gem of a reference that
  of the symbol, so a thread uses for a class that is reopened in another gem the name it
  met first.
* `EveryFileHasADocument` with more than one stratum: each stratum truncates the index of the
  one before.
* `ClassInstanceVariablesAreNotInherited`, on the program of `scip_index` itself: the comment at
  `SCIPFieldResolve.cc:74` says "Class instance variables are not inherited", but
  `unresolvedFields` has the instance variables of a class body under the class. If the body
  of `Base` sets `@h` and a method of its subclass `K` reads `@h`, the index names
  `Base`'s `@h` as the definition of `K`'s. `FieldsAreDescribed` excepts such names
  (`Confused`) and says which superclass is named then.
* `SymbolsAreDescribedOnce`: nothing is ever inserted in `emittedSymbols`, so a symbol may be
  described more than once.
* The cache of `FieldResolver` never hits: `relationshipsMap`, with the same key, is
  consulted first.

### Bounds

Four messages are what the longest chain needs: an edit that starts a slow path, one
that preempts it, one that cancels it, and a request behind them. Two strata give a task
something to wait for. Two files suffice for "reported" and "not reached yet", two edits
for a slow path and what preempts or cancels it. The files of `MCSCIPIndexer` are built to
collide: equal offsets, equal counters and equal symbols in different files, and a class
hierarchy with every way to inherit a field. `MaxMessages`, `MaxEdits`, `MaxErrors`,
`MaxEvents` and `MaxStarts` are bounds of the model. `Cap` is an option of the program: it
is off, as a capped editor does not show the truth.

In `MCWorkspaceEdits` one file defines two methods, each with a user in another file, and has three versions: the
second and the third are a fast edit away from the first, but not from each other, which is
the smallest case in which a decision depends on what it is compared with. `MCCache` has a
third process that reuses a pid, and follows it only while somebody reaps
(`Explored`), where it can do something that two processes cannot; processes of
different versions are followed through one stratum. One file is enough for `LSPSession`: the
texts of different files do not interact, only the order of the messages about one.

Deadlock is not checked in the language server models and in `cache`, where a session
simply ends when the client sends nothing more and every process may have ended; that
the threads get where they should is a liveness property there.

### Fairness

Threads that can run are scheduled: weak fairness of each thread. Workers also get strong
fairness on the preemption lock, as `typecheckMutex` is an `absl::Mutex`, whose waiters
queue up. Nothing is assumed of the client: messages, preemption and cancellation are not
fair. In `LSPSession` each of the four threads is weakly fair, as a thread that is not blocked
keeps running; the client, the disk, the subscription and the death of Watchman are not.

## What is proved

### LSPLoop

`LSPLoopProofs` proves for every number of messages, files and strata all that the
`scheduling` run checks:

* `TypeCorrect`: `Spec => []TypeOK`, over lemmas that merging, promotion and removal take
  queues of tasks to queues of tasks;
* `SlotIsOwned`, `PreemptionIsExclusive`, `LastRunIsComplete` and `UndoStateIsMatched`;
* `EpochsOnlyAdvance` (`EpochsAdvance`) and `MessagesAreKept` (`NoMessageLost`).

`SlotOwned` is not inductive by itself: it says nothing of what the typechecker loaded
before its compare-and-swap, nor of where the slow path stands. `SlotInv` adds that the
slow path is not canceled while the processing thread is blocked (`BlockedIsLive`), that
the epoch manager shows a slow path as running only up to its commit
(`RunningHasCommitAhead`), that the last compare-and-swap can only find the task that was
loaded (`LoadedTask`), and that a slow path that was not canceled commits in the last
stratum (`CommitsInLastStratum`), which is why the last run has nothing to defer.
`UndoInv` adds the hand-over: the typechecker's queue holds at most one piece of work
(`OneWorkAtATime`), the undo state is held throughout a slow path, and a slow path is
rolled back exactly when the work next in line canceled it (`UndoHeld`). `IInv` is
`TypeOK`, `SlotInv` and `UndoInv`; `Inductive` proves it, one lemma per thread and one step
per action.

For epochs and messages the queue has to be looked into. `EpochInv` says that the edits in
the queue are in the order of their epochs and all of them are ahead of `Lead`, the epoch
of the edit that left the queue last; mergeFileChanges and the promotion of runLSP keep the
order of edits, which is a lemma about sequences. `MsgInv` says where a message can be: in
one task of the queue, in the one task outside of it, or settled (`Apart`, `Kept`). The edits of an
indexed task are pending in the indexer (`IndexedIsPending`), and so is everything that a
cancellation would roll back (`RollbackIsPending`), which is why the edit that cancels, with
the pending updates merged into it, stands for all that is lost. `LoopInv` puts these on top of
`IInv`. The assumptions are those on the constants (`LastStratum` and `MaxMessages` are
natural numbers, `StratumOf` maps files to strata).

### WorkspaceEdits

`WorkspaceEditsProofs` proves for every set of files, versions and edits, every limit on the
fast path and any number of messages all that the `workspace_edits` run checks:
`TypecheckerHasTheFilesHolds`, `SlowPathCanBeUndoneHolds`, `FastPathIsEnoughHolds`,
`EpochIsPendingHolds` and `TypeCorrect`. The properties are about moments at which nothing is
under way; the invariant `IInv` says what they come from while something is:

* `Epochs`: an edit in the queue stands for an interval of messages, from `First`, which is
  `epoch - mergeCount`, to `epoch`. The intervals are in order and follow the last edit that
  was handled (`Numbered`), and as long as no number was skipped they leave no gap
  (`Gapless`). mergeFileChanges and the promotion keep both (`EnqueueKeeps`,
  `PromotedKeeps`), the latter by induction over the queue. Therefore `editCount` counts
  back exactly to before the slow path, which is `EpochIsPending`.
* `Updates`: the files of the indexer are those the typechecker will have (`Base`) with the
  update that is under way over them. `Base` is the undo state if the slow path was canceled, and the
  typechecker's table otherwise. `EnoughFor(Base, work)` is the fast path decision, moved from
  the evicted files it was made on to the table it will be run on (`FastIsEnough`).
* `Undoable`: pending updates and evicted files are what `CanBeUndone` asks for, with respect to
  the undo state of the slow path that runs, or to the table that the one about to start will save.
  `UndoMerged` is the case of an edit on the fast path beside the slow path, `UndoAlone` that
  of a new slow path.
* `Control`: where the threads may be, and what the epoch manager says then.

`CommitKeeps` is the argument for `commitEdit`, used by the three actions that index an
edit (`PopEdit`, `PreemptNext`, `StartSlow`). The assumptions are `EditsAssumption` (edits and
initial tables are file tables) and those of `LSPIndexer` on its constants. The run
`stale_decision` is not in conflict with these theorems: the exception it ends with leaves the
typechecker `raised`, where none of these properties but the types is claimed.

### LSPSession

`LSPSessionProofs` proves for every set of files and texts and any number of events the safety
properties of the `session` run: `ServerHasTheTextHolds`, `IndexerHasTheFilesHolds`,
`NothingLeftBehindHolds` and `TypeCorrect`. Its invariant `IInv` follows what is sent:

* `Handshake`: there is one `initialized`, edits of the client are behind it, and Watchman
  sends nothing before it was preprocessed; after `exit` only Watchman does.
* `Stage`: that message and the tasks it turns into are at one of seven places, from the
  message queue to `indexerReady`, and at each of them no edit is ahead of it. The task that
  initializes the indexer carries the typechecker's files, which cannot change before it is run.
* `Ending`: the processing thread leaves its loop only after the preprocessor has ended and with
  an empty queue, and the preprocessor ends only after the client, unless Watchman died.
* `Sent`: the editor's text is what the last message about the file says, and what
  `openFiles` has if there is none.
* `Texts`: the newest edit of a file, wherever it is between the preprocessor and the
  typechecker, has the text that the preprocessor knows (`Known`): the editor's if the file is
  open, the disk's if not, unless the file is still to be reported (`Pending`). For a file
  that nothing is queued for, the same holds of the typechecker's table.

`TypeCorrect` needs `Flags` besides, for variables that no other part mentions. The assumption
is `SessionAssumption`: the empty text is a text, and no text is `None`.

### PipelineTypecheck

`PipelineTypecheckProofs` proves for every number of workers, files, strata, errors and
edits, and every error cap: `TypeCorrect`, `ClosureOutlivesNothing` (`NoUseAfterReturn`),
`TreesAreFresh` (`FreshTrees`), `ReadersSeeNoResize` (`NoResizeUnderReaders`),
`ErrorCountIsExact` (`ClientErrorCountIsExact`) and the action property
`ReportsAreInOrder` (`ReportsMoveForward`). The invariant `IInv` of
`PipelineTypecheckInvariant` has these parts:

* `Accounted` is the reason the wait loop may be left: `elementsLeftToPush` is the number of
  files in `fileq` and of those the workers have popped and not counted. The code does not
  keep which files those are, so the invariant says that there are disjoint sets of files
  (`Shares`), one for each worker, of the sizes they owe. With `LocalInv` and `QueueInv`,
  once the counter is zero and `outputq` is empty, no worker is at work, and a closure
  that is started later finds `fileq` empty.
* `Apart`: a file of the stratum is in `fileq`, with one worker, in `outputq` or with the
  typechecker thread, and nowhere else. `FlushInv` counts flushed files with it, and with
  `RepInv` (sortParsedFiles made an entry for every file, unless it is the only one) it
  shows that nobody reads the vector when it grows.
* `TreeInv`: the trees of the stratum are those of their files, but for files that a
  preempting fast path replaced, whose epoch is higher than the slow path's. The test
  under the lock excludes those, and none is replaced between the test and the check, as
  `PreemptingEdit` needs the lock.
* `RepInv`: the count of the reporter is exact and no report is newer than the last edit
  (`Tracked`), and the last full typecheck is the slow path.
* `CancelInv` and `ClosureInv` bound the counters.

`PipelineTypecheckReports` has the lemmas about `ErrorReporter`: one report, and any
sequence of them (`PushAllKeeps`), leaves the count exact and moves forward. What the
sum and the sequence of reports compute is defined by recursive functions, and proved by
induction: the provers cannot apply the library's induction theorems, but they can use
that a set of numbers has a least element (`LeastNumber`), from which `Induction` follows for
sets of numbers. That a recursive definition has a solution on `0..n` is proved the
same way. The assumptions are those on the constants.

`EditorShowsTruth` and `CanceledErrorsAreRevoked` are not theorems: they depend on the cap being
off and on a single stratum (see *Further observations*), and stay with TLC.

### Cache

`CacheProofs` proves for every number of processes, versions, files, sources, strata and
starts what the `cache` run checks, but for its types: `NobodyWaitsForThemselves`
(`OwnerNeverWaits`), `StoresStaySound` (`StoresAreSound`), `TreesKeepTheirMeaning`
(`CachedTreesMeanTheSame`), `OwnersAreUpToDate` (`OwnerHasTheStoredNames`) and
`CacheImplementsNameStore`, the refinement of `NameStore`. None of them is inductive. The
question is why it is safe to let go of the store, work, and write names back that were
numbered before somebody else may have written; the invariant `IInv` of `CacheInvariant`
answers it:

* `Names`: a UUID stands for one table. Every process agrees with the store and with every
  session copy: if the UUIDs are equal, its names start with the stored ones and its two
  counters are those of the stored diffs. A session copy with the UUID of the store has
  its diffs.
* `Owner`: the transaction of the owner is what is committed, but for the version, and
  `kvstoreChangedSinceGsCreation` is false of it. With `Names` this makes the next diff
  continue the table (`UnchangedContinues`, `ExtendedIsGood`).
* `Stores`: the store and all copies are `Good`: beyond `Sound` (diffs start where their
  predecessors end), any two diffs are in order (`Ordered`) and every position is in some
  diff (`Covers`). These would follow from `Sound` by induction over the diffs; as part of
  the invariant they are kept step by step instead.
* `Held`: a tree in memory decodes in the names of its process. Names only grow while a
  tree is held (`WithNameKeeps`).
* `Control`: where a process may own the store, and that no tree is in memory when names
  are loaded or a copy is made.

The modules follow the argument: the first part of `CacheInvariant` is about databases and
names and mentions no variable; its second part and the first of `CacheProofs` have one
lemma per action. For the refinement, `CachePublishes` shows that writing back is one step of
`NameStore`, a dropped database is `Empty`, and all else leaves names and trees alone. The
assumptions are `CacheAssumption` and `NoneAssumption`: UUID 0 and an absent key are no
UUID, no tree and no process, and every stratum has a file. That a new UUID is nobody
else's is part of the model (`FreshUuids`); the code draws 32 random bits.

### Only model-checked

All liveness properties, which are out of the prover's reach; `EditorShowsTruth` and
`CanceledErrorsAreRevoked` for the reason given above; `TypeOK` of `Cache` (it bounds the
positions of names by the number of sources, so that one would have to prove names distinct,
which nothing else needs); and everything about `SCIPIndexer`, whose properties compare what
the threads wrote with folds over whole programs, that is, with what recursive definitions
compute.

## Plan

An abstract specification of an edit session (the editor shows the errors of some prefix of
the edits, and finally of all) that `PipelineTypecheck` implements up to the findings above.

## Not modelled

Parser, desugarer, rewriter, namer, resolver (but for the collection above), CFG
construction, inference, the packager and the symbol table compute a function of their input;
their parallel loops have the shape of `UnresolvedFields`, and what they compute is beyond
a model checker. So is the traversal of a CFG in the SCIP indexer: the models start from the calls
it makes. Requests read a state that is fixed while they run. Of the language server, the
watchdog timers, `LSPInput` and `LSPOutput`, and the counters are left out; of the
cache, LMDB's own pages and locks, which are taken to work as its documentation says. Options, printing,
metrics, serialization and file access are input and output. The Ruby gems are not part of
the program. `PROJECT.json` lists each part with its reason.
