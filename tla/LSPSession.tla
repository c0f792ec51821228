----------------------------- MODULE LSPSession -----------------------------
(***************************************************************************)
(* A session of the language server from the handshake to its end: the     *)
(* reader and processing threads of main/lsp/LSPLoop.cc, the preprocessor  *)
(* thread (LSPPreprocessor.cc), the Watchman thread                        *)
(* (watchman/WatchmanProcess.cc), the initialization of typechecker and    *)
(* indexer, and where the contents of each file come from: the editor for  *)
(* a file that is open, the disk for the others.                           *)
(*                                                                         *)
(* Edits run one at a time here; how they preempt and cancel each other is *)
(* the subject of LSPLoop and WorkspaceEdits.                              *)
(***************************************************************************)
EXTENDS Integers, Sequences

CONSTANTS
    Files,
    Contents,           \* what a file may contain
    Empty,              \* the empty one of them
    None,               \* no file, or no editor buffer
    MaxEvents           \* bound on what the editor sends between the handshake and
                        \* the end, and on the changes on disk, together

ASSUME SessionAssumption ==
    /\ Empty \in Contents
    /\ None \notin Contents
    /\ MaxEvents \in Nat

VARIABLES
    client,             \* "new", "waits" for the answer to initialize, "answered",
                        \* "ready" after initialized, "gone"
    events,             \* what the bound counts
    disk,               \* the files on disk
    buffer,             \* the editor's open files
    watchman,           \* the Watchman thread: "starts", "runs", "waits" for the
                        \* notification, "ended"
    failed,             \* whether Watchman died
    changed,            \* changes that Watchman has not told of yet
    told,               \* the response the Watchman thread holds
    unseen,             \* files that changed before Watchman watched them, and
                        \* that no later task reads
    reader,             \* the reader thread: "runs", "ended"
    messages,           \* MessageQueueState::pendingRequests
    terminate,          \* MessageQueueState::terminate
    notified,           \* initializedNotification
    initialized,        \* LSPConfiguration::initialized
    openFiles,          \* LSPPreprocessor::openFiles
    pre,                \* the preprocessor thread: "pops", "enqueues", "ended"
    preTask,            \* the task it enqueues
    tasks, paused, terminated,      \* TaskQueue
    main,               \* the processing thread
    task,               \* the task it runs
    unread,             \* input files that the typechecker has not read yet
    tcFiles,            \* the typechecker's file table
    indexerFiles,       \* the indexer's
    indexerReady        \* LSPIndexer::initialized

worldVars == <<client, events, disk, buffer>>
watchVars == <<watchman, failed, changed, told, unseen>>
messageVars == <<reader, messages, terminate, notified>>
preVars == <<initialized, openFiles, pre, preTask>>
queueVars == <<tasks, paused, terminated>>
mainVars == <<main, task, unread, tcFiles, indexerFiles, indexerReady>>
vars == <<worldVars, watchVars, messageVars, preVars, queueVars, mainVars>>

NoFile == [text |-> None, open |-> FALSE]
NoFiles == [f \in {} |-> NoFile]
NoTask == [kind |-> "none", files |-> NoFiles]
Message(kind, fs, text) == [kind |-> kind, files |-> fs, text |-> text]

Init ==
    /\ client = "new"
    /\ events = 0
    /\ disk \in [Files -> (Contents \ {Empty}) \cup {None}]
    /\ buffer = [f \in Files |-> None]
    /\ watchman = "starts"
    /\ failed = FALSE
    /\ changed = {} /\ told = {} /\ unseen = {}
    /\ reader = "runs"
    /\ messages = <<>>
    /\ terminate = FALSE /\ notified = FALSE /\ initialized = FALSE
    /\ openFiles = [f \in Files |-> None]
    /\ pre = "pops"
    /\ preTask = NoTask
    /\ tasks = <<>>
    /\ paused = FALSE /\ terminated = FALSE
    /\ main = "idle"
    /\ task = NoTask
    /\ unread = {f \in Files : disk[f] # None}
    /\ tcFiles = [f \in Files |-> NoFile]
    /\ indexerFiles = [f \in Files |-> NoFile]
    /\ indexerReady = FALSE

\* readFile: a file that is gone is read as an empty one.
\* Mutant: it is not.
ReadFile_None(f) == disk[f]
ReadFile(f) == IF disk[f] = None THEN Empty ELSE disk[f]

-----------------------------------------------------------------------------
(* The client, the disk and the reader thread                              *)

\* The reader thread puts a message of the client into the queue.
Read(message) ==
    /\ reader = "runs"
    /\ messages' = Append(messages, message)
    /\ UNCHANGED <<reader, terminate, notified>>

ClientInitializes ==
    /\ client = "new"
    /\ Read(Message("initialize", {}, None))
    /\ client' = "waits"
    /\ UNCHANGED <<events, disk, buffer, watchVars, preVars,
                   queueVars, mainVars>>

ClientIsInitialized ==
    /\ client = "answered"
    /\ Read(Message("initialized", {}, None))
    /\ client' = "ready"
    /\ UNCHANGED <<events, disk, buffer, watchVars, preVars,
                   queueVars, mainVars>>

\* didOpen with the text on disk, didChange with the whole new text, didClose
ClientEdits(kind, f, text) ==
    /\ client = "ready"
    /\ events < MaxEvents
    /\ \/ kind = "open" /\ buffer[f] = None /\ text = ReadFile(f)
       \/ kind = "change" /\ buffer[f] \notin {None, text}
       \/ kind = "close" /\ buffer[f] = text
    /\ Read(Message(kind, {f}, text))
    /\ events' = events + 1
    /\ buffer' = [buffer EXCEPT ![f] = IF kind = "close" THEN None ELSE text]
    /\ UNCHANGED <<client, disk, watchVars, preVars,
                   queueVars, mainVars>>

\* __PAUSE__ or __RESUME__, which may come before the handshake as well.
ClientPauses(kind) ==
    /\ client # "gone"
    /\ events < MaxEvents
    /\ Read(Message(kind, {}, None))
    /\ events' = events + 1
    /\ UNCHANGED <<client, disk, buffer, watchVars, preVars,
                   queueVars, mainVars>>

ClientExits ==
    /\ client # "gone"
    /\ Read(Message("exit", {}, None))
    /\ client' = "gone"
    /\ UNCHANGED <<events, disk, buffer, watchVars, preVars,
                   queueVars, mainVars>>

\* The end of the input; its destructor sets the flag of the queue.
ClientVanishes ==
    /\ client # "gone"
    /\ reader = "runs"
    /\ client' = "gone"
    /\ reader' = "ended"
    /\ terminate' = TRUE
    /\ UNCHANGED <<events, disk, buffer, watchVars, messages,
                   notified, preVars, queueVars, mainVars>>

\* "Another thread exited."
ReaderEnds ==
    /\ reader = "runs"
    /\ terminate
    /\ reader' = "ended"
    /\ UNCHANGED <<worldVars, watchVars, messages, terminate, notified, preVars,
                   queueVars, mainVars>>

\* Somebody writes or removes a file; Watchman sees it once it watches.
DiskChanges(f, text) ==
    /\ client # "gone"
    /\ events < MaxEvents
    /\ disk[f] # text
    /\ events' = events + 1
    /\ disk' = [disk EXCEPT ![f] = text]
    /\ IF watchman = "starts"
       THEN unseen' = unseen \cup {f} /\ UNCHANGED changed
       ELSE changed' = changed \cup {f} /\ UNCHANGED unseen
    /\ UNCHANGED <<client, buffer, watchman, failed, told,
                   messageVars, preVars, queueVars, mainVars>>

-----------------------------------------------------------------------------
(* The Watchman thread                                                     *)

\* Watchman answers the subscription, empty_on_fresh_instance.
WatchmanSubscribes ==
    /\ watchman = "starts"
    /\ watchman' = "runs"
    /\ UNCHANGED <<worldVars, failed, changed, told, unseen, messageVars, preVars,
                   queueVars, mainVars>>

\* A line with the files that changed.
WatchmanTells ==
    /\ watchman = "runs"
    /\ changed # {}
    /\ told' = changed
    /\ changed' = {}
    /\ watchman' = "waits"
    /\ UNCHANGED <<worldVars, failed, unseen, messageVars, preVars, queueVars,
                   mainVars>>

\* enqueueNotification
WatchmanEnqueues ==
    /\ watchman = "waits"
    /\ notified
    /\ messages' = Append(messages, Message("watchman", told, None))
    /\ told' = {}
    /\ watchman' = "runs"
    /\ UNCHANGED <<worldVars, failed, changed, unseen, reader, terminate, notified,
                   preVars, queueVars, mainVars>>

\* The process cannot be started, or its output ends: processExit.
WatchmanFails ==
    /\ watchman \in {"starts", "runs"}
    /\ watchman' = "ended"
    /\ failed' = TRUE
    /\ terminate' = TRUE
    /\ UNCHANGED <<worldVars, changed, told, unseen, reader, messages, notified,
                   preVars, queueVars, mainVars>>

\* ~WatchmanProcess has set stopped.
WatchmanStops ==
    /\ watchman \in {"starts", "runs"}
    /\ main = "joinWatchman"
    /\ watchman' = "ended"
    /\ UNCHANGED <<worldVars, failed, changed, told, unseen, messageVars, preVars,
                   queueVars, mainVars>>

-----------------------------------------------------------------------------
(* The preprocessor thread                                                 *)

FromDisk(fs) == [f \in fs |-> [text |-> ReadFile(f), open |-> FALSE]]

\* canonicalizeEdits.  "Editor contents supersede file system updates."
\* Mutant: they do not.
EditOf_Watchman(m) ==
    IF m.kind \in {"open", "change"}
    THEN [f \in m.files |-> [text |-> m.text, open |-> TRUE]]
    ELSE FromDisk(m.files)
EditOf(m) ==
    CASE m.kind \in {"open", "change"} -> [f \in m.files |-> [text |-> m.text, open |-> TRUE]]
      [] m.kind = "close" -> FromDisk(m.files)
      [] OTHER -> FromDisk({f \in m.files : openFiles[f] = None})

OpenAfter(m) ==
    [f \in Files |->
        IF f \notin m.files \/ m.kind = "watchman" THEN openFiles[f]
        ELSE IF m.kind = "close" THEN None ELSE m.text]

IsEdit(m) == m.kind \in {"open", "change", "close", "watchman"}

\* ensureInitialized
MayRun(m) == initialized \/ m.kind \in {"initialize", "initialized", "exit"}

NextMessage ==
    /\ pre = "pops"
    /\ messages # <<>>
    /\ messages' = Tail(messages)

\* A message that comes before the handshake is dropped.
PreprocessTooEarly ==
    /\ NextMessage
    /\ ~MayRun(messages[1])
    /\ UNCHANGED <<worldVars, watchVars, reader, terminate, notified, preVars,
                   queueVars, mainVars>>

\* InitializedTask::preprocess marks the server as initialized before the task
\* is enqueued.
PreprocessHandshake ==
    LET m == messages[1] IN
    /\ NextMessage
    /\ m.kind \in {"initialize", "initialized"}
    /\ initialized' = (initialized \/ m.kind = "initialized")
    /\ preTask' = [kind |-> m.kind, files |-> NoFiles]
    /\ pre' = "enqueues"
    /\ UNCHANGED <<worldVars, watchVars, reader, terminate, notified, openFiles,
                   queueVars, mainVars>>

PreprocessEdit ==
    LET m == messages[1] IN
    /\ NextMessage
    /\ MayRun(m) /\ IsEdit(m)
    /\ preTask' = [kind |-> "edit", files |-> EditOf(m)]
    /\ openFiles' = OpenAfter(m)
    /\ unseen' = unseen \ {f \in DOMAIN EditOf(m) : ~EditOf(m)[f].open}
    /\ pre' = "enqueues"
    /\ UNCHANGED <<worldVars, watchman, failed, changed, told, reader, terminate,
                   notified, initialized, queueVars, mainVars>>

\* __PAUSE__ and __RESUME__
PreprocessPause ==
    LET m == messages[1] IN
    /\ NextMessage
    /\ MayRun(m) /\ m.kind \in {"pause", "resume"}
    /\ paused' = (m.kind = "pause")
    /\ UNCHANGED <<worldVars, watchVars, reader, terminate, notified, preVars,
                   tasks, terminated, mainVars>>

\* ExitTask::preprocess and the end of the thread, which the flag makes it take
PreprocessExit ==
    /\ NextMessage
    /\ messages[1].kind = "exit"
    /\ terminated' = TRUE
    /\ terminate' = TRUE
    /\ pre' = "ended"
    /\ UNCHANGED <<worldVars, watchVars, reader, notified, initialized, openFiles,
                   preTask, tasks, paused, mainVars>>

\* "Only terminate once incoming queue is drained."
\* Mutant: at once.
Drained_Anyway == terminate
Drained == terminate /\ messages = <<>>

PreprocessorEnds ==
    /\ pre = "pops"
    /\ Drained
    /\ pre' = "ended"
    /\ terminated' = TRUE
    /\ UNCHANGED <<worldVars, watchVars, messageVars, initialized, openFiles,
                   preTask, tasks, paused, mainVars>>

\* The contents of the files after an edit; the newer text of a file wins.
Over(newer, older) ==
    [f \in DOMAIN newer \cup DOMAIN older |->
        IF f \in DOMAIN newer THEN newer[f] ELSE older[f]]

\* mergeFileChanges
Merged(older, newer) == [older EXCEPT !.files = Over(newer.files, @)]

PreprocessorEnqueues ==
    /\ pre = "enqueues"
    /\ tasks' = IF preTask.kind = "edit" /\ tasks # <<>> /\ tasks[Len(tasks)].kind = "edit"
                THEN [tasks EXCEPT ![Len(tasks)] = Merged(@, preTask)]
                ELSE Append(tasks, preTask)
    /\ preTask' = NoTask
    /\ pre' = "pops"
    /\ UNCHANGED <<worldVars, watchVars, messageVars, initialized, openFiles,
                   paused, terminated, mainVars>>

-----------------------------------------------------------------------------
(* The processing thread, and the typechecker thread while it waits for it *)

\* TaskQueue::ready
Ready == terminated \/ (~paused /\ tasks # <<>>)

Pop ==
    /\ main = "idle"
    /\ Ready /\ tasks # <<>>
    /\ task' = tasks[1]
    /\ tasks' = Tail(tasks)
    /\ main' = "runs"
    /\ UNCHANGED <<worldVars, watchVars, messageVars, preVars, paused, terminated,
                   unread, tcFiles, indexerFiles, indexerReady>>

Runs(kind) == main = "runs" /\ task.kind = kind

\* The answer to initialize
RunInitialize ==
    /\ Runs("initialize")
    /\ client' = IF client = "waits" THEN "answered" ELSE client
    /\ main' = "after"
    /\ UNCHANGED <<events, disk, buffer, watchVars,
                   messageVars, preVars, queueVars, task, unread, tcFiles,
                   indexerFiles, indexerReady>>

\* InitializedTask::index
IndexInitialized ==
    /\ Runs("initialized")
    /\ paused' = TRUE
    /\ main' = "initializes"
    /\ UNCHANGED <<worldVars, watchVars, messageVars, preVars, tasks, terminated,
                   task, unread, tcFiles, indexerFiles, indexerReady>>

\* An edit that was made from an older text of the file may be waiting.
Queued(f) ==
    \/ f \in DOMAIN preTask.files
    \/ \E i \in 1 .. Len(tasks) : f \in DOMAIN tasks[i].files

\* LSPTypechecker::initialize reads the input files, one after the other, ...
InitializeReads(f) ==
    /\ main = "initializes"
    /\ f \in unread
    /\ unread' = unread \ {f}
    /\ tcFiles' = [tcFiles EXCEPT ![f] = [text |-> ReadFile(f), open |-> FALSE]]
    /\ unseen' = IF Queued(f) THEN unseen ELSE unseen \ {f}
    /\ UNCHANGED <<worldVars, watchman, failed, changed, told, messageVars,
                   preVars, queueVars, main, task, indexerFiles, indexerReady>>

\* ... and pushes the task that gives them to the indexer to the front.
\* Mutant: to the back.
WithIndexerInitialization_Last(files) ==
    Append(tasks, [kind |-> "indexerInitialization", files |-> files])
WithIndexerInitialization(files) ==
    <<[kind |-> "indexerInitialization", files |-> files]>> \o tasks

InitializeEnds ==
    /\ main = "initializes"
    /\ unread = {}
    /\ tasks' = WithIndexerInitialization(tcFiles)
    /\ main' = "resumes"
    /\ UNCHANGED <<worldVars, watchVars, messageVars, preVars, paused, terminated,
                   task, unread, tcFiles, indexerFiles, indexerReady>>

\* resumeTaskQueue
ResumeTaskQueue ==
    /\ main = "resumes"
    /\ paused' = FALSE
    /\ main' = "after"
    /\ UNCHANGED <<worldVars, watchVars, messageVars, preVars, tasks, terminated,
                   task, unread, tcFiles, indexerFiles, indexerReady>>

RunIndexerInitialization ==
    /\ Runs("indexerInitialization")
    /\ indexerFiles' = task.files
    /\ indexerReady' = TRUE
    /\ main' = "after"
    /\ UNCHANGED <<worldVars, watchVars, messageVars, preVars, queueVars, task,
                   unread, tcFiles>>

RunEdit ==
    /\ Runs("edit")
    /\ indexerFiles' = Over(task.files, indexerFiles)
    /\ tcFiles' = Over(task.files, tcFiles)
    /\ main' = "after"
    /\ UNCHANGED <<worldVars, watchVars, messageVars, preVars, queueVars, task,
                   unread, indexerReady>>

\* The notification that lets the Watchman thread enqueue
AfterTask ==
    /\ main = "after"
    /\ notified' = (notified \/ initialized)
    /\ task' = NoTask
    /\ main' = "idle"
    /\ UNCHANGED <<worldVars, watchVars, reader, messages, terminate, preVars,
                   queueVars, unread, tcFiles, indexerFiles, indexerReady>>

\* The loop ends; the destructors of its scope wake the other threads.
\* Mutant: not the Watchman thread.
NotifiedAtEnd_Unless == notified
NotifiedAtEnd == TRUE

LeaveLoop ==
    /\ main = "idle"
    /\ terminated
    /\ tasks = <<>>
    /\ notified' = NotifiedAtEnd
    /\ terminate' = TRUE
    /\ main' = "joinPreprocessor"
    /\ UNCHANGED <<worldVars, watchVars, reader, messages, preVars, queueVars, task,
                   unread, tcFiles, indexerFiles, indexerReady>>

\* The destructors of runLSP, in the reverse order of the declarations
Join ==
    /\ \/ main = "joinPreprocessor" /\ pre = "ended" /\ main' = "joinReader"
       \/ main = "joinReader" /\ reader = "ended" /\ main' = "joinWatchman"
       \/ main = "joinWatchman" /\ watchman = "ended" /\ main' = "done"
    /\ UNCHANGED <<worldVars, watchVars, messageVars, preVars, queueVars, task,
                   unread, tcFiles, indexerFiles, indexerReady>>

-----------------------------------------------------------------------------
World ==
    \/ ClientInitializes \/ ClientIsInitialized \/ ClientExits \/ ClientVanishes
    \/ \E kind \in {"open", "change", "close"}, f \in Files, text \in Contents :
          ClientEdits(kind, f, text)
    \/ \E kind \in {"pause", "resume"} : ClientPauses(kind)
    \/ \E f \in Files, text \in (Contents \ {Empty}) \cup {None} : DiskChanges(f, text)
    \/ WatchmanSubscribes \/ WatchmanFails

WatchmanThread == WatchmanTells \/ WatchmanEnqueues \/ WatchmanStops

Preprocessor ==
    \/ PreprocessTooEarly \/ PreprocessHandshake \/ PreprocessEdit
    \/ PreprocessPause \/ PreprocessExit
    \/ PreprocessorEnds \/ PreprocessorEnqueues

Processing ==
    \/ Pop \/ RunInitialize \/ IndexInitialized
    \/ \E f \in Files : InitializeReads(f)
    \/ InitializeEnds \/ ResumeTaskQueue \/ RunIndexerInitialization \/ RunEdit
    \/ AfterTask \/ LeaveLoop \/ Join

Next == World \/ ReaderEnds \/ WatchmanThread \/ Preprocessor \/ Processing

\* Every thread of the server keeps running; the world owes nothing.
Spec ==
    /\ Init /\ [][Next]_vars
    /\ WF_vars(ReaderEnds) /\ WF_vars(WatchmanThread)
    /\ WF_vars(Preprocessor) /\ WF_vars(Processing)

-----------------------------------------------------------------------------
(* Properties                                                              *)

File == [text : Contents \cup {None}, open : BOOLEAN]
FileTable == [Files -> File]
Messages ==
    [kind : {"initialize", "initialized", "open", "change", "close", "watchman",
             "pause", "resume", "exit"},
     files : SUBSET Files, text : Contents \cup {None}]
Tasks ==
    [kind : {"none", "initialize", "initialized", "indexerInitialization", "edit"},
     files : UNION {[fs -> File] : fs \in SUBSET Files}]

\* Only an edit and what initializes the indexer have files; an edit has their texts.
IsTask(t) ==
    /\ t \in Tasks
    /\ t.kind \notin {"indexerInitialization", "edit"} => t.files = NoFiles
    /\ t.kind = "edit" => \A f \in DOMAIN t.files : t.files[f].text \in Contents

\* Every variable has the type its declaration in the code gives it; a task that is
\* merged with others still holds a text for each of its files.
TypeOK ==
    /\ client \in {"new", "waits", "answered", "ready", "gone"}
    /\ events \in 0 .. MaxEvents
    /\ {failed, terminate, notified, initialized, paused, terminated, indexerReady}
          \subseteq BOOLEAN
    /\ {openFiles, buffer, disk} \subseteq [Files -> Contents \cup {None}]
    /\ {tcFiles, indexerFiles} \subseteq FileTable
    /\ {changed, told, unseen, unread} \subseteq SUBSET Files
    /\ watchman \in {"starts", "runs", "waits", "ended"}
    /\ reader \in {"runs", "ended"}
    /\ messages \in Seq(Messages)
    /\ tasks \in Seq(Tasks)
    /\ \A i \in 1 .. Len(tasks) : IsTask(tasks[i])
    /\ IsTask(task) /\ IsTask(preTask)
    /\ pre \in {"pops", "enqueues", "ended"}
    /\ pre = "enqueues" <=> preTask # NoTask
    /\ main \in {"idle", "runs", "initializes", "resumes", "after", "joinPreprocessor",
                 "joinReader", "joinWatchman", "done"}

\* Everything that was sent or seen has been run.
Quiet ==
    /\ messages = <<>> /\ pre = "pops" /\ tasks = <<>> /\ main = "idle"
    /\ changed = {} /\ told = {}
    /\ indexerReady

\* Whatever the order in which editor and Watchman report: once all is run, the
\* server has the editor's text of a file that is open, marked as open, and the
\* text on disk of any other file that did not change before Watchman was there.
ServerHasTheText ==
    Quiet => \A f \in Files :
        IF buffer[f] # None
        THEN tcFiles[f] = [text |-> buffer[f], open |-> TRUE]
        ELSE /\ ~tcFiles[f].open
             /\ \/ f \in unseen
                \/ tcFiles[f].text = ReadFile(f)
                \/ tcFiles[f].text = None /\ disk[f] = None

\* "ensure that the next task we process initializes the indexer": no edit comes
\* before it, so that both file tables agree between two tasks ever after.
IndexerHasTheFiles ==
    /\ Runs("edit") => indexerReady
    /\ indexerReady /\ main = "idle" => indexerFiles = tcFiles

\* "Wait until all pending requests finish": when the server ends, nothing the
\* client sent is left, unless it was cut short by the end of Watchman.
NothingLeftBehind ==
    main = "done" =>
        /\ tasks = <<>> /\ preTask = NoTask
        /\ ~failed => \A i \in 1 .. Len(messages) : messages[i].kind = "watchman"

\* Each thread waits for others when the client leaves or Watchman dies; in the
\* end all of them have stopped, also before the handshake and while paused.
Stops == (client = "gone" \/ failed) ~> (main = "done")
=============================================================================
