----------------------------- MODULE LSPIndexer -----------------------------
(***************************************************************************)
(* main/lsp/LSPIndexer.cc and LSPFileUpdates.cc: the file table of the     *)
(* indexer, the decision between the fast and the slow path, and           *)
(* commitEdit, which remembers what it takes to redo that decision when an *)
(* edit cancels the slow path that is running.                             *)
(*                                                                         *)
(* A version of a file is known by its file hash: the hash of its class    *)
(* hierarchy, its retypecheckable symbols (name and signature) and the     *)
(* names it uses.  An update maps each file to its new version, None for a *)
(* file that it does not touch; a file that does not exist is None, too.   *)
(***************************************************************************)
EXTENDS Integers, FiniteSets

CONSTANTS
    Files,
    Versions,       \* of files
    None,
    Hierarchy,      \* hierarchyHash of a version
    Invalid,        \* the versions with a syntax error
    Symbols,        \* retypecheckableSymbolHashes: pairs of a name and a signature
    Uses,           \* usages.nameHashes
    MaxFiles        \* lspMaxFilesOnFastPath

ASSUME FileHashes ==
    /\ Hierarchy \in [Versions -> STRING]
    /\ Invalid \subseteq Versions
    /\ DOMAIN Symbols = Versions
    /\ DOMAIN Uses = Versions
    /\ MaxFiles \in Nat

VARIABLES
    files,          \* the file table of the indexer's GlobalState
    pending,        \* pendingTypecheckUpdates
    evicted         \* evictedFiles

indexerVars == <<files, pending, evicted>>

FileTable == [Files -> Versions \cup {None}]
Nothing == [f \in Files |-> None]
Touched(update) == {f \in Files : update[f] # None}

\* base, where update has nothing else
Overlay(base, update) ==
    [f \in Files |-> IF update[f] # None THEN update[f] ELSE base[f]]

-----------------------------------------------------------------------------
(* getTypecheckingPath: table is the file table, old the files evicted from *)
(* it since the state that changed is compared with.                       *)

\* getOldFile
OldFile(table, old, f) == IF old[f] # None THEN old[f] ELSE table[f]

ChangedNames(v, w) ==
    {s[1] : s \in (Symbols[v] \ Symbols[w]) \cup (Symbols[w] \ Symbols[v])}

\* Mutant: the file is compared with the one in the table.
NamesChanged_InTable(table, old, changed) ==
    UNION {ChangedNames(table[f], changed[f]) : f \in Touched(changed)}

NamesChanged(table, old, changed) ==
    UNION {ChangedNames(OldFile(table, old, f), changed[f]) : f \in Touched(changed)}

\* fastPathFilesToTypecheck: the files that use a name whose symbol changed
ExtraFiles(table, old, changed) ==
    {f \in Files \ Touched(changed) :
        table[f] # None /\ Uses[table[f]] \cap NamesChanged(table, old, changed) # {}}

\* getTypecheckingPathInternal
TakesFastPath(table, old, changed) ==
    /\ Cardinality(Touched(changed)) =< MaxFiles
    /\ \A f \in Touched(changed) :
          /\ table[f] # None
          /\ changed[f] \notin Invalid
          /\ Hierarchy[changed[f]] = Hierarchy[OldFile(table, old, f)]
    /\ Cardinality(Touched(changed) \cup ExtraFiles(table, old, changed)) =< MaxFiles

PathOf(fast) == IF fast THEN "Fast" ELSE "Slow"

\* getTypecheckingPath of a task in the queue, which is not indexed yet
PathInQueue(changed) == PathOf(TakesFastPath(files, Nothing, changed))

-----------------------------------------------------------------------------
(* LSPFileUpdates and commitEdit                                           *)

NoUpdate == [epoch |-> 0, editCount |-> 0, committedEditCount |-> 0, files |-> Nothing,
             hasNewFiles |-> FALSE, path |-> "Slow", extra |-> {}, canceledSlowPath |-> FALSE]

IndexerInit(table) ==
    /\ files = table
    /\ pending = NoUpdate
    /\ evicted = Nothing

\* mergeOlder: the files of the newer update win.
\* Mutants: those of the older one do; the edits of the older are not counted.
MergeOlder_OlderWins(update, older) ==
    [update EXCEPT !.editCount = @ + older.editCount,
                   !.committedEditCount = @ + older.committedEditCount,
                   !.hasNewFiles = @ \/ older.hasNewFiles,
                   !.files = Overlay(@, older.files)]
MergeOlder_CountsNewer(update, older) ==
    [update EXCEPT !.committedEditCount = @ + older.committedEditCount,
                   !.hasNewFiles = @ \/ older.hasNewFiles,
                   !.files = Overlay(older.files, @)]
MergeOlder(update, older) ==
    [update EXCEPT !.editCount = @ + older.editCount,
                   !.committedEditCount = @ + older.committedEditCount,
                   !.hasNewFiles = @ \/ older.hasNewFiles,
                   !.files = Overlay(older.files, @)]

\* mergeEvictedFiles: the older version of a file wins.
\* Mutant: the newer one does.
MergeEvictedFiles_NewerWins(old, newly) == Overlay(old, newly)
MergeEvictedFiles(old, newly) == Overlay(newly, old)

\* getTypecheckingPath of an update
Decided(update, table, old) ==
    LET fast == ~update.hasNewFiles /\ TakesFastPath(table, old, update.files)
    IN  [update EXCEPT !.path = PathOf(fast),
                       !.extra = IF fast THEN ExtraFiles(table, old, update.files) ELSE {}]

\* copy
Copied(update) == [update EXCEPT !.extra = {}, !.canceledSlowPath = FALSE]

\* The edits that preempt a slow path are committed apart from it.
PendingAfterFast(update) ==
    LET merged == MergeOlder(Copied(update), pending)
    IN  IF update.canceledSlowPath THEN merged
        ELSE [merged EXCEPT !.committedEditCount = @ + update.editCount]

\* commitEdit: the update, and the indexer after it.  canCancel says whether
\* tryCancelSlowPath will succeed.
CommitEdit(edit, canCancel) ==
    LET changed == edit.files
        table == Overlay(files, changed)
        newly == [f \in Files |-> IF changed[f] # None THEN files[f] ELSE None]
        update == Decided([NoUpdate EXCEPT !.epoch = edit.epoch,
                                           !.editCount = edit.mergeCount + 1,
                                           !.files = changed,
                                           !.hasNewFiles = \E f \in Touched(changed) : files[f] = None],
                          table, newly)
        cancels == update.path # "Fast" /\ canCancel
        both == MergeEvictedFiles(evicted, newly)
        final == IF cancels
                 THEN [Decided(MergeOlder(update, pending), table, both)
                         EXCEPT !.canceledSlowPath = TRUE]
                 ELSE update
    IN  [update |-> final,
         files |-> table,
         pending |-> IF final.path = "Fast" THEN PendingAfterFast(final) ELSE Copied(final),
         evicted |-> IF cancels \/ final.path = "Fast" THEN both ELSE newly]

\* SorbetWorkspaceEditTask::index drops the files that are in the table as
\* they are, but does not renumber the edit.
WithoutNoops(changed) ==
    [f \in Files |-> IF changed[f] = files[f] THEN None ELSE changed[f]]
=============================================================================
