-------------------------------- MODULE Cache --------------------------------
(***************************************************************************)
(* Sorbet processes that share one cache directory (main/cache/cache.cc,   *)
(* and how main/realmain.cc and main/lsp/LSPTypechecker.cc drive it).      *)
(*                                                                         *)
(* A process loads the name table it finds, indexes its files one stratum  *)
(* after another, reading cached trees while it owns the store, and writes *)
(* what is new back after letting go of the store in between.  A language  *)
(* server ends by copying the store to a session directory named after its *)
(* pid, which later processes reap.  A cached tree refers to names by      *)
(* their position in the name table it was stored with.                    *)
(*                                                                         *)
(* A source text is known by the one name it mentions.  Processes may die  *)
(* at any point, commits may fail, and a pid may be used again.            *)
(***************************************************************************)
EXTENDS KeyValueStore, FiniteSets

CONSTANTS Sources,     \* the contents a file can have
          Uuids,       \* positive numbers
          Strata,      \* strata a process indexes; stratum r is file r
          MaxStarts    \* bound: processes started, over all pids

\* UUID 0 stands for no name table (GlobalState::kvstoreUuid), an absent key for
\* no value, and every stratum has a file.
ASSUME CacheAssumption ==
    /\ Uuids \subseteq Nat \ {0}
    /\ None \notin Nat \cup [src : Sources, id : Nat]
    /\ Strata \in Nat \ {0}
    /\ 1 .. Strata \subseteq Files

VARIABLES pc,        \* where each process is
          goal,      \* what the process does once it owns the store
          ver,       \* KeyValueStore::version of the process
          lsp,       \* whether it is a language server
          gs,        \* what matters of its GlobalState
          kv,        \* whether it still has a KeyValueStore
          stratum,   \* the stratum being indexed
          held,      \* the tree it indexed last
          todo,      \* session directories listed and not looked at yet
          rm,        \* the session directory being removed
          sdir,      \* the session directory named after each pid
          starts     \* processes started

procVars == <<pc, goal, ver, lsp, gs, kv, stratum, held, todo, rm>>
vars == <<kvVars, procVars, sdir, starts>>

-----------------------------------------------------------------------------
(* The name table: in memory a sequence, on disk a chain of diffs.         *)

Range(s) == {s[i] : i \in DOMAIN s}

EmptyGS == [uuid |-> 0, names |-> <<>>, written |-> 0, count |-> 0, critical |-> FALSE]

End(diff) == diff.start + Len(diff.names)

TableSize(d) == IF d.count = 0 THEN 0 ELSE End(d.diffs[d.count - 1])

\* loadNameTableDiffs: the diffs 0 .. count-1, each at its own positions.
NameTable(d) ==
    [i \in 1 .. TableSize(d) |->
        LET k == CHOOSE k \in 0 .. d.count - 1 : d.diffs[k].start < i /\ i =< End(d.diffs[k])
        IN  d.diffs[k].names[i - d.diffs[k].start]]

\* createInitialGlobalState.
LoadedGS(d) ==
    IF d.uuid # None /\ d.count # 0
    THEN [uuid |-> d.uuid, names |-> NameTable(d), written |-> TableSize(d),
          count |-> d.count, critical |-> FALSE]
    ELSE EmptyGS

\* Mutants: a table that is gone is not noticed; nothing is.
ChangedSinceGsCreation_NotWhenGone(g, d) == d.uuid # None /\ g.uuid # d.uuid
ChangedSinceGsCreation_Never(g, d) == FALSE

kvstoreChangedSinceGsCreation(g, d) ==
    IF d.uuid # None THEN g.uuid # d.uuid ELSE g.uuid # 0

wasNameTableModified(g) == Len(g.names) > g.written

\* storeNameTableDiff: the names that are not on disk yet, under the key
\* `count'.
DiffsWith(d, g) ==
    [k \in (DOMAIN d.diffs) \cup {g.count} |->
        IF k = g.count
        THEN [start |-> g.written,
              names |-> SubSeq(g.names, g.written + 1, Len(g.names))]
        ELSE d.diffs[k]]

\* Mutant: the count is not written.
WithNameTable_KeepsCount(d, g, uuid) ==
    [d EXCEPT !.uuid = uuid, !.diffs = DiffsWith(d, g)]

\* The part of retainGlobalState that writes: a new UUID, a diff, the count.
WithNameTable(d, g, uuid) ==
    [d EXCEPT !.uuid = uuid, !.diffs = DiffsWith(d, g), !.count = g.count + 1]

Cached(g, uuid) == [g EXCEPT !.uuid = uuid, !.count = @ + 1, !.written = Len(g.names)]

\* cacheTreesAndFiles: a tree that came from the cache, or whose file had
\* errors when it was indexed, is not written.
WithTree(d, f, t, errors) ==
    IF t.via = "parsed" /\ ~errors
    THEN [d EXCEPT !.trees[f] = [src |-> t.src, id |-> t.id]]
    ELSE d

\* loadTree: the tree under the file's key, if it is of the same source.
CacheHit(d, f, s) == d.trees[f] # None /\ d.trees[f].src = s

Hit(d, f, via) == [src |-> d.trees[f].src, id |-> d.trees[f].id, via |-> via]

\* Mutant: a name is entered again.
WithName_Again(g, s) == [g EXCEPT !.names = Append(@, s)]

\* Parsing enters the source's name in the name table.
WithName(g, s) ==
    IF s \in Range(g.names) THEN g ELSE [g EXCEPT !.names = Append(@, s)]

Parsed(g, s) ==
    [src |-> s, id |-> CHOOSE i \in DOMAIN g.names : g.names[i] = s, via |-> "parsed"]

NoTree == [src |-> None, id |-> 0, via |-> "none"]

-----------------------------------------------------------------------------
(* Starting up: the old session directories are reaped.                    *)

NoDir == [state |-> "none", db |-> Dropped]
EmptyDir == [state |-> "empty", db |-> Dropped]
HasData(dir) == dir.state \in {"partial", "full"}

Init ==
    /\ KVInit
    /\ pc = [p \in Procs |-> "dead"]
    /\ goal = [p \in Procs |-> "create"]
    /\ ver = [p \in Procs |-> None]
    /\ lsp = [p \in Procs |-> FALSE]
    /\ gs = [p \in Procs |-> EmptyGS]
    /\ kv = [p \in Procs |-> FALSE]
    /\ stratum = [p \in Procs |-> 1]
    /\ held = [p \in Procs |-> NoTree]
    /\ todo = [p \in Procs |-> {}]
    /\ rm = [p \in Procs |-> p]
    /\ sdir = [p \in Procs |-> NoDir]
    /\ starts = 0

\* Where reaping goes on: with the directories left, or to opening the cache.
AfterReaping(left) == IF left = {} THEN "check" ELSE "reap"

\* realmain up to reapOldCaches' listing of the cache directory.
Start(p) ==
    /\ pc[p] = "dead"
    /\ starts < MaxStarts
    /\ starts' = starts + 1
    /\ \E v \in Versions, l \in BOOLEAN :
           ver' = [ver EXCEPT ![p] = v] /\ lsp' = [lsp EXCEPT ![p] = l]
    /\ kv' = [kv EXCEPT ![p] = TRUE]
    /\ todo' = [todo EXCEPT ![p] = {q \in Procs : sdir[q].state # "none"}]
    /\ pc' = [pc EXCEPT ![p] = AfterReaping(todo'[p])]
    /\ UNCHANGED <<kvVars, goal, gs, stratum, held, rm, sdir>>

\* One turn of reapOldCaches' loop: a directory whose process exists is left
\* alone, and removal of one that is gone by now returns at once.
ReapNext(p) ==
    /\ pc[p] = "reap"
    /\ \E q \in todo[p] :
          /\ todo' = [todo EXCEPT ![p] = @ \ {q}]
          /\ IF pc[q] # "dead" \/ sdir[q].state = "none"
             THEN pc' = [pc EXCEPT ![p] = AfterReaping(todo'[p])] /\ UNCHANGED rm
             ELSE pc' = [pc EXCEPT ![p] = "rmdata"] /\ rm' = [rm EXCEPT ![p] = q]
    /\ UNCHANGED <<kvVars, goal, ver, lsp, gs, kv, stratum, held, sdir, starts>>

\* removeCacheDir: is there a data.mdb?
RemoveFindsData(p) ==
    /\ pc[p] = "rmdata"
    /\ pc' = [pc EXCEPT ![p] = IF HasData(sdir[rm[p]]) THEN "rmfile" ELSE "rmdir"]
    /\ UNCHANGED <<kvVars, goal, ver, lsp, gs, kv, stratum, held, todo, rm, sdir, starts>>

\* The process is gone, and its memory and transaction with it: its session
\* directory stays.
Die(p) ==
    /\ pc' = [pc EXCEPT ![p] = "dead"]
    /\ goal' = [goal EXCEPT ![p] = "create"]
    /\ ver' = [ver EXCEPT ![p] = None]
    /\ lsp' = [lsp EXCEPT ![p] = FALSE]
    /\ gs' = [gs EXCEPT ![p] = EmptyGS]
    /\ kv' = [kv EXCEPT ![p] = FALSE]
    /\ stratum' = [stratum EXCEPT ![p] = 1]
    /\ held' = [held EXCEPT ![p] = NoTree]
    /\ todo' = [todo EXCEPT ![p] = {}]
    /\ rm' = [rm EXCEPT ![p] = p]
    /\ Abort(p)
    /\ UNCHANGED <<sdir, starts>>

\* It is removed, and an error nobody catches is raised when somebody else
\* removed it since.
RemoveFile(p) ==
    /\ pc[p] = "rmfile"
    /\ \/ /\ HasData(sdir[rm[p]])
          /\ sdir' = [sdir EXCEPT ![rm[p]] = EmptyDir]
          /\ pc' = [pc EXCEPT ![p] = "rmdir"]
          /\ UNCHANGED <<kvVars, goal, ver, lsp, gs, kv, stratum, held, todo, rm, starts>>
       \/ ~HasData(sdir[rm[p]]) /\ Die(p)

\* rmdir fails silently on a directory that has files again.  What follows
\* depends on who asked: the reaper goes on, SessionCache::make copies, and
\* ~SessionCache ends the process.
RemoveDir(p) ==
    /\ pc[p] = "rmdir"
    /\ sdir' = [sdir EXCEPT ![rm[p]] = IF HasData(@) THEN @ ELSE NoDir]
    /\ pc' = [pc EXCEPT ![p] = CASE goal[p] = "create" -> AfterReaping(todo[p])
                                 [] goal[p] = "make" -> "copy"
                                 [] goal[p] = "exit" -> "done"]
    /\ rm' = [rm EXCEPT ![p] = p]
    /\ UNCHANGED <<kvVars, goal, ver, lsp, gs, kv, stratum, held, todo, starts>>

-----------------------------------------------------------------------------
(* Owning the store.                                                       *)

\* make_unique<OwnedKeyValueStore>, up to the end of checkVersions.  The rest
\* of the constructor is the beginning of the action that follows.
BeginOwning(p) ==
    /\ pc[p] = "check"
    /\ CheckVersions(p, ver[p])
    /\ pc' = [pc EXCEPT ![p] = goal[p]]
    /\ UNCHANGED <<goal, ver, lsp, gs, kv, stratum, held, todo, rm, sdir, starts>>

\* Owns the store again to do g.
ThenOwn(p, g) ==
    /\ pc' = [pc EXCEPT ![p] = "check"]
    /\ goal' = [goal EXCEPT ![p] = g]

\* maybeCreateKeyValueStore: the version is committed, and the store owned anew.
Create(p) ==
    /\ pc[p] = "create"
    /\ \E ok \in BOOLEAN : OwnAndCommit(p, MainTransaction(ver[p]), ok)
    /\ ThenOwn(p, "load")
    /\ UNCHANGED <<ver, lsp, gs, kv, stratum, held, todo, rm, sdir, starts>>

\* createInitialGlobalState.  A language server then lets go of the store, and
\* owns it again once the client has initialized it.
Load(p) ==
    /\ pc[p] = "load"
    /\ gs' = [gs EXCEPT ![p] = LoadedGS(MainTransaction(ver[p]))]
    /\ IF lsp[p]
       THEN writer = None /\ ThenOwn(p, "init") /\ UNCHANGED kvVars
       ELSE Own(p, ver[p]) /\ pc' = [pc EXCEPT ![p] = "index"] /\ UNCHANGED goal
    /\ UNCHANGED <<ver, lsp, kv, stratum, held, todo, rm, sdir, starts>>

\* ownIfUnchanged: the store is kept only if no other process wrote a name
\* table since gs was loaded from it or written to it.
OwnIfUnchanged(p) ==
    \/ ~kv[p] /\ UNCHANGED <<kvVars, kv>>
    \/ /\ kv[p] /\ writer = None
       /\ kvstoreChangedSinceGsCreation(gs[p], MainTransaction(ver[p]))
       /\ kv' = [kv EXCEPT ![p] = FALSE]
       /\ UNCHANGED kvVars
    \/ /\ kv[p]
       /\ ~kvstoreChangedSinceGsCreation(gs[p], MainTransaction(ver[p]))
       /\ Own(p, ver[p])
       /\ UNCHANGED kv

\* InitKVStoreStrategy::build.
InitKVStore(p) ==
    /\ pc[p] = "init"
    /\ OwnIfUnchanged(p)
    /\ pc' = [pc EXCEPT ![p] = "index"]
    /\ UNCHANGED <<goal, ver, lsp, gs, stratum, held, todo, rm, sdir, starts>>

\* Indexing one stratum, whose file has some source s by now, then letting go
\* of the store.
Index(p) ==
    LET f == stratum[p] IN
    /\ pc[p] = "index"
    /\ \E s \in Sources :
          \/ /\ kv[p] /\ CacheHit(txn, f, s)
             /\ held' = [held EXCEPT ![p] = Hit(txn, f, "main")]
             /\ UNCHANGED gs
          \/ /\ ~(kv[p] /\ CacheHit(txn, f, s))
             /\ gs' = [gs EXCEPT ![p] = WithName(@, s)]
             /\ held' = [held EXCEPT ![p] = Parsed(gs'[p], s)]
    /\ Abort(p)
    /\ IF kv[p] THEN ThenOwn(p, "cache")
                ELSE pc' = [pc EXCEPT ![p] = "next"] /\ UNCHANGED goal
    /\ UNCHANGED <<ver, lsp, kv, stratum, todo, rm, sdir, starts>>

\* Random::uniformU4, taken not to be 0 and not to repeat a UUID that any
\* process or database still has: which of those it is makes no difference.
FreshUuids ==
    Uuids \ ({main.uuid, txn.uuid} \cup {gs[q].uuid : q \in Procs}
                                  \cup {sdir[q].db.uuid : q \in Procs})

\* maybeCacheGlobalStateAndFiles.  By now indexing may have reported errors in
\* the file, and anything may have ended in a critical error.
CacheGlobalStateAndFiles(p) ==
    LET g == gs[p]
        d == MainTransaction(ver[p])
        Keep(x, errors) == WithTree(x, stratum[p], held[p], errors)
    IN
    /\ pc[p] = "cache"
    /\ \/ /\ writer = None
          /\ \E critical \in {g.critical, TRUE} :
                /\ critical \/ kvstoreChangedSinceGsCreation(g, d)
                /\ gs' = [gs EXCEPT ![p].critical = critical]
          /\ UNCHANGED kvVars
       \/ /\ ~g.critical /\ ~kvstoreChangedSinceGsCreation(g, d)
          /\ ~wasNameTableModified(g)
          /\ \E errors, ok \in BOOLEAN : OwnAndCommit(p, Keep(d, errors), ok)
          /\ UNCHANGED gs
       \/ /\ ~g.critical /\ ~kvstoreChangedSinceGsCreation(g, d)
          /\ wasNameTableModified(g)
          /\ \E u \in FreshUuids, errors, ok \in BOOLEAN :
                /\ \A w \in FreshUuids : u =< w
                /\ gs' = [gs EXCEPT ![p] = Cached(g, u)]
                /\ OwnAndCommit(p, Keep(WithNameTable(d, g, u), errors), ok)
    /\ ThenOwn(p, "next")
    /\ held' = [held EXCEPT ![p] = NoTree]
    /\ UNCHANGED <<ver, lsp, kv, stratum, todo, rm, sdir, starts>>

\* ownIfUnchanged, then the next stratum.  After the last one a batch run is
\* done with the cache, and a language server makes its session copy.
NextStratum(p) ==
    /\ pc[p] = "next"
    /\ OwnIfUnchanged(p)
    /\ IF stratum[p] < Strata
       THEN /\ stratum' = [stratum EXCEPT ![p] = @ + 1]
            /\ pc' = [pc EXCEPT ![p] = "index"]
       ELSE /\ pc' = [pc EXCEPT ![p] = IF lsp[p] THEN (IF kv'[p] THEN "make" ELSE "session")
                                                 ELSE "done"]
            /\ UNCHANGED stratum
    /\ held' = [held EXCEPT ![p] = NoTree]
    /\ UNCHANGED <<goal, ver, lsp, gs, todo, rm, sdir, starts>>

\* The process ends; a batch run has freed the store by then (kvstore.reset).
Finish(p) ==
    /\ pc[p] = "done"
    /\ Die(p)

-----------------------------------------------------------------------------
(* The session copy.                                                       *)

\* SessionCache::make: a directory left by an earlier process with this pid
\* is removed first.
Make(p) ==
    /\ pc[p] = "make"
    /\ goal' = [goal EXCEPT ![p] = "make"]
    /\ rm' = [rm EXCEPT ![p] = p]
    /\ pc' = [pc EXCEPT ![p] = IF sdir[p].state # "none" THEN "rmdata" ELSE "copy"]
    /\ UNCHANGED <<kvVars, ver, lsp, gs, kv, stratum, held, todo, sdir, starts>>

\* copyTo lets go of the store before it copies it.
CopyTo(p) ==
    /\ pc[p] = "copy"
    /\ Abort(p)
    /\ pc' = [pc EXCEPT ![p] = "envcopy"]
    /\ UNCHANGED <<goal, ver, lsp, gs, kv, stratum, held, todo, rm, sdir, starts>>

\* mdb_env_copy: needs the directory and no data.mdb in it, and copies what is
\* committed when it starts.  On the first failure the directory is created.
EnvCopy(p) ==
    /\ pc[p] \in {"envcopy", "envcopy2"}
    /\ IF sdir[p].state = "empty"
       THEN /\ sdir' = [sdir EXCEPT ![p] = [state |-> "partial", db |-> main]]
            /\ pc' = [pc EXCEPT ![p] = "copying"]
            /\ UNCHANGED <<kvVars, goal, ver, lsp, gs, kv, stratum, held, todo, rm, starts>>
       ELSE IF pc[p] = "envcopy"
       THEN /\ sdir' = [sdir EXCEPT ![p] = IF HasData(@) THEN @ ELSE EmptyDir]
            /\ pc' = [pc EXCEPT ![p] = "envcopy2"]
            /\ UNCHANGED <<kvVars, goal, ver, lsp, gs, kv, stratum, held, todo, rm, starts>>
       ELSE Die(p)

\* The copy ends.  Its file may have been unlinked meanwhile.
CopyEnds(p) ==
    /\ pc[p] = "copying"
    /\ sdir' = [sdir EXCEPT ![p].state = IF @ = "partial" THEN "full" ELSE @]
    /\ pc' = [pc EXCEPT ![p] = "session"]
    /\ UNCHANGED <<kvVars, goal, ver, lsp, gs, kv, stratum, held, todo, rm, starts>>

\* SessionCache::open: the directory after it was opened.  A directory without
\* data.mdb gets a new database, and one of another version is dropped.
Opened(dir, v) ==
    IF dir.state = "none" THEN dir
    ELSE [state |-> "full", db |-> WithVersionsChecked(dir.db, v)]

\* A slow path or a request indexes a file of the session (SessionKVStoreStrategy,
\* getResolved), through the session copy if there is one with a name table.
IndexInSession(p) ==
    /\ pc[p] = "session"
    /\ \E f \in Files, s \in Sources :
          LET dir == Opened(sdir[p], ver[p]) IN
          /\ sdir' = IF kv[p] THEN [sdir EXCEPT ![p] = dir] ELSE sdir
          /\ IF kv[p] /\ dir.db.count # 0 /\ CacheHit(dir.db, f, s)
             THEN /\ held' = [held EXCEPT ![p] = Hit(dir.db, f, "session")]
                  /\ UNCHANGED gs
             ELSE /\ gs' = [gs EXCEPT ![p] = WithName(@, s)]
                  /\ held' = [held EXCEPT ![p] = NoTree]
    /\ UNCHANGED <<kvVars, pc, goal, ver, lsp, kv, stratum, todo, rm, starts>>

\* The language server ends, and ~SessionCache removes the directory.
EndSession(p) ==
    /\ pc[p] = "session"
    /\ goal' = [goal EXCEPT ![p] = "exit"]
    /\ rm' = [rm EXCEPT ![p] = p]
    /\ pc' = [pc EXCEPT ![p] = IF kv[p] /\ sdir[p].state # "none" THEN "rmdata" ELSE "done"]
    /\ UNCHANGED <<kvVars, ver, lsp, gs, kv, stratum, held, todo, sdir, starts>>

\* A process may be killed, or a write may throw, at any point.
Crash(p) ==
    /\ pc[p] # "dead"
    /\ Die(p)

\* What a process does by itself once it was started.
Step(p) ==
    \/ ReapNext(p) \/ RemoveFindsData(p) \/ RemoveFile(p) \/ RemoveDir(p)
    \/ BeginOwning(p) \/ Create(p) \/ Load(p) \/ InitKVStore(p) \/ Index(p)
    \/ CacheGlobalStateAndFiles(p) \/ NextStratum(p) \/ Finish(p)
    \/ Make(p) \/ CopyTo(p) \/ EnvCopy(p) \/ CopyEnds(p)

Next ==
    \E p \in Procs : Step(p) \/ Start(p) \/ IndexInSession(p) \/ EndSession(p) \/ Crash(p)

Spec == Init /\ [][Next]_vars

-----------------------------------------------------------------------------
(* Properties.                                                             *)

NS == INSTANCE NameStore WITH names <- NameTable(main), trees <- main.trees

\* Every variable has the type its declaration in the code gives it.
TypeOK ==
    /\ writer \in Procs \cup {None}
    /\ pc \in [Procs -> {"dead", "reap", "rmdata", "rmfile", "rmdir", "check",
                         "create", "load", "init", "index", "cache", "next", "done",
                         "make", "copy", "envcopy", "envcopy2", "copying", "session"}]
    /\ \A d \in {main, txn} \cup {sdir[p].db : p \in Procs} :
          /\ d.version \in Versions \cup {None}
          /\ d.uuid \in Uuids \cup {None}
          /\ d.count \in Nat
          /\ d.trees \in [Files -> [src : Sources, id : 1 .. Cardinality(Sources)] \cup {None}]
    /\ \A p \in Procs :
          /\ gs[p].uuid \in Uuids \cup {0}
          /\ gs[p].written \in 0 .. Len(gs[p].names)
          /\ gs[p].count \in Nat
          /\ stratum[p] \in 1 .. Strata
          /\ todo[p] \subseteq Procs
          /\ rm[p] \in Procs

\* A database is sound when its chain of diffs has no hole, no overlap and the
\* length its count says, and every tree in it finds its name in that table.
Sound(d) ==
    /\ (d.uuid = None) <=> (d.count = 0)
    /\ DOMAIN d.diffs = 0 .. d.count - 1
    /\ \A k \in DOMAIN d.diffs : d.diffs[k].start = IF k = 0 THEN 0 ELSE End(d.diffs[k - 1])
    /\ \A f \in Files : d.trees[f] # None => NS!Decodes(d.trees[f], NameTable(d))

\* Whatever crashes, failed commits and other processes do between the steps
\* of retainGlobalState, cacheTreesAndFiles and commit, what is committed, and
\* every session copy of it, is sound.
StoresAreSound ==
    /\ Sound(main)
    /\ \A p \in Procs : Sound(sdir[p].db)

\* fetchTreeFromCache: a tree that indexing took from the shared store means
\* in this process what it meant in the process that stored it, and so does one
\* from the session copy while that has the UUID of the process's name table.
CachedTreesMeanTheSame ==
    \A p \in Procs :
        \/ held[p].via = "main"
        \/ held[p].via = "session" /\ sdir[p].db.uuid = gs[p].uuid
        => NS!Decodes(held[p], gs[p].names)

\* kvstoreChangedSinceGsCreation: a process that indexes with the store, or is
\* about to copy it, has exactly the name table that is stored, followed by
\* names of its own, and counts its diffs as the store does.
OwnerHasTheStoredNames ==
    \A p \in Procs :
        writer = p /\ pc[p] \in {"index", "make"} =>
            /\ gs[p].count = txn.count
            /\ gs[p].written = TableSize(txn)
            /\ NS!Extends(NameTable(txn), gs[p].names)

\* The cache is an append-only table of names, emptied at times, for everyone:
\* the UUID check makes the read, the unlocked work and the later write of a
\* process one atomic extension of what it had read.
ImplementsNameStore == NS!Spec

\* mdb_txn_begin waits for the writer's lock, even when this process has it.
\* An owner never begins to own the store again, and a language server that is
\* serving its session has let go of it.
OwnerNeverWaits ==
    \A p \in Procs :
        writer = p => pc[p] \in {"index", "done", "make", "rmdata", "rmfile", "rmdir", "copy"}

\* KeyValueStore.cc: "checkVersions should have guaranteed this".
VersionIsGuaranteed ==
    writer # None => txn.version = ver[writer]

\* cache.h: the session copy "ensures that the name table present in the
\* kvstore will not change", so its trees are those of this process's names.
SessionTreesMeanTheSame ==
    \A p \in Procs : held[p].via = "session" => NS!Decodes(held[p], gs[p].names)

=============================================================================
