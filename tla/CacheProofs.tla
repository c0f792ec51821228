---------------------------- MODULE CacheProofs -----------------------------
(***************************************************************************)
(* The invariant of Cache holds at first, and every step keeps it: those   *)
(* that die, remove or copy session directories, begin and end the         *)
(* ownership of the store, load its names, index a file from it or from a  *)
(* session, go on to the next stratum, and write names and trees back. So, *)
(* for every number of processes, versions, files, strata and starts, the  *)
(* safety properties of Cache hold, and it implements NameStore.           *)
(***************************************************************************)
EXTENDS CacheInvariant

\* Most leaves are first-order: Zenon is the backend, SMT where arithmetic or
\* sequences are at work.
USE ZenonT(20)

-----------------------------------------------------------------------------
\* The invariant holds at first.
LEMMA InitialState == Init => IInv
<1> SUFFICES ASSUME Init PROVE IInv
  OBVIOUS
<1>1. Good(Dropped) /\ Dropped.uuid = None
  BY DroppedIsGood
<1>2. /\ EmptyGS \in GlobalState
      /\ EmptyGS.uuid = 0 /\ EmptyGS.count = 0 /\ EmptyGS.written = 0 /\ EmptyGS.names = <<>>
  BY EmptyGSAgrees
<1>3. main = Dropped /\ txn = Dropped /\ writer = None
  BY DEF Init, KVInit
<1>4. \A p \in Procs : /\ pc[p] = "dead" /\ goal[p] = "create" /\ gs[p] = EmptyGS
                       /\ held[p] = NoTree /\ sdir[p] = NoDir
  BY DEF Init
<1>5. NoDir = [state |-> NoDir.state, db |-> NoDir.db] /\ NoDir.db = Dropped
  BY DEF NoDir
<1>6. Types
  <2>1. 1 \in 1 .. Strata
    BY CacheAssumption, SMT
  <2>2. "dead" \in Pcs /\ "create" \in Goals
    BY DEF Pcs, Goals
  <2>3. DOMAIN sdir = Procs
    BY DEF Init
  <2> QED BY <1>1, <1>2, <1>3, <1>4, <1>5, <2>1, <2>2, <2>3, NoTreeType DEF Init, Types, Good
<1>7. Stores
  BY <1>1, <1>3, <1>4, <1>5 DEF Stores
<1>8. Control
  BY <1>3, <1>4, NoneAssumption DEF Control, Removing
<1>9. Owner
  BY <1>3 DEF Owner
<1>10. Names
  BY <1>1, <1>2, <1>3, <1>4, <1>5, SMTT(30) DEF Names, Agrees
<1>11. Held
  BY <1>4, SMT DEF Held, NoTree
<1> QED BY <1>6, <1>7, <1>8, <1>9, <1>10, <1>11 DEF IInv

\* A process loses its memory and its transaction.
LEMMA DieStep == ASSUME IInv, NEW p \in Procs, Die(p) PROVE IInv'
<1>1. Types'
  <2>1. IsDatabase(txn')
    BY DroppedIsGood DEF IInv, Types, Die, Abort, Good
  <2>2. gs' \in [Procs -> GlobalState]
    BY EmptyGSAgrees DEF IInv, Types, Die
  <2>3. stratum' \in [Procs -> 1 .. Strata]
    BY CacheAssumption, SMT DEF IInv, Types, Die
  <2>4. held' \in [Procs -> HeldTree]
    BY NoTreeType DEF IInv, Types, Die
  <2> QED BY <2>1, <2>2, <2>3, <2>4 DEF IInv, Types, Die, Abort, Pcs, Goals
<1>2. Stores'
  BY DEF IInv, Stores, Die, Abort
<1>3. Control'
  BY NoneAssumption, SMT DEF IInv, Types, Control, Starting, Copying, Owning, Removing, Die, Abort
<1>4. Owner'
  BY OwnerIsKept DEF IInv, Types, Die, Abort
<1>5. Names'
  <2>1. \A q \in Procs : gs'[q] = IF q = p THEN EmptyGS ELSE gs[q]
    BY DEF IInv, Types, Die
  <2>2. \A d : IsDatabase(d) => Agrees(d, EmptyGS)
    BY EmptyGSAgrees
  <2>3. IsDatabase(main) /\ \A q \in Procs : IsDatabase(sdir[q].db)
    BY DEF IInv, Stores, Good
  <2>4. UNCHANGED <<main, sdir>>
    BY DEF Die, Abort
  <2>5. /\ EmptyGS.written =< Len(EmptyGS.names)
        /\ EmptyGS.uuid = 0 => EmptyGS.count = 0 /\ EmptyGS.written = 0
    BY EmptyGSAgrees, SMT
  <2>6. \A q \in Procs : Agrees(main', gs'[q]) /\ \A r \in Procs : Agrees(sdir'[r].db, gs'[q])
    BY <2>1, <2>2, <2>3, <2>4 DEF IInv, Names
  <2> QED BY <2>1, <2>4, <2>5, <2>6 DEF IInv, Names
<1>6. Held'
  <2>1. \A q \in Procs : /\ held'[q] = IF q = p THEN NoTree ELSE held[q]
                         /\ q # p => gs'[q] = gs[q]
    BY DEF IInv, Types, Die
  <2> QED BY <2>1, SMT DEF IInv, Held, Die, NoTree
<1> QED BY <1>1, <1>2, <1>3, <1>4, <1>5, <1>6 DEF IInv

-----------------------------------------------------------------------------
(* The steps                                                               *)

\* data.mdb is removed, or was removed by another process.
LEMMA RemoveFileStep == ASSUME IInv, NEW p \in Procs, RemoveFile(p) PROVE IInv'
<1>1. CASE Die(p)
  BY <1>1, DieStep
<1>2. CASE /\ pc[p] = "rmfile"
           /\ sdir' = [sdir EXCEPT ![rm[p]] = EmptyDir]
           /\ pc' = [pc EXCEPT ![p] = "rmdir"]
           /\ UNCHANGED <<kvVars, goal, ver, lsp, gs, kv, stratum, held, todo, rm, starts>>
  <2>1. rm[p] \in Procs /\ EmptyDir = [state |-> EmptyDir.state, db |-> EmptyDir.db]
        /\ EmptyDir.db = Dropped
    BY DEF IInv, Types, EmptyDir
  <2>2. Types'
    BY <1>2, <2>1 DEF IInv, Types, Pcs, kvVars
  <2>3. Control'
    BY <1>2, SMT DEF IInv, Types, Control, Starting, Copying, Owning, Removing, kvVars
  <2> QED BY <1>2, <2>1, <2>2, <2>3, DirectoryStep
<1> QED BY <1>1, <1>2 DEF RemoveFile

\* The directory is removed, and its process goes on.
LEMMA RemoveDirStep == ASSUME IInv, NEW p \in Procs, RemoveDir(p) PROVE IInv'
<1> DEFINE dir == IF HasData(sdir[rm[p]]) THEN sdir[rm[p]] ELSE NoDir
<1>1. rm[p] \in Procs /\ sdir' = [sdir EXCEPT ![rm[p]] = dir]
  BY DEF IInv, Types, RemoveDir
<1>2. dir = [state |-> dir.state, db |-> dir.db] /\ dir.db \in {Dropped, sdir[rm[p]].db}
  BY <1>1 DEF IInv, Types, NoDir
<1> HIDE DEF dir
<1>3. /\ goal[p] = "create" => pc'[p] \in {"check", "reap"}
      /\ goal[p] = "make" => pc'[p] = "copy"
      /\ goal[p] = "exit" => pc'[p] = "done"
      /\ goal[p] \in {"create", "make", "exit"}
      /\ pc' = [pc EXCEPT ![p] = pc'[p]]
  BY DEF IInv, Types, Control, Removing, RemoveDir, AfterReaping
<1>4. Types'
  <2>1. pc'[p] \in Pcs
    BY <1>3 DEF Pcs
  <2> QED BY <1>1, <1>2, <1>3, <2>1, SMTT(30) DEF IInv, Types, RemoveDir, kvVars
<1>5. Control'
  BY <1>3, SMT DEF IInv, Types, Control, Starting, Copying, Owning, Removing, RemoveDir, kvVars
<1> QED BY <1>1, <1>2, <1>4, <1>5, DirectoryStep DEF RemoveDir

\* mdb_env_copy copies what is committed, into the directory of its process.
LEMMA EnvCopyStep == ASSUME IInv, NEW p \in Procs, EnvCopy(p) PROVE IInv'
<1>1. CASE Die(p)
  BY <1>1, DieStep
<1>2. ASSUME NEW dir, NEW x \in {"copying", "envcopy2"},
             sdir' = [sdir EXCEPT ![p] = dir],
             dir = [state |-> dir.state, db |-> dir.db],
             dir.db \in {Dropped, sdir[p].db, main},
             pc[p] \in {"envcopy", "envcopy2"},
             pc' = [pc EXCEPT ![p] = x],
             UNCHANGED <<kvVars, goal, ver, lsp, gs, kv, stratum, held, todo, rm, starts>>
      PROVE  IInv'
  <2>1. Types'
    BY <1>2 DEF IInv, Types, Pcs, kvVars
  <2>2. Control'
    BY <1>2, SMT DEF IInv, Types, Control, Starting, Copying, Owning, Removing, kvVars
  <2>3. held[p] = NoTree
    BY <1>2 DEF IInv, Control, Copying
  <2> QED BY <1>2, <2>1, <2>2, <2>3, DirectoryStep
<1>3. CASE sdir[p].state = "empty"
  BY <1>2, <1>3 DEF EnvCopy
<1>4. CASE sdir[p].state # "empty" /\ pc[p] = "envcopy"
  <2> DEFINE dir == IF HasData(sdir[p]) THEN sdir[p] ELSE EmptyDir
  <2>1. sdir' = [sdir EXCEPT ![p] = dir]
    BY <1>4 DEF EnvCopy
  <2>2. dir = [state |-> dir.state, db |-> dir.db] /\ dir.db \in {Dropped, sdir[p].db}
    BY DEF IInv, Types, EmptyDir
  <2> HIDE DEF dir
  <2> QED BY <1>2, <1>4, <2>1, <2>2 DEF EnvCopy
<1> QED BY <1>1, <1>3, <1>4 DEF EnvCopy

\* The copy ends.
LEMMA CopyEndsStep == ASSUME IInv, NEW p \in Procs, CopyEnds(p) PROVE IInv'
<1> DEFINE dir == [sdir[p] EXCEPT !.state = IF @ = "partial" THEN "full" ELSE @]
<1>1. sdir' = [sdir EXCEPT ![p] = dir]
  BY DEF CopyEnds
<1>2. dir = [state |-> dir.state, db |-> dir.db] /\ dir.db = sdir[p].db
  BY SMT DEF IInv, Types
<1> HIDE DEF dir
<1>3. Types'
  BY <1>1, <1>2 DEF IInv, Types, Pcs, CopyEnds, kvVars
<1>4. Control'
  BY SMT DEF IInv, Types, Control, Starting, Copying, Owning, Removing, CopyEnds, kvVars
<1> QED BY <1>1, <1>2, <1>3, <1>4, DirectoryStep DEF CopyEnds

\* checkVersions drops a database of another version.
LEMMA BeginOwningStep == ASSUME IInv, NEW p \in Procs, BeginOwning(p) PROVE IInv'
<1>1. main' \in {main, Dropped} /\ writer = None /\ writer' = None /\ UNCHANGED txn
  BY DEF BeginOwning, CheckVersions, WithVersionsChecked
<1>2. Good(main') /\ (main'.uuid = None \/ main' = main)
  BY <1>1, DroppedIsGood DEF IInv, Stores
<1>3. goal[p] \in {"create", "load", "init", "cache", "next"}
  BY DEF IInv, Types, Control, BeginOwning, Goals
<1>4. Types'
  BY <1>1, <1>3 DEF IInv, Types, BeginOwning, Pcs
<1>5. Control'
  BY <1>1, <1>3, NoneAssumption, SMTT(30)
     DEF IInv, Types, Control, Starting, Copying, Owning, Removing, BeginOwning
<1> QED BY <1>1, <1>2, <1>4, <1>5, MainStep DEF BeginOwning

\* maybeCreateKeyValueStore commits a version.
LEMMA CreateStep == ASSUME IInv, NEW p \in Procs, Create(p) PROVE IInv'
<1>1. main' \in {main, MainTransaction(ver[p])} /\ writer = None /\ UNCHANGED <<writer, txn>>
  BY DEF Create, OwnAndCommit
<1>2. /\ Good(main') /\ main'.uuid = main.uuid
      /\ main'.count = main.count /\ main'.diffs = main.diffs
  BY <1>1, MainTransactionKeeps DEF IInv, Stores
<1>3. Types'
  BY <1>1 DEF IInv, Types, Create, ThenOwn, Pcs, Goals
<1>4. Control'
  BY <1>1, NoneAssumption, SMTT(30)
     DEF IInv, Types, Control, Starting, Copying, Owning, Removing, Create, ThenOwn
<1> QED BY <1>1, <1>2, <1>3, <1>4, MainStep DEF Create

\* copyTo gives up the transaction.
LEMMA CopyToStep == ASSUME IInv, NEW p \in Procs, CopyTo(p) PROVE IInv'
<1>1. Types'
  BY DroppedIsGood DEF IInv, Types, CopyTo, Abort, Pcs, Good
<1>2. Control'
  BY NoneAssumption, SMT
     DEF IInv, Types, Control, Starting, Copying, Owning, Removing, CopyTo, Abort
<1>3. Stores' /\ Names' /\ Held'
  BY DEF IInv, Stores, Names, Held, CopyTo, Abort
<1>4. Owner'
  BY OwnerIsKept DEF IInv, CopyTo, Abort
<1> QED BY <1>1, <1>2, <1>3, <1>4 DEF IInv

\* A process ends.
LEMMA FinishStep == ASSUME IInv, NEW p \in Procs, Finish(p) PROVE IInv'
BY DieStep DEF Finish

\* A process is killed.
LEMMA CrashStep == ASSUME IInv, NEW p \in Procs, Crash(p) PROVE IInv'
BY DieStep DEF Crash

\* Owning the store with names that continue it.
LEMMA OwnStep ==
    ASSUME IInv, NEW p \in Procs, Own(p, ver[p]),
           ~kvstoreChangedSinceGsCreation(gs'[p], MainTransaction(ver[p]))
    PROVE  /\ Owner' /\ writer = None /\ writer' = p /\ main' = main
           /\ IsDatabase(txn')
<1>1. writer = None /\ writer' = p /\ main' = main /\ txn' = MainTransaction(ver[p])
  BY DEF Own
<1>2. /\ Good(txn')
      /\ txn'.uuid = main.uuid /\ txn'.count = main.count
      /\ txn'.diffs = main.diffs /\ txn'.trees = main.trees
  BY <1>1, MainTransactionKeeps
<1> QED BY <1>1, <1>2 DEF Owner, Good

\* Loading the names: nothing is in memory that refers to older ones.
LEMMA LoadStep == ASSUME IInv, NEW p \in Procs, Load(p) PROVE IInv'
<1> DEFINE d == MainTransaction(ver[p])
           g == LoadedGS(d)
<1>1. /\ Good(d)
      /\ d.uuid = main.uuid /\ d.count = main.count /\ d.diffs = main.diffs
  BY MainTransactionKeeps
<1>2. gs' = [gs EXCEPT ![p] = g] /\ pc[p] = "load" /\ UNCHANGED <<held, sdir>>
  BY DEF Load
<1>3. held[p] = NoTree
  BY <1>2 DEF IInv, Control, Starting
<1> HIDE DEF d
<1>4. /\ g \in GlobalState
      /\ g.written =< Len(g.names)
      /\ g.uuid = 0 => g.count = 0 /\ g.written = 0
      /\ Agrees(d, g)
      /\ ~kvstoreChangedSinceGsCreation(g, d)
      /\ g.uuid \in {0, d.uuid}
  BY <1>1, LoadedGSAgrees
<1> HIDE DEF g
<1>5. gs'[p] = g /\ gs' \in [Procs -> GlobalState] /\ \A q \in Procs : q # p => gs'[q] = gs[q]
  BY <1>2, <1>4 DEF IInv, Types
<1>6. Agrees(main, g)
  BY <1>1, <1>4, SameTableAgrees
<1>7. \A q \in Procs : Agrees(sdir[q].db, g)
  <2> SUFFICES ASSUME NEW q \in Procs, sdir[q].db.uuid # None, g.uuid = sdir[q].db.uuid
               PROVE  Agrees(sdir[q].db, g)
    BY DEF Agrees
  <2>1. sdir[q].db.uuid # 0
    BY CacheAssumption DEF IInv, Stores, Good, IsDatabase, Database
  <2>2. sdir[q].db.uuid = main.uuid
    BY <1>1, <1>4, <2>1
  <2>3. sdir[q].db.count = main.count /\ sdir[q].db.diffs = main.diffs
    BY <2>2 DEF IInv, Names
  <2> QED BY <1>6, <2>2, <2>3, SameTableAgrees
<1>8. /\ UNCHANGED main
      /\ \/ /\ writer = None /\ UNCHANGED <<writer, txn>> /\ ThenOwn(p, "init")
         \/ /\ Own(p, ver[p]) /\ pc' = [pc EXCEPT ![p] = "index"] /\ UNCHANGED goal
  BY DEF Load, kvVars, Own
<1>9. Stores' /\ Names'
  BY <1>2, <1>4, <1>6, <1>7, <1>8, GlobalStateStep
<1>10. Owner' /\ IsDatabase(txn') /\ (writer' = None \/ writer' = p) /\ writer = None
  BY <1>4, <1>5, <1>8, OwnStep DEF d, Owner, IInv, Types
<1>11. Types'
  <2>1. pc' \in [Procs -> Pcs] /\ goal' \in [Procs -> Goals]
    <3>1. "check" \in Pcs /\ "index" \in Pcs /\ "init" \in Goals
      BY DEF Pcs, Goals
    <3>2. \/ pc' = [pc EXCEPT ![p] = "check"] /\ goal' = [goal EXCEPT ![p] = "init"]
          \/ pc' = [pc EXCEPT ![p] = "index"] /\ goal' = goal
      BY <1>8 DEF ThenOwn
    <3>3. pc \in [Procs -> Pcs] /\ goal \in [Procs -> Goals]
      BY DEF IInv, Types
    <3> QED BY <3>1, <3>2, <3>3
  <2>2. UNCHANGED <<ver, lsp, kv, stratum, held, todo, rm, sdir>>
    BY DEF Load
  <2> QED BY <1>5, <1>10, <2>1, <2>2 DEF IInv, Types
<1>12. Control'
  BY SMTT(30), <1>2, <1>8, <1>10, NoneAssumption
     DEF IInv, Types, Control, Starting, Copying, Owning, Removing, Load, ThenOwn, Own
<1>13. Held'
  BY SMTT(30), <1>2, <1>3, <1>5 DEF IInv, Held, NoTree
<1> QED BY <1>9, <1>10, <1>11, <1>12, <1>13 DEF IInv

\* ownIfUnchanged gives the store only to a process whose names continue it.
LEMMA OwnIfUnchangedStep ==
    ASSUME IInv, NEW p \in Procs, OwnIfUnchanged(p), UNCHANGED gs
    PROVE  /\ Owner' /\ IsDatabase(txn') /\ main' = main
           /\ kv' \in [Procs -> BOOLEAN] /\ \A q \in Procs : q # p => kv'[q] = kv[q]
           /\ \/ writer' = writer /\ ~kv'[p]
              \/ writer = None /\ writer' = p /\ kv'[p]
<1>1. CASE ~kv[p] /\ UNCHANGED <<kvVars, kv>>
  BY <1>1, OwnerIsKept DEF IInv, Types, kvVars
<1>2. CASE kv' = [kv EXCEPT ![p] = FALSE] /\ UNCHANGED kvVars
  BY SMTT(30), <1>2, OwnerIsKept DEF IInv, Types, kvVars
<1>3. CASE /\ kv[p] /\ ~kvstoreChangedSinceGsCreation(gs[p], MainTransaction(ver[p]))
           /\ Own(p, ver[p]) /\ UNCHANGED kv
  <2>1. gs'[p] = gs[p]
    OBVIOUS
  <2> QED BY <1>3, <2>1, OwnStep DEF IInv, Types
<1> QED BY <1>1, <1>2, <1>3 DEF OwnIfUnchanged

\* InitKVStoreStrategy::build owns the store if it is unchanged.
LEMMA InitKVStoreStep == ASSUME IInv, NEW p \in Procs, InitKVStore(p) PROVE IInv'
<1>1. /\ Owner' /\ IsDatabase(txn') /\ main' = main
      /\ kv' \in [Procs -> BOOLEAN] /\ \A q \in Procs : q # p => kv'[q] = kv[q]
      /\ \/ writer' = writer /\ ~kv'[p]
         \/ writer = None /\ writer' = p /\ kv'[p]
  BY OwnIfUnchangedStep DEF InitKVStore
<1>2. /\ pc[p] = "init" /\ pc' = [pc EXCEPT ![p] = "index"]
      /\ UNCHANGED <<goal, ver, lsp, gs, stratum, held, todo, rm, sdir>>
  BY DEF InitKVStore
<1>3. Types /\ Control /\ Stores /\ Names /\ Held
  BY DEF IInv
<1>4. pc' \in [Procs -> Pcs] /\ \A q \in Procs : pc'[q] = IF q = p THEN "index" ELSE pc[q]
  BY SMTT(30), <1>2, <1>3 DEF Types, Pcs
<1>5. Types'
  BY <1>1, <1>2, <1>3, <1>4 DEF Types
<1>6. Control'
  BY SMTT(30), <1>1, <1>2, <1>3, <1>4, NoneAssumption
     DEF Control, Starting, Copying, Owning, Removing
<1>7. Stores' /\ Names' /\ Held'
  BY <1>1, <1>2, <1>3 DEF Stores, Names, Held
<1> QED BY <1>1, <1>5, <1>6, <1>7 DEF IInv

\* So does the next stratum, after the tree was handed on.
LEMMA NextStratumStep == ASSUME IInv, NEW p \in Procs, NextStratum(p) PROVE IInv'
<1>1. /\ Owner' /\ IsDatabase(txn') /\ main' = main
      /\ kv' \in [Procs -> BOOLEAN] /\ \A q \in Procs : q # p => kv'[q] = kv[q]
      /\ \/ writer' = writer /\ ~kv'[p]
         \/ writer = None /\ writer' = p /\ kv'[p]
  BY OwnIfUnchangedStep DEF NextStratum
<1>2. PICK x \in {"index", "done", "make", "session"} :
         pc' = [pc EXCEPT ![p] = x] /\ (x = "session" => ~kv'[p])
  BY DEF NextStratum
<1>3. /\ pc[p] = "next"
      /\ held' = [held EXCEPT ![p] = NoTree]
      /\ UNCHANGED <<goal, ver, lsp, gs, todo, rm, sdir>>
  BY DEF NextStratum
<1>4. Types'
  <2>1. stratum' \in [Procs -> 1 .. Strata]
    <3>1. stratum \in [Procs -> 1 .. Strata]
      BY DEF IInv, Types
    <3>2. \/ UNCHANGED stratum
          \/ stratum[p] < Strata /\ stratum' = [stratum EXCEPT ![p] = @ + 1]
      BY DEF NextStratum
    <3> QED BY <3>1, <3>2, CacheAssumption, SMTT(30)
  <2>2. x \in Pcs
    BY DEF Pcs
  <2>3. pc' \in [Procs -> Pcs] /\ held' \in [Procs -> HeldTree]
    <3>1. pc \in [Procs -> Pcs] /\ held \in [Procs -> HeldTree]
      BY DEF IInv, Types
    <3> QED BY <1>2, <1>3, <2>2, <3>1, NoTreeType
  <2> QED BY <1>1, <1>3, <2>1, <2>3 DEF IInv, Types
<1>5. Control'
  <2>1. pc \in [Procs -> Pcs] /\ held \in [Procs -> HeldTree] /\ Control
    BY DEF IInv, Types
  <2>2. \A q \in Procs : /\ pc'[q] = IF q = p THEN x ELSE pc[q]
                         /\ held'[q] = IF q = p THEN NoTree ELSE held[q]
    BY SMTT(30), <1>2, <1>3, <2>1
  <2> QED BY <1>1, <1>2, <1>3, <2>1, <2>2, NoneAssumption, SMTT(30)
          DEF Control, Starting, Copying, Owning, Removing
<1>6. Stores' /\ Names'
  BY <1>1, <1>3 DEF IInv, Stores, Names
<1>7. Held'
  <2>1. \A q \in Procs : held'[q] = IF q = p THEN NoTree ELSE held[q]
    BY <1>3 DEF IInv, Types
  <2>2. gs' = gs /\ sdir' = sdir
    BY <1>3
  <2>3. Held
    BY DEF IInv
  <2>4. NoTree.via = "none"
    BY DEF NoTree
  <2> QED BY <2>1, <2>2, <2>3, <2>4 DEF Held
<1> QED BY <1>1, <1>4, <1>5, <1>6, <1>7 DEF IInv

\* A process takes a tree: its names may grow, and its tree is one of them.
LEMMA TreeStep ==
    ASSUME IInv, NEW p \in Procs, NEW g \in GlobalState, NEW t,
           gs' = [gs EXCEPT ![p] = g], held' = [held EXCEPT ![p] = t],
           g = gs[p] \/ \E s \in Sources : g = WithName(gs[p], s),
           t.via = "none" \/ NS!Decodes(t, g.names),
           UNCHANGED <<main, sdir>>
    PROVE  Stores' /\ Names' /\ Held' /\ g.uuid = gs[p].uuid
<1>1. gs[p] \in GlobalState /\ gs[p].written =< Len(gs[p].names)
  BY DEF IInv, Types, Names
<1>2. /\ g.uuid = gs[p].uuid /\ g.count = gs[p].count /\ g.written = gs[p].written
      /\ g.written =< Len(g.names)
      /\ DOMAIN gs[p].names \subseteq DOMAIN g.names
      /\ \A i \in DOMAIN gs[p].names : g.names[i] = gs[p].names[i]
  <2>1. CASE g = gs[p]
    BY <1>1, <2>1
  <2>2. CASE \E s \in Sources : g = WithName(gs[p], s)
    BY <1>1, <2>2, WithNameKeeps, SMTT(30)
  <2> QED BY <2>1, <2>2
<1>3. Agrees(main, g) /\ \A q \in Procs : Agrees(sdir[q].db, g)
  <2>1. Agrees(main, gs[p]) /\ \A q \in Procs : Agrees(sdir[q].db, gs[p])
    BY DEF IInv, Names
  <2> QED BY <1>2, <2>1, LongerNamesAgree, SMTT(30)
<1>4. g.uuid = 0 => g.count = 0 /\ g.written = 0
  BY <1>2 DEF IInv, Names
<1>5. Stores' /\ Names'
  BY <1>2, <1>3, <1>4, GlobalStateStep
<1>6. Held'
  <2>1. \A q \in Procs : /\ held'[q] = IF q = p THEN t ELSE held[q]
                         /\ gs'[q] = IF q = p THEN g ELSE gs[q]
    BY DEF IInv, Types
  <2> QED BY <2>1, SMT DEF IInv, Held
<1> QED BY <1>2, <1>5, <1>6

\* Indexing takes a tree from the store it owns, or parses.
LEMMA IndexStep == ASSUME IInv, NEW p \in Procs, Index(p) PROVE IInv'
<1>1. stratum[p] \in Files /\ gs[p] \in GlobalState /\ gs[p].written =< Len(gs[p].names)
  BY CacheAssumption DEF IInv, Types, Names
<1>2. \E g \in GlobalState, t \in HeldTree :
         /\ gs' = [gs EXCEPT ![p] = g] /\ held' = [held EXCEPT ![p] = t]
         /\ g = gs[p] \/ \E s \in Sources : g = WithName(gs[p], s)
         /\ NS!Decodes(t, g.names)
  <2>1. PICK s \in Sources :
          \/ /\ kv[p] /\ CacheHit(txn, stratum[p], s)
             /\ held' = [held EXCEPT ![p] = Hit(txn, stratum[p], "main")]
             /\ UNCHANGED gs
          \/ /\ gs' = [gs EXCEPT ![p] = WithName(@, s)]
             /\ held' = [held EXCEPT ![p] = Parsed(gs'[p], s)]
    BY DEF Index
  <2>2. CASE /\ kv[p] /\ CacheHit(txn, stratum[p], s)
             /\ held' = [held EXCEPT ![p] = Hit(txn, stratum[p], "main")]
             /\ UNCHANGED gs
    <3>1. writer = p /\ writer # None
      BY <2>2, NoneAssumption DEF IInv, Control, Index
    <3>2. txn.uuid = main.uuid /\ txn.trees = main.trees
          /\ ~kvstoreChangedSinceGsCreation(gs[p], txn)
      BY <3>1 DEF IInv, Owner
    <3>3. Continues(main, gs[p])
      BY <3>2, OwnerContinues DEF kvstoreChangedSinceGsCreation
    <3>4. /\ CacheHit(main, stratum[p], s)
          /\ Hit(txn, stratum[p], "main") = Hit(main, stratum[p], "main")
      BY <2>2, <3>2 DEF CacheHit, Hit
    <3> DEFINE t == Hit(main, stratum[p], "main")
    <3>5. Good(main)
      BY DEF IInv, Stores
    <3>6. /\ t.src \in Sources /\ t.id \in Nat
          /\ t = [src |-> t.src, id |-> t.id, via |-> "main"]
          /\ NS!Decodes(t, gs[p].names)
      BY <1>1, <3>3, <3>4, <3>5, HitDecodes, SMTT(30) DEF Continues
    <3>7. held' = [held EXCEPT ![p] = t]
      BY <2>2, <3>4
    <3> HIDE DEF t
    <3>8. t \in HeldTree
      BY <3>6, SMT DEF HeldTree
    <3>9. gs' = [gs EXCEPT ![p] = gs[p]]
      BY <2>2 DEF IInv, Types
    <3> QED BY <1>1, <3>6, <3>7, <3>8, <3>9
  <2>3. CASE /\ gs' = [gs EXCEPT ![p] = WithName(@, s)]
             /\ held' = [held EXCEPT ![p] = Parsed(gs'[p], s)]
    <3> DEFINE g == WithName(gs[p], s)
               t == Parsed(g, s)
    <3>1. g \in GlobalState /\ s \in Range(g.names)
      BY <1>1, WithNameKeeps
    <3>2. gs'[p] = g /\ gs' = [gs EXCEPT ![p] = g]
      BY <2>3 DEF IInv, Types
    <3> HIDE DEF g
    <3>3. t \in [src : Sources, id : Nat, via : {"parsed"}] /\ NS!Decodes(t, g.names)
      BY <3>1, ParsedDecodes
    <3>4. held' = [held EXCEPT ![p] = t]
      BY <2>3, <3>2
    <3> HIDE DEF t
    <3>5. t \in HeldTree
      BY <3>3 DEF HeldTree
    <3>6. \E x \in Sources : g = WithName(gs[p], x)
      BY DEF g
    <3> QED BY <3>1, <3>2, <3>3, <3>4, <3>5, <3>6
  <2> QED BY <2>1, <2>2, <2>3
<1>3. PICK g \in GlobalState, t \in HeldTree :
         /\ gs' = [gs EXCEPT ![p] = g] /\ held' = [held EXCEPT ![p] = t]
         /\ g = gs[p] \/ \E s \in Sources : g = WithName(gs[p], s)
         /\ NS!Decodes(t, g.names)
  BY <1>2
<1>4. UNCHANGED <<main, sdir>> /\ Abort(p)
  BY DEF Index, Abort
<1>5. Stores' /\ Names' /\ Held' /\ g.uuid = gs[p].uuid
  BY <1>3, <1>4, TreeStep
<1>6. /\ gs' \in [Procs -> GlobalState] /\ held' \in [Procs -> HeldTree]
      /\ \A q \in Procs : gs'[q].uuid = gs[q].uuid
      /\ \A q \in Procs : q # p => held'[q] = held[q]
  BY <1>3, <1>5 DEF IInv, Types
<1>7. Owner'
  BY <1>4, <1>6, OwnerIsKept DEF IInv, Abort
<1>8. /\ \/ pc' = [pc EXCEPT ![p] = "check"] /\ goal' = [goal EXCEPT ![p] = "cache"]
         \/ pc' = [pc EXCEPT ![p] = "next"] /\ goal' = goal
      /\ pc[p] = "index"
      /\ UNCHANGED <<ver, lsp, kv, stratum, todo, rm>>
  BY DEF Index, ThenOwn
<1>9. Types'
  <2>1. "check" \in Pcs /\ "next" \in Pcs /\ "cache" \in Goals
    BY DEF Pcs, Goals
  <2>2. pc \in [Procs -> Pcs] /\ goal \in [Procs -> Goals]
    BY DEF IInv, Types
  <2>3. pc' \in [Procs -> Pcs] /\ goal' \in [Procs -> Goals]
    BY <1>8, <2>1, <2>2
  <2>4. IsDatabase(txn') /\ writer' \in Procs \cup {None}
    BY <1>4, DroppedIsGood DEF IInv, Types, Abort, Good
  <2> QED BY <1>4, <1>6, <1>8, <2>3, <2>4 DEF IInv, Types
<1>10. Control'
  <2>1. /\ pc'[p] \in {"check", "next"} /\ (pc'[p] = "check" => goal'[p] = "cache")
        /\ \A q \in Procs : q # p => pc'[q] = pc[q] /\ goal'[q] = goal[q]
    BY <1>8 DEF IInv, Types
  <2>2. writer' # p /\ \A q \in Procs : q # p => (writer' = q <=> writer = q)
    BY <1>4, NoneAssumption DEF Abort
  <2> QED BY <1>6, <1>8, <2>1, <2>2, SMTT(30) DEF IInv, Control, Starting, Copying, Owning, Removing
<1> QED BY <1>5, <1>7, <1>9, <1>10 DEF IInv

-----------------------------------------------------------------------------
\* Indexing from the session copy, which another process may have removed.
LEMMA IndexInSessionStep == ASSUME IInv, NEW p \in Procs, IndexInSession(p) PROVE IInv'
<1> DEFINE dir == Opened(sdir[p], ver[p])
<1>1. /\ pc[p] = "session"
      /\ sdir' = IF kv[p] THEN [sdir EXCEPT ![p] = dir] ELSE sdir
      /\ UNCHANGED <<kvVars, pc, goal, ver, lsp, kv, stratum, todo, rm>>
  BY DEF IndexInSession
<1>2. dir = [state |-> dir.state, db |-> dir.db] /\ dir.db \in {Dropped, sdir[p].db}
  <2>1. CASE sdir[p].state = "none"
    BY <2>1 DEF Opened, IInv, Types
  <2>2. CASE sdir[p].state # "none"
    BY <2>2 DEF Opened, WithVersionsChecked
  <2> QED BY <2>1, <2>2
<1>3. \E g \in GlobalState, t \in HeldTree :
         /\ gs' = [gs EXCEPT ![p] = g] /\ held' = [held EXCEPT ![p] = t]
         /\ g = gs[p] \/ \E s \in Sources : g = WithName(gs[p], s)
         /\ \/ t.via = "none"
            \/ /\ t.via = "session" /\ g = gs[p] /\ kv[p]
               /\ dir.db.uuid = gs[p].uuid => NS!Decodes(t, gs[p].names)
  <2>1. PICK f \in Files, s \in Sources :
          \/ /\ kv[p] /\ CacheHit(dir.db, f, s)
             /\ held' = [held EXCEPT ![p] = Hit(dir.db, f, "session")]
             /\ UNCHANGED gs
          \/ /\ gs' = [gs EXCEPT ![p] = WithName(@, s)]
             /\ held' = [held EXCEPT ![p] = NoTree]
    BY DEF IndexInSession
  <2>2. gs[p] \in GlobalState /\ gs[p].written =< Len(gs[p].names) /\ gs[p].uuid # None
    <3>1. gs[p] \in GlobalState /\ gs[p].written =< Len(gs[p].names)
      BY DEF IInv, Types, Names
    <3>2. gs[p].uuid # None
      BY LoadedUuid DEF IInv
    <3> QED BY <3>1, <3>2
  <2> HIDE DEF dir
  <2>3. CASE /\ kv[p] /\ CacheHit(dir.db, f, s)
             /\ held' = [held EXCEPT ![p] = Hit(dir.db, f, "session")]
             /\ UNCHANGED gs
    <3> DEFINE t == Hit(dir.db, f, "session")
    <3>1. Good(dir.db) /\ Agrees(dir.db, gs[p])
      BY <1>2, DroppedIsGood, SMTT(30) DEF IInv, Stores, Names, Agrees
    <3>2. /\ t.src \in Sources /\ t.id \in Nat /\ t.via = "session"
          /\ t = [src |-> t.src, id |-> t.id, via |-> "session"]
          /\ NS!Extends(NameTable(dir.db), gs[p].names) => NS!Decodes(t, gs[p].names)
      BY <2>3, <3>1, HitDecodes, SMTT(30)
    <3> HIDE DEF t
    <3>3. t \in HeldTree
      BY <3>2 DEF HeldTree
    <3>4. dir.db.uuid = gs[p].uuid => NS!Decodes(t, gs[p].names)
      BY <2>2, <3>1, <3>2 DEF Agrees
    <3>5. gs' = [gs EXCEPT ![p] = gs[p]] /\ held' = [held EXCEPT ![p] = t]
      BY <2>3 DEF IInv, Types, t
    <3> QED BY ZenonT(30), <2>2, <2>3, <3>2, <3>3, <3>4, <3>5
  <2>4. CASE /\ gs' = [gs EXCEPT ![p] = WithName(@, s)]
             /\ held' = [held EXCEPT ![p] = NoTree]
    <3>1. WithName(gs[p], s) \in GlobalState
      BY <2>2, WithNameKeeps
    <3>2. NoTree \in HeldTree /\ NoTree.via = "none"
      BY NoTreeType DEF NoTree
    <3>3. gs' = [gs EXCEPT ![p] = WithName(gs[p], s)]
      BY <2>4
    <3> QED BY <2>4, <3>1, <3>2, <3>3
  <2> QED BY <2>1, <2>3, <2>4
<1>4. PICK g \in GlobalState, t \in HeldTree :
         /\ gs' = [gs EXCEPT ![p] = g] /\ held' = [held EXCEPT ![p] = t]
         /\ g = gs[p] \/ \E s \in Sources : g = WithName(gs[p], s)
         /\ \/ t.via = "none"
            \/ /\ t.via = "session" /\ g = gs[p] /\ kv[p]
               /\ dir.db.uuid = gs[p].uuid => NS!Decodes(t, gs[p].names)
  BY ZenonT(30), <1>3
<1> HIDE DEF dir
<1>5. /\ g.uuid = gs[p].uuid
      /\ g.written =< Len(g.names) /\ (g.uuid = 0 => g.count = 0 /\ g.written = 0)
      /\ Agrees(main, g) /\ \A q \in Procs : Agrees(sdir[q].db, g)
  <2>1. /\ gs[p] \in GlobalState /\ gs[p].written =< Len(gs[p].names)
        /\ gs[p].uuid = 0 => gs[p].count = 0 /\ gs[p].written = 0
        /\ Agrees(main, gs[p]) /\ \A q \in Procs : Agrees(sdir[q].db, gs[p])
    BY DEF IInv, Types, Names
  <2>2. CASE g = gs[p]
    BY <2>1, <2>2
  <2>3. CASE \E s \in Sources : g = WithName(gs[p], s)
    <3>1. /\ g.uuid = gs[p].uuid /\ g.count = gs[p].count /\ g.written = gs[p].written
          /\ g.written =< Len(g.names)
          /\ DOMAIN gs[p].names \subseteq DOMAIN g.names
          /\ \A i \in DOMAIN gs[p].names : g.names[i] = gs[p].names[i]
      BY <2>1, <2>3, WithNameKeeps, SMTT(30)
    <3> QED BY <2>1, <3>1, LongerNamesAgree, SMTT(30)
  <2> QED BY <1>4, <2>2, <2>3
<1>6. /\ gs' \in [Procs -> GlobalState] /\ held' \in [Procs -> HeldTree]
      /\ \A q \in Procs : gs'[q] = IF q = p THEN g ELSE gs[q]
      /\ \A q \in Procs : held'[q] = IF q = p THEN t ELSE held[q]
  BY <1>4 DEF IInv, Types
<1>7. /\ DOMAIN sdir' = Procs
      /\ \A q \in Procs : /\ sdir'[q] = IF q = p /\ kv[p] THEN dir ELSE sdir[q]
                          /\ sdir'[q] = [state |-> sdir'[q].state, db |-> sdir'[q].db]
                          /\ sdir'[q].db \in {Dropped, sdir[q].db}
  BY SMTT(30), <1>1, <1>2 DEF IInv, Types
<1>8. Types'
  BY <1>1, <1>6, <1>7 DEF IInv, Types, kvVars
<1>9. Control'
  BY <1>1, <1>6 DEF IInv, Control, Starting, Copying, Owning, Removing, kvVars
<1>10. Stores'
  BY ZenonT(30), <1>1, <1>7, DroppedIsGood DEF IInv, Stores, kvVars
<1>11. Owner'
  BY <1>1, <1>5, <1>6, OwnerIsKept DEF IInv, kvVars
<1>12. UNCHANGED main
  BY <1>1 DEF kvVars
<1>13. Names'
  <2>1. \A h : Agrees(Dropped, h)
    BY DroppedIsGood DEF Agrees
  <2>2. \A q, r \in Procs : Agrees(sdir'[r].db, gs'[q])
    BY SMTT(30), <1>5, <1>6, <1>7, <2>1 DEF IInv, Names
  <2>3. \A q \in Procs : sdir'[q].db.uuid = main.uuid /\ main.uuid # None =>
            sdir'[q].db.count = main.count /\ sdir'[q].db.diffs = main.diffs
    BY <1>7, DroppedIsGood, SMTT(30) DEF IInv, Names
  <2>4. \A q \in Procs : /\ gs'[q].written =< Len(gs'[q].names)
                         /\ gs'[q].uuid = 0 => gs'[q].count = 0 /\ gs'[q].written = 0
                         /\ Agrees(main, gs'[q])
    BY <1>5, <1>6 DEF IInv, Names
  <2> QED BY <1>12, <2>2, <2>3, <2>4 DEF Names
<1>14. Held'
  <2> SUFFICES ASSUME NEW q \in Procs,
                      \/ held'[q].via \in {"main", "parsed"}
                      \/ held'[q].via = "session" /\ sdir'[q].db.uuid = gs'[q].uuid
               PROVE  NS!Decodes(held'[q], gs'[q].names)
    BY DEF Held
  <2>1. CASE q = p
    BY SMTT(30), <1>4, <1>6, <1>7, <2>1
  <2>2. CASE q # p
    BY <1>6, <1>7, <2>2 DEF IInv, Held
  <2> QED BY <2>1, <2>2
<1> QED BY <1>8, <1>9, <1>10, <1>11, <1>13, <1>14 DEF IInv

\* What a process may write back: the table it has in memory, in full.
LEMMA TableToWrite ==
    ASSUME IInv, NEW p \in Procs, NEW d, d = MainTransaction(ver[p]),
           ~kvstoreChangedSinceGsCreation(gs[p], d), NEW e,
           \/ e = d /\ ~wasNameTableModified(gs[p])
           \/ \E u \in Uuids : e = WithNameTable(d, gs[p], u)
    PROVE  /\ Good(e) /\ e.trees = main.trees
           /\ TableSize(e) = Len(gs[p].names)
           /\ NS!Extends(NameTable(e), gs[p].names)
           /\ NS!Extends(NameTable(main), NameTable(e))
           /\ \A t : NS!Decodes(t, gs[p].names) => NS!Decodes(t, NameTable(e))
<1> DEFINE g == gs[p]
<1>1. /\ g \in GlobalState /\ g.written =< Len(g.names)
      /\ g.uuid = 0 => g.count = 0 /\ g.written = 0
  BY DEF IInv, Types, Names
<1>2. /\ Good(d) /\ d.trees = main.trees
      /\ d.uuid = main.uuid /\ d.count = main.count /\ d.diffs = main.diffs
  BY MainTransactionKeeps
<1>3. Agrees(d, g)
  BY <1>2, SameTableAgrees DEF IInv, Names
<1>4. Continues(d, g)
  BY <1>1, <1>2, <1>3, UnchangedContinues
<1>5. NS!Extends(NameTable(main), g.names)
  BY <1>2, <1>4, SameNameTable DEF Continues
<1>6. DOMAIN g.names = 1 .. Len(g.names) /\ g.names \in Seq(Sources)
  BY <1>1, SMT DEF GlobalState
<1>7. /\ Good(e) /\ e.trees = main.trees /\ TableSize(e) = Len(g.names)
      /\ \A i \in 1 .. Len(g.names) : NameTable(e)[i] = g.names[i]
  <2>1. CASE e = d /\ ~wasNameTableModified(g)
    <3>1. TableSize(d) = Len(g.names)
      BY <1>1, <1>4, <2>1, SMTT(30) DEF Continues, wasNameTableModified, GlobalState
    <3>2. DOMAIN NameTable(d) = 1 .. Len(g.names)
      BY <3>1, NameTableDomain
    <3> QED BY <1>2, <1>4, <2>1, <3>1, <3>2 DEF Continues, NS!Extends
  <2>2. CASE \E u \in Uuids : e = WithNameTable(d, g, u)
    BY <1>1, <1>2, <1>4, <2>2, ExtendedIsGood, SMTT(30)
  <2> QED BY <2>1, <2>2
<1>8. DOMAIN NameTable(e) = 1 .. Len(g.names)
  BY <1>7, NameTableDomain
<1> QED BY <1>5, <1>6, <1>7, <1>8 DEF NS!Extends, NS!Decodes

\* Writing back, or not. A new UUID is nobody else's, so that all others see a
\* changed store, whether the commit succeeds or fails.
LEMMA CacheStep == ASSUME IInv, NEW p \in Procs, CacheGlobalStateAndFiles(p) PROVE IInv'
<1> DEFINE g == gs[p]
           d == MainTransaction(ver[p])
           f == stratum[p]
<1>1. /\ g \in GlobalState /\ g.written =< Len(g.names)
      /\ g.uuid = 0 => g.count = 0 /\ g.written = 0
      /\ f \in Files /\ held[p] \in HeldTree
  BY CacheAssumption DEF IInv, Types, Names
<1>2. /\ pc[p] = "cache"
      /\ pc' = [pc EXCEPT ![p] = "check"] /\ goal' = [goal EXCEPT ![p] = "next"]
      /\ held' = [held EXCEPT ![p] = NoTree]
      /\ writer = None /\ UNCHANGED <<writer, txn>>
      /\ UNCHANGED <<ver, lsp, kv, stratum, todo, rm, sdir>>
  BY DEF CacheGlobalStateAndFiles, ThenOwn, OwnAndCommit, kvVars
<1>3. \A q \in Procs : held'[q] = IF q = p THEN NoTree ELSE held[q]
  BY <1>2 DEF IInv, Types
<1>4. Control'
  BY <1>2, <1>3, NoneAssumption, SMTT(30) DEF IInv, Types, Control, Starting, Copying, Owning, Removing
<1>5. ASSUME gs' \in [Procs -> GlobalState] PROVE Types'
  <2>1. pc' \in [Procs -> Pcs] /\ goal' \in [Procs -> Goals]
    BY <1>2 DEF IInv, Types, Pcs, Goals
  <2>2. held' \in [Procs -> HeldTree]
    BY <1>2, NoTreeType DEF IInv, Types
  <2> QED BY <1>2, <1>5, <2>1, <2>2 DEF IInv, Types
<1>6. Owner'
  BY <1>2 DEF Owner
<1>7. /\ Good(d)
      /\ d.uuid = main.uuid /\ d.count = main.count /\ d.diffs = main.diffs
      /\ Agrees(d, g)
  <2>1. /\ Good(d) /\ d.uuid = main.uuid /\ d.count = main.count /\ d.diffs = main.diffs
    BY MainTransactionKeeps
  <2> QED BY <2>1, SameTableAgrees DEF IInv, Names
<1>8. held[p].via = "parsed" => held[p].src \in Sources /\ NS!Decodes(held[p], g.names)
  <2>1. held[p].via = "parsed" => NS!Decodes(held[p], g.names)
    BY DEF IInv, Held
  <2> QED BY <1>1, <2>1, SMTT(30) DEF NS!Decodes, GlobalState
<1>9. CASE /\ \E critical \in {g.critical, TRUE} : gs' = [gs EXCEPT ![p].critical = critical]
           /\ UNCHANGED kvVars
  <2>1. PICK c \in {g.critical, TRUE} : gs' = [gs EXCEPT ![p] = [g EXCEPT !.critical = c]]
    BY <1>9
  <2> DEFINE h == [g EXCEPT !.critical = c]
  <2>2. /\ h \in GlobalState /\ h.uuid = g.uuid /\ h.count = g.count
        /\ h.written = g.written /\ h.names = g.names
    BY <1>1 DEF GlobalState
  <2> HIDE DEF h
  <2>3. gs' = [gs EXCEPT ![p] = h]
    BY <2>1 DEF h
  <2>4. gs' \in [Procs -> GlobalState] /\ \A q \in Procs : gs'[q] = IF q = p THEN h ELSE gs[q]
    BY <2>2, <2>3 DEF IInv, Types
  <2>5. Agrees(main, h) /\ \A q \in Procs : Agrees(sdir[q].db, h)
    BY <2>2 DEF IInv, Names, Agrees
  <2>6. UNCHANGED <<main, sdir>>
    BY <1>2, <1>9 DEF kvVars
  <2>7. Stores' /\ Names'
    BY ZenonT(30), <1>1, <2>2, <2>3, <2>5, <2>6, GlobalStateStep
  <2>8. Held'
    BY <1>3, <2>4, <2>6, SMTT(30) DEF IInv, Held, NoTree
  <2> QED BY <1>4, <1>5, <1>6, <2>4, <2>7, <2>8 DEF IInv
<1>10. ASSUME ~kvstoreChangedSinceGsCreation(g, d)
       PROVE  Continues(d, g)
  BY <1>1, <1>7, <1>10, UnchangedContinues
<1>11. CASE /\ ~kvstoreChangedSinceGsCreation(g, d) /\ ~wasNameTableModified(g)
            /\ \E errors, ok \in BOOLEAN : OwnAndCommit(p, WithTree(d, f, held[p], errors), ok)
            /\ UNCHANGED gs
  <2>1. PICK errors \in BOOLEAN : main' = main \/ main' = WithTree(d, f, held[p], errors)
    BY <1>11 DEF OwnAndCommit
  <2>2. held[p].via = "parsed" => NS!Decodes(held[p], NameTable(d))
    BY <1>8, <1>11, TableToWrite
  <2> DEFINE e == WithTree(d, f, held[p], errors)
  <2>3. Good(e) /\ e.uuid = d.uuid /\ e.count = d.count /\ e.diffs = d.diffs
    BY <1>1, <1>7, <1>8, <2>2, WithTreeKeeps, SMTT(30)
  <2> HIDE DEF e
  <2>4. Good(main') /\ main'.uuid = main.uuid /\ main'.count = main.count
        /\ main'.diffs = main.diffs
    BY <1>7, <2>1, <2>3 DEF e, IInv, Stores
  <2>5. Types'
    BY <1>5, <1>11 DEF IInv, Types
  <2> QED BY <1>2, <1>3, <1>4, <1>11, <2>4, <2>5, MainStep
<1>12. ASSUME NEW u \in FreshUuids, NEW errors \in BOOLEAN, NEW ok \in BOOLEAN,
              ~kvstoreChangedSinceGsCreation(g, d),
              gs' = [gs EXCEPT ![p] = Cached(g, u)],
              OwnAndCommit(p, WithTree(WithNameTable(d, g, u), f, held[p], errors), ok)
       PROVE  IInv'
  <2> DEFINE h == Cached(g, u)
             e == WithNameTable(d, g, u)
             x == WithTree(e, f, held[p], errors)
  <2>1. /\ u \in Uuids /\ u # main.uuid
        /\ \A q \in Procs : u # gs[q].uuid /\ u # sdir[q].db.uuid
    BY <1>12 DEF FreshUuids
  <2>2. /\ h \in GlobalState /\ h.uuid = u /\ h.count = g.count + 1
        /\ h.written = Len(g.names) /\ h.names = g.names
    <3>1. Len(g.names) \in Nat /\ g.count + 1 \in Nat
      BY <1>1, SMT DEF GlobalState
    <3> QED BY ZenonT(30), <1>1, <2>1, <3>1 DEF Cached, GlobalState
  <2>3. main' \in {main, x}
    BY <1>12 DEF OwnAndCommit
  <2>4. Continues(d, g)
    BY <1>10, <1>12
  <2>5. e.uuid = u /\ e.count = d.count + 1
    BY <1>1, <1>7, <2>1, <2>4, ExtendedIsGood, SMTT(30)
  <2>6. /\ Good(e) /\ TableSize(e) = Len(g.names)
        /\ NS!Extends(NameTable(e), g.names)
        /\ \A t : NS!Decodes(t, g.names) => NS!Decodes(t, NameTable(e))
    BY <1>12, <2>1, TableToWrite
  <2> HIDE DEF h, e
  <2>7. held[p].via = "parsed" => NS!Decodes(held[p], NameTable(e))
    BY <1>8, <2>6
  <2>8. Good(x) /\ x.uuid = e.uuid /\ x.count = e.count /\ x.diffs = e.diffs
    BY <1>1, <1>8, <2>6, <2>7, WithTreeKeeps, SMTT(30)
  <2>9. Agrees(x, h)
    <3>1. e.count = g.count + 1
      BY <2>4, <2>5 DEF Continues
    <3>2. Agrees(e, h)
      BY <2>2, <2>6, <3>1 DEF Agrees
    <3> QED BY <2>8, <3>2, SameTableAgrees
  <2> HIDE DEF x
  <2>10. gs' \in [Procs -> GlobalState] /\ \A q \in Procs : gs'[q] = IF q = p THEN h ELSE gs[q]
    BY <1>12, <2>2 DEF IInv, Types, h
  <2>11. Stores'
    BY <1>2, <2>3, <2>8 DEF IInv, Stores
  <2>12. \A q \in Procs : Agrees(main', gs'[q])
    <3>1. CASE main' = main
      <4>1. Agrees(main, h)
        BY <2>1, <2>2 DEF Agrees
      <4> QED BY <2>10, <3>1, <4>1 DEF IInv, Names
    <3>2. CASE main' = x
      <4>1. \A q \in Procs : q # p => Agrees(x, gs[q])
        BY <2>1, <2>5, <2>8 DEF Agrees
      <4> QED BY <2>9, <2>10, <3>2, <4>1
    <3> QED BY <2>3, <3>1, <3>2
  <2>13. \A q, r \in Procs : Agrees(sdir'[r].db, gs'[q])
    <3>1. \A r \in Procs : Agrees(sdir[r].db, h)
      BY <2>1, <2>2 DEF Agrees
    <3> QED BY <1>2, <2>10, <3>1 DEF IInv, Names
  <2>14. \A q \in Procs : /\ gs'[q].written =< Len(gs'[q].names)
                          /\ gs'[q].uuid = 0 => gs'[q].count = 0 /\ gs'[q].written = 0
    <3>1. h.written =< Len(h.names) /\ h.uuid # 0
      BY <1>1, <2>1, <2>2, CacheAssumption, SMTT(30) DEF GlobalState
    <3> QED BY <2>10, <3>1 DEF IInv, Names
  <2>15. \A q \in Procs : sdir'[q].db.uuid = main'.uuid /\ main'.uuid # None =>
              sdir'[q].db.count = main'.count /\ sdir'[q].db.diffs = main'.diffs
    BY <1>2, <2>1, <2>3, <2>5, <2>8 DEF IInv, Names
  <2>16. Names'
    BY <2>12, <2>13, <2>14, <2>15 DEF Names
  <2>17. Held'
    BY <1>2, <1>3, <2>10, SMTT(30) DEF IInv, Held, NoTree
  <2> QED BY <1>4, <1>5, <1>6, <2>10, <2>11, <2>16, <2>17 DEF IInv
<1> QED BY <1>9, <1>11, <1>12 DEF CacheGlobalStateAndFiles

\* Every step of every process keeps it.
LEMMA InductiveStep == IInv /\ [Next]_vars => IInv'
<1> SUFFICES ASSUME IInv, [Next]_vars PROVE IInv'
  OBVIOUS
<1>1. CASE UNCHANGED vars
  <2>1. UNCHANGED <<kvVars, gs, held, sdir, pc, goal, ver, lsp, kv, stratum, todo, rm>>
    BY <1>1 DEF vars, procVars
  <2>2. Types' /\ Control'
    BY <2>1 DEF IInv, Types, Control, Starting, Copying, Owning, kvVars
  <2> QED BY <2>1, <2>2, LocalStep
<1>2. ASSUME NEW p \in Procs, Step(p) PROVE IInv'
  BY <1>2, ReapNextStep, RemoveFindsDataStep, RemoveFileStep, RemoveDirStep, BeginOwningStep,
     CreateStep, LoadStep, InitKVStoreStep, IndexStep, CacheStep, NextStratumStep, FinishStep,
     MakeStep, CopyToStep, EnvCopyStep, CopyEndsStep DEF Step
<1>3. ASSUME NEW p \in Procs, Start(p) \/ IndexInSession(p) \/ EndSession(p) \/ Crash(p)
      PROVE  IInv'
  BY <1>3, StartStep, IndexInSessionStep, EndSessionStep, CrashStep
<1> QED BY <1>1, <1>2, <1>3 DEF Next

\* The inductive invariant holds throughout.
THEOREM Inductive == Spec => []IInv
BY InitialState, InductiveStep, PTL DEF Spec

\* No process begins a transaction while it has one, however many processes
\* share the cache directory: nobody waits for a lock of their own.
THEOREM NobodyWaitsForThemselves == Spec => []OwnerNeverWaits
<1>1. IInv => OwnerNeverWaits
  BY DEF IInv, Control, Owning, Removing, OwnerNeverWaits
<1> QED BY <1>1, Inductive, PTL

\* After any sequence of crashes, failed commits and steps of other processes the
\* store and all session copies hold an unbroken name table and trees that decode
\* in it.
THEOREM StoresStaySound == Spec => []StoresAreSound
<1>1. IInv => StoresAreSound
  BY DEF IInv, Stores, Good, StoresAreSound
<1> QED BY <1>1, Inductive, PTL

\* A tree that fetchTreeFromCache returns from the store, or from a session copy
\* with the UUID of the process, means the same as where it was parsed.
THEOREM TreesKeepTheirMeaning == Spec => []CachedTreesMeanTheSame
<1>1. IInv => CachedTreesMeanTheSame
  BY DEF IInv, Held, CachedTreesMeanTheSame
<1> QED BY <1>1, Inductive, PTL

\* ownIfUnchanged: a process that indexes with the store, or is about to copy it,
\* has the stored names at their places.
THEOREM OwnersAreUpToDate == Spec => []OwnerHasTheStoredNames
<1>1. ASSUME IInv PROVE OwnerHasTheStoredNames
  <2> SUFFICES ASSUME NEW p \in Procs, writer = p
               PROVE  /\ gs[p].count = txn.count
                      /\ gs[p].written = TableSize(txn)
                      /\ NS!Extends(NameTable(txn), gs[p].names)
    BY DEF OwnerHasTheStoredNames
  <2>1. /\ txn.uuid = main.uuid /\ txn.count = main.count /\ txn.diffs = main.diffs
        /\ ~kvstoreChangedSinceGsCreation(gs[p], txn)
    BY <1>1, NoneAssumption DEF IInv, Owner
  <2>2. Continues(main, gs[p])
    BY <1>1, <2>1, OwnerContinues DEF kvstoreChangedSinceGsCreation
  <2> QED BY <2>1, <2>2, SameNameTable DEF Continues
<1> QED BY <1>1, Inductive, PTL

\* A step that leaves the names and trees of main as they are is a stutter.
LEMMA Stutters ==
    ASSUME main'.count = main.count, main'.diffs = main.diffs, main'.trees = main.trees
    PROVE  UNCHANGED NS!storeVars
BY SameNameTable DEF NS!storeVars

\* maybeCacheGlobalStateAndFiles extends the table and stores trees of it, in one
\* step, or does nothing.
LEMMA CachePublishes ==
    ASSUME IInv, NEW p \in Procs, CacheGlobalStateAndFiles(p)
    PROVE  NS!Publish \/ UNCHANGED NS!storeVars
<1> DEFINE g == gs[p]
           d == MainTransaction(ver[p])
           f == stratum[p]
<1>1. CASE main' = main
  BY <1>1, Stutters
<1>2. ASSUME main' # main
      PROVE  \E e : \E errors \in BOOLEAN :
                /\ ~kvstoreChangedSinceGsCreation(g, d)
                /\ \/ e = d /\ ~wasNameTableModified(g)
                   \/ \E u \in Uuids : e = WithNameTable(d, g, u)
                /\ main' = WithTree(e, f, held[p], errors)
  BY <1>2 DEF CacheGlobalStateAndFiles, OwnAndCommit, FreshUuids, kvVars
<1>3. CASE main' # main
  <2>1. PICK e : \E errors \in BOOLEAN :
                /\ ~kvstoreChangedSinceGsCreation(g, d)
                /\ \/ e = d /\ ~wasNameTableModified(g)
                   \/ \E u \in Uuids : e = WithNameTable(d, g, u)
                /\ main' = WithTree(e, f, held[p], errors)
    BY <1>2, <1>3
  <2>2. PICK errors \in BOOLEAN : main' = WithTree(e, f, held[p], errors)
    BY <2>1
  <2>3. /\ Good(e) /\ e.trees = main.trees
        /\ NS!Extends(NameTable(main), NameTable(e))
        /\ \A t : NS!Decodes(t, g.names) => NS!Decodes(t, NameTable(e))
    BY <2>1, TableToWrite
  <2>4. /\ f \in Files
        /\ held[p] \in HeldTree
        /\ held[p].via = "parsed" => held[p].src \in Sources /\ NS!Decodes(held[p], g.names)
    <3>1. held[p].via = "parsed" => NS!Decodes(held[p], g.names)
      BY DEF IInv, Held
    <3>2. g \in GlobalState
      BY DEF IInv, Types
    <3>3. held[p].via = "parsed" => held[p].src \in Sources
      BY <3>1, <3>2, SMTT(30) DEF NS!Decodes, GlobalState
    <3> QED BY <3>1, <3>3, CacheAssumption DEF IInv, Types
  <2>5. /\ main'.count = e.count /\ main'.diffs = e.diffs
        /\ \A x \in Files : \/ main'.trees[x] = main.trees[x]
                            \/ main'.trees[x] # None /\ NS!Decodes(main'.trees[x], NameTable(e))
    BY <2>2, <2>3, <2>4, WithTreeKeeps, SMTT(30)
  <2>6. NameTable(main') = NameTable(e)
    BY <2>5, SameNameTable
  <2> QED BY <2>3, <2>5, <2>6 DEF NS!Publish
<1> QED BY <1>1, <1>3

\* Processes that read, let go of the store, work and write back later implement
\* a store that is emptied or extended in atomic steps.
THEOREM CacheImplementsNameStore == Spec => ImplementsNameStore
<1>1. Init => NS!Init
  <2> SUFFICES ASSUME Init PROVE NameTable(main) = <<>> /\ main.trees = NS!NoTrees
    BY DEF NS!Init
  <2>1. main = Dropped
    BY DEF Init, KVInit
  <2>2. TableSize(Dropped) = 0
    BY DEF Dropped, TableSize
  <2>3. NameTable(Dropped) = <<>>
    BY <2>2, SMTT(30) DEF NameTable
  <2> QED BY <2>1, <2>3 DEF Dropped, NS!NoTrees
<1>2. IInv /\ [Next]_vars => [NS!Empty \/ NS!Publish]_NS!storeVars
  <2> SUFFICES ASSUME IInv, [Next]_vars
               PROVE  NS!Empty \/ NS!Publish \/ UNCHANGED NS!storeVars
    OBVIOUS
  <2>1. CASE UNCHANGED main
    BY <2>1, Stutters
  <2>2. ASSUME NEW p \in Procs, BeginOwning(p)
        PROVE  NS!Empty \/ UNCHANGED NS!storeVars
    <3>1. main' \in {main, Dropped}
      BY <2>2 DEF BeginOwning, CheckVersions, WithVersionsChecked
    <3>2. NameTable(Dropped) = <<>>
      <4>1. TableSize(Dropped) = 0
        BY DEF Dropped, TableSize
      <4> QED BY <4>1, SMT DEF NameTable
    <3>3. Dropped.trees = NS!NoTrees
      BY DEF Dropped, NS!NoTrees
    <3> QED BY <3>1, <3>2, <3>3, <2>1, Stutters DEF NS!Empty
  <2>3. ASSUME NEW p \in Procs, Create(p) PROVE UNCHANGED NS!storeVars
    <3>1. main' \in {main, MainTransaction(ver[p])}
      BY <2>3 DEF Create, OwnAndCommit
    <3> QED BY <3>1, MainTransactionKeeps, Stutters
  <2>4. ASSUME NEW p \in Procs, CacheGlobalStateAndFiles(p)
        PROVE  NS!Publish \/ UNCHANGED NS!storeVars
    BY SMTT(30), <2>4, CachePublishes
  <2>5. ASSUME NEW p \in Procs,
               \/ Step(p) /\ ~BeginOwning(p) /\ ~Create(p) /\ ~CacheGlobalStateAndFiles(p)
               \/ Start(p) \/ IndexInSession(p) \/ EndSession(p) \/ Crash(p)
        PROVE  UNCHANGED main
    BY <2>5 DEF Step, Start, IndexInSession, EndSession, Crash, Die, Abort, ReapNext,
       RemoveFindsData, RemoveFile, RemoveDir, Load, InitKVStore, OwnIfUnchanged, Own, Index,
       NextStratum, Finish, Make, CopyTo, EnvCopy, CopyEnds, kvVars
  <2>6. CASE UNCHANGED vars
    BY <2>1, <2>6 DEF vars, kvVars
  <2> QED BY <2>1, <2>2, <2>3, <2>4, <2>5, <2>6 DEF Next
<1> QED BY <1>1, <1>2, Inductive, PTL DEF Spec, ImplementsNameStore, NS!Spec

=============================================================================
