--------------------------- MODULE KeyValueStore ---------------------------
(***************************************************************************)
(* The on-disk cache that every Sorbet process started with the same       *)
(* --cache-dir shares (common/kvstore/KeyValueStore.cc).  LMDB gives it    *)
(* one write transaction at a time across processes (`writer'), works on a *)
(* private copy (`txn') and publishes that copy in one commit (`main').  A *)
(* process that dies loses its transaction and frees the writer's lock.    *)
(*                                                                         *)
(* The keys of the database are grouped by what they are used for: the     *)
(* version, the name table's UUID, its diffs and their count, and one tree *)
(* per file.                                                               *)
(***************************************************************************)
EXTENDS Naturals, Sequences

CONSTANTS Procs,      \* process ids
          Versions,   \* what KeyValueStore::version can be
          Files,      \* the keys of the trees
          None        \* a key that is not in the database

\* None is also the writer of a store nobody has a transaction on.
ASSUME NoneAssumption == None \notin Procs

VARIABLES main, writer, txn

kvVars == <<main, writer, txn>>

\* A database with no key at all: what mdb_drop leaves, or a new data.mdb.
Dropped == [version |-> None, uuid |-> None, count |-> 0, diffs |-> <<>>,
            trees |-> [f \in Files |-> None]]

KVInit ==
    /\ main = Dropped
    /\ writer = None
    /\ txn = Dropped

\* Mutant: the trees are stored elsewhere and not dropped with the rest.
VersionsChecked_KeepsTrees(d, v) ==
    IF d.version = v THEN d ELSE [Dropped EXCEPT !.trees = d.trees]

\* What checkVersions leaves of a database d opened by version v.
WithVersionsChecked(d, v) ==
    IF d.version = v THEN d ELSE Dropped

\* The constructor's last step: the version is written when it is missing.
WithVersion(d, v) ==
    IF d.version = None THEN [d EXCEPT !.version = v] ELSE d

\* OwnedKeyValueStore's constructor, up to the commit in checkVersions: a
\* write transaction of its own, which ends here.
CheckVersions(p, v) ==
    /\ writer = None
    /\ main' = WithVersionsChecked(main, v)
    /\ UNCHANGED <<writer, txn>>

\* The rest of the constructor: refreshMainTransaction begins the transaction
\* that the owner keeps, on whatever is committed by then.
MainTransaction(v) == WithVersion(main, v)

Own(p, v) ==
    /\ writer = None
    /\ writer' = p
    /\ txn' = MainTransaction(v)
    /\ UNCHANGED main

\* The rest of the constructor, an owner that only turns its transaction into
\* d, and bestEffortCommit: the result of mdb_txn_commit is not looked at, so
\* the transaction ends whether or not it was written (ok).  Nobody else sees
\* the store in between, and dying in between is dying before.
OwnAndCommit(p, d, ok) ==
    /\ writer = None
    /\ main' = IF ok THEN d ELSE main
    /\ UNCHANGED <<writer, txn>>

\* Mutant: the transaction stays open.
Abort_KeepsTransaction(p) == UNCHANGED kvVars

\* abort, and the destructor of an owner: the transaction is forgotten.  An
\* owner whose transaction has ended returns at once.
Abort(p) ==
    /\ IF writer = p THEN writer' = None /\ txn' = Dropped
                     ELSE UNCHANGED <<writer, txn>>
    /\ UNCHANGED main

=============================================================================
