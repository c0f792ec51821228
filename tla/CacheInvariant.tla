--------------------------- MODULE CacheInvariant ---------------------------
(***************************************************************************)
(* What the operators of KeyValueStore and Cache do to a database, to the  *)
(* names of a process and to the relation between them; then the inductive *)
(* invariant of Cache, and the simplest of the steps that keep it.         *)
(***************************************************************************)
EXTENDS Cache, TLAPS

\* Most leaves are first-order: Zenon is the backend, SMT where arithmetic or
\* sequences are at work.
USE ZenonT(20)

-----------------------------------------------------------------------------
\* Databases and names.

\* What matters of a GlobalState.
GlobalState == [uuid : Uuids \cup {0}, names : Seq(Sources), written : Nat,
                count : Nat, critical : BOOLEAN]

\* A tree in memory, and where it came from.
HeldTree == [src : Sources \cup {None}, id : Nat,
             via : {"none", "main", "parsed", "session"}]

\* One name table diff: the names from position start + 1 on.
Diff == [start : Nat, names : Seq(Sources)]

\* The databases with n diffs.
Database(n) == [version : Versions \cup {None}, uuid : Uuids \cup {None}, count : {n},
                diffs : [0 .. n - 1 -> Diff],
                trees : [Files -> [src : Sources, id : Nat] \cup {None}]]

IsDatabase(d) == d.count \in Nat /\ d \in Database(d.count)

\* Diff k of d has the name at position i.
Holds(d, k, i) == d.diffs[k].start < i /\ i =< End(d.diffs[k])

\* Diffs follow each other, and together have all positions of the table. These
\* say of every two diffs, or of every position, what the chain in Sound says of
\* neighbours, so that no induction over the chain is needed.
Ordered(d) ==
    \A j, k \in 0 .. d.count - 1 : j < k => End(d.diffs[j]) =< d.diffs[k].start

Covers(d) ==
    \A i \in 1 .. TableSize(d) : \E k \in 0 .. d.count - 1 : Holds(d, k, i)

\* What is true of every database anyone reads.
Good(d) == IsDatabase(d) /\ Sound(d) /\ Ordered(d) /\ Covers(d)

\* A process whose names have the UUID of d has the names of d, followed by its
\* own, and the counters that go with them.
Agrees(d, g) ==
    d.uuid # None /\ g.uuid = d.uuid =>
        /\ g.count = d.count
        /\ g.written = TableSize(d)
        /\ NS!Extends(NameTable(d), g.names)

\* What retainGlobalState relies on when it writes a diff of g into d.
Continues(d, g) ==
    /\ g.count = d.count
    /\ g.written = TableSize(d)
    /\ NS!Extends(NameTable(d), g.names)

-----------------------------------------------------------------------------
(* A chain of diffs and the table it stands for                            *)

\* A diff ends behind its start.
LEMMA EndType == ASSUME NEW x \in Diff PROVE End(x) \in Nat /\ x.start =< End(x)
BY SMT DEF Diff, End

\* The size of a table is a number.
LEMMA TableSizeType == ASSUME NEW d, IsDatabase(d) PROVE TableSize(d) \in Nat
<1>1. CASE d.count = 0
  BY <1>1 DEF TableSize
<1>2. CASE d.count # 0
  <2>1. d.diffs[d.count - 1] \in Diff
    BY <1>2, SMT DEF IsDatabase, Database
  <2> QED BY <1>2, <2>1, EndType DEF TableSize
<1> QED BY <1>1, <1>2

\* A table has the positions up to its size.
LEMMA NameTableDomain == ASSUME NEW d PROVE DOMAIN NameTable(d) = 1 .. TableSize(d)
BY DEF NameTable

\* loadNameTableDiffs puts a name where the diff that has its position says; the
\* CHOOSE of NameTable has one candidate.
LEMMA Lookup ==
    ASSUME NEW d, IsDatabase(d), Ordered(d), Covers(d), NEW i \in 1 .. TableSize(d),
           NEW k \in 0 .. d.count - 1, Holds(d, k, i)
    PROVE  NameTable(d)[i] = d.diffs[k].names[i - d.diffs[k].start]
<1> DEFINE c == CHOOSE x \in 0 .. d.count - 1 : d.diffs[x].start < i /\ i =< End(d.diffs[x])
<1>1. c \in 0 .. d.count - 1 /\ Holds(d, c, i)
  BY DEF Covers, Holds
<1>2. NameTable(d)[i] = d.diffs[c].names[i - d.diffs[c].start]
  BY DEF NameTable
<1> HIDE DEF c
<1>3. \A x \in 0 .. d.count - 1 : d.diffs[x].start \in Nat /\ End(d.diffs[x]) \in Nat
  BY EndType DEF IsDatabase, Database, Diff
<1>4. c = k
  <2>1. TableSize(d) \in Nat /\ d.count \in Nat
    BY TableSizeType DEF IsDatabase
  <2>2. ~(c < k)
    BY <1>1, <1>3, <2>1, SMT DEF Ordered, Holds
  <2>3. ~(k < c)
    BY <1>1, <1>3, <2>1, SMT DEF Ordered, Holds
  <2> QED BY <1>1, <2>1, <2>2, <2>3, SMT
<1> QED BY <1>2, <1>4

\* The name table depends on the diffs and their count alone.
LEMMA SameNameTable ==
    ASSUME NEW d, NEW e, e.count = d.count, e.diffs = d.diffs
    PROVE  NameTable(e) = NameTable(d) /\ TableSize(e) = TableSize(d)
BY SMT DEF NameTable, TableSize

\* A loaded table is a sequence of names.
LEMMA NameTableType ==
    ASSUME NEW d, Good(d)
    PROVE  NameTable(d) \in Seq(Sources) /\ Len(NameTable(d)) = TableSize(d)
<1>1. TableSize(d) \in Nat /\ d.count \in Nat
  BY TableSizeType DEF Good, IsDatabase
<1>2. ASSUME NEW i \in 1 .. TableSize(d) PROVE NameTable(d)[i] \in Sources
  <2>1. PICK k \in 0 .. d.count - 1 : Holds(d, k, i)
    BY <1>2 DEF Good, Covers
  <2>2. d.diffs[k] \in Diff
    BY <2>1 DEF Good, IsDatabase, Database
  <2>3. NameTable(d)[i] = d.diffs[k].names[i - d.diffs[k].start]
    BY <1>2, <2>1, Lookup DEF Good
  <2>4. i - d.diffs[k].start \in 1 .. Len(d.diffs[k].names)
    BY SMTT(30), <1>1, <2>1, <2>2, SMTT(30) DEF Holds, End, Diff
  <2>5. d.diffs[k].names \in Seq(Sources)
    BY <2>2 DEF Diff
  <2> QED BY <2>3, <2>4, <2>5, SMT
<1>3. NameTable(d) \in [1 .. TableSize(d) -> Sources]
  <2>1. NameTable(d) = [i \in 1 .. TableSize(d) |-> NameTable(d)[i]]
    BY SMT DEF NameTable
  <2> QED BY <1>2, <2>1
<1> QED BY <1>1, <1>3, SMT

\* What mdb_drop leaves is good, and has no UUID.
LEMMA DroppedIsGood == Good(Dropped) /\ Dropped.uuid = None
<1>1. IsDatabase(Dropped)
  BY SMT DEF IsDatabase, Database, Dropped, Diff
<1>2. TableSize(Dropped) = 0
  BY DEF TableSize, Dropped
<1>3. Sound(Dropped) /\ Ordered(Dropped) /\ Covers(Dropped)
  BY <1>2, SMT DEF Sound, Ordered, Covers, Dropped
<1> QED BY <1>1, <1>3 DEF Good, Dropped

\* A database with the diffs of a good one is good if its trees are.
LEMMA SameTableIsGood ==
    ASSUME NEW d, NEW e, Good(d), e.count = d.count, e.diffs = d.diffs, e.uuid = d.uuid,
           IsDatabase(e),
           \A f \in Files : e.trees[f] # None => NS!Decodes(e.trees[f], NameTable(d))
    PROVE  Good(e)
<1>1. NameTable(e) = NameTable(d) /\ TableSize(e) = TableSize(d)
  BY SameNameTable
<1>2. Sound(e)
  BY <1>1 DEF Good, Sound
<1>3. Ordered(e) /\ Covers(e)
  BY <1>1 DEF Good, Ordered, Covers, Holds
<1> QED BY <1>2, <1>3 DEF Good

\* Agreement depends on the UUID, the diffs and their count alone.
LEMMA SameTableAgrees ==
    ASSUME NEW d, NEW e, NEW g, e.count = d.count, e.diffs = d.diffs, e.uuid = d.uuid,
           Agrees(d, g)
    PROVE  Agrees(e, g)
BY SameNameTable DEF Agrees

\* Writing the version changes no table and no tree.
LEMMA WithVersionKeeps ==
    ASSUME NEW d, Good(d), NEW v \in Versions \cup {None}
    PROVE  /\ Good(WithVersion(d, v))
           /\ WithVersion(d, v).count = d.count
           /\ WithVersion(d, v).diffs = d.diffs
           /\ WithVersion(d, v).uuid = d.uuid
           /\ WithVersion(d, v).trees = d.trees
<1>1. /\ IsDatabase(WithVersion(d, v))
      /\ WithVersion(d, v).count = d.count
      /\ WithVersion(d, v).diffs = d.diffs
      /\ WithVersion(d, v).uuid = d.uuid
      /\ WithVersion(d, v).trees = d.trees
  BY DEF WithVersion, Good, IsDatabase, Database
<1>2. \A f \in Files : d.trees[f] # None => NS!Decodes(d.trees[f], NameTable(d))
  BY DEF Good, Sound
<1> QED BY <1>1, <1>2, SameTableIsGood

\* cacheTreesAndFiles changes no table, and stores a tree that decodes in it.
LEMMA WithTreeKeeps ==
    ASSUME NEW d, Good(d), NEW f \in Files, NEW t \in HeldTree, NEW errors \in BOOLEAN,
           t.via = "parsed" => t.src \in Sources /\ NS!Decodes(t, NameTable(d))
    PROVE  /\ Good(WithTree(d, f, t, errors))
           /\ WithTree(d, f, t, errors).count = d.count
           /\ WithTree(d, f, t, errors).diffs = d.diffs
           /\ WithTree(d, f, t, errors).uuid = d.uuid
           /\ \A x \in Files : \/ WithTree(d, f, t, errors).trees[x] = d.trees[x]
                               \/ /\ WithTree(d, f, t, errors).trees[x] # None
                                  /\ NS!Decodes(WithTree(d, f, t, errors).trees[x], NameTable(d))
<1> DEFINE e == WithTree(d, f, t, errors)
<1>1. /\ IsDatabase(e)
      /\ e.count = d.count
      /\ e.diffs = d.diffs
      /\ e.uuid = d.uuid
      /\ \A x \in Files : \/ e.trees[x] = d.trees[x]
                          \/ /\ t.via = "parsed"
                             /\ e.trees[x] = [src |-> t.src, id |-> t.id]
                             /\ e.trees[x] \in [src : Sources, id : Nat]
  <2>1. CASE t.via = "parsed" /\ ~errors
    <3>1. e = [d EXCEPT !.trees[f] = [src |-> t.src, id |-> t.id]]
      BY <2>1 DEF WithTree
    <3>2. [src |-> t.src, id |-> t.id] \in [src : Sources, id : Nat]
      BY <2>1 DEF HeldTree
    <3> HIDE DEF e
    <3> QED BY <2>1, <3>1, <3>2 DEF Good, IsDatabase, Database
  <2>2. CASE ~(t.via = "parsed" /\ ~errors)
    BY <2>2 DEF WithTree, Good
  <2> QED BY <2>1, <2>2
<1> HIDE DEF e
<1>2. \A x \in Files : e.trees[x] # None => NS!Decodes(e.trees[x], NameTable(d))
  BY <1>1, SMT DEF Good, Sound, NS!Decodes
<1>3. Good(e)
  BY <1>1, <1>2, SameTableIsGood
<1>4. \A x \in Files : \/ e.trees[x] = d.trees[x]
                       \/ e.trees[x] # None /\ NS!Decodes(e.trees[x], NameTable(d))
  BY <1>1, <1>2, CacheAssumption
<1> QED BY <1>1, <1>3, <1>4 DEF e

-----------------------------------------------------------------------------
(* Names in memory                                                         *)

\* A process without names agrees with everything.
LEMMA EmptyGSAgrees ==
    /\ EmptyGS \in GlobalState
    /\ EmptyGS.uuid = 0 /\ EmptyGS.count = 0 /\ EmptyGS.written = 0 /\ EmptyGS.names = <<>>
    /\ \A d : IsDatabase(d) => Agrees(d, EmptyGS)
<1>1. /\ EmptyGS \in GlobalState
      /\ EmptyGS.uuid = 0 /\ EmptyGS.count = 0 /\ EmptyGS.written = 0 /\ EmptyGS.names = <<>>
  BY SMT DEF EmptyGS, GlobalState
<1>2. ASSUME NEW d, IsDatabase(d) PROVE Agrees(d, EmptyGS)
  BY <1>1, <1>2, CacheAssumption DEF Agrees, IsDatabase, Database
<1> QED BY <1>1, <1>2

\* createInitialGlobalState leaves a process that agrees with what it loaded, and
\* for which the store is unchanged.
LEMMA LoadedGSAgrees ==
    ASSUME NEW d, Good(d), NEW g, g = LoadedGS(d)
    PROVE  /\ g \in GlobalState
           /\ g.written =< Len(g.names)
           /\ g.uuid = 0 => g.count = 0 /\ g.written = 0
           /\ Agrees(d, g)
           /\ ~kvstoreChangedSinceGsCreation(g, d)
           /\ g.uuid \in {0, d.uuid}
<1>1. CASE d.uuid # None /\ d.count # 0
  <2>1. g = [uuid |-> d.uuid, names |-> NameTable(d), written |-> TableSize(d),
             count |-> d.count, critical |-> FALSE]
    BY <1>1 DEF LoadedGS
  <2>2. /\ NameTable(d) \in Seq(Sources) /\ Len(NameTable(d)) = TableSize(d)
        /\ TableSize(d) \in Nat /\ d.count \in Nat /\ d.uuid \in Uuids
    BY <1>1, NameTableType, TableSizeType DEF Good, IsDatabase, Database
  <2>3. NS!Extends(NameTable(d), g.names)
    BY <2>1, SMT DEF NS!Extends
  <2> QED BY <1>1, <2>1, <2>2, <2>3, CacheAssumption, SMT
          DEF GlobalState, Agrees, kvstoreChangedSinceGsCreation
<1>2. CASE ~(d.uuid # None /\ d.count # 0)
  <2>1. g = EmptyGS /\ d.uuid = None
    BY <1>2 DEF LoadedGS, Good, Sound
  <2>2. Agrees(d, g)
    BY <2>1 DEF Agrees
  <2> QED BY <2>1, <2>2, EmptyGSAgrees, SMT DEF kvstoreChangedSinceGsCreation
<1> QED BY <1>1, <1>2

\* The test of the UUID is enough: a process that finds the store unchanged can
\* append its diff.
LEMMA UnchangedContinues ==
    ASSUME NEW d, Good(d), NEW g \in GlobalState, Agrees(d, g),
           g.uuid = 0 => g.count = 0 /\ g.written = 0,
           ~kvstoreChangedSinceGsCreation(g, d)
    PROVE  Continues(d, g)
<1>1. CASE d.uuid # None
  BY <1>1 DEF kvstoreChangedSinceGsCreation, Agrees, Continues
<1>2. CASE d.uuid = None
  <2>1. d.count = 0 /\ TableSize(d) = 0
    BY <1>2 DEF Good, Sound, TableSize
  <2>2. DOMAIN NameTable(d) = {}
    BY <2>1, NameTableDomain, SMT
  <2> QED BY <1>2, <2>1, <2>2 DEF kvstoreChangedSinceGsCreation, Continues, NS!Extends
<1> QED BY <1>1, <1>2

\* retainGlobalState writes one more diff, with the names that were not stored.
LEMMA DiffIsAppended ==
    ASSUME NEW d, Good(d), NEW g \in GlobalState, Continues(d, g),
           g.written =< Len(g.names), NEW u \in Uuids, NEW e, e = WithNameTable(d, g, u)
    PROVE  /\ IsDatabase(e)
           /\ e.uuid = u /\ e.count = d.count + 1 /\ e.trees = d.trees
           /\ \A k \in 0 .. d.count - 1 : e.diffs[k] = d.diffs[k]
           /\ e.diffs[d.count].start = TableSize(d)
           /\ \A i \in 1 .. Len(g.names) - TableSize(d) :
                 e.diffs[d.count].names[i] = g.names[TableSize(d) + i]
           /\ End(e.diffs[d.count]) = Len(g.names)
           /\ TableSize(e) = Len(g.names)
<1> DEFINE n == d.count
           new == [start |-> g.written, names |-> SubSeq(g.names, g.written + 1, Len(g.names))]
<1>1. /\ n \in Nat /\ g.count = n /\ g.written = TableSize(d) /\ TableSize(d) \in Nat
      /\ d \in Database(n) /\ g.names \in Seq(Sources) /\ Len(g.names) \in Nat
  BY TableSizeType, SMT DEF Good, IsDatabase, Continues, GlobalState
<1>2. /\ new \in Diff
      /\ new.start = TableSize(d)
      /\ Len(new.names) = Len(g.names) - TableSize(d)
      /\ \A i \in 1 .. Len(g.names) - TableSize(d) : new.names[i] = g.names[TableSize(d) + i]
  <2> DEFINE s == SubSeq(g.names, g.written + 1, Len(g.names))
  <2>1. s \in Seq(Sources) /\ Len(s) = Len(g.names) - g.written
    BY <1>1, SMTT(30)
  <2>2. \A i \in 1 .. Len(g.names) - g.written : s[i] = g.names[g.written + i]
    BY SMTT(30), <1>1
  <2> HIDE DEF s
  <2> QED BY <1>1, <2>1, <2>2 DEF Diff, s
<1> HIDE DEF new
<1>3. End(new) = Len(g.names)
  BY <1>1, <1>2, SMT DEF End
<1> DEFINE ds == DiffsWith(d, g)
<1>4. ds = [k \in (0 .. n - 1) \cup {n} |-> IF k = n THEN new ELSE d.diffs[k]]
  BY <1>1 DEF DiffsWith, Database, new
<1>5. (0 .. n - 1) \cup {n} = 0 .. (n + 1) - 1
  BY <1>1, SMT
<1>6. /\ ds \in [0 .. (n + 1) - 1 -> Diff]
      /\ ds[n] = new
      /\ \A k \in 0 .. n - 1 : ds[k] = d.diffs[k]
  BY <1>1, <1>2, <1>4, <1>5, SMT DEF Database
<1>7. e = [d EXCEPT !.uuid = u, !.diffs = ds, !.count = n + 1]
  BY <1>1 DEF WithNameTable
<1> HIDE DEF ds
<1>8. /\ e \in Database(n + 1)
      /\ e.uuid = u /\ e.count = n + 1 /\ e.trees = d.trees /\ e.diffs = ds
  BY ZenonT(30), <1>1, <1>6, <1>7 DEF Database
<1>9. TableSize(e) = Len(g.names)
  BY <1>1, <1>3, <1>6, <1>8, SMT DEF TableSize
<1> QED BY <1>1, <1>2, <1>3, <1>6, <1>8, <1>9, SMTT(30) DEF IsDatabase

\* After that the database is good, and has the names of the process that wrote
\* it: nothing moved, and every tree in it still decodes.
LEMMA ExtendedIsGood ==
    ASSUME NEW d, Good(d), NEW g \in GlobalState, Continues(d, g),
           g.written =< Len(g.names), NEW u \in Uuids, NEW e, e = WithNameTable(d, g, u)
    PROVE  /\ Good(e)
           /\ e.uuid = u /\ e.count = d.count + 1 /\ e.trees = d.trees
           /\ TableSize(e) = Len(g.names)
           /\ \A i \in 1 .. Len(g.names) : NameTable(e)[i] = g.names[i]
<1> DEFINE n == d.count
           size == TableSize(d)
           len == Len(g.names)
<1>1. /\ IsDatabase(e)
      /\ e.uuid = u /\ e.count = n + 1 /\ e.trees = d.trees
      /\ \A k \in 0 .. n - 1 : e.diffs[k] = d.diffs[k]
      /\ e.diffs[n].start = size
      /\ \A i \in 1 .. len - size : e.diffs[n].names[i] = g.names[size + i]
      /\ End(e.diffs[n]) = len
      /\ TableSize(e) = len
  BY DiffIsAppended, SMTT(30)
<1>2. /\ n \in Nat /\ size \in Nat /\ len \in Nat /\ size =< len
      /\ g.names \in Seq(Sources)
  BY TableSizeType, SMT DEF Good, IsDatabase, Continues, GlobalState
<1>3. \A k \in 0 .. n - 1 : /\ d.diffs[k].start \in Nat /\ End(d.diffs[k]) \in Nat
                            /\ d.diffs[k].start =< End(d.diffs[k])
  BY EndType DEF Good, IsDatabase, Database, Diff
<1>4. \A k \in 0 .. n - 1 : End(d.diffs[k]) =< size
  <2> SUFFICES ASSUME NEW k \in 0 .. n - 1 PROVE End(d.diffs[k]) =< size
    OBVIOUS
  <2>1. size = End(d.diffs[n - 1]) /\ n - 1 \in 0 .. n - 1
    BY <1>2, SMT DEF TableSize
  <2>2. CASE k = n - 1
    BY <2>1, <2>2, <1>2, SMT
  <2>3. CASE k < n - 1
    <3>1. \A j, l \in 0 .. n - 1 : j < l => End(d.diffs[j]) =< d.diffs[l].start
      BY DEF Good, Ordered
    <3>2. End(d.diffs[k]) =< d.diffs[n - 1].start
      BY <2>1, <2>3, <3>1
    <3>3. /\ End(d.diffs[k]) \in Nat /\ d.diffs[n - 1].start \in Nat
          /\ size \in Nat /\ d.diffs[n - 1].start =< size
      BY <1>2, <1>3, <2>1
    <3> QED BY <3>2, <3>3, SMT
  <2> QED BY <1>2, <2>2, <2>3, SMT
<1> HIDE DEF n, size, len
<1>5. \A k \in 0 .. e.count - 1 : k \in 0 .. n - 1 \/ k = n
  BY <1>1, <1>2, SMT
<1>6. Ordered(e)
  <2> SUFFICES ASSUME NEW j \in 0 .. e.count - 1, NEW k \in 0 .. e.count - 1, j < k
               PROVE  End(e.diffs[j]) =< e.diffs[k].start
    BY DEF Ordered
  <2>1. j \in 0 .. n - 1
    BY <1>1, <1>2, SMT
  <2>2. CASE k = n
    BY <1>1, <1>4, <2>1, <2>2
  <2>3. CASE k \in 0 .. n - 1
    BY <1>1, <2>1, <2>3 DEF Good, Ordered, n
  <2> QED BY <1>5, <2>2, <2>3
<1>7. ASSUME NEW i \in 1 .. size, NEW k \in 0 .. n - 1, Holds(d, k, i)
      PROVE  k \in 0 .. e.count - 1 /\ Holds(e, k, i)
  BY <1>1, <1>2, <1>7, SMTT(30) DEF Holds
<1>8. ASSUME NEW i \in 1 .. len, ~(i =< size)
      PROVE  n \in 0 .. e.count - 1 /\ Holds(e, n, i)
  BY <1>1, <1>2, <1>8, SMT DEF Holds
<1>9. Covers(e)
  <2> SUFFICES ASSUME NEW i \in 1 .. len
               PROVE  \E k \in 0 .. e.count - 1 : Holds(e, k, i)
    BY <1>1 DEF Covers
  <2>1. CASE i =< size
    <3>1. i \in 1 .. size
      BY <1>2, <2>1, SMT
    <3>2. PICK k \in 0 .. n - 1 : Holds(d, k, i)
      BY <3>1 DEF Good, Covers, n, size
    <3> QED BY <1>7, <3>1, <3>2
  <2>2. CASE ~(i =< size)
    BY <1>8, <2>2
  <2> QED BY <2>1, <2>2
<1>10. ASSUME NEW i \in 1 .. size PROVE NameTable(e)[i] = NameTable(d)[i]
  <2>1. PICK k \in 0 .. n - 1 : Holds(d, k, i)
    BY <1>10 DEF Good, Covers, n, size
  <2>2. NameTable(d)[i] = d.diffs[k].names[i - d.diffs[k].start]
    BY <1>10, <2>1, Lookup DEF Good, n, size
  <2>3. i \in 1 .. TableSize(e)
    BY <1>1, <1>2, SMTT(30)
  <2>4. NameTable(e)[i] = e.diffs[k].names[i - e.diffs[k].start]
    BY <1>1, <1>6, <1>7, <1>9, <2>1, <2>3, Lookup, SMTT(30)
  <2> QED BY <1>1, <2>2, <2>4
<1>11. \A i \in 1 .. len : NameTable(e)[i] = g.names[i]
  <2> SUFFICES ASSUME NEW i \in 1 .. len PROVE NameTable(e)[i] = g.names[i]
    OBVIOUS
  <2>1. CASE i =< size
    <3>1. i \in DOMAIN NameTable(d) /\ i \in 1 .. size
      BY <1>2, <2>1, NameTableDomain, SMT DEF size
    <3> QED BY <1>10, <3>1 DEF Continues, NS!Extends
  <2>2. CASE ~(i =< size)
    <3>1. NameTable(e)[i] = e.diffs[n].names[i - e.diffs[n].start]
      BY <1>1, <1>6, <1>8, <1>9, <2>2, Lookup, SMT
    <3>2. i - size \in 1 .. len - size /\ size + (i - size) = i
      BY <1>2, <2>2, SMT
    <3> QED BY <1>1, <3>1, <3>2
  <2> QED BY <2>1, <2>2
<1>12. Sound(e)
  <2>1. (e.uuid = None) <=> (e.count = 0)
    BY <1>1, <1>2, CacheAssumption, SMT
  <2>2. DOMAIN e.diffs = 0 .. e.count - 1
    BY <1>1 DEF IsDatabase, Database
  <2>3. ASSUME NEW k \in DOMAIN e.diffs
        PROVE  e.diffs[k].start = IF k = 0 THEN 0 ELSE End(e.diffs[k - 1])
    <3>1. CASE k \in 0 .. n - 1
      <4>1. k \in DOMAIN d.diffs /\ (k # 0 => k - 1 \in 0 .. n - 1)
        BY <3>1, <1>2, SMT DEF Good, Sound, n
      <4> QED BY <1>1, <3>1, <4>1 DEF Good, Sound
    <3>2. CASE k = n
      <4>1. size = IF n = 0 THEN 0 ELSE End(d.diffs[n - 1])
        BY DEF size, n, TableSize
      <4>2. n # 0 => n - 1 \in 0 .. n - 1
        BY <1>2, SMT
      <4> QED BY <1>1, <3>2, <4>1, <4>2
    <3> QED BY <1>5, <2>2, <2>3, <3>1, <3>2
  <2>4. ASSUME NEW f \in Files, e.trees[f] # None
        PROVE  NS!Decodes(e.trees[f], NameTable(e))
    <3>1. NS!Decodes(d.trees[f], NameTable(d))
      BY <1>1, <2>4 DEF Good, Sound
    <3>2. d.trees[f].id \in 1 .. size
      BY <3>1, NameTableDomain DEF NS!Decodes, size
    <3>3. d.trees[f].id \in DOMAIN NameTable(e)
      BY <1>1, <1>2, <3>2, NameTableDomain, SMTT(30)
    <3> QED BY <1>1, <1>10, <3>1, <3>2, <3>3 DEF NS!Decodes
  <2> QED BY <2>1, <2>2, <2>3, <2>4 DEF Sound
<1> QED BY <1>1, <1>6, <1>9, <1>11, <1>12 DEF Good, n, len

\* Entering a name moves no other one.
LEMMA WithNameKeeps ==
    ASSUME NEW g \in GlobalState, g.written =< Len(g.names), NEW s \in Sources,
           NEW h, h = WithName(g, s)
    PROVE  /\ h \in GlobalState
           /\ h.uuid = g.uuid /\ h.count = g.count /\ h.written = g.written
           /\ h.written =< Len(h.names)
           /\ DOMAIN g.names \subseteq DOMAIN h.names
           /\ \A i \in DOMAIN g.names : h.names[i] = g.names[i]
           /\ s \in Range(h.names)
<1>1. CASE s \in Range(g.names)
  BY <1>1 DEF WithName
<1>2. CASE s \notin Range(g.names)
  <2>1. h = [g EXCEPT !.names = Append(g.names, s)]
    BY <1>2 DEF WithName
  <2>2. g.names \in Seq(Sources) /\ g.written \in Nat
    BY DEF GlobalState
  <2>3. /\ Append(g.names, s) \in Seq(Sources)
        /\ Len(Append(g.names, s)) = Len(g.names) + 1
        /\ \A i \in 1 .. Len(g.names) : Append(g.names, s)[i] = g.names[i]
        /\ Append(g.names, s)[Len(g.names) + 1] = s
    BY <2>2, SMT
  <2>4. /\ h \in GlobalState /\ h.names = Append(g.names, s)
        /\ h.uuid = g.uuid /\ h.count = g.count /\ h.written = g.written
    BY ZenonT(30), <2>1, <2>3 DEF GlobalState
  <2>5. DOMAIN g.names = 1 .. Len(g.names) /\ DOMAIN h.names = 1 .. Len(g.names) + 1
        /\ Len(g.names) \in Nat
    BY <2>2, <2>3, <2>4, SMT
  <2>6. s \in Range(h.names)
    BY <2>3, <2>4, <2>5, SMTT(30) DEF Range
  <2> QED BY <2>2, <2>3, <2>4, <2>5, <2>6, SMT
<1> QED BY <1>1, <1>2

\* So agreement survives it.
LEMMA LongerNamesAgree ==
    ASSUME NEW d, NEW g, NEW h, Agrees(d, g),
           h.uuid = g.uuid, h.count = g.count, h.written = g.written,
           DOMAIN g.names \subseteq DOMAIN h.names,
           \A i \in DOMAIN g.names : h.names[i] = g.names[i]
    PROVE  Agrees(d, h)
BY DEF Agrees, NS!Extends

\* A parsed tree decodes in the names of the process that parsed it.
LEMMA ParsedDecodes ==
    ASSUME NEW g \in GlobalState, NEW s \in Sources, s \in Range(g.names),
           NEW t, t = Parsed(g, s)
    PROVE  /\ t \in [src : Sources, id : Nat, via : {"parsed"}]
           /\ NS!Decodes(t, g.names)
<1> DEFINE c == CHOOSE i \in DOMAIN g.names : g.names[i] = s
<1>1. c \in DOMAIN g.names /\ g.names[c] = s
  BY DEF Range
<1>2. DOMAIN g.names = 1 .. Len(g.names)
  BY SMT DEF GlobalState
<1>3. t = [src |-> s, id |-> c, via |-> "parsed"]
  BY DEF Parsed
<1> HIDE DEF c
<1>4. c \in Nat
  BY <1>1, <1>2, SMTT(30)
<1> QED BY <1>1, <1>3, <1>4, SMT DEF NS!Decodes

\* The tree of a cache hit decodes in any names that continue the table.
LEMMA HitDecodes ==
    ASSUME NEW d, Good(d), NEW f \in Files, NEW s, CacheHit(d, f, s), NEW via,
           NEW t, t = Hit(d, f, via)
    PROVE  /\ t.src \in Sources /\ t.id \in Nat /\ t.via = via
           /\ t = [src |-> t.src, id |-> t.id, via |-> via]
           /\ \A names : NS!Extends(NameTable(d), names) => NS!Decodes(t, names)
<1>1. d.trees[f] # None /\ d.trees[f] \in [src : Sources, id : Nat]
  BY DEF CacheHit, Good, IsDatabase, Database
<1>2. NS!Decodes(d.trees[f], NameTable(d))
  BY <1>1 DEF Good, Sound
<1>3. t = [src |-> d.trees[f].src, id |-> d.trees[f].id, via |-> via]
  BY DEF Hit
<1> QED BY <1>1, <1>2, <1>3, SMT DEF NS!Decodes, NS!Extends

\* No tree is one of the trees.
LEMMA NoTreeType == NoTree \in HeldTree
BY DEF NoTree, HeldTree

-----------------------------------------------------------------------------
\* The invariant.

\* Values of pc and of goal, and where removeCacheDir is.
Pcs == {"dead", "reap", "rmdata", "rmfile", "rmdir", "check", "create", "load",
        "init", "index", "cache", "next", "done", "make", "copy", "envcopy",
        "envcopy2", "copying", "session"}
Goals == {"create", "load", "init", "cache", "next", "make", "exit"}
Removing == {"rmdata", "rmfile", "rmdir"}

\* The types of the variables.
Types ==
    /\ IsDatabase(txn)
    /\ writer \in Procs \cup {None}
    /\ pc \in [Procs -> Pcs]
    /\ goal \in [Procs -> Goals]
    /\ ver \in [Procs -> Versions \cup {None}]
    /\ lsp \in [Procs -> BOOLEAN]
    /\ gs \in [Procs -> GlobalState]
    /\ kv \in [Procs -> BOOLEAN]
    /\ stratum \in [Procs -> 1 .. Strata]
    /\ held \in [Procs -> HeldTree]
    /\ todo \in [Procs -> SUBSET Procs]
    /\ rm \in [Procs -> Procs]
    /\ DOMAIN sdir = Procs
    /\ \A p \in Procs : sdir[p] = [state |-> sdir[p].state, db |-> sdir[p].db]

\* The committed database and all session copies are good.
Stores == Good(main) /\ \A p \in Procs : Good(sdir[p].db)

\* Where a process is that has not loaded its names yet, that makes its session
\* copy, or that may own the store.
Starting(p) ==
    \/ pc[p] \in {"dead", "reap", "create", "load"}
    \/ pc[p] = "check" /\ goal[p] \in {"create", "load"}
    \/ pc[p] \in Removing /\ goal[p] = "create"

Copying(p) ==
    \/ pc[p] \in {"make", "copy", "envcopy", "envcopy2"}
    \/ pc[p] \in Removing /\ goal[p] = "make"

Owning(p) ==
    \/ pc[p] \in {"index", "done", "make", "copy"}
    \/ pc[p] \in Removing /\ goal[p] = "make"

\* Where a process can be, and what it has there: an owner is past the point at
\* which it waits for the store, one that indexes with a store owns it, and no
\* tree is in memory when names are loaded or a session copy is made.
Control ==
    \A p \in Procs :
        /\ pc[p] \in {"dead", "reap"} => goal[p] = "create"
        /\ pc[p] = "check" => goal[p] \notin {"make", "exit"}
        /\ pc[p] \in Removing => goal[p] \in {"create", "make", "exit"}
        /\ writer = p => Owning(p)
        /\ pc[p] = "index" /\ kv[p] => writer = p
        /\ Starting(p) \/ Copying(p) => held[p] = NoTree

\* The owner's transaction is what is committed, but for the version, and the
\* owner's names continue it.
Owner ==
    writer # None =>
        /\ txn.uuid = main.uuid
        /\ txn.count = main.count
        /\ txn.diffs = main.diffs
        /\ txn.trees = main.trees
        /\ ~kvstoreChangedSinceGsCreation(gs[writer], txn)

\* Every process agrees with every database, and a UUID stands for one table.
Names ==
    /\ \A p \in Procs :
          /\ gs[p].written =< Len(gs[p].names)
          /\ gs[p].uuid = 0 => gs[p].count = 0 /\ gs[p].written = 0
          /\ Agrees(main, gs[p])
          /\ \A q \in Procs : Agrees(sdir[q].db, gs[p])
    /\ \A q \in Procs :
          sdir[q].db.uuid = main.uuid /\ main.uuid # None =>
              sdir[q].db.count = main.count /\ sdir[q].db.diffs = main.diffs

\* A tree in memory decodes in the names of its process.
Held ==
    \A p \in Procs :
        \/ held[p].via \in {"main", "parsed"}
        \/ held[p].via = "session" /\ sdir[p].db.uuid = gs[p].uuid
        => NS!Decodes(held[p], gs[p].names)

\* The inductive invariant.
IInv == Types /\ Stores /\ Control /\ Owner /\ Names /\ Held

-----------------------------------------------------------------------------
(* What a step needs to keep                                               *)

\* Owner survives letting go, and steps that leave the store and UUIDs alone.
LEMMA OwnerIsKept ==
    ASSUME Types, Owner,
           \/ writer' = None
           \/ /\ UNCHANGED <<main, writer, txn>>
              /\ \A p \in Procs : writer = p => gs'[p].uuid = gs[p].uuid
    PROVE  Owner'
BY DEF Types, Owner, kvstoreChangedSinceGsCreation

\* Names survives a step of main that drops its table or keeps it.
LEMMA NamesAreKept ==
    ASSUME Names, UNCHANGED <<gs, sdir>>,
           \/ main'.uuid = None
           \/ main'.uuid = main.uuid /\ main'.count = main.count /\ main'.diffs = main.diffs
    PROVE  Names'
<1>1. \A p \in Procs : Agrees(main', gs[p])
  <2>1. CASE main'.uuid = None
    BY <2>1 DEF Agrees
  <2>2. CASE main'.uuid = main.uuid /\ main'.count = main.count /\ main'.diffs = main.diffs
    BY <2>2, SameTableAgrees DEF Names
  <2> QED BY <2>1, <2>2
<1> QED BY <1>1 DEF Names

\* A new transaction starts with what is committed.
LEMMA MainTransactionKeeps ==
    ASSUME IInv, NEW p \in Procs, NEW d, d = MainTransaction(ver[p])
    PROVE  /\ Good(d)
           /\ d.uuid = main.uuid /\ d.count = main.count
           /\ d.diffs = main.diffs /\ d.trees = main.trees
BY WithVersionKeeps DEF IInv, Types, Stores, MainTransaction

\* A process without a name table has UUID 0, and never the absent key.
LEMMA LoadedUuid == ASSUME Types, NEW p \in Procs PROVE gs[p].uuid # None
<1>1. gs[p].uuid \in Uuids \cup {0}
  BY DEF Types, GlobalState
<1>2. /\ Uuids \subseteq Nat /\ 0 \in Nat /\ None \notin Nat
  <2>1. 0 \in Nat /\ Nat \ {0} \subseteq Nat
    BY SMT
  <2> QED BY <2>1, CacheAssumption
<1> QED BY <1>1, <1>2

\* A step that concerns neither the store, nor names, nor trees.
LEMMA LocalStep ==
    ASSUME IInv, UNCHANGED <<kvVars, gs, held, sdir>>, Types', Control'
    PROVE  IInv'
<1>1. Stores' /\ Names' /\ Held'
  BY DEF IInv, Stores, Names, Held, kvVars
<1>2. Owner'
  BY OwnerIsKept DEF IInv, kvVars
<1> QED BY <1>1, <1>2 DEF IInv

\* A step on the store alone: main loses its table or keeps it.
LEMMA MainStep ==
    ASSUME IInv, UNCHANGED <<gs, sdir>>, Good(main'), writer' = None,
           \/ main'.uuid = None
           \/ main'.uuid = main.uuid /\ main'.count = main.count /\ main'.diffs = main.diffs,
           \A p \in Procs : held'[p] \in {held[p], NoTree},
           Types', Control'
    PROVE  IInv'
<1>1. Stores'
  BY DEF IInv, Stores
<1>2. Owner'
  BY DEF Owner
<1>3. Names'
  BY NamesAreKept DEF IInv
<1>4. Held'
  BY SMT DEF IInv, Held, NoTree
<1> QED BY <1>1, <1>2, <1>3, <1>4 DEF IInv

\* One session directory changes: it has no table, the one it had, or main's.
LEMMA DirectoryStep ==
    ASSUME IInv, NEW p \in Procs, NEW dir, sdir' = [sdir EXCEPT ![p] = dir],
           dir = [state |-> dir.state, db |-> dir.db],
           dir.db \in {Dropped, sdir[p].db, main},
           UNCHANGED <<kvVars, gs, held>>,
           dir.db \in {Dropped, sdir[p].db} \/ held[p] = NoTree,
           Types', Control'
    PROVE  IInv'
<1>1. \A q \in Procs : sdir'[q] = IF q = p THEN dir ELSE sdir[q]
  BY DEF IInv, Types
<1>2. Good(dir.db)
  BY DroppedIsGood DEF IInv, Stores
<1>3. Stores'
  BY <1>1, <1>2 DEF IInv, Stores, kvVars
<1>4. Owner'
  BY OwnerIsKept DEF IInv, kvVars
<1>5. \A q \in Procs : Agrees(dir.db, gs[q])
  BY DroppedIsGood, SMT DEF IInv, Names, Agrees
<1>6. dir.db.uuid = main.uuid /\ main.uuid # None =>
         dir.db.count = main.count /\ dir.db.diffs = main.diffs
  BY DroppedIsGood DEF IInv, Names
<1>7. UNCHANGED <<main, gs, held>>
  BY DEF kvVars
<1>8. Names'
  BY <1>1, <1>5, <1>6, <1>7, SMTT(30) DEF IInv, Names
<1>9. Held'
  <2>1. gs[p].uuid # None
    BY LoadedUuid DEF IInv
  <2>2. dir.db.uuid = gs[p].uuid => held[p] = NoTree \/ dir.db = sdir[p].db
    BY <2>1, DroppedIsGood
  <2>3. NoTree.via = "none"
    BY DEF NoTree
  <2> QED BY <1>1, <1>7, <2>2, <2>3, SMT DEF IInv, Held
<1> QED BY <1>3, <1>4, <1>8, <1>9 DEF IInv

\* A step in which one process's names change and the store does not.
LEMMA GlobalStateStep ==
    ASSUME IInv, NEW p \in Procs, NEW g \in GlobalState, gs' = [gs EXCEPT ![p] = g],
           UNCHANGED <<main, sdir>>,
           g.written =< Len(g.names), g.uuid = 0 => g.count = 0 /\ g.written = 0,
           Agrees(main, g), \A q \in Procs : Agrees(sdir[q].db, g)
    PROVE  Stores' /\ Names'
<1>1. \A q \in Procs : gs'[q] = IF q = p THEN g ELSE gs[q]
  BY DEF IInv, Types
<1> QED BY <1>1, SMT DEF IInv, Stores, Names

\* The names of a process for which the store is unchanged continue it.
LEMMA OwnerContinues ==
    ASSUME IInv, NEW p \in Procs, ~kvstoreChangedSinceGsCreation(gs[p], main)
    PROVE  Continues(main, gs[p])
<1>1. /\ Good(main) /\ gs[p] \in GlobalState /\ Agrees(main, gs[p])
      /\ gs[p].uuid = 0 => gs[p].count = 0 /\ gs[p].written = 0
  BY DEF IInv, Types, Stores, Names
<1> QED BY <1>1, UnchangedContinues

\* A process starts with nothing in memory.
LEMMA StartStep == ASSUME IInv, NEW p \in Procs, Start(p) PROVE IInv'
<1>1. Types'
  BY SMTT(30) DEF IInv, Types, Start, AfterReaping, Pcs, kvVars
<1>2. Control'
  BY SMT DEF IInv, Types, Control, Starting, Copying, Owning, Removing, Start, AfterReaping, kvVars
<1> QED BY <1>1, <1>2, LocalStep DEF Start

\* One directory is taken off the list.
LEMMA ReapNextStep == ASSUME IInv, NEW p \in Procs, ReapNext(p) PROVE IInv'
<1>1. Types'
  <2>1. PICK q \in todo[p] :
           /\ todo' = [todo EXCEPT ![p] = @ \ {q}]
           /\ \/ pc' = [pc EXCEPT ![p] = AfterReaping(todo'[p])] /\ UNCHANGED rm
              \/ pc' = [pc EXCEPT ![p] = "rmdata"] /\ rm' = [rm EXCEPT ![p] = q]
    BY ZenonT(30) DEF ReapNext
  <2>2. q \in Procs /\ todo' \in [Procs -> SUBSET Procs]
    BY <2>1 DEF IInv, Types
  <2>3. AfterReaping(todo'[p]) \in Pcs /\ "rmdata" \in Pcs
    BY DEF AfterReaping, Pcs
  <2>4. /\ pc \in [Procs -> Pcs] /\ rm \in [Procs -> Procs]
        /\ \E x \in Pcs : pc' = [pc EXCEPT ![p] = x]
        /\ rm' = rm \/ rm' = [rm EXCEPT ![p] = q]
    BY <2>1, <2>3 DEF IInv, Types
  <2>5. pc' \in [Procs -> Pcs] /\ rm' \in [Procs -> Procs]
    BY <2>2, <2>4, SMTT(30)
  <2> QED BY <2>2, <2>5 DEF IInv, Types, ReapNext, kvVars
<1>2. Control'
  BY SMT DEF IInv, Types, Control, Starting, Copying, Owning, Removing, ReapNext,
         AfterReaping, kvVars
<1> QED BY <1>1, <1>2, LocalStep DEF ReapNext

\* removeCacheDir looks for data.mdb.
LEMMA RemoveFindsDataStep == ASSUME IInv, NEW p \in Procs, RemoveFindsData(p) PROVE IInv'
<1>1. Types'
  BY DEF IInv, Types, RemoveFindsData, Pcs, kvVars
<1>2. Control'
  BY SMT DEF IInv, Types, Control, Starting, Copying, Owning, Removing, RemoveFindsData, kvVars
<1> QED BY <1>1, <1>2, LocalStep DEF RemoveFindsData

\* SessionCache::make begins.
LEMMA MakeStep == ASSUME IInv, NEW p \in Procs, Make(p) PROVE IInv'
<1>1. Types'
  BY DEF IInv, Types, Make, Pcs, Goals, kvVars
<1>2. Control'
  BY SMT DEF IInv, Types, Control, Starting, Copying, Owning, Removing, Make, kvVars
<1> QED BY <1>1, <1>2, LocalStep DEF Make

\* ~SessionCache begins.
LEMMA EndSessionStep == ASSUME IInv, NEW p \in Procs, EndSession(p) PROVE IInv'
<1>1. Types'
  BY DEF IInv, Types, EndSession, Pcs, Goals, kvVars
<1>2. Control'
  BY SMT DEF IInv, Types, Control, Starting, Copying, Owning, Removing, EndSession, kvVars
<1> QED BY <1>1, <1>2, LocalStep DEF EndSession
=============================================================================
