--------------------------- MODULE FieldResolver ---------------------------
(***************************************************************************)
(* scip_indexer/SCIPFieldResolve.cc: which class a field that a method     *)
(* mentions is inherited from, and which mixins mention it too.  A class   *)
(* knows its superclass, its mixins (linearized, so all of them), its      *)
(* singleton class and the fields declared in it; the fields that are not  *)
(* declared come from fields, the map gs.unresolvedFields.                 *)
(***************************************************************************)
EXTENDS Integers, Sequences, FiniteSets, FiniteSetsExt

CONSTANTS
    Files,          \* the FileRefs
    Classes,        \* the classes and modules, singleton classes included
    Fields,         \* the names of the instance and class variables
    ClassVars,      \* the class variables among them
    SuperClass,     \* superClass(), the class itself at the end of the chain
    Mixins,         \* mixins()
    Members,        \* the fields that findMember finds
    SingletonOf     \* lookupSingletonClass; a singleton class is its own

ASSUME ClassesAssumption ==
    /\ ClassVars \subseteq Fields
    /\ SuperClass \in [Classes -> Classes]
    /\ Mixins \in [Classes -> SUBSET Classes]
    /\ Members \in [Classes -> SUBSET Fields]
    /\ SingletonOf \in [Classes -> Classes]

IsSingletonClass(k) == SingletonOf[k] = k

\* normalizeParentForClassVar
NormalizeParentForClassVar(k, field) ==
    IF field \in ClassVars THEN SingletonOf[k] ELSE k

\* k and its superclasses, in the order of the walk.
SuperClasses[k \in Classes] ==
    IF SuperClass[k] = k THEN <<k>> ELSE <<k>> \o SuperClasses[SuperClass[k]]

\* The walk stops at a class that declares the field; without one, it goes to
\* the end and keeps the last class that mentions it.
\* Mutant: it keeps the first one.
BestIn_First(fields, chain, field) ==
    LET mentions == {i \in DOMAIN chain : field \in fields[chain[i]] \cup Members[chain[i]]}
    IN  IF mentions = {} THEN chain[1] ELSE chain[Min(mentions)]
BestIn(fields, chain, field) ==
    LET declares == {i \in DOMAIN chain : field \in Members[chain[i]]}
        mentions == {i \in DOMAIN chain : field \in fields[chain[i]]}
    IN  IF declares # {} THEN chain[Min(declares)]
        ELSE IF mentions # {} THEN chain[Max(mentions)] ELSE chain[1]

\* A class instance variable is not inherited.
FindUnresolvedFieldInInheritanceChain(fields, start, field) ==
    IF field \notin ClassVars /\ IsSingletonClass(start) THEN start
    ELSE BestIn(fields, SuperClasses[NormalizeParentForClassVar(start, field)], field)

FindUnresolvedFieldInMixinsTransitive(fields, start, field) ==
    {m \in Mixins[start] : field \in Members[m] \cup fields[m]}

\* A query is [file, start, field]; cache is the map from queries to results.
FindUnresolvedFieldTransitive(fields, cache, query) ==
    IF query \in DOMAIN cache THEN cache[query]
    ELSE [inherited |-> FindUnresolvedFieldInInheritanceChain(fields, query.start, query.field),
          mixedIn |-> FindUnresolvedFieldInMixinsTransitive(fields, query.start, query.field)]
=============================================================================
