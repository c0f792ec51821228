------------------------- MODULE UnresolvedFields -------------------------
(***************************************************************************)
(* resolver/resolver.cc, CollectUnresolvedFieldsWalk::collect: the worker  *)
(* threads share the trees of a stratum, each gathers the fields that the  *)
(* classes of its trees mention, and the calling thread merges what they   *)
(* gathered into gs.unresolvedFields, where FieldResolver looks.           *)
(***************************************************************************)
EXTENDS FieldResolver

CONSTANTS
    Workers,        \* the threads of the pool
    FieldsIn        \* FieldsIn[f][k]: the fields of k that the tree of f mentions

ASSUME FieldsAssumption == FieldsIn \in [Files -> [Classes -> SUBSET Fields]]

VARIABLES
    total,              \* the number of trees that collect was given
    treeq,              \* the trees that no worker has taken
    walk,               \* walk[w]: what the closure on w has gathered
    resultq,            \* the results pushed, each with its number of trees
    popped,             \* the number of trees popped from resultq
    trees,              \* the trees collect returns
    unresolvedFields    \* gs.unresolvedFields

collectVars == <<total, treeq, walk, resultq, popped, trees>>

NoFields == [k \in Classes |-> {}]
NoWalk == [pc |-> "walk", trees |-> {}, fields |-> NoFields]

\* The queues and the closures of one call for the trees of fs.
CollectInit(fs) ==
    /\ total = Cardinality(fs)
    /\ treeq = fs
    /\ walk = [w \in Workers |-> NoWalk]
    /\ resultq = {}
    /\ popped = 0
    /\ trees = {}
Collect(fs) ==
    /\ total' = Cardinality(fs)
    /\ treeq' = fs
    /\ walk' = [w \in Workers |-> NoWalk]
    /\ resultq' = {}
    /\ popped' = 0
    /\ trees' = {}

\* postTransformUnresolvedIdent for all the nodes of a tree
Gather(fields, f) == [k \in Classes |-> fields[k] \cup FieldsIn[f][k]]

\* The walk over one tree.  The queue is unordered between threads.
Walk(w) ==
    /\ walk[w].pc = "walk"
    /\ \E f \in treeq :
         /\ treeq' = treeq \ {f}
         /\ walk' = [walk EXCEPT ![w].trees = @ \cup {f}, ![w].fields = Gather(@, f)]
    /\ UNCHANGED <<total, resultq, popped, trees, unresolvedFields>>

\* Mutant: the result is counted besides its trees.
CountOf_OneMore(gathered) == Cardinality(gathered.trees) + 1
CountOf(gathered) == Cardinality(gathered.trees)

\* The queue of trees is empty: a worker with trees pushes what it has.
Push(w) ==
    /\ walk[w].pc = "walk"
    /\ treeq = {}
    /\ walk' = [walk EXCEPT ![w].pc = "done"]
    /\ resultq' = IF walk[w].trees = {} THEN resultq
                  ELSE resultq \cup {[trees |-> walk[w].trees, fields |-> walk[w].fields,
                                      count |-> CountOf(walk[w])]}
    /\ UNCHANGED <<total, treeq, popped, trees, unresolvedFields>>

\* UnorderedMap::insert keeps the entry of a class that has one.
Insert(map, fields) == [k \in Classes |-> IF map[k] # {} THEN map[k] ELSE fields[k]]

\* The calling thread pops until as many trees as it was given have come.
Collected == popped >= total

Merge ==
    /\ ~Collected
    /\ \E result \in resultq :
         /\ resultq' = resultq \ {result}
         /\ popped' = popped + result.count
         /\ trees' = trees \cup result.trees
         /\ unresolvedFields' = Insert(unresolvedFields, result.fields)
    /\ UNCHANGED <<total, treeq, walk>>
=============================================================================
