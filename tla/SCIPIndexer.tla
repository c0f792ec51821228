---------------------------- MODULE SCIPIndexer ----------------------------
(***************************************************************************)
(* How a batch run of scip-ruby builds its index: the resolver collects    *)
(* the fields that the trees mention (UnresolvedFields), pipeline::        *)
(* typecheck hands the trees to the worker threads, typecheckOne walks a   *)
(* file and calls the SCIPSemanticExtension of scip_indexer/SCIPIndexer.cc *)
(* at every class, method and control flow graph, and finishTypecheck      *)
(* writes the documents of all threads.  realmain does this once per       *)
(* stratum of packages.                                                    *)
(*                                                                         *)
(* Program[f] is the list of calls that the walk over f makes:             *)
(*   [call |-> "class",  sym, at, refs, types]  typecheckClass             *)
(*   [call |-> "method", sym, at, params]       typecheckMethod            *)
(*   [call |-> "cfg", owner, klass, body, fields, synthesized, events]     *)
(*                                              typecheck                  *)
(* where klass is the class whose definition the code of the graph is in,  *)
(* and body says that it is not in a method but in the class itself.       *)
(* An event of a control flow graph is an occurrence that CFGTraversal     *)
(* saves: [kind |-> "local", counter, at, role], [kind |-> "field", field, *)
(* at, role] or [kind |-> "global", sym, at, role, alias].                 *)
(* A SCIPState belongs to one thread, so a call is one step.               *)
(***************************************************************************)
EXTENDS SCIPState, UnresolvedFields

CONSTANTS
    Strata,         \* the files of each stratum, in the order of the queue
    Rbi,            \* the RBI files among them
    Program

ASSUME ProgramAssumption ==
    /\ Strata \in Seq(Seq(Files))
    /\ Rbi \subseteq Files
    /\ DOMAIN Program = Files

Graphs(f) == {c \in ToSet(Program[f]) : c.call = "cfg"}

\* The method of a graph is one of this class.  The body of a class becomes the
\* <static-init> of its singleton class, but only when its graph is built.
MethodOwner(g) == IF g.body THEN SingletonOf[g.klass] ELSE g.klass

\* postTransformUnresolvedIdent: the fields that the methods and the bodies of the
\* classes in f mention.  The walk is over the tree, in which the instance
\* variables of a body are in the class itself, with those of its instances.
UnresolvedIn ==
    [f \in Files |-> [k \in Classes |->
       UNION {{n \in ToSet(g.fields) : NormalizeParentForClassVar(g.klass, n) = k} : g \in Graphs(f)}]]

ASSUME FieldsInAssumption == FieldsIn = UnresolvedIn

VARIABLES
    stratum,        \* realmain's loop over the strata
    stage,          \* the stage of the pipeline in it: "resolve" or "typecheck"
    fileq,          \* the files of the stratum that no worker has taken
    job,            \* job[w]: the file w walks and the calls left to make
    states,         \* mutableState.states, by thread
    failed,         \* the files whose walk ended in an exception
    index           \* the documents in the file at indexFilePath

indexVars == <<stratum, stage, fileq, job, states, failed, index>>
vars == <<indexVars, collectVars, unresolvedFields>>

Idle == [file |-> NoFile, calls |-> <<>>]

Init ==
    /\ stratum = 1
    /\ stage = "resolve"
    /\ fileq = <<>>
    /\ job = [w \in Workers |-> Idle]
    /\ states = [w \in Workers |-> EmptyState]
    /\ failed = {}
    /\ index = {}
    /\ CollectInit(ToSet(Strata[1]))
    /\ unresolvedFields = NoFields

-----------------------------------------------------------------------------
(* What a call does to the state of the thread that makes it *)

SaveRefs(st, file, refs) ==
    FoldLeft(LAMBDA s, r : SaveReference(s, file, r.sym, r.at, "none"), st, refs)

\* typecheckClass: the types of the whole file hang off the root class, the
\* qualifiers and ancestors off a class with a name.
TypecheckClass(st, file, c) ==
    LET typed == SaveRefs(st, file, c.types)
    IN  IF c.at = NoLoc THEN typed
        ELSE SaveRefs(SaveDefinition(typed, file, c.sym, {}, c.at), file, c.refs)

\* typecheckMethod: the method and its keyword parameters
TypecheckMethod(st, file, m) ==
    FoldLeft(LAMBDA s, p : SaveDefinition(s, file, p.sym, {}, p.at),
             SaveDefinition(st, file, m.sym, {}, m.at), m.params)

\* emitLocalOccurrence, once it is known what the local variable stands for.  A
\* field belongs to the class of the method.
EmitOccurrence(st, file, g, e) ==
    LET sym == IF e.kind = "field"
               THEN <<NormalizeParentForClassVar(MethodOwner(g), e.field), e.field>> ELSE e.sym
        alias == IF e.kind = "field" THEN {} ELSE e.alias
    IN  CASE e.kind = "local" ->
               SaveLocal(st, file, [owner |-> g.owner, counter |-> e.counter, at |-> e.at], e.role)
          [] e.kind # "local" /\ e.role = Definition -> SaveDefinition(st, file, sym, alias, e.at)
          [] OTHER -> SaveReference(st, file, sym, e.at, e.role)

\* aliasMap.populate fills relationshipsMap before the blocks are visited.
Traverse(st, fields, file, g) ==
    FoldLeft(LAMBDA s, e : EmitOccurrence(s, file, g, e),
             FoldLeft(LAMBDA s, n : Populate(s, fields, file, MethodOwner(g), n), st, g.fields),
             g.events)

\* typecheck
TypecheckCFG(st, fields, file, g) ==
    IF g.synthesized THEN st ELSE ClearFunctionLocalCaches(Traverse(st, fields, file, g))

Apply(st, fields, file, c) ==
    CASE c.call = "class" -> TypecheckClass(st, file, c)
      [] c.call = "method" -> TypecheckMethod(st, file, c)
      [] c.call = "cfg" -> TypecheckCFG(st, fields, file, c)

\* finishTypecheckFile
FinishFile(st, file) == SaveDocument(FinalizeRefOnlySymbolInfos(st, file), file)

-----------------------------------------------------------------------------
(* The worker threads *)

Resolving == stage = "resolve" /\ UNCHANGED indexVars

\* collect returns its trees, and the stage goes on to pipeline::typecheck with
\* them.  A worker that has not run its closure yet will find the queue empty.
FinishResolve ==
    /\ stage = "resolve"
    /\ Collected
    /\ stage' = "typecheck"
    /\ fileq' = SelectSeq(Strata[stratum], LAMBDA f : f \in trees)
    /\ Collect({})
    /\ UNCHANGED <<stratum, job, states, failed, index, unresolvedFields>>

\* typecheckOne returns at once from an RBI file.
\* Mutant: it walks every file.
Walks_Rbi(f) == TRUE
Walks(f) == f \notin Rbi

TakeFile(w) ==
    /\ job[w] = Idle
    /\ fileq # <<>>
    /\ fileq' = Tail(fileq)
    /\ job' = [job EXCEPT ![w] =
                 IF Walks(Head(fileq))
                 THEN [file |-> Head(fileq), calls |-> Program[Head(fileq)]]
                 ELSE Idle]
    /\ UNCHANGED <<stratum, stage, states, failed, index, collectVars, unresolvedFields>>

Call(w) ==
    /\ job[w].calls # <<>>
    /\ states' = [states EXCEPT ![w] = Apply(@, unresolvedFields, job[w].file, Head(job[w].calls))]
    /\ job' = [job EXCEPT ![w].calls = Tail(@)]
    /\ UNCHANGED <<stratum, stage, fileq, failed, index, collectVars, unresolvedFields>>

\* Inference::run throws: typecheckOne catches the exception after the walk,
\* so the file is not finished and what was saved for it stays in the state.
InferenceThrows(w) ==
    /\ job[w].calls # <<>>
    /\ Head(job[w].calls).call = "cfg"
    /\ failed' = failed \cup {job[w].file}
    /\ job' = [job EXCEPT ![w] = Idle]
    /\ UNCHANGED <<stratum, stage, fileq, states, index, collectVars, unresolvedFields>>

FinishTypecheckFile(w) ==
    /\ job[w] # Idle
    /\ job[w].calls = <<>>
    /\ states' = [states EXCEPT ![w] = FinishFile(@, job[w].file)]
    /\ job' = [job EXCEPT ![w] = Idle]
    /\ UNCHANGED <<stratum, stage, fileq, failed, index, collectVars, unresolvedFields>>

-----------------------------------------------------------------------------
(* The end of pipeline::typecheck for one stratum *)

AllDocuments(sts) == UNION {ToSet(sts[w].docs) : w \in Workers}

\* finishTypecheck: the states are drained and dropped, the file is opened
\* with an ofstream, which truncates it.
FinishTypecheck ==
    /\ stage = "typecheck"
    /\ fileq = <<>>
    /\ \A w \in Workers : job[w] = Idle
    /\ index' = AllDocuments(states)
    /\ states' = [w \in Workers |-> EmptyState]
    /\ IF stratum < Len(Strata)
       THEN /\ stratum' = stratum + 1
            /\ stage' = "resolve"
            /\ Collect(ToSet(Strata[stratum + 1]))
       ELSE /\ stage' = "done"
            /\ UNCHANGED <<stratum, collectVars>>
    /\ UNCHANGED <<fileq, job, failed, unresolvedFields>>

Done == stage = "done"

\* The process exits.
Exit == Done /\ UNCHANGED vars

WorkerNext(w) ==
    \/ Resolving /\ (Walk(w) \/ Push(w))
    \/ TakeFile(w) \/ Call(w) \/ InferenceThrows(w) \/ FinishTypecheckFile(w)
MainNext ==
    \/ Resolving /\ Merge
    \/ FinishResolve \/ FinishTypecheck

Next == MainNext \/ Exit \/ \E w \in Workers : WorkerNext(w)

Spec == Init /\ [][Next]_vars

-----------------------------------------------------------------------------
Queued == UNION {ToSet(Strata[i]) : i \in DOMAIN Strata}
Indexed == Queued \ (Rbi \cup failed)

\* All the fields that the trees up to stratum i mention.
AllFields(i, k) == UNION {FieldsIn[f][k] : f \in UNION {ToSet(Strata[j]) : j \in 1..i}}
StratumOf(f) == CHOOSE i \in DOMAIN Strata : f \in ToSet(Strata[i])
MentionedBy == [f \in Queued |-> [k \in Classes |-> AllFields(StratumOf(f), k)]]

\* The document that a thread writes which walks no file but f.
AloneWith(f) == FoldLeft(LAMBDA s, c : Apply(s, MentionedBy[f], f, c), EmptyState, Program[f])
DocumentAlone == [f \in Queued |-> FinishFile(AloneWith(f), f).docs[1]]

\* A worker has a file exactly while it walks one that it took from the queue
\* and has not finished, and the index holds documents of files.
TypeOK ==
    /\ stratum \in DOMAIN Strata
    /\ stage \in {"resolve", "typecheck", "done"}
    /\ fileq \in Seq(Files)
    /\ \A w \in Workers : job[w] = Idle \/ job[w].file \in Files \ Rbi
    /\ failed \subseteq Files
    /\ \A d \in index : d.path \in Files
    /\ treeq \cup trees \subseteq Files
    /\ unresolvedFields \in [Classes -> SUBSET Fields]

\* SCIPIndexer.cc:2050 sorts "for fully deterministic output", and the warning
\* at :153 asks that what a thread remembers of one file does not show in the
\* next: whatever threads the trees and the files went to, and in whatever
\* order, the document of a file is the one that a thread writes which walks
\* only that file and knows every field that the trees mention.
IndexIsDeterministic ==
    \A d \in index : d = DocumentAlone[d.path]

\* The counts that the workers push in collect add up to the number of trees
\* only when all of them have come back, and the states "are implicitly merged
\* at the time of emitting the index" (SCIPIndexer.cc:151): at the end, each
\* file that was walked without an exception, and no other, has a document.
EveryFileHasADocument ==
    Done => {d.path : d \in index} = Indexed

\* The events of f that stand for an occurrence of a local variable.
LocalsOf(f) ==
    UNION {{<<LocalString([owner |-> g.owner, counter |-> e.counter]), e.at, e.role>> :
              e \in {x \in ToSet(g.events) : x.kind = "local"}} :
           g \in {h \in Graphs(f) : ~h.synthesized}}

IsLocal(o) == o.symbol[1] = "local"

\* cacheOccurrence removes only repetitions: a document has each occurrence of
\* a local variable in the methods of its file, and has it once, although the
\* cache knows neither the file nor the method.
LocalsAreComplete ==
    \A d \in index :
      /\ LocalsOf(d.path) = {<<o.symbol, o.at, o.role>> : o \in {p \in DOMAIN d.occs : IsLocal(p)}}
      /\ \A o \in DOMAIN d.occs : IsLocal(o) => d.occs[o] = 1

Ancestors(k) == ToSet(SuperClasses[k])

\* The fields of k that are mentioned in the files up to this stratum: an instance
\* variable in a method of k, or in a body if k is the singleton class.
FieldsOf(k) ==
    LET graphs == UNION {Graphs(f) : f \in UNION {ToSet(Strata[j]) : j \in 1..stratum}}
    IN  UNION {{n \in ToSet(g.fields) : NormalizeParentForClassVar(MethodOwner(g), n) = k} :
               g \in graphs}

Inherits(k, n) == n \in ClassVars \/ ~IsSingletonClass(k)
Declaring(k, n) == {p \in Ancestors(k) : n \in Members[p]}
Topmost(classes) == {p \in classes : \A q \in classes : p \in Ancestors(q)}

\* The superclasses that field n of class k comes from: the nearest one that
\* declares it, and without a declaration the topmost one that mentions it.  An
\* instance variable of a class object is not inherited.
ComesFrom(k, n) ==
    IF ~Inherits(k, n) THEN {k}
    ELSE IF Declaring(k, n) # {}
         THEN {p \in Declaring(k, n) : \A q \in Declaring(k, n) : q \in Ancestors(p)}
         ELSE Topmost({p \in Ancestors(k) : n \in FieldsOf(p)})

\* The body of a superclass has a variable of that name and none of its methods
\* has, which UnresolvedIn cannot tell.
Confused(k, n) ==
    /\ Inherits(k, n) /\ Declaring(k, n) = {}
    /\ \E p \in Ancestors(k) \ {k} : n \in AllFields(stratum, p) \ FieldsOf(p)

\* The description of o names origins as the definitions of the field.
DescribedBy(d, o, origins) ==
    \E i \in DOMAIN d.infos :
      /\ i.symbol = o.symbol
      /\ {r.of[2][1] : r \in {q \in i.rels : q.is = Definition}} = origins

FieldOccurrences(d) ==
    {o \in DOMAIN d.occs : ~IsLocal(o) /\ o.symbol[2][1] \in Classes /\ o.symbol[2][2] \in Fields}
Placed(classes) == {p \in classes : HomeOf[p] # NoFile}

\* finalizeRefOnlySymbolInfos: a field that a document mentions is described in
\* that document even if the file never defines it, and the description names
\* as its definition the field of the superclass that it comes from, if that
\* is another one and has a place in the source.  If the field is confused with
\* one of a class body, the bodies count as well: the topmost superclass that
\* mentions the name anywhere.
FieldsAreDescribed ==
    \A d \in index : \A o \in FieldOccurrences(d) :
      LET k == o.symbol[2][1]
          n == o.symbol[2][2]
          origins == IF Confused(k, n)
                     THEN Topmost({p \in Ancestors(k) : n \in AllFields(stratum, p)})
                     ELSE ComesFrom(k, n)
      IN  DescribedBy(d, o, Placed(origins \ {k}))

\* SCIPFieldResolve.cc:74: "Class instance variables are not inherited": no body
\* counts, and every field is described by the superclass it comes from.
ClassInstanceVariablesAreNotInherited ==
    \A d \in index : \A o \in FieldOccurrences(d) :
      LET k == o.symbol[2][1]
      IN  DescribedBy(d, o, Placed(ComesFrom(k, o.symbol[2][2]) \ {k}))

\* SCIPIndexer.cc:204-208: emittedSymbols is there "to avoid emitting multiple
\* SymbolInfos": a document describes a symbol once.
SymbolsAreDescribedOnce ==
    \A d \in index : \A i, j \in DOMAIN d.infos :
      i.symbol = j.symbol => i = j /\ d.infos[i] = 1
=============================================================================
