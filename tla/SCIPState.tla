----------------------------- MODULE SCIPState -----------------------------
(***************************************************************************)
(* scip_indexer/SCIPIndexer.cc, class SCIPState: what one thread remembers *)
(* between the files it typechecks, and the documents it has finished.  The *)
(* object is a record st, an operation maps the record before it to the    *)
(* one after it.                                                           *)
(*                                                                         *)
(* A symbol is <<selfOrOwner, name>>; a field has the class as owner.  A   *)
(* symbol string is <<gem, symbol>> for a global symbol (the descriptors   *)
(* of a symbol are the same wherever it is mentioned, the package is not), *)
(* and <<"local", function, counter>> for a local variable.  Types,        *)
(* documentation and ranges are left out; a location is a number, NoLoc    *)
(* one that does not exist or is empty.                                    *)
(***************************************************************************)
EXTENDS FieldResolver, SequencesExt

CONSTANTS
    GemOf,          \* gemMap.lookupGemForFile
    HomeOf,         \* selfOrOwner.loc(gs).file(), NoFile if there is none
    NoFile

NoLoc == 0
Definition == "definition"

EmptyState ==
    [strings |-> <<>>,                      \* symbolStringCache
     locals |-> {},                         \* localOccurrenceCache
     seen |-> {},                           \* symbolOccurrenceCache
     refOnly |-> [f \in Files |-> {}],      \* potentialRefOnlySymbols
     rels |-> [f \in Files |-> <<>>],       \* relationshipsMap, by symbol
     fields |-> <<>>,                       \* fieldResolver.cache, by query
     emitted |-> {},                        \* emittedSymbols
     occs |-> [f \in Files |-> <<>>],       \* occurrenceMap
     infos |-> [f \in Files |-> <<>>],      \* symbolMap
     docs |-> <<>>]                         \* documents

\* symbolForExpr: the package comes from the file of the occurrence if that is
\* given, otherwise from the file of the symbol.
SymbolForExpr(sym, file) == <<GemOf[file], sym>>

\* saveSymbolString without a precomputed symbol succeeds for these symbols;
\* for the others the caller skips what it was about to save.
Nameable(st, sym) == sym \in DOMAIN st.strings \/ HomeOf[sym[1]] # NoFile
StringOf(st, sym) ==
    IF sym \in DOMAIN st.strings THEN st.strings[sym] ELSE SymbolForExpr(sym, HomeOf[sym[1]])
SaveSymbolStrings(st, syms) ==
    [st EXCEPT !.strings = @ @@ [s \in {t \in syms : Nameable(st, t)} |-> StringOf(st, s)]]

\* saveSymbolString with the symbol that saveDefinition has computed: what
\* the cache holds wins.
SaveDefinedString(st, sym, file) ==
    [st EXCEPT !.strings = @ @@ (sym :> SymbolForExpr(sym, file))]

\* saveSymbolInfo
SaveSymbolInfo(st, file, string, rels) ==
    IF <<file, string>> \in st.emitted THEN st
    ELSE [st EXCEPT !.infos[file] = Append(@, [symbol |-> string, rels |-> rels])]

AddOccurrence(st, file, string, at, role) ==
    [st EXCEPT !.occs[file] = Append(@, [symbol |-> string, at |-> at, role |-> role])]

SaveDefinitionImpl(st, file, string, at, rels) ==
    IF at = NoLoc THEN st
    ELSE AddOccurrence(SaveSymbolInfo(st, file, string, rels), file, string, at, Definition)

\* saveParentRelationships: a field is defined by the one it is inherited from
\* and refers to those of the mixins.
Parents(st, file, sym) ==
    IF sym \notin DOMAIN st.rels[file] THEN {}
    ELSE LET result == st.rels[file][sym]
         IN  {[is |-> Definition, of |-> <<k, sym[2]>>] : k \in {result.inherited} \ {sym[1]}}
             \cup {[is |-> "reference", of |-> <<m, sym[2]>>] : m \in result.mixedIn}

\* saveAliasRelationship
Aliases(syms) == {[is |-> "reference", of |-> s] : s \in syms}

\* A relationship to a symbol without a string is left out.
Related(rels) == {r.of : r \in rels}
Strings(st, rels) ==
    {[is |-> r.is, of |-> StringOf(st, r.of)] : r \in {q \in rels : Nameable(st, q.of)}}

\* AliasMap::populate: a field of a method of klass that has no relationship in
\* this file yet is looked up; fields is gs.unresolvedFields.
Populate(st, fields, file, klass, field) ==
    LET sym == <<NormalizeParentForClassVar(klass, field), field>>
        query == [file |-> file, start |-> klass, field |-> field]
        result == FindUnresolvedFieldTransitive(fields, st.fields, query)
    IN  IF sym \in DOMAIN st.rels[file] THEN st
        ELSE [st EXCEPT !.fields = @ @@ (query :> result), !.rels[file] = @ @@ (sym :> result)]

\* cacheOccurrence for a local variable.  The key names the location and the
\* role; the file and the function are those of the current traversal.
LocalKey(local, role) == <<local.at, role, local.counter>>
LocalString(local) == <<"local", local.owner, local.counter>>

SaveLocal(st, file, local, role) ==
    IF LocalKey(local, role) \in st.locals THEN st
    ELSE LET cached == [st EXCEPT !.locals = @ \cup {LocalKey(local, role)}]
         IN  IF role = Definition
             THEN SaveDefinitionImpl(cached, file, LocalString(local), local.at, {})
             ELSE AddOccurrence(cached, file, LocalString(local), local.at, role)

\* saveDefinition of a symbol; it is not looked up in symbolOccurrenceCache.
SaveDefinition(st, file, sym, alias, at) ==
    IF at = NoLoc THEN st
    ELSE LET named == SaveDefinedString(st, sym, file)
             related == Parents(st, file, sym) \cup Aliases(alias)
         IN  SaveDefinitionImpl(SaveSymbolStrings(named, Related(related)), file,
                                StringOf(named, sym), at, Strings(named, related))

\* Mutant: the file is not a part of the key.
SymbolKey_NoFile(sym, file, at, role) == <<sym, at, role>>
SymbolKey(sym, file, at, role) == <<sym, file, at, role>>

\* saveReference of a symbol.  A field without a definition so far is noted
\* for finalizeRefOnlySymbolInfos.
SaveReference(st, file, sym, at, role) ==
    LET cached == [st EXCEPT !.seen = @ \cup {SymbolKey(sym, file, at, role)}]
        named == SaveSymbolStrings(cached, {sym})
        string == StringOf(st, sym)
        noted == IF <<file, string>> \notin st.emitted /\ sym \in DOMAIN st.rels[file]
                 THEN [named EXCEPT !.refOnly[file] = @ \cup {sym}]
                 ELSE named
    IN  CASE SymbolKey(sym, file, at, role) \in st.seen -> st
          [] SymbolKey(sym, file, at, role) \notin st.seen /\ ~Nameable(st, sym) -> cached
          [] OTHER -> AddOccurrence(noted, file, string, at, role)

\* Mutant: the caches of a function are kept for the next one.
ClearFunctionLocalCaches_Never(st) == st
ClearFunctionLocalCaches(st) == [st EXCEPT !.locals = {}]

\* finalizeRefOnlySymbolInfos: the fields this file mentions.
FinalizeRefOnlySymbolInfos(st, file) ==
    FoldSet(LAMBDA sym, s :
              IF ~Nameable(s, sym) \/ <<file, StringOf(s, sym)>> \in s.emitted THEN s
              ELSE LET named == SaveSymbolStrings(s, {sym})
                       parents == Parents(s, file, sym)
                   IN  SaveSymbolInfo(SaveSymbolStrings(named, Related(parents)), file,
                                      StringOf(named, sym), Strings(named, parents)),
            st, st.refOnly[file])

\* saveDocument.  The lists are sorted: a document holds them as bags.
SaveDocument(st, file) ==
    [st EXCEPT
       !.occs[file] = <<>>, !.infos[file] = <<>>,
       !.docs = Append(@, [path |-> file, occs |-> ToBag(st.occs[file]),
                           infos |-> ToBag(st.infos[file])])]
=============================================================================
