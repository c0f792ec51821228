----------------------------- MODULE NameStore -----------------------------
(***************************************************************************)
(* What the cache promises to the processes that share it.  It holds a     *)
(* name table and trees that refer to names by their position in it.  It   *)
(* only changes by being emptied, or by one process extending the table    *)
(* and storing trees of that longer table, in one step.  Names never move. *)
(***************************************************************************)
EXTENDS Naturals, Sequences

CONSTANTS Files, Sources, None

VARIABLES names, trees

storeVars == <<names, trees>>

NoTrees == [f \in Files |-> None]

\* A source is known by the one name it mentions: a tree is right when the
\* name at its position is its source's.
Decodes(t, table) == t.id \in DOMAIN table /\ table[t.id] = t.src

Extends(table, longer) ==
    /\ DOMAIN table \subseteq DOMAIN longer
    /\ \A i \in DOMAIN table : longer[i] = table[i]

Init ==
    /\ names = <<>>
    /\ trees = NoTrees

Empty ==
    /\ names' = <<>>
    /\ trees' = NoTrees

Publish ==
    /\ Extends(names, names')
    /\ \A f \in Files : \/ trees'[f] = trees[f]
                        \/ trees'[f] # None /\ Decodes(trees'[f], names')

Spec == Init /\ [][Empty \/ Publish]_storeVars

=============================================================================
