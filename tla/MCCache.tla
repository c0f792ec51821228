------------------------------ MODULE MCCache ------------------------------
(***************************************************************************)
(* Small instances of Cache: two pids, two versions, two source texts.     *)
(***************************************************************************)
EXTENDS Cache, TLC

Symmetry == Permutations(Procs) \cup Permutations(Versions) \cup Permutations(Sources)

OneVersion == \A p, q \in Procs : None \in {ver[p], ver[q]} \/ ver[p] = ver[q]

\* Processes of different versions empty the store under each other, which one
\* stratum shows.  A third process, with the pid of an earlier one, matters to
\* the reaping of session directories: it is followed while somebody reaps,
\* with language servers of one version that meet no critical error.  What it
\* can do to the store itself two processes can do as well.
Explored ==
    /\ OneVersion \/ \A p \in Procs : stratum[p] = 1
    /\ starts < 3 \/ /\ OneVersion
                     /\ \E p \in Procs : todo[p] # {} \/ rm[p] # p
                     /\ \A p \in Procs : pc[p] # "dead" => lsp[p] /\ ~gs[p].critical

=============================================================================
