--------------------------- MODULE ErrorReporter ---------------------------
(***************************************************************************)
(* main/lsp/ErrorReporter: which diagnostics the editor shows, and the     *)
(* global limit on their number.  The object is a record rep, an operation *)
(* maps the record before it to the one after it.                          *)
(*                                                                         *)
(* A diagnostic is abstracted to its existence: a file has a number of     *)
(* errors, and the editor shows count[f] of them, the length of the last   *)
(* list that was published for the file.                                   *)
(***************************************************************************)
EXTENDS Integers, FiniteSetsExt

CONSTANTS
    NumFiles,       \* the ids of the files are 1..NumFiles
    Cap             \* opts.lspErrorCap, 0 for no limit

ASSUME NumFilesIsNat == NumFiles \in Nat
ASSUME CapIsNat == Cap \in Nat

Files == 1..NumFiles

\* last and count are the two fields of ErrorStatus, size the length of
\* fileErrorStatuses (whose entry 0 belongs to no file), client is
\* clientErrorCount and full lastFullTypecheckEpoch.
Reporter == [last : [Files -> Nat], count : [Files -> Nat],
             size : 0..(NumFiles + 1), client : Nat, full : Nat]

NewReporter == [last |-> [f \in Files |-> 0], count |-> [f \in Files |-> 0],
                size |-> 0, client |-> 0, full |-> 0]

\* An epoch that is not incremental retypechecks every file.
BeginEpoch(rep, epoch, isIncremental) ==
    IF isIncremental THEN rep ELSE [rep EXCEPT !.full = epoch, !.client = 0]

\* getFileErrorStatus: the vector grows to hold the entry of f.
WithEntry(rep, f) == [rep EXCEPT !.size = IF f >= @ THEN f + 1 ELSE @]

\* Mutant: diagnostics of an older epoch are published as well.
WouldReportForFile_Always(rep, epoch, f) == TRUE

WouldReportForFile(rep, epoch, f) == f >= rep.size \/ rep.last[f] <= epoch

\* The errors of other files that clientErrorCount counts.
\* Mutant: errors that were reset with the count are subtracted from it.
OtherErrors_IgnoresFull(rep, f) == rep.client - rep.count[f]
\* Mutant: the errors that the new list revokes are still counted.
OtherErrors_KeepsRevoked(rep, f) == rep.client
OtherErrors(rep, f) ==
    IF rep.last[f] >= rep.full THEN rep.client - rep.count[f] ELSE rep.client

\* How many of n errors of f are published.
ErrorsToReport(rep, f, n) ==
    IF Cap = 0 THEN n
    ELSE IF Cap > OtherErrors(rep, f)
         THEN Min({n, Cap - OtherErrors(rep, f)})
         ELSE 0

\* The early return for a file without errors before and after changes nothing
\* that is modelled: an empty list is not sent where none is shown.
PushDiagnostics(rep, epoch, f, n) ==
    IF ~WouldReportForFile(rep, epoch, f) THEN rep
    ELSE LET shown == ErrorsToReport(rep, f, n)
         IN  [WithEntry(rep, f) EXCEPT
                !.client = OtherErrors(rep, f) + shown,
                !.last[f] = epoch,
                !.count[f] = shown]

\* The errors of the files order[1] ... order[n], one file after the other.
PushAll(rep, epoch, order, n, errors) ==
    LET after[i \in 0 .. n] ==
          IF i = 0 THEN rep
          ELSE PushDiagnostics(after[i - 1], epoch, order[i], errors[order[i]])
    IN  after[n]

\* Mutant: a file reported in the very epoch is left out.
FilesWithErrorsSince_Strict(rep, epoch) ==
    {f \in Files : f < rep.size /\ rep.last[f] > epoch /\ rep.count[f] > 0}
FilesWithErrorsSince(rep, epoch) ==
    {f \in Files : f < rep.size /\ rep.last[f] >= epoch /\ rep.count[f] > 0}

SumOf(count, S) ==
    LET sum[f \in 0 .. NumFiles] ==
          IF f = 0 THEN 0 ELSE sum[f - 1] + IF f \in S THEN count[f] ELSE 0
    IN  sum[NumFiles]

\* sanityCheck: clientErrorCount is the number of errors shown for the files
\* reported since the last full typecheck.
SanityCheck(rep) ==
    rep.client = SumOf(rep.count, {f \in Files : rep.last[f] >= rep.full})
=============================================================================
