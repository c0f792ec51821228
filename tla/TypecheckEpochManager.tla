----------------------- MODULE TypecheckEpochManager -----------------------
(***************************************************************************)
(* core/lsp/TypecheckEpochManager: the three atomics that say which slow   *)
(* path is running and whether it has been canceled.  Every operation      *)
(* below is one critical section of epochMutex, hence one atomic step of   *)
(* the thread that calls it.                                               *)
(*                                                                         *)
(* Epochs are uint32_t in the code and only compared for equality here; a  *)
(* wrapped epoch is mistaken for a live one only if 2^32 edits arrive      *)
(* during one slow path.  The model assumes fewer and uses the naturals.   *)
(***************************************************************************)
EXTENDS Integers

VARIABLES
    processing,     \* currentlyProcessingLSPEpoch
    committed,      \* lastCommittedLSPEpoch
    invalidator     \* lspEpochInvalidator

epochVars == <<processing, committed, invalidator>>

EpochInit ==
    /\ processing = 0
    /\ committed = 0
    /\ invalidator = 0

\* The two flags of TypecheckingStatus, getStatusInternal.
SlowPathRunning == processing # committed
SlowPathWasCanceled == processing # invalidator

\* Mutant: the invalidator is not moved to the new epoch.
StartCommitEpoch_KeepsInvalidator(epoch) ==
    /\ processing' = epoch
    /\ UNCHANGED <<committed, invalidator>>


StartCommitEpoch(epoch) ==
    /\ processing' = epoch
    /\ invalidator' = epoch
    /\ UNCHANGED committed

\* When tryCancelSlowPath(newEpoch) returns true.
CanCancel(newEpoch) == SlowPathRunning /\ newEpoch # processing

\* The store of tryCancelSlowPath: bumps the invalidator.
CancelSlowPath(newEpoch) ==
    /\ invalidator' = newEpoch
    /\ UNCHANGED <<processing, committed>>

\* Mutant: a canceled epoch is not forgotten.
CommitEpoch_KeepsCanceled ==
    /\ committed' = IF SlowPathWasCanceled THEN committed ELSE processing
    /\ invalidator' = processing
    /\ UNCHANGED processing

\* The critical section of tryCommitEpoch: commits the epoch, or forgets the
\* canceled one.
CommitEpoch ==
    \/ /\ ~SlowPathWasCanceled
       /\ committed' = processing
       /\ UNCHANGED <<processing, invalidator>>
    \/ /\ SlowPathWasCanceled
       /\ processing' = committed
       /\ invalidator' = committed
       /\ UNCHANGED committed
=============================================================================
