---------------------- MODULE PipelineTypecheckProofs -----------------------
(***************************************************************************)
(* Proofs about the typecheck runs for every number of files, workers,     *)
(* strata, errors and edits: no worker is at work on a call that returned, *)
(* trees are fresh, reports move forward, the count of errors is exact.    *)
(***************************************************************************)
EXTENDS PipelineTypecheckReports, PipelineTypecheckWorkers

\* Most leaves are first-order: Zenon is the backend, SMT where arithmetic or
\* sequences are at work.
USE ZenonT(20)

-----------------------------------------------------------------------------
\* The steps of the typechecker thread.

\* The errors of a file are flushed.
LEMMA FlushKeeps ==
    ASSUME IInv, Flush
    PROVE  IInv'
<1>1. /\ UNCHANGED <<queueVars, worker, stratum>> /\ UNCHANGED <<worker, slow, stratum>>
      /\ UNCHANGED <<cancels, gsVars, editVars, ret, retry, item>>
      /\ tc = "flush" /\ tc' = "poll" /\ flushed' = flushed + 1
      /\ errq' = [errq EXCEPT ![item] = 0]
  BY DEF Flush, editVars
<1>2. (Calling' <=> Calling) /\ Indexed /\ ~Ahead' /\ tc' # "flush" /\ tc' # "dequeue"
  BY <1>1 DEF Calling, Indexed, Ahead
<1>3. LocalInv' /\ QueueInv' /\ Accounted' /\ Apart'
  BY <1>1, <1>2, QueuesSame
<1>4. ClosureInv'
  BY <1>1, <1>2, CallsKept
<1>5. FlushInv'
  <2>1. PICK done : Flushed(done)
    BY DEF IInv, FlushInv
  <2>2. /\ item \in Files /\ item \notin fileq /\ Pushed(item)
        /\ \A x \in outq : x.file # item
    BY <1>1 DEF IInv, Apart, FilesOf
  <2>3. Cardinality(done \cup {item}) = flushed + 1 /\ done \cup {item} \in SUBSET Files
    <3>1. done \in SUBSET Files /\ item \notin done /\ Cardinality(done) = flushed
      BY <1>1, <2>1 DEF Flushed
    <3>2. Cardinality(done \cup {item}) = Cardinality(done) + 1
      BY <3>1, FilesFinite, FS_AddElement
    <3> QED BY <2>2, <3>1, <3>2
  <2>4. Flushed(done \cup {item})'
    BY <1>1, <1>2, <2>1, <2>2, <2>3 DEF Flushed, Pushed, queueVars
  <2> QED BY <1>2, <2>4 DEF FlushInv
<1>6. TreeInv' /\ CancelInv'
  BY <1>1, <1>2 DEF IInv, TreeInv, CancelInv, FilesOf, gsVars, editVars
<1>7. RepInv'
  <2>1. Tracked(rep', edits) /\ Forward(rep, rep', slow.epoch)
    BY FlushReports
  <2>2. rep.size \in Nat /\ rep'.size \in Nat /\ rep'.size >= rep.size /\ rep'.full = rep.full
    BY <2>1, ReporterFields DEF IInv, RepInv, Tracked, Forward
  <2>3. \A f, g \in FilesOf(stratum) : f # g => f < rep.size
    BY <1>2 DEF IInv, RepInv
  <2>4. \A f, g \in FilesOf(stratum) : f # g => f < rep'.size
    BY <2>2, <2>3, SMTT(30) DEF FilesOf, Files
  <2>5. edits' = edits /\ slow' = slow /\ FilesOf(stratum)' = FilesOf(stratum)
    BY <1>1 DEF editVars, FilesOf
  <2>6. Tracked(rep, edits)'
    BY <2>1, <2>5 DEF Tracked, SanityCheck
  <2> QED BY <1>1, <2>2, <2>4, <2>5, <2>6 DEF IInv, RepInv
<1>8. Types'
  <2>1. errq \in Errors /\ flushed \in Nat /\ 0 \in 0 .. MaxErrors
    BY Numbers DEF IInv, Types
  <2>2. flushed' \in Nat
    BY <1>1, <2>1, SMTT(30)
  <2>3. errq' \in Errors
    BY <1>1, <2>1 DEF Errors
  <2> QED BY <1>1, <2>2, <2>3 DEF IInv, Types, gsVars, editVars, queueVars, Points
<1> QED BY <1>3, <1>4, <1>5, <1>6, <1>7, <1>8 DEF IInv

\* The first slow path begins.
LEMMA InitializeKeeps ==
    ASSUME IInv, Initialize
    PROVE  IInv'
<1>1. /\ tc = "new" /\ tc' = "index" /\ rep = NewReporter /\ rep' = BeginEpoch(rep, 0, FALSE)
      /\ UNCHANGED <<cancels, gsVars, editVars, errVars, ret, stratum, retry, item,
                     queueVars, worker>>
  BY DEF Initialize, IInv, RepInv
<1>2. rep' = rep
  <2>1. BeginEpoch(NewReporter, 0, FALSE) = NewReporter
    BY DEF BeginEpoch, NewReporter
  <2> QED BY <1>1, <2>1
<1>3. /\ UNCHANGED <<queueVars, worker, stratum, flushed>> /\ UNCHANGED <<worker, slow, stratum>>
      /\ UNCHANGED <<worker, slow, stratum, fileEpoch, tree, rep, edits>>
      /\ tc = "new" /\ tc' = "index" /\ cancels' = cancels /\ canceled' = canceled
  BY <1>1, <1>2 DEF gsVars, editVars, errVars
<1>4. (Calling' <=> Calling) /\ (Indexed' => Indexed) /\ Ahead /\ Ahead'
  BY <1>3 DEF Calling, Indexed, Ahead
<1>5. CallInv'
  BY <1>3, <1>4, CallKept
<1>6. ClosureInv'
  BY <1>3, <1>4, CallsKept
<1>7. TreeInv' /\ RepInv'
  BY <1>3, <1>4, FilesKept
<1>8. FlushInv' /\ CancelInv'
  BY <1>3, <1>4, <1>5 DEF IInv, CallInv, FlushInv, CancelInv
<1>9. Types'
  <2>1. UNCHANGED <<cancels, gsVars, editVars, errVars, ret, stratum, retry, item, queueVars, worker>>
    BY <1>1
  <2> QED BY <1>3, <2>1 DEF IInv, Types, gsVars, editVars, errVars, queueVars, Points
<1> QED BY <1>5, <1>6, <1>7, <1>8, <1>9 DEF IInv, CallInv

\* A stratum is indexed, or the slow path ends canceled.
LEMMA IndexStratumKeeps ==
    ASSUME IInv, IndexStratum
    PROVE  IInv'
<1>1. /\ tc = "index" /\ UNCHANGED <<queueVars, worker>> /\ UNCHANGED <<worker, slow, stratum>>
      /\ UNCHANGED <<cancels, truth, fileEpoch, undo, editVars, errVars, ret, retry, item>>
      /\ \/ (slow.cancelable /\ canceled /\ tc' = "commit" /\ UNCHANGED <<rep, tree>>)
         \/ /\ ~(slow.cancelable /\ canceled) /\ tc' = "begin"
            /\ tree' = [f \in Files |-> IF StratumOf[f] = stratum THEN fileEpoch[f] ELSE tree[f]]
            /\ rep' = Sorted(rep, FilesOf(stratum))
  BY DEF IndexStratum, editVars
<1>2. ~Calling /\ ~Calling' /\ Ahead /\ tc' \notin {"new", "idle", "index"} /\ tc' \in Points
  BY <1>1 DEF Calling, Ahead, Points
<1>3. Quiet
  BY <1>2, QuietOutside
<1>4. CallInv'
  BY <1>1, <1>2, <1>3, CallQuiet DEF errVars
<1>5. ClosureInv'
  BY <1>1, <1>2, CallsKept
<1>6. FlushInv' /\ CancelInv'
  <2>1. tc' = "commit" => ~Ahead'
    BY DEF Ahead
  <2> QED BY <1>1, <1>2, <1>4, <2>1 DEF IInv, CallInv, FlushInv, CancelInv, editVars, errVars
<1>7. TreeInv'
  <2>1. \A w \in Workers : worker'[w].pc # "check"
    BY <1>1, <1>3 DEF Quiet
  <2>2. Indexed' => \A f \in FilesOf(stratum) : tree'[f] = fileEpoch[f]
    BY <1>1 DEF Indexed, Calling, FilesOf
  <2> QED BY <1>1, <2>1, <2>2 DEF TreeInv, FilesOf
<1>8. RepInv'
  <2>1. /\ edits' = edits /\ slow' = slow /\ edits \in Nat
        /\ Tracked(rep, edits) /\ rep.full = slow.epoch /\ slow.epoch <= edits
        /\ FilesOf(stratum)' = FilesOf(stratum) /\ FilesOf(stratum) \in SUBSET Files
    BY <1>1, Numbers DEF IInv, RepInv, editVars, FilesOf
  <2>2. CASE tc' = "commit"
    <3>1. rep' = rep /\ ~Indexed'
      BY <1>1, <2>2 DEF Indexed, Calling
    <3> QED BY <1>2, <2>1, <3>1 DEF RepInv, Tracked, SanityCheck
  <2>3. CASE tc' = "begin"
    <3>1. Tracked(rep', edits) /\ HasEntries(rep, rep', FilesOf(stratum))
      BY <1>1, <2>1, <2>3, SortedTracked
    <3>2. Tracked(rep, edits)'
      BY <2>1, <3>1 DEF Tracked, SanityCheck
    <3> QED BY <1>2, <2>1, <3>1, <3>2 DEF RepInv, HasEntries
  <2> QED BY <1>1, <2>2, <2>3
<1>9. Types'
  <2>1. tree' \in [Files -> 0 .. MaxEdits]
    BY <1>1 DEF IInv, Types
  <2> QED BY <1>1, <1>2, <2>1 DEF IInv, Types, editVars, errVars, queueVars
<1> QED BY <1>4, <1>5, <1>6, <1>7, <1>8, <1>9 DEF IInv, CallInv

\* The slow path ends.
LEMMA FinishSlowPathKeeps ==
    ASSUME IInv, FinishSlowPath
    PROVE  IInv'
<1>1. /\ tc = "finish" /\ tc' = "idle" /\ UNCHANGED <<queueVars, worker>>
      /\ UNCHANGED <<worker, slow, stratum>>
      /\ UNCHANGED <<rep, tree, edits, slow, errVars, ret, retry, item>> /\ ~canceled'
      /\ canceled' \in BOOLEAN
  BY DEF FinishSlowPath
<1>2. ~Calling /\ ~Calling' /\ ~Ahead' /\ ~Indexed'
  BY <1>1 DEF Calling, Ahead, Indexed
<1>3. Quiet
  BY <1>2, QuietOutside
<1>4. CallInv'
  BY <1>1, <1>2, <1>3, CallQuiet DEF errVars
<1>5. ClosureInv'
  BY <1>1, <1>2, CallsKept
<1>6. FlushInv' /\ TreeInv'
  BY <1>1, <1>2, <1>3, <1>4 DEF CallInv, FlushInv, TreeInv, Quiet
<1>7. RepInv'
  BY <1>1, <1>2 DEF IInv, RepInv, Tracked, SanityCheck
<1>8. \/ (canceled /\ cancels' = cancels + 1)
      \/ cancels' = 0
      \/ cancels' = cancels
  BY DEF FinishSlowPath
<1>9. cancels' \in Nat /\ cancels' <= edits
  <2>1. /\ edits \in Nat /\ cancels \in Nat /\ cancels <= edits
        /\ canceled => cancels < edits
    BY <1>1, Numbers DEF IInv, CancelInv
  <2>2. cancels < edits => cancels + 1 <= edits /\ cancels + 1 \in Nat
    BY <2>1, SMT
  <2>3. 0 <= edits /\ 0 \in Nat
    BY <2>1, SMTT(30)
  <2> QED BY <1>8, <2>1, <2>2, <2>3
<1>10. CancelInv'
  BY <1>1, <1>9 DEF IInv, CancelInv
<1>11. Types'
  <2>1. truth' \in Errors /\ fileEpoch' \in [Files -> 0 .. MaxEdits] /\ pend' \in SUBSET Files
    BY DEF FinishSlowPath, IInv, Types
  <2>2. undo' \in [epoch : {NoUndo} \cup 0..MaxEdits, truth : Errors,
                   fileEpoch : [Files -> 0..MaxEdits]]
    BY DEF FinishSlowPath, IInv, Types
  <2> QED BY <1>1, <1>9, <2>1, <2>2 DEF IInv, Types, errVars, queueVars, Points
<1> QED BY <1>4, <1>5, <1>6, <1>7, <1>10, <1>11 DEF IInv, CallInv

-----------------------------------------------------------------------------
\* The steps of the client.

\* The processing thread only sets the flag.
LEMMA CancelSlowPathKeeps ==
    ASSUME IInv, CancelSlowPath
    PROVE  IInv'
<1>1. /\ UNCHANGED <<queueVars, worker, stratum, flushed>> /\ UNCHANGED <<worker, slow, stratum>>
      /\ UNCHANGED <<worker, slow, stratum, fileEpoch, tree, rep, edits>>
      /\ UNCHANGED <<repVars, gsVars, edits, pend, slow, errVars, tcVars>>
      /\ slow.cancelable /\ ~canceled /\ canceled' \in BOOLEAN /\ tc' = tc /\ ret' = ret
      /\ item' = item /\ retry' = retry /\ tc \notin {"new", "idle"}
  BY DEF CancelSlowPath, repVars, gsVars, errVars, tcVars, queueVars
<1>2. /\ Calling' <=> Calling
      /\ Indexed' <=> Indexed
      /\ Ahead' <=> Ahead
  BY <1>1 DEF Calling, Indexed, Ahead
<1>3. tc' = "dequeue" /\ ~retry' => left = 0
  BY <1>1 DEF IInv, QueueInv
<1>4. CallInv'
  BY <1>1, <1>2, <1>3, CallKept
<1>5. ClosureInv'
  BY <1>1, <1>2, CallsKept
<1>6. TreeInv' /\ RepInv'
  BY <1>1, <1>2, FilesKept
<1>7. FlushInv'
  BY <1>1, <1>2, <1>4 DEF IInv, CallInv, FlushInv
<1>8. CancelInv'
  BY <1>1 DEF IInv, CancelInv, repVars
<1>9. Types'
  BY <1>1 DEF IInv, Types, repVars, gsVars, errVars, tcVars, queueVars
<1> QED BY <1>4, <1>5, <1>6, <1>7, <1>8, <1>9 DEF IInv, CallInv

\* A slow path begins.
LEMMA StartSlowPathKeeps ==
    ASSUME IInv, NEW f \in Files, StartSlowPath(f)
    PROVE  IInv'
<1>1. /\ tc = "idle" /\ tc' = "index" /\ edits < MaxEdits /\ edits' = edits + 1
      /\ flushed' = 0 /\ UNCHANGED <<queueVars, worker>>
      /\ UNCHANGED <<cancels, tree, canceled, ret, retry, item>>
      /\ errq' = [g \in Files |-> 0] /\ pend' = pend \cup {f}
      /\ fileEpoch' = [g \in Files |-> IF g \in pend \cup {f} THEN edits + 1 ELSE fileEpoch[g]]
      /\ undo' = [epoch |-> edits + 1, truth |-> truth, fileEpoch |-> fileEpoch]
  BY DEF StartSlowPath
<1>2. stratum' \in Strata /\ truth' \in Errors /\ slow'.epoch = edits + 1
  <2>1. PICK start \in Strata, relevant \in SUBSET Files, errors \in Errors :
          /\ slow' = [epoch |-> edits + 1, start |-> start, relevant |-> relevant, cancelable |-> TRUE]
          /\ stratum' = start /\ truth' = errors
    BY DEF StartSlowPath
  <2> QED BY <2>1
<1>3. ~Calling /\ ~Calling' /\ ~Ahead /\ Ahead' /\ ~Indexed'
  BY <1>1 DEF Calling, Ahead, Indexed
<1>4. Quiet
  BY <1>3, QuietOutside
<1>5. CallInv'
  BY <1>1, <1>3, <1>4, CallQuiet
<1>6. FlushInv' /\ TreeInv'
  BY <1>1, <1>3, <1>4, <1>5 DEF CallInv, FlushInv, TreeInv, Quiet
<1>7. edits \in Nat /\ edits + 1 \in 0 .. MaxEdits
  BY <1>1, Numbers, MaxEditsIsNat, SMTT(30)
<1>8. RepInv'
  <2>1. Tracked(rep', edits + 1) /\ rep'.full = edits + 1
    BY StartReports
  <2>2. Tracked(rep, edits)'
    BY <1>1, <2>1 DEF Tracked, SanityCheck
  <2> QED BY <1>1, <1>2, <1>3, <1>7, <2>1, <2>2, SMTT(30) DEF RepInv
<1>9. CancelInv'
  <2>1. cancels' = cancels /\ canceled' = canceled /\ cancels \in Nat /\ cancels <= edits /\ ~canceled
    BY <1>1 DEF IInv, Types, CancelInv
  <2>2. cancels' < edits' /\ cancels' <= edits'
    BY <1>1, <1>7, <2>1, SMTT(30)
  <2> QED BY <1>1, <2>1, <2>2, SMTT(30) DEF CancelInv
<1>10. ClosureInv'
  <2> DEFINE k == LastStratum + 1
             e == edits + 1
  <2>1. slow.epoch \in 0 .. MaxEdits /\ stratum \in Strata /\ slow.epoch <= edits
    BY DEF IInv, Types, RepInv
  <2>2. /\ slow.epoch \in Nat /\ stratum \in Nat /\ stratum' \in Nat /\ k \in Nat
        /\ e \in Nat /\ stratum < k /\ slow.epoch < e
    BY <1>2, <1>7, <2>1, LastStratumIsNat, MaxEditsIsNat, SMTT(30) DEF Strata
  <2>3. Calls = slow.epoch * k + stratum + 1 /\ Calls' = e * k + stratum' + 0
    BY <1>2, <1>3 DEF Calls
  <2> HIDE DEF k, e
  <2>4. Calls \in Int /\ Calls' \in Int /\ Calls <= Calls'
    BY <2>2, <2>3, MoreCalls
  <2>5. ASSUME NEW w \in Workers PROVE worker'[w].queued <= Calls'
    <3>1. worker[w].queued <= Calls /\ worker[w].queued \in Nat /\ worker' = worker
      BY <1>1, WorkerTypes DEF IInv, ClosureInv
    <3> QED BY <2>4, <3>1, SMTT(30)
  <2> QED BY <2>5 DEF ClosureInv
<1>11. Types'
  <2>1. slow' \in [epoch : 0..MaxEdits, start : Strata, relevant : SUBSET Files, cancelable : BOOLEAN]
    <3>1. PICK start \in Strata, relevant \in SUBSET Files :
            slow' = [epoch |-> edits + 1, start |-> start, relevant |-> relevant, cancelable |-> TRUE]
      BY DEF StartSlowPath
    <3> QED BY <1>7, <3>1
  <2>2. fileEpoch' \in [Files -> 0..MaxEdits] /\ errq' \in Errors
    BY <1>1, <1>7, MaxErrorsIsNat, SMTT(30) DEF IInv, Types, Errors
  <2>3. undo' \in [epoch : {NoUndo} \cup 0..MaxEdits, truth : Errors,
                   fileEpoch : [Files -> 0..MaxEdits]]
    BY <1>1, <1>7 DEF IInv, Types
  <2>4. /\ cancels' = cancels /\ tree' = tree /\ canceled' = canceled /\ ret' = ret
        /\ retry' = retry /\ item' = item /\ UNCHANGED <<queueVars, worker>>
        /\ edits' \in 0 .. MaxEdits /\ pend' \in SUBSET Files /\ flushed' \in Nat
        /\ tc' \in Points
    BY <1>1, <1>7 DEF IInv, Types, Points
  <2> QED BY <1>2, <2>1, <2>2, <2>3, <2>4 DEF IInv, Types, queueVars
<1> QED BY <1>5, <1>6, <1>8, <1>9, <1>10, <1>11 DEF IInv, CallInv

\* A fast path runs.
LEMMA FastEditKeeps ==
    ASSUME IInv, NEW f \in Files, FastEdit(f)
    PROVE  IInv'
<1> DEFINE updated == pend \cup {f}
<1>1. /\ tc = "idle" /\ edits < MaxEdits /\ RunFastPath(updated, FilesToRecheck, Files)
      /\ undo' = [undo EXCEPT !.epoch = NoUndo] /\ pend' = {}
      /\ UNCHANGED <<cancels, tree, slow, canceled, errVars, tcVars, queueVars, worker>>
  BY DEF FastEdit
<1>2. updated \in SUBSET Files /\ FilesToRecheck \in SUBSET Files
  BY DEF IInv, Types, FilesToRecheck, FilesWithErrorsSince
<1> HIDE DEF updated
<1>3. /\ UNCHANGED <<queueVars, worker, stratum, flushed>> /\ UNCHANGED <<worker, slow, stratum>>
      /\ UNCHANGED <<slow, stratum>> /\ UNCHANGED <<queueVars, worker>>
      /\ cancels' = cancels /\ canceled' = canceled /\ tc = "idle" /\ tc' = tc
      /\ flushed' = flushed
  BY <1>1 DEF tcVars, errVars
<1>4. ~Calling /\ ~Calling' /\ ~Indexed' /\ ~Ahead' /\ tc' # "new"
  BY <1>3 DEF Calling, Indexed, Ahead
<1>5. Quiet
  BY <1>4, QuietOutside
<1>6. CallInv'
  BY <1>3, <1>4, <1>5, CallQuiet
<1>7. ClosureInv'
  BY <1>3, <1>4, CallsKept
<1>8. FlushInv' /\ TreeInv'
  BY <1>3, <1>4, <1>5, <1>6 DEF CallInv, FlushInv, TreeInv, Quiet
<1>9. RepInv'
  BY <1>1, <1>2, <1>3, <1>4, FastPathRep
<1>10. /\ truth' \in Errors /\ edits' = edits + 1 /\ edits \in Nat /\ edits' \in 0 .. MaxEdits
       /\ fileEpoch' \in [Files -> 0..MaxEdits]
  BY <1>1, <1>2, FastPathFiles
<1>11. CancelInv'
  <2>1. cancels \in Nat /\ cancels <= edits
    BY Numbers DEF IInv, CancelInv
  <2>2. cancels < edits'
    BY <1>10, <2>1, SMTT(30)
  <2>3. cancels <= edits'
    BY <1>10, <2>1, SMTT(30)
  <2> QED BY <1>3, <2>2, <2>3 DEF IInv, CancelInv
<1>12. Types'
  <2>1. undo' \in [epoch : {NoUndo} \cup 0..MaxEdits, truth : Errors,
                   fileEpoch : [Files -> 0..MaxEdits]]
    BY <1>1 DEF IInv, Types
  <2>2. pend' \in SUBSET Files
        /\ UNCHANGED <<cancels, tree, slow, canceled, errVars, tcVars, queueVars, worker>>
    BY <1>1
  <2> QED BY <1>10, <2>1, <2>2 DEF IInv, Types, errVars, tcVars, queueVars
<1> QED BY <1>6, <1>7, <1>8, <1>9, <1>11, <1>12 DEF IInv, CallInv

\* A fast path preempts the slow path.
LEMMA PreemptingEditKeeps ==
    ASSUME IInv, NEW f \in Files, PreemptingEdit(f)
    PROVE  IInv'
<1> DEFINE known == {g \in Files : StratumOf[g] <= stratum}
<1>1. /\ tc = "park" /\ Unlocked /\ edits < MaxEdits /\ RunFastPath({f}, {}, known)
      /\ pend' = pend \cup {f}
      /\ UNCHANGED <<cancels, tree, undo, slow, canceled, errVars, tcVars, queueVars, worker>>
  BY DEF PreemptingEdit
<1> HIDE DEF known
<1>2. {f} \in SUBSET Files /\ {} \in SUBSET Files
  OBVIOUS
<1>3. /\ UNCHANGED <<queueVars, worker, stratum, flushed>> /\ UNCHANGED <<worker, slow, stratum>>
      /\ UNCHANGED <<slow, stratum>> /\ cancels' = cancels /\ canceled' = canceled
      /\ tc = "park" /\ tc' = tc /\ ret' = ret /\ flushed' = flushed /\ tree' = tree
  BY <1>1 DEF tcVars, errVars
<1>4. /\ Calling' <=> Calling
      /\ Indexed' <=> Indexed
      /\ Ahead' <=> Ahead
      /\ tc' \notin {"new", "flush", "dequeue", "index"}
  BY <1>3 DEF Calling, Indexed, Ahead
<1>5. CallInv'
  BY <1>3, <1>4, CallKept
<1>6. ClosureInv'
  BY <1>3, <1>4, CallsKept
<1>7. FlushInv'
  BY <1>3, <1>4, <1>5 DEF IInv, CallInv, FlushInv
<1>8. RepInv'
  <2>1. Indexed' => Indexed
    BY <1>4
  <2> QED BY <1>1, <1>2, <1>3, <1>4, <2>1, FastPathRep
<1>9. /\ truth' \in Errors /\ edits' = edits + 1 /\ edits \in Nat /\ edits' \in 0 .. MaxEdits
      /\ fileEpoch' \in [Files -> 0..MaxEdits]
      /\ \A g \in Files : fileEpoch'[g] = IF g \in {f} THEN edits + 1 ELSE fileEpoch[g]
  BY <1>1, <1>2, FastPathFiles
<1>10. TreeInv'
  <2>1. ASSUME NEW w \in Workers PROVE worker'[w].pc # "check"
    BY <1>1, <1>3, WorkerTypes DEF Unlocked, LockedBy, LocalState
  <2>2. edits + 1 > slow.epoch
    <3>1. slow.epoch <= edits
      BY DEF IInv, RepInv
    <3> QED BY <3>1, Numbers, SMTT(30)
  <2>3. Indexed => \A g \in FilesOf(stratum) :
                     fileEpoch'[g] > slow.epoch \/ tree[g] = fileEpoch'[g]
    BY <1>9, <2>2 DEF IInv, TreeInv, FilesOf
  <2>4. FilesOf(stratum)' = FilesOf(stratum)
    BY <1>3 DEF FilesOf
  <2> QED BY <1>3, <1>4, <2>1, <2>3, <2>4 DEF TreeInv
<1>11. CancelInv'
  <2>1. cancels \in Nat /\ cancels <= edits
    BY Numbers DEF IInv, CancelInv
  <2>2. cancels < edits'
    BY <1>9, <2>1, SMTT(30)
  <2>3. cancels <= edits'
    BY <1>9, <2>1, SMTT(30)
  <2> QED BY <1>3, <2>2, <2>3 DEF IInv, CancelInv
<1>12. Types'
  BY <1>1, <1>9 DEF IInv, Types, errVars, tcVars, queueVars
<1> QED BY <1>5, <1>6, <1>7, <1>8, <1>10, <1>11, <1>12 DEF IInv, CallInv

-----------------------------------------------------------------------------
\* The theorems.

\* Every step keeps the invariant.
LEMMA StepKeeps ==
    ASSUME IInv, Next
    PROVE  IInv'
<1>1. CASE TypecheckerStep
  BY <1>1, InitializeKeeps, IndexStratumKeeps, TryCommitKeeps, FinishSlowPathKeeps,
     AfterPreemptionKeeps, FillQueueKeeps, LoadRetryKeeps, DequeueKeeps, FlushKeeps,
     LeaveLoopKeeps DEF TypecheckerStep
<1>2. ASSUME NEW w \in Workers, WorkerNext(w) PROVE IInv'
  BY <1>2, StartClosureKeeps, PopFileKeeps, NoFileLeftKeeps, LockPreemptionKeeps,
     DecideKeeps, TypecheckOneKeeps, EnqueueResultKeeps, CountResultKeeps DEF WorkerNext
<1>3. CASE ClientStep
  BY <1>3, StartSlowPathKeeps, FastEditKeeps, PreemptingEditKeeps, PreemptKeeps,
     CancelSlowPathKeeps DEF ClientStep
<1> QED BY <1>1, <1>2, <1>3 DEF Next

\* The invariant of the typecheck runs holds in every reachable state.
THEOREM TypecheckInvariant == Spec => []IInv
<1>1. Init => IInv
  BY InitInv
<1>2. IInv /\ [Next]_vars => IInv'
  BY StepKeeps, StutterKeeps
<1> QED BY <1>1, <1>2, PTL DEF Spec

\* The counters of the workers and of the typechecker thread stay in range:
\* elementsLeftToPush (FetchSub on an atomic int, wait loop at zero) never falls
\* below zero, and no worker counts more files than there are.
THEOREM TypeCorrect == Spec => []TypeOK
BY InvTypes, TypecheckInvariant, PTL

\* No worker runs the part of the closure that captures the caller's locals by
\* reference once pipeline::typecheck has returned, though a canceled call
\* returns without waiting for the workers.
THEOREM ClosureOutlivesNothing == Spec => []NoUseAfterReturn
BY InvNoUseAfterReturn, TypecheckInvariant, PTL

\* No worker typechecks a tree that is older than its file.
THEOREM TreesAreFresh == Spec => []FreshTrees
BY InvFreshTrees, TypecheckInvariant, PTL

\* flushErrorsForFile does not grow fileErrorStatuses while a worker reads it.
THEOREM ReadersSeeNoResize == Spec => []NoResizeUnderReaders
BY InvNoResize, TypecheckInvariant, PTL

\* ErrorReporter::sanityCheck holds between any two steps.
THEOREM ErrorCountIsExact == Spec => []ClientErrorCountIsExact
<1>1. IInv => ClientErrorCountIsExact
  BY DEF IInv, RepInv, Tracked, ClientErrorCountIsExact
<1> QED BY <1>1, TypecheckInvariant, PTL

\* A report of an edit never replaces one of a newer edit, though the workers of
\* the slow path and the fast paths that preempt it report the same files.
THEOREM ReportsAreInOrder == Spec => ReportsMoveForward
<1>1. IInv /\ [Next]_vars => [Onward]_vars
  BY ReportsStep
<1>2. [Onward]_vars =>
        [\A f \in Files : /\ rep'.last[f] >= rep.last[f]
                          /\ rep'.count[f] # rep.count[f] =>
                               rep'.last[f] > rep.last[f] \/ rep'.last[f] = slow.epoch]_vars
  BY DEF Onward
<1> QED BY <1>1, <1>2, TypecheckInvariant, PTL DEF Spec, ReportsMoveForward
=============================================================================
