---------------------- MODULE PipelineTypecheckWorkers ----------------------
(***************************************************************************)
(* The steps of the workers keep the invariant of the typecheck runs, and so*)
(* do those of the typechecker thread that report nothing: its way through *)
(* pipeline::typecheck and the preemption points.                          *)
(***************************************************************************)
EXTENDS PipelineTypecheckInvariant, FiniteSetTheorems, TLAPS

\* Most leaves are first-order: Zenon is the backend, SMT where arithmetic or
\* sequences are at work.
USE ZenonT(20)

-----------------------------------------------------------------------------
\* Facts about the constants and the types.

\* The files are finitely many, and none of them is NoFile.
LEMMA FilesFinite ==
    /\ IsFiniteSet(Files)
    /\ Cardinality(Files) = NumFiles
    /\ NoFile \notin Files
    /\ \A S \in SUBSET Files : IsFiniteSet(S) /\ Cardinality(S) \in 0 .. NumFiles
<1>1. IsFiniteSet(Files) /\ Cardinality(Files) = NumFiles
  BY FS_Interval, NumFilesIsNat, SMT DEF Files
<1>2. NoFile \notin Files
  BY SMT DEF NoFile, Files
<1>3. ASSUME NEW S \in SUBSET Files PROVE IsFiniteSet(S) /\ Cardinality(S) \in 0 .. NumFiles
  <2>1. IsFiniteSet(S) /\ Cardinality(S) <= NumFiles
    BY <1>1, FS_Subset
  <2>2. Cardinality(S) \in Nat
    BY <2>1, FS_CardinalityType
  <2> QED BY <2>1, <2>2, NumFilesIsNat, SMT
<1> QED BY <1>1, <1>2, <1>3

\* The types of a worker.
LEMMA WorkerTypes ==
    ASSUME IInv, NEW w \in Workers
    PROVE  /\ worker[w] \in WorkerState /\ LocalState(worker[w])
           /\ worker[w].pc \in WorkerPoints /\ worker[w].file \in Files \cup {NoFile}
           /\ worker[w].processed \in Nat /\ worker[w].queued \in Nat
           /\ worker[w].mine \in BOOLEAN
  BY DEF IInv, Types, LocalInv, WorkerState

-----------------------------------------------------------------------------
\* The steps of the workers.

\* What a step of worker w leaves as it was.
Others(w) ==
    /\ worker' \in [Workers -> WorkerState]
    /\ \A v \in Workers : v # w => worker'[v] = worker[v]
    /\ UNCHANGED <<repVars, gsVars, editVars, tcVars, flushed>>

\* A step of one worker does not reach the reporter and the edits.
LEMMA WorkerFrame ==
    ASSUME IInv, NEW w \in Workers, NEW new \in WorkerState, WorkerStep(w, new),
           new.queued <= worker[w].queued, UNCHANGED flushed,
           errq' \in Errors, left' \in Int, fileq' \in SUBSET Files,
           outq' \in SUBSET [file : Files \cup {NoFile}, by : Workers]
    PROVE  /\ Others(w) /\ worker'[w] = new
           /\ Types' /\ RepInv' /\ CancelInv' /\ ClosureInv'
<1>1. worker' = [worker EXCEPT ![w] = new] /\ worker \in [Workers -> WorkerState]
  BY DEF IInv, Types, WorkerStep
<1>2. Others(w) /\ worker'[w] = new
  BY <1>1 DEF Others, WorkerStep
<1>3. Types'
  BY <1>2 DEF IInv, Types, Others, repVars, gsVars, editVars, tcVars
<1>4. RepInv' /\ CancelInv'
  BY <1>2 DEF IInv, RepInv, CancelInv, Indexed, Calling, FilesOf,
     Others, repVars, gsVars, editVars, tcVars
<1>5. ClosureInv'
  <2>1. Calls' = Calls
    BY <1>2 DEF Calls, Ahead, Others, editVars, tcVars
  <2>2. Calls \in Int /\ worker[w].queued \in Nat /\ new.queued \in Nat
    <3>1. slow.epoch \in Nat /\ stratum \in Nat
      BY LastStratumIsNat, MaxEditsIsNat, SMT DEF IInv, Types, Strata
    <3>2. slow.epoch * (LastStratum + 1) \in Nat
      BY <3>1, LastStratumIsNat, SMT
    <3>3. Calls \in Int
      BY <3>1, <3>2, SMT DEF Calls
    <3> QED BY <1>1, <3>3 DEF WorkerState
  <2>3. worker[w].queued <= Calls
    BY DEF IInv, ClosureInv
  <2>4. new.queued <= Calls
    BY <2>2, <2>3, SMT
  <2> QED BY <1>2, <2>1, <2>4 DEF IInv, ClosureInv, Others
<1> QED BY <1>2, <1>3, <1>4, <1>5

\* A worker that keeps or drops its file moves no other file.
LEMMA ApartKept ==
    ASSUME IInv, NEW w \in Workers, Others(w), UNCHANGED <<fileq, outq>>,
           worker'[w].file = NoFile \/ (worker'[w].file = worker[w].file /\ worker[w].pc # "count")
    PROVE  Apart' /\ FlushInv'
<1>1. /\ \A v \in Workers : v # w => worker'[v] = worker[v]
      /\ tc' = tc /\ ret' = ret /\ item' = item /\ stratum' = stratum
      /\ flushed' = flushed /\ slow' = slow /\ canceled' = canceled
      /\ fileq' = fileq /\ outq' = outq
  BY DEF Others, editVars, tcVars
<1>2. ASSUME NEW f, f # NoFile, Pushed(f) PROVE Pushed(f)'
  BY <1>1, <1>2 DEF Pushed
<1>3. Apart /\ FlushInv
  BY DEF IInv
<1>4. NoFile \notin FilesOf(stratum) /\ NoFile \notin Files
  BY FilesFinite DEF FilesOf
<1>5. \A v \in Workers : worker'[v].file = NoFile \/ worker'[v].file = worker[v].file
  BY <1>1
<1>6. Apart'
  <2>1. fileq' \subseteq FilesOf(stratum)'
    BY <1>1, <1>3 DEF Apart, FilesOf
  <2>2. ASSUME NEW v \in Workers, worker'[v].file # NoFile
        PROVE  /\ worker'[v].file \in FilesOf(stratum)' \ fileq'
               /\ \A u \in Workers : u # v => worker'[u].file # worker'[v].file
    <3>1. /\ worker'[v].file = worker[v].file
          /\ worker[v].file \in FilesOf(stratum) \ fileq
          /\ \A u \in Workers : u # v => worker[u].file # worker[v].file
      BY <1>3, <1>5, <2>2 DEF Apart
    <3>2. FilesOf(stratum)' = FilesOf(stratum)
      BY <1>1 DEF FilesOf
    <3> QED BY <1>1, <1>5, <2>2, <3>1, <3>2
  <2>3. ASSUME NEW x \in outq', x.file # NoFile
        PROVE  /\ x.file \in FilesOf(stratum)' \ fileq'
               /\ Pushed(x.file)'
               /\ \A y \in outq' : y.file = x.file => y = x
    BY <1>1, <1>2, <1>3, <2>3 DEF Apart, FilesOf
  <2>4. ASSUME tc' = "flush"
        PROVE  /\ item' \in FilesOf(stratum)' \ fileq'
               /\ Pushed(item)'
               /\ \A x \in outq' : x.file # item'
    BY <1>1, <1>2, <1>3, <1>4, <2>4 DEF Apart, FilesOf
  <2> QED BY <2>1, <2>2, <2>3, <2>4 DEF Apart
<1>7. FlushInv'
  <2>1. PICK done : Flushed(done)
    BY <1>3 DEF FlushInv
  <2>2. Flushed(done)'
    <3>1. \A f \in done : f # NoFile /\ Pushed(f)
      BY <1>4, <2>1 DEF Flushed
    <3>2. \A f \in done : Pushed(f)'
      BY <1>2, <3>1
    <3> QED BY <1>1, <2>1, <3>2 DEF Flushed
  <2>3. Ahead' => flushed' = 0 \/ (slow'.cancelable /\ canceled' /\ tc' = "index")
    BY <1>1, <1>3 DEF FlushInv, Ahead
  <2> QED BY <2>2, <2>3 DEF FlushInv
<1> QED BY <1>6, <1>7

\* A worker that owes as many files as before.
LEMMA AccountedKept ==
    ASSUME IInv, NEW w \in Workers, Others(w), UNCHANGED <<fileq, left>>, Owed(worker'[w]) = Owed(worker[w])
    PROVE  Accounted'
<1>1. PICK share : Shares(share)
  BY DEF IInv, Accounted
<1>2. \A v \in Workers : Owed(worker'[v]) = Owed(worker[v])
  BY DEF Others
<1>3. Shares(share)'
  BY <1>1, <1>2 DEF Shares, Owed
<1> QED BY <1>3 DEF Accounted

\* A worker in a state that it may be in, with the queues as they may be.
LEMMA LocalKept ==
    ASSUME IInv, NEW w \in Workers, NEW new, Others(w), worker'[w] = new, LocalState(new),
           new.pc = "check" => fileEpoch[new.file] <= slow.epoch
    PROVE  LocalInv' /\ TreeInv'
<1>1. /\ \A v \in Workers : v # w => worker'[v] = worker[v]
      /\ tc' = tc /\ ret' = ret /\ stratum' = stratum
      /\ fileEpoch' = fileEpoch /\ tree' = tree /\ slow' = slow
  BY DEF Others, gsVars, editVars, tcVars
<1>2. LocalInv /\ TreeInv
  BY DEF IInv
<1>3. \A s : LocalState(s) => LocalState(s)'
  BY <1>1 DEF LocalState, Calling
<1>4. LocalInv'
  <2> SUFFICES ASSUME NEW v \in Workers PROVE LocalState(worker[v])'
    BY DEF LocalInv
  <2>1. LocalState(worker'[v])
    BY <1>1, <1>2 DEF LocalInv
  <2> QED BY <1>1, <2>1 DEF LocalState, Calling
<1>5. TreeInv'
  <2>1. Indexed' => \A f \in FilesOf(stratum)' : fileEpoch'[f] > slow'.epoch \/ tree'[f] = fileEpoch'[f]
    BY <1>1, <1>2 DEF TreeInv, Indexed, Calling, FilesOf
  <2>2. \A v \in Workers : worker'[v].pc = "check" => fileEpoch'[worker'[v].file] <= slow'.epoch
    BY <1>1, <1>2 DEF TreeInv
  <2> QED BY <2>1, <2>2 DEF TreeInv
<1> QED BY <1>4, <1>5

\* A step of a worker that touches neither of the queues.
LEMMA QueuesKept ==
    ASSUME IInv, NEW w \in Workers, Others(w), UNCHANGED queueVars
    PROVE  QueueInv'
  BY DEF IInv, QueueInv, Calling, Others, tcVars, queueVars

\* A step of a worker between its operations on the queues.
LEMMA QuietStep ==
    ASSUME IInv, NEW w \in Workers, NEW new \in WorkerState, WorkerStep(w, new),
           UNCHANGED <<flushed, queueVars>>, errq' \in Errors,
           new.queued <= worker[w].queued,
           new.file = NoFile \/ (new.file = worker[w].file /\ worker[w].pc # "count"),
           Owed(new) = Owed(worker[w]), LocalState(new),
           new.pc = "check" => fileEpoch[new.file] <= slow.epoch
    PROVE  IInv'
<1>1. /\ left' \in Int /\ fileq' \in SUBSET Files /\ UNCHANGED flushed
      /\ outq' \in SUBSET [file : Files \cup {NoFile}, by : Workers]
      /\ UNCHANGED <<fileq, outq>> /\ UNCHANGED <<fileq, left>> /\ UNCHANGED queueVars
  BY DEF IInv, Types, queueVars
<1>2. /\ Others(w) /\ worker'[w] = new
      /\ Types' /\ RepInv' /\ CancelInv' /\ ClosureInv'
  BY <1>1, WorkerFrame
<1>3. Apart' /\ FlushInv'
  BY <1>1, <1>2, ApartKept
<1>4. Accounted'
  BY <1>1, <1>2, AccountedKept
<1>5. LocalInv' /\ TreeInv'
  BY <1>2, LocalKept
<1>6. QueueInv'
  BY <1>1, <1>2, QueuesKept
<1> QED BY <1>2, <1>3, <1>4, <1>5, <1>6 DEF IInv

\* A worker takes the closure, of this call or of an earlier one, from its queue.
LEMMA StartClosureKeeps ==
    ASSUME IInv, NEW w \in Workers, StartClosure(w)
    PROVE  IInv'
<1> DEFINE n == worker[w].queued - 1
           m == worker[w].queued = 1
           new == [worker[w] EXCEPT !.pc = "pop", !.queued = n, !.mine = m]
<1>1. /\ worker[w].pc = "idle" /\ worker[w].queued > 0 /\ WorkerStep(w, new)
      /\ UNCHANGED <<flushed, queueVars>> /\ errq' = errq
  BY DEF StartClosure, errVars
<1>2. n \in Nat /\ n <= worker[w].queued
  BY <1>1, WorkerTypes, SMT
<1>3. m \in BOOLEAN /\ errq \in Errors
  BY DEF IInv, Types
<1> HIDE DEF n, m
<1>4. /\ new \in WorkerState /\ new.queued = n
      /\ new.pc = "pop" /\ new.file = worker[w].file /\ new.processed = worker[w].processed
  BY <1>2, <1>3, WorkerTypes DEF WorkerState, WorkerPoints
<1> HIDE DEF new
<1>5. LocalState(new) /\ Owed(new) = Owed(worker[w])
  BY <1>1, <1>4, WorkerTypes DEF LocalState, Owed
<1> QED BY <1>1, <1>2, <1>3, <1>4, <1>5, QuietStep

\* A worker finds fileq empty.
LEMMA NoFileLeftKeeps ==
    ASSUME IInv, NEW w \in Workers, NoFileLeft(w)
    PROVE  IInv'
<1> DEFINE pc == AfterLastFile(worker[w].processed)
           new == [worker[w] EXCEPT !.pc = pc]
<1>1. /\ worker[w].pc = "pop" /\ WorkerStep(w, new)
      /\ UNCHANGED <<flushed, queueVars>> /\ errq' = errq /\ errq \in Errors
  BY DEF NoFileLeft, errVars, IInv, Types
<1>2. /\ worker[w].processed > 0 => pc = "enqueue"
      /\ worker[w].processed = 0 => pc = "idle"
      /\ worker[w].processed > 0 \/ worker[w].processed = 0
  BY WorkerTypes, SMT DEF AfterLastFile
<1> HIDE DEF pc
<1>3. /\ new \in WorkerState /\ new.queued <= worker[w].queued
      /\ new.pc = pc /\ new.file = worker[w].file /\ new.processed = worker[w].processed
  BY <1>2, WorkerTypes, SMT DEF WorkerState, WorkerPoints
<1> HIDE DEF new
<1>4. LocalState(new) /\ Owed(new) = Owed(worker[w]) /\ new.pc # "check"
  BY <1>1, <1>2, <1>3, WorkerTypes DEF LocalState, Owed
<1> QED BY <1>1, <1>3, <1>4, QuietStep

\* A worker gets the lock as a reader.
LEMMA LockPreemptionKeeps ==
    ASSUME IInv, NEW w \in Workers, LockPreemption(w)
    PROVE  IInv'
<1> DEFINE new == [worker[w] EXCEPT !.pc = "decide"]
<1>1. /\ worker[w].pc = "lock" /\ WorkerStep(w, new)
      /\ UNCHANGED <<flushed, queueVars>> /\ errq' = errq /\ errq \in Errors
  BY DEF LockPreemption, errVars, IInv, Types
<1>2. /\ new \in WorkerState /\ new.queued <= worker[w].queued
      /\ new.pc = "decide" /\ new.file = worker[w].file /\ new.processed = worker[w].processed
  BY WorkerTypes, SMT DEF WorkerState, WorkerPoints
<1> HIDE DEF new
<1>3. LocalState(new) /\ Owed(new) = Owed(worker[w])
  BY <1>1, <1>2, WorkerTypes DEF LocalState, Owed
<1> QED BY <1>1, <1>2, <1>3, QuietStep

\* A worker checks its file or skips it; it owes as many files either way.
LEMMA DecideKeeps ==
    ASSUME IInv, NEW w \in Workers, Decide(w)
    PROVE  IInv'
<1> DEFINE n == worker[w].processed + 1
           taken == [worker[w] EXCEPT !.pc = "check", !.processed = n]
           skipped == [worker[w] EXCEPT !.pc = "pop", !.processed = n, !.file = NoFile]
<1>1. /\ worker[w].pc = "decide"
      /\ UNCHANGED <<flushed, queueVars>> /\ errq' = errq /\ errq \in Errors
      /\ \/ WorkerStep(w, taken) /\ fileEpoch[worker[w].file] <= slow.epoch
         \/ WorkerStep(w, skipped)
  BY DEF Decide, ShouldCheck, errVars, IInv, Types
<1>2. n \in Nat /\ n > 0
  BY WorkerTypes, SMT
<1>3. /\ taken \in WorkerState /\ taken.pc = "check" /\ taken.file = worker[w].file
      /\ taken.processed = n /\ taken.queued = worker[w].queued
      /\ skipped \in WorkerState /\ skipped.pc = "pop" /\ skipped.file = NoFile
      /\ skipped.processed = n /\ skipped.queued = worker[w].queued
  <2> HIDE DEF n
  <2>1. worker[w] \in WorkerState /\ "check" \in WorkerPoints /\ "pop" \in WorkerPoints
    BY WorkerTypes DEF WorkerPoints
  <2>2. /\ taken = [worker[w] EXCEPT !.pc = "check", !.processed = n]
        /\ skipped = [worker[w] EXCEPT !.pc = "pop", !.processed = n, !.file = NoFile]
    BY DEF taken, skipped
  <2> HIDE DEF taken, skipped
  <2>3. n \in Nat
    BY <1>2
  <2>4. /\ taken \in WorkerState /\ taken.pc = "check" /\ taken.file = worker[w].file
        /\ taken.processed = n /\ taken.queued = worker[w].queued
    BY <2>1, <2>2, <2>3 DEF WorkerState
  <2>5. /\ skipped \in WorkerState /\ skipped.pc = "pop" /\ skipped.file = NoFile
        /\ skipped.processed = n /\ skipped.queued = worker[w].queued
    BY <2>1, <2>2, <2>3 DEF WorkerState
  <2> QED BY <2>4, <2>5
<1>7. taken.queued <= worker[w].queued /\ skipped.queued <= worker[w].queued
  BY <1>3, WorkerTypes, SMT
<1> HIDE DEF taken, skipped
<1>4. /\ LocalState(taken) /\ Owed(taken) = Owed(worker[w])
      /\ LocalState(skipped) /\ Owed(skipped) = Owed(worker[w])
  <2>1. Calling /\ worker[w].file # NoFile /\ worker[w].pc = "decide"
    BY <1>1, WorkerTypes DEF LocalState
  <2>2. Owed(worker[w]) = n
    BY <2>1 DEF Owed
  <2>3. Owed(taken) = n /\ Owed(skipped) = n
    BY <1>2, <1>3, SMT DEF Owed
  <2> QED BY <1>2, <1>3, <2>1, <2>2, <2>3 DEF LocalState
<1> HIDE DEF n
<1>5. CASE WorkerStep(w, taken) /\ fileEpoch[worker[w].file] <= slow.epoch
  <2>1. fileEpoch[taken.file] <= slow.epoch
    BY <1>3, <1>5
  <2> QED BY <1>1, <1>3, <1>4, <1>5, <1>7, <2>1, QuietStep
<1>6. CASE WorkerStep(w, skipped)
  BY <1>1, <1>3, <1>4, <1>6, <1>7, QuietStep
<1> QED BY <1>1, <1>5, <1>6

\* A worker typechecks its file.
LEMMA TypecheckOneKeeps ==
    ASSUME IInv, NEW w \in Workers, TypecheckOne(w)
    PROVE  IInv'
<1> DEFINE new == [worker[w] EXCEPT !.pc = "enqueue"]
<1>1. /\ worker[w].pc = "check" /\ WorkerStep(w, new)
      /\ UNCHANGED <<flushed, queueVars>>
      /\ errq' = [errq EXCEPT ![worker[w].file] = truth[worker[w].file]]
  BY DEF TypecheckOne
<1>2. worker[w].file \in Files
  BY <1>1, WorkerTypes DEF LocalState
<1>3. errq' \in Errors
  BY <1>1, <1>2 DEF IInv, Types, Errors
<1>4. /\ new \in WorkerState /\ new.queued <= worker[w].queued
      /\ new.pc = "enqueue" /\ new.file = worker[w].file /\ new.processed = worker[w].processed
  BY WorkerTypes, SMT DEF WorkerState, WorkerPoints
<1> HIDE DEF new
<1>5. LocalState(new) /\ Owed(new) = Owed(worker[w])
  BY <1>1, <1>4, WorkerTypes DEF LocalState, Owed
<1> QED BY <1>1, <1>3, <1>4, <1>5, QuietStep

\* The files of all shares, when one worker has another share.
LEMMA SharesOfOthers ==
    ASSUME NEW share, NEW w \in Workers, NEW other,
           \A v \in Workers : v # w => other[v] = share[v]
    PROVE  LET rest == UNION {share[v] : v \in Workers \ {w}} IN
           /\ UNION {other[v] : v \in Workers} = other[w] \cup rest
           /\ UNION {share[v] : v \in Workers} = share[w] \cup rest
  OBVIOUS

\* A worker pops a file, which moves from fileq to its share.
LEMMA PopFileKeeps ==
    ASSUME IInv, NEW w \in Workers, PopFile(w)
    PROVE  IInv'
<1>1. PICK f \in fileq : /\ fileq' = fileq \ {f}
                         /\ WorkerStep(w, [worker[w] EXCEPT !.pc = "lock", !.file = f])
  BY DEF PopFile
<1> DEFINE new == [worker[w] EXCEPT !.pc = "lock", !.file = f]
<1>2. /\ worker[w].pc = "pop" /\ WorkerStep(w, new) /\ UNCHANGED <<flushed, errq, outq, left>>
      /\ errq \in Errors /\ left \in Int /\ fileq' \in SUBSET Files /\ fileq \in SUBSET Files
      /\ outq \in SUBSET [file : Files \cup {NoFile}, by : Workers]
  BY <1>1 DEF PopFile, errVars, IInv, Types
<1>3. /\ new \in WorkerState /\ new.queued = worker[w].queued
      /\ new.pc = "lock" /\ new.file = f /\ new.processed = worker[w].processed
  BY <1>2, WorkerTypes DEF WorkerState, WorkerPoints
<1> HIDE DEF new
<1>4. new.queued <= worker[w].queued /\ f # NoFile /\ worker[w].file = NoFile
  BY <1>2, <1>3, WorkerTypes, FilesFinite, SMT DEF LocalState
<1>5. /\ Others(w) /\ worker'[w] = new
      /\ Types' /\ RepInv' /\ CancelInv' /\ ClosureInv'
  <2>1. /\ errq' \in Errors /\ left' \in Int /\ UNCHANGED flushed
        /\ outq' \in SUBSET [file : Files \cup {NoFile}, by : Workers]
    BY <1>2
  <2> QED BY <1>2, <1>3, <1>4, <2>1, WorkerFrame
<1>6. /\ \A v \in Workers : v # w => worker'[v] = worker[v]
      /\ tc' = tc /\ ret' = ret /\ item' = item /\ stratum' = stratum /\ retry' = retry
      /\ slow' = slow /\ canceled' = canceled
  BY <1>5 DEF Others, editVars, tcVars
<1>7. Calling
  BY DEF IInv, QueueInv
<1>8. LocalInv' /\ TreeInv'
  <2>1. LocalState(new)
    BY <1>3, <1>4, <1>7 DEF LocalState
  <2> QED BY <1>3, <1>5, <2>1, LocalKept
<1>9. QueueInv'
  BY <1>2, <1>6, <1>7 DEF IInv, QueueInv, Calling
<1>10. Apart /\ FlushInv
  BY DEF IInv
<1>11. ASSUME NEW g, g # f, Pushed(g) PROVE Pushed(g)'
  BY <1>3, <1>5, <1>6, <1>11 DEF Pushed
<1>12. FilesOf(stratum)' = FilesOf(stratum) /\ NoFile \notin Files
  BY <1>6, FilesFinite DEF FilesOf
<1>13. Apart'
  <2>1. fileq' \subseteq FilesOf(stratum)'
    BY <1>1, <1>10, <1>12 DEF Apart
  <2>2. ASSUME NEW v \in Workers, worker'[v].file # NoFile
        PROVE  /\ worker'[v].file \in FilesOf(stratum)' \ fileq'
               /\ \A u \in Workers : u # v => worker'[u].file # worker'[v].file
    <3>1. \A u \in Workers : worker[u].file # f
      BY <1>1, <1>4, <1>10 DEF Apart
    <3>2. CASE v = w
      BY <1>1, <1>3, <1>5, <1>6, <1>10, <1>12, <3>1, <3>2 DEF Apart
    <3>3. CASE v # w
      <4>1. /\ worker'[v].file = worker[v].file
            /\ worker[v].file \in FilesOf(stratum) \ fileq
            /\ \A u \in Workers : u # v => worker[u].file # worker[v].file
        BY <1>6, <1>10, <2>2, <3>3 DEF Apart
      <4> QED BY <1>1, <1>3, <1>5, <1>6, <1>12, <3>1, <3>3, <4>1
    <3> QED BY <3>2, <3>3
  <2>3. ASSUME NEW x \in outq', x.file # NoFile
        PROVE  /\ x.file \in FilesOf(stratum)' \ fileq'
               /\ Pushed(x.file)'
               /\ \A y \in outq' : y.file = x.file => y = x
    <3>1. /\ x.file \in FilesOf(stratum) \ fileq /\ Pushed(x.file)
          /\ \A y \in outq : y.file = x.file => y = x
      BY <1>2, <1>10, <2>3 DEF Apart
    <3>2. x.file # f /\ outq' = outq
      BY <1>2, <3>1
    <3> QED BY <1>1, <1>11, <1>12, <3>1, <3>2
  <2>4. ASSUME tc' = "flush"
        PROVE  /\ item' \in FilesOf(stratum)' \ fileq'
               /\ Pushed(item)'
               /\ \A x \in outq' : x.file # item'
    <3>1. /\ item \in FilesOf(stratum) \ fileq /\ Pushed(item)
          /\ \A x \in outq : x.file # item
      BY <1>6, <1>10, <2>4 DEF Apart
    <3>2. Pushed(item)'
      BY <1>6, <1>11, <3>1 DEF Pushed
    <3> QED BY <1>1, <1>2, <1>6, <1>12, <3>1, <3>2
  <2> QED BY <2>1, <2>2, <2>3, <2>4 DEF Apart
<1>14. FlushInv'
  <2>1. PICK done : Flushed(done)
    BY <1>10 DEF FlushInv
  <2>2. \A g \in done : g # f /\ Pushed(g)
    BY <1>1, <2>1 DEF Flushed
  <2>3. \A g \in done : Pushed(g)'
    BY <1>11, <2>2
  <2>4. Flushed(done)'
    BY <1>1, <1>2, <1>6, <2>1, <2>3 DEF Flushed
  <2>5. Ahead' => flushed' = 0 \/ (slow'.cancelable /\ canceled' /\ tc' = "index")
    BY <1>2, <1>6, <1>10 DEF FlushInv, Ahead
  <2> QED BY <2>4, <2>5 DEF FlushInv
<1>15. Accounted'
  <2>1. PICK share : Shares(share)
    BY DEF IInv, Accounted
  <2> DEFINE S == share[w] \cup {f}
             other == [share EXCEPT ![w] = S]
             rest == UNION {share[v] : v \in Workers \ {w}}
  <2>2. /\ share[w] \in SUBSET Files /\ share[w] \cap fileq = {}
        /\ Cardinality(share[w]) = Owed(worker[w])
        /\ left = Cardinality(fileq \cup UNION {share[v] : v \in Workers})
    BY <2>1 DEF Shares
  <2>3. Owed(worker[w]) = worker[w].processed /\ Owed(new) = worker[w].processed + 1
    BY <1>2, <1>3, WorkerTypes, SMT DEF Owed
  <2>4. S \in SUBSET Files /\ Cardinality(S) = Owed(new)
    <3>1. IsFiniteSet(share[w]) /\ f \notin share[w]
      BY <2>2, FilesFinite
    <3>2. Cardinality(share[w] \cup {f}) = Cardinality(share[w]) + 1
      BY <3>1, FS_AddElement
    <3> QED BY <1>2, <2>2, <2>3, <3>2
  <2> HIDE DEF S
  <2>5. /\ other \in [Workers -> SUBSET Files] /\ other[w] = S
        /\ \A v \in Workers : v # w => other[v] = share[v]
        /\ UNION {other[v] : v \in Workers} = S \cup rest
        /\ UNION {share[v] : v \in Workers} = share[w] \cup rest
    <3>1. /\ other \in [Workers -> SUBSET Files] /\ other[w] = S
          /\ \A v \in Workers : v # w => other[v] = share[v]
      BY <2>1, <2>4 DEF Shares
    <3> HIDE DEF other
    <3>2. \A v \in Workers : v # w => other[v] = share[v]
      BY <3>1
    <3>3. LET all == UNION {share[v] : v \in Workers \ {w}} IN
          /\ UNION {other[v] : v \in Workers} = other[w] \cup all
          /\ UNION {share[v] : v \in Workers} = share[w] \cup all
      BY <3>2, SharesOfOthers, SMT
    <3> QED BY <3>1, <3>3
  <2> HIDE DEF other
  <2>6. \A v \in Workers : f \notin share[v]
    BY <1>1, <2>1 DEF Shares
  <2>7. fileq' \cup (S \cup rest) = fileq \cup (share[w] \cup rest)
    BY <1>1, <2>2 DEF S
  <2>8. left' = Cardinality(fileq' \cup UNION {other[v] : v \in Workers})
    BY <1>2, <2>2, <2>5, <2>7
  <2>9. ASSUME NEW v \in Workers
        PROVE  /\ Cardinality(other[v]) = Owed(worker'[v])
               /\ other[v] \cap fileq' = {}
               /\ \A u \in Workers : u # v => other[u] \cap other[v] = {}
    <3>1. /\ Cardinality(share[v]) = Owed(worker[v]) /\ share[v] \cap fileq = {}
          /\ \A u \in Workers : u # v => share[u] \cap share[v] = {}
      BY <2>1 DEF Shares
    <3>2. \A u \in Workers : u # w => S \cap share[u] = {}
      BY <2>1, <2>6 DEF Shares, S
    <3>3. S \cap fileq' = {} /\ share[v] \cap fileq' = {}
      BY <1>1, <2>2, <3>1 DEF S
    <3>4. CASE v = w
      BY <1>5, <2>4, <2>5, <3>2, <3>3, <3>4
    <3>5. CASE v # w
      BY <1>6, <2>5, <3>1, <3>2, <3>3, <3>5
    <3> QED BY <3>4, <3>5
  <2>10. Shares(other)'
    BY <2>5, <2>8, <2>9 DEF Shares, Owed
  <2> QED BY <2>10 DEF Accounted
<1> QED BY <1>5, <1>8, <1>9, <1>13, <1>14, <1>15 DEF IInv

\* A worker enqueues its file, or none, on outputq.
LEMMA EnqueueResultKeeps ==
    ASSUME IInv, NEW w \in Workers, EnqueueResult(w)
    PROVE  IInv'
<1> DEFINE new == [worker[w] EXCEPT !.pc = "count"]
           result == [file |-> worker[w].file, by |-> w]
<1>1. /\ worker[w].pc = "enqueue" /\ WorkerStep(w, new) /\ outq' = outq \cup {result}
      /\ UNCHANGED <<flushed, errq, fileq, left>>
  BY DEF EnqueueResult, errVars
<1>2. /\ new \in WorkerState /\ new.queued <= worker[w].queued
      /\ new.pc = "count" /\ new.file = worker[w].file /\ new.processed = worker[w].processed
  BY WorkerTypes, SMT DEF WorkerState, WorkerPoints
<1> HIDE DEF new
<1>3. result \in [file : Files \cup {NoFile}, by : Workers] /\ result.file = worker[w].file
  BY WorkerTypes
<1> HIDE DEF result
<1>4. /\ errq' \in Errors /\ left' \in Int /\ fileq' \in SUBSET Files /\ UNCHANGED flushed
      /\ outq' \in SUBSET [file : Files \cup {NoFile}, by : Workers]
  BY <1>1, <1>3 DEF IInv, Types
<1>5. /\ Others(w) /\ worker'[w] = new
      /\ Types' /\ RepInv' /\ CancelInv' /\ ClosureInv'
  BY <1>1, <1>2, <1>4, WorkerFrame
<1>6. /\ \A v \in Workers : v # w => worker'[v] = worker[v]
      /\ tc' = tc /\ ret' = ret /\ item' = item /\ stratum' = stratum /\ retry' = retry
      /\ slow' = slow /\ canceled' = canceled
  BY <1>5 DEF Others, editVars, tcVars
<1>7. Calling /\ LocalState(new) /\ Owed(new) = Owed(worker[w]) /\ new.pc # "check"
  BY <1>1, <1>2, WorkerTypes DEF LocalState, Owed
<1>8. LocalInv' /\ TreeInv'
  BY <1>5, <1>7, LocalKept
<1>9. Accounted'
  BY <1>1, <1>5, <1>7, AccountedKept
<1>10. QueueInv'
  BY <1>1, <1>6, <1>7 DEF IInv, QueueInv, Calling
<1>11. Apart /\ FlushInv
  BY DEF IInv
<1>12. ASSUME NEW g, Pushed(g) PROVE g # worker[w].file /\ Pushed(g)'
  BY <1>1, <1>2, <1>5, <1>6, <1>12 DEF Pushed
<1>13. FilesOf(stratum)' = FilesOf(stratum)
  BY <1>6 DEF FilesOf
<1>14. Apart'
  <2>1. \A v \in Workers : worker'[v].file = worker[v].file
    BY <1>2, <1>5, <1>6
  <2>2. /\ fileq' \subseteq FilesOf(stratum)'
        /\ \A v \in Workers : worker'[v].file # NoFile =>
              /\ worker'[v].file \in FilesOf(stratum)' \ fileq'
              /\ \A u \in Workers : u # v => worker'[u].file # worker'[v].file
    BY <1>1, <1>11, <1>13, <2>1 DEF Apart
  <2>3. ASSUME NEW x \in outq', x.file # NoFile
        PROVE  /\ x.file \in FilesOf(stratum)' \ fileq'
               /\ Pushed(x.file)'
               /\ \A y \in outq' : y.file = x.file => y = x
    <3>1. CASE x \in outq
      <4>1. /\ x.file \in FilesOf(stratum) \ fileq /\ Pushed(x.file)
            /\ \A y \in outq : y.file = x.file => y = x
        BY <1>11, <2>3, <3>1 DEF Apart
      <4>2. x.file # result.file
        BY <1>3, <1>12, <4>1
      <4> QED BY <1>1, <1>12, <1>13, <4>1, <4>2
    <3>2. CASE x = result
      <4>1. x.file \in FilesOf(stratum) \ fileq
        BY <1>3, <1>11, <2>3, <3>2 DEF Apart
      <4>2. Pushed(x.file)'
        BY <1>2, <1>3, <1>5, <2>2, <2>1, <2>3, <3>2 DEF Pushed
      <4>3. \A y \in outq : y.file # x.file
        BY <1>3, <1>11, <1>12, <2>3, <3>2 DEF Apart
      <4> QED BY <1>1, <1>13, <3>2, <4>1, <4>2, <4>3
    <3> QED BY <1>1, <3>1, <3>2
  <2>4. ASSUME tc' = "flush"
        PROVE  /\ item' \in FilesOf(stratum)' \ fileq'
               /\ Pushed(item)'
               /\ \A x \in outq' : x.file # item'
    <3>1. /\ item \in FilesOf(stratum) \ fileq /\ Pushed(item)
          /\ \A x \in outq : x.file # item
      BY <1>6, <1>11, <2>4 DEF Apart
    <3>2. Pushed(item)' /\ result.file # item
      BY <1>3, <1>6, <1>12, <3>1 DEF Pushed
    <3> QED BY <1>1, <1>6, <1>13, <3>1, <3>2
  <2> QED BY <2>2, <2>3, <2>4 DEF Apart
<1>15. FlushInv'
  <2>1. PICK done : Flushed(done)
    BY <1>11 DEF FlushInv
  <2>2. \A g \in done : Pushed(g)' /\ result.file # g
    BY <1>3, <1>12, <2>1 DEF Flushed
  <2>3. Flushed(done)'
    BY <1>1, <1>6, <2>1, <2>2 DEF Flushed
  <2>4. Ahead' => flushed' = 0 \/ (slow'.cancelable /\ canceled' /\ tc' = "index")
    BY <1>1, <1>6, <1>11 DEF FlushInv, Ahead
  <2> QED BY <2>3, <2>4 DEF FlushInv
<1> QED BY <1>5, <1>8, <1>9, <1>10, <1>14, <1>15 DEF IInv

\* A worker lowers elementsLeftToPush by what it owes.
LEMMA CountResultKeeps ==
    ASSUME IInv, NEW w \in Workers, CountResult(w)
    PROVE  IInv'
<1> DEFINE pc == IF worker[w].file # NoFile THEN "pop" ELSE "idle"
           new == [worker[w] EXCEPT !.pc = pc, !.processed = 0, !.file = NoFile]
           n == worker[w].processed
<1>1. /\ worker[w].pc = "count" /\ WorkerStep(w, new) /\ left' = left - n
      /\ UNCHANGED <<flushed, errq, fileq, outq>>
  BY DEF CountResult, errVars
<1>2. /\ new \in WorkerState /\ new.queued = worker[w].queued
      /\ new.pc \in {"pop", "idle"} /\ new.file = NoFile /\ new.processed = 0
  <2>1. worker[w] \in WorkerState /\ pc \in {"pop", "idle"} /\ pc \in WorkerPoints
    BY WorkerTypes DEF WorkerPoints
  <2>2. new = [worker[w] EXCEPT !.pc = pc, !.processed = 0, !.file = NoFile] /\ 0 \in Nat
    OBVIOUS
  <2> HIDE DEF new, pc
  <2> QED BY <2>1, <2>2 DEF WorkerState
<1> HIDE DEF new, pc
<1>3. /\ errq' \in Errors /\ fileq' \in SUBSET Files /\ UNCHANGED flushed
      /\ outq' \in SUBSET [file : Files \cup {NoFile}, by : Workers]
  BY <1>1 DEF IInv, Types
<1>4. left \in Int /\ left' \in Int /\ n \in Nat /\ n > 0 /\ new.queued <= worker[w].queued
  BY <1>1, <1>2, WorkerTypes, SMTT(30) DEF IInv, Types, LocalState
<1>5. /\ Others(w) /\ worker'[w] = new
      /\ Types' /\ RepInv' /\ CancelInv' /\ ClosureInv'
  BY <1>1, <1>2, <1>3, <1>4, WorkerFrame
<1>6. Apart' /\ FlushInv'
  BY <1>1, <1>2, <1>5, ApartKept
<1>7. LocalInv' /\ TreeInv'
  <2>1. LocalState(new) /\ new.pc # "check"
    BY <1>1, <1>2, WorkerTypes DEF LocalState
  <2> QED BY <1>5, <2>1, LocalKept
<1>8. PICK share : Shares(share)
  BY DEF IInv, Accounted
<1> DEFINE other == [share EXCEPT ![w] = {}]
           rest == UNION {share[v] : v \in Workers \ {w}}
<1>9. /\ share \in [Workers -> SUBSET Files]
      /\ \A v \in Workers : /\ Cardinality(share[v]) = Owed(worker[v])
                            /\ share[v] \cap fileq = {}
                            /\ \A u \in Workers : u # v => share[u] \cap share[v] = {}
      /\ left = Cardinality(fileq \cup UNION {share[v] : v \in Workers})
  BY <1>8 DEF Shares
<1>10. /\ other \in [Workers -> SUBSET Files] /\ other[w] = {}
       /\ \A v \in Workers : v # w => other[v] = share[v]
  BY <1>9
<1> HIDE DEF other
<1>11. /\ UNION {other[v] : v \in Workers} = other[w] \cup rest
       /\ UNION {share[v] : v \in Workers} = share[w] \cup rest
  <2>1. \A v \in Workers : v # w => other[v] = share[v]
    BY <1>10
  <2> QED BY <2>1, SharesOfOthers, SMT
<1> DEFINE stays == fileq \cup rest
<1>12. stays \cap share[w] = {} /\ stays \in SUBSET Files /\ share[w] \in SUBSET Files
  <2>1. \A v \in Workers \ {w} : share[v] \cap share[w] = {} /\ share[v] \in SUBSET Files
    BY <1>9
  <2>2. rest \cap share[w] = {} /\ rest \in SUBSET Files
    BY <2>1
  <2>3. fileq \in SUBSET Files /\ share[w] \in SUBSET Files /\ share[w] \cap fileq = {}
    BY <1>9 DEF IInv, Types
  <2> HIDE DEF rest
  <2> QED BY <2>2, <2>3
<1>13. fileq \cup UNION {share[v] : v \in Workers} = stays \cup share[w]
  BY <1>11
<1>14. fileq' \cup UNION {other[v] : v \in Workers} = stays
  BY <1>1, <1>10, <1>11
<1> HIDE DEF stays, rest
<1>15. /\ Cardinality(stays) \in Nat /\ Cardinality(share[w]) = n
       /\ Cardinality(stays \cup share[w]) = Cardinality(stays) + Cardinality(share[w])
  <2>1. IsFiniteSet(stays) /\ IsFiniteSet(share[w])
    BY <1>12, FilesFinite
  <2>2. /\ Cardinality(stays) \in Nat /\ Cardinality(share[w]) \in Nat
        /\ Cardinality(stays \cup share[w]) = Cardinality(stays) + Cardinality(share[w])
                                                - Cardinality(stays \cap share[w])
    BY <2>1, FS_CardinalityType, FS_Union
  <2>3. Cardinality(stays \cap share[w]) = 0
    BY <1>12, FS_EmptySet
  <2>4. Cardinality(share[w]) = n
    BY <1>1, <1>4, <1>9, SMTT(30) DEF Owed
  <2> QED BY <2>2, <2>3, <2>4, SMTT(30)
<1>16. left = Cardinality(stays) + n
  BY <1>9, <1>13, <1>15
<1>17. left' = Cardinality(stays)
  BY <1>1, <1>4, <1>15, <1>16, SMTT(30)
<1>18. Accounted'
  <2>1. Owed(new) = 0 /\ Cardinality({}) = 0
    BY <1>2, FS_EmptySet, SMT DEF Owed
  <2>2. ASSUME NEW v \in Workers
        PROVE  /\ Cardinality(other[v]) = Owed(worker'[v])
               /\ other[v] \cap fileq' = {}
               /\ \A u \in Workers : u # v => other[u] \cap other[v] = {}
    <3>1. CASE v = w
      BY <1>5, <1>10, <2>1, <3>1
    <3>2. CASE v # w
      <4>1. worker'[v] = worker[v]
        BY <1>5, <3>2 DEF Others
      <4>2. /\ other[v] = share[v] /\ fileq' = fileq
            /\ \A u \in Workers : other[u] = {} \/ other[u] = share[u]
        BY <1>1, <1>10, <3>2
      <4> QED BY <1>9, <4>1, <4>2
    <3> QED BY <3>1, <3>2
  <2>3. Shares(other)'
    BY <1>10, <1>14, <1>17, <2>2 DEF Shares, Owed
  <2> QED BY <2>3 DEF Accounted
<1>19. QueueInv'
  <2>1. left > 0
    BY <1>4, <1>15, <1>16, SMTT(30)
  <2>2. QueueInv /\ left # 0
    BY <2>1, <1>4, SMT DEF IInv
  <2> QED BY <1>1, <1>5, <2>2 DEF QueueInv, Calling, Others, tcVars
<1> QED BY <1>5, <1>6, <1>7, <1>18, <1>19 DEF IInv

-----------------------------------------------------------------------------
\* Steps that leave parts of the state alone.

\* What the queues, the workers and the flushed files have to agree on.
CallInv == LocalInv /\ QueueInv /\ Accounted /\ Apart /\ \E done : Flushed(done)

\* The typechecker thread moves on within the loop, or outside of it.
LEMMA QueuesSame ==
    ASSUME IInv, UNCHANGED <<queueVars, worker, stratum>>,
           Calling' <=> Calling,
           tc' = "flush" => tc = "flush" /\ item' = item,
           tc' = "dequeue" /\ ~retry' => left = 0
    PROVE  LocalInv' /\ QueueInv' /\ Accounted' /\ Apart'
<1>1. /\ fileq' = fileq /\ outq' = outq /\ left' = left /\ worker' = worker
      /\ stratum' = stratum
  BY DEF queueVars
<1>2. LocalInv' /\ QueueInv'
  <2>1. \A w \in Workers : LocalState(worker[w])'
    BY <1>1, SMT DEF IInv, LocalInv, LocalState
  <2> QED BY <1>1, <2>1 DEF IInv, LocalInv, QueueInv
<1>3. Accounted'
  BY <1>1 DEF IInv, Accounted, Shares
<1>4. Apart'
  BY <1>1, SMTT(30) DEF IInv, Apart, Pushed, FilesOf
<1> QED BY <1>2, <1>3, <1>4

\* The typechecker thread moves on and touches no queue.
LEMMA CallKept ==
    ASSUME IInv, UNCHANGED <<queueVars, worker, stratum, flushed>>,
           Calling' <=> Calling,
           tc' = "flush" => tc = "flush" /\ item' = item,
           tc' = "dequeue" /\ ~retry' => left = 0
    PROVE  CallInv'
<1>1. LocalInv' /\ QueueInv' /\ Accounted' /\ Apart'
  BY QueuesSame
<1>2. PICK done : Flushed(done)
  BY DEF IInv, FlushInv
<1>3. Flushed(done)'
  BY <1>2 DEF Flushed, Pushed, queueVars
<1> QED BY <1>1, <1>3 DEF CallInv

\* No call of pipeline::typecheck has work left.
Quiet == /\ fileq = {} /\ outq = {}
         /\ \A w \in Workers : /\ worker[w].pc \in {"idle", "pop"}
                               /\ worker[w].processed = 0

\* Outside of the call nobody is at work.
LEMMA QuietOutside ==
    ASSUME IInv, ~Calling
    PROVE  Quiet
  BY DEF IInv, LocalInv, LocalState, QueueInv, Quiet

\* The typechecker thread is outside of the loop, and there is nothing to do.
LEMMA CallQuiet ==
    ASSUME IInv, Quiet, UNCHANGED <<queueVars, worker>>, ~Calling',
           UNCHANGED flushed \/ flushed' = 0
    PROVE  CallInv'
<1>1. /\ fileq' = {} /\ outq' = {} /\ fileq' = fileq /\ left' = left /\ worker' = worker
  BY DEF queueVars, Quiet
<1>2. \A w \in Workers : worker[w].file = NoFile
  BY DEF IInv, LocalInv, LocalState, Quiet
<1>3. tc' # "flush" /\ tc' # "dequeue"
  BY DEF Calling
<1>4. LocalInv' /\ QueueInv'
  <2>1. \A w \in Workers : LocalState(worker[w])'
    BY <1>1, <1>2 DEF LocalState, Quiet
  <2> QED BY <1>1, <1>3, <2>1 DEF LocalInv, QueueInv
<1>5. Accounted'
  BY <1>1 DEF IInv, Accounted, Shares
<1>6. Apart'
  BY <1>1, <1>2, <1>3, SMTT(30) DEF Apart
<1>7. \E done : Flushed(done)'
  <2>1. CASE flushed' = flushed
    <3>1. PICK done : Flushed(done)
      BY DEF IInv, FlushInv
    <3>2. \A f \in done : Pushed(f)'
      BY <1>1, <3>1 DEF Flushed, Pushed
    <3>3. Flushed(done)'
      BY <1>1, <1>3, <2>1, <3>1, <3>2 DEF Flushed
    <3> QED BY <3>3
  <2>2. CASE flushed' = 0
    <3>1. Cardinality({}) = 0
      BY FS_EmptySet
    <3>2. Flushed({})'
      BY <2>2, <3>1 DEF Flushed
    <3> QED BY <3>2
  <2> QED BY <2>1, <2>2
<1> QED BY <1>4, <1>5, <1>6, <1>7 DEF CallInv

\* The bound on the closures in the queues does not fall.
LEMMA CallsKept ==
    ASSUME IInv, UNCHANGED <<worker, slow, stratum>>, Ahead' => Ahead
    PROVE  ClosureInv'
<1> DEFINE base == slow.epoch * (LastStratum + 1) + stratum
           one == IF Ahead THEN 0 ELSE 1
           later == IF Ahead' THEN 0 ELSE 1
<1>1. slow.epoch \in Nat /\ stratum \in Nat /\ LastStratum + 1 \in Nat
  BY LastStratumIsNat, MaxEditsIsNat, SMTT(30) DEF IInv, Types, Strata
<1>2. base \in Nat
  <2>1. slow.epoch * (LastStratum + 1) \in Nat
    BY <1>1, SMT
  <2> QED BY <1>1, <2>1, SMT
<1>3. Calls = base + one /\ Calls' = base + later
  BY DEF Calls
<1>4. one \in {0, 1} /\ later \in {0, 1} /\ one <= later
  BY SMT
<1> HIDE DEF base, one, later
<1>5. ASSUME NEW w \in Workers PROVE worker'[w].queued <= Calls'
  <2>1. worker'[w].queued = worker[w].queued /\ worker[w].queued <= Calls
        /\ worker[w].queued \in Nat
    BY WorkerTypes DEF IInv, ClosureInv
  <2> QED BY <1>2, <1>3, <1>4, <2>1, SMTT(30)
<1> QED BY <1>5 DEF ClosureInv

\* The trees and the reporter as they were, for a stratum that was indexed.
LEMMA FilesKept ==
    ASSUME IInv, UNCHANGED <<worker, slow, stratum, fileEpoch, tree, rep, edits>>,
           Indexed' => Indexed, tc' # "new"
    PROVE  TreeInv' /\ RepInv'
<1>1. TreeInv'
  BY DEF IInv, TreeInv, FilesOf
<1>2. RepInv'
  BY DEF IInv, RepInv, FilesOf, Tracked, SanityCheck
<1> QED BY <1>1, <1>2

\* A step within the loop or outside of it that begins no stratum.
SamePhase == (Calling' <=> Calling) /\ (Indexed' => Indexed) /\ (Ahead' => Ahead)

\* A step of the typechecker thread that changes no file and no edit.
LEMMA RestKept ==
    ASSUME IInv, Types', CallInv', UNCHANGED <<repVars, gsVars, editVars, flushed, stratum, worker>>,
           tc \notin {"new", "idle"}, tc' \notin {"new", "idle"},
           Indexed' => Indexed, Ahead' => Ahead /\ tc # "index"
    PROVE  IInv'
<1>1. /\ UNCHANGED <<worker, slow, stratum>>
      /\ UNCHANGED <<worker, slow, stratum, fileEpoch, tree, rep, edits>>
      /\ UNCHANGED <<cancels, canceled, slow, edits, flushed>>
  BY DEF repVars, gsVars, editVars
<1>2. ClosureInv'
  BY <1>1, CallsKept
<1>3. TreeInv' /\ RepInv'
  BY <1>1, FilesKept
<1>4. CancelInv'
  BY <1>1 DEF IInv, CancelInv
<1>5. Ahead' => flushed' = 0
  BY <1>1 DEF IInv, FlushInv
<1>6. FlushInv'
  BY <1>5 DEF CallInv, FlushInv
<1> QED BY <1>2, <1>3, <1>4, <1>6 DEF IInv, CallInv

\* The typechecker thread goes from one point to the next and does nothing else.
LEMMA Moves ==
    ASSUME IInv, UNCHANGED <<repVars, gsVars, editVars, errVars, stratum, item, queueVars, worker>>,
           tc' \in Points, ret' \in {"begin", "poll", "last"}, retry' \in BOOLEAN,
           tc \notin {"new", "idle", "index"}, tc' \notin {"new", "idle", "flush"},
           SamePhase,
           tc' = "dequeue" /\ ~retry' => left = 0
    PROVE  IInv'
<1>1. /\ UNCHANGED <<queueVars, worker, stratum, flushed>>
      /\ UNCHANGED <<repVars, gsVars, editVars, flushed, stratum, worker>>
  BY DEF errVars
<1>2. CallInv'
  BY <1>1, CallKept DEF SamePhase
<1>3. Types'
  BY DEF IInv, Types, repVars, gsVars, editVars, errVars, queueVars
<1> QED BY <1>1, <1>2, <1>3, RestKept DEF SamePhase

\* A step that changes nothing.
LEMMA StutterKeeps ==
    ASSUME IInv, UNCHANGED vars
    PROVE  IInv'
<1>1. UNCHANGED <<repVars, gsVars, editVars, errVars, tcVars, queueVars, worker>>
  BY DEF vars
<1>2. Types' /\ LocalInv' /\ QueueInv'
  <2>1. Types'
    BY <1>1 DEF IInv, Types, repVars, gsVars, editVars, errVars, tcVars, queueVars
  <2>2. LocalInv' /\ QueueInv'
    BY <1>1 DEF IInv, LocalInv, LocalState, QueueInv, Calling, tcVars, queueVars
  <2> QED BY <2>1, <2>2
<1>3. Accounted' /\ Apart' /\ FlushInv'
  <2>1. Accounted'
    BY <1>1 DEF IInv, Accounted, Shares, Owed, queueVars
  <2>2. Apart'
    BY <1>1 DEF IInv, Apart, Pushed, FilesOf, tcVars, queueVars
  <2>3. FlushInv'
    BY <1>1 DEF IInv, FlushInv, Flushed, Pushed, Ahead,
       editVars, errVars, tcVars, queueVars
  <2> QED BY <2>1, <2>2, <2>3
<1>4. TreeInv' /\ RepInv' /\ CancelInv' /\ ClosureInv'
  <2>1. TreeInv' /\ CancelInv'
    BY <1>1 DEF IInv, TreeInv, CancelInv, Indexed, Calling,
       FilesOf, repVars, gsVars, editVars, tcVars, queueVars
  <2>2. RepInv'
    BY <1>1 DEF IInv, RepInv, Indexed, Calling, FilesOf,
       repVars, editVars, tcVars
  <2>3. ClosureInv'
    BY <1>1 DEF IInv, ClosureInv, Calls, Ahead, editVars, tcVars
  <2> QED BY <2>1, <2>2, <2>3
<1> QED BY <1>2, <1>3, <1>4 DEF IInv

-----------------------------------------------------------------------------
\* pipeline::typecheck and the preemption points, on the typechecker thread.

\* tryCommitEpoch commits, and the last preemption point follows, or it does not.
LEMMA TryCommitKeeps ==
    ASSUME IInv, TryCommit
    PROVE  IInv'
<1>1. /\ UNCHANGED <<repVars, gsVars, editVars, errVars, stratum, item, queueVars, worker>>
      /\ tc = "commit" /\ tc' \in {"last", "finish"} /\ ret' = ret /\ retry' = retry
  BY DEF TryCommit
<1>2. ret \in {"begin", "poll", "last"} /\ retry \in BOOLEAN
  BY DEF IInv, Types
<1>3. /\ tc' \in Points /\ tc \notin {"new", "idle", "index"}
      /\ tc' \notin {"new", "idle", "flush", "dequeue"}
      /\ SamePhase
  BY <1>1 DEF Points, SamePhase, Calling, Indexed, Ahead
<1> QED BY <1>1, <1>2, <1>3, Moves

\* tryRunScheduledPreemptionTask asks for the lock.
LEMMA PreemptKeeps ==
    ASSUME IInv, Preempt
    PROVE  IInv'
<1>1. /\ UNCHANGED <<repVars, gsVars, editVars, errVars, stratum, item, queueVars, worker>>
      /\ tc \in {"begin", "poll", "last"} /\ tc' = "park" /\ ret' = tc /\ retry' = retry
  BY DEF Preempt, PreemptionPoint
<1>2. ret' \in {"begin", "poll", "last"} /\ retry \in BOOLEAN
  BY <1>1 DEF IInv, Types
<1>3. /\ tc' \in Points /\ tc \notin {"new", "idle", "index"}
      /\ tc' \notin {"new", "idle", "flush", "dequeue"}
      /\ SamePhase
  BY <1>1 DEF Points, SamePhase, Calling, Indexed, Ahead
<1> QED BY <1>1, <1>2, <1>3, Moves

\* A preemption point is passed, with or without a preemption.
LEMMA AfterPreemptionKeeps ==
    ASSUME IInv, EndPreemption \/ NoPreemption
    PROVE  IInv'
<1> DEFINE point == IF tc = "park" THEN ret ELSE tc
<1>1. /\ UNCHANGED <<repVars, gsVars, editVars, errVars, stratum, item, queueVars, worker>>
      /\ tc \in {"park", "begin", "poll", "last"}
      /\ tc' = AfterPreemption(point) /\ ret' = ret /\ retry' = retry
  BY DEF EndPreemption, NoPreemption, PreemptionPoint
<1>2. ret \in {"begin", "poll", "last"} /\ retry \in BOOLEAN
  BY DEF IInv, Types
<1>3. \/ (point = "begin" /\ tc' = "fill") \/ (point = "poll" /\ tc' = "load")
      \/ (point = "last" /\ tc' = "finish")
  BY <1>1, <1>2 DEF AfterPreemption
<1>4. /\ tc' \in Points /\ tc \notin {"new", "idle", "index"}
      /\ tc' \notin {"new", "idle", "flush", "dequeue"}
      /\ SamePhase
  BY <1>1, <1>2, <1>3 DEF Points, SamePhase, Calling, Indexed, Ahead
<1> QED BY <1>1, <1>2, <1>4, Moves

\* wait_pop_timed reads elementsLeftToPush.
LEMMA LoadRetryKeeps ==
    ASSUME IInv, LoadRetry
    PROVE  IInv'
<1>1. /\ UNCHANGED <<repVars, gsVars, editVars, errVars, stratum, item, queueVars, worker>>
      /\ tc = "load" /\ tc' = "dequeue" /\ ret' = ret
      /\ retry' \in BOOLEAN /\ (~retry' => left = 0)
  BY DEF LoadRetry
<1>2. ret \in {"begin", "poll", "last"}
  BY DEF IInv, Types
<1>3. /\ tc' \in Points /\ tc \notin {"new", "idle", "index"}
      /\ tc' \notin {"new", "idle", "flush"}
      /\ SamePhase
  BY <1>1 DEF Points, SamePhase, Calling, Indexed, Ahead
<1> QED BY <1>1, <1>2, <1>3, Moves

\* elementsLeftToPush is zero: no worker holds a file, or a count to push.
LEMMA NothingLeft ==
    ASSUME IInv, left = 0, outq = {}
    PROVE  Quiet
<1>1. PICK share : Shares(share)
  BY DEF IInv, Accounted
<1> DEFINE all == fileq \cup UNION {share[w] : w \in Workers}
<1>2. Cardinality(all) = 0 /\ all \in SUBSET Files
  <2>1. UNION {share[w] : w \in Workers} \in SUBSET Files
    BY <1>1 DEF Shares
  <2> QED BY <1>1, <2>1 DEF IInv, Types, Shares
<1>3. all = {}
  BY <1>2, FilesFinite, FS_EmptySet
<1>4. ASSUME NEW w \in Workers
      PROVE  worker[w].pc \in {"idle", "pop"} /\ worker[w].processed = 0
  <2>1. share[w] = {} /\ Cardinality({}) = 0
    BY <1>3, FS_EmptySet
  <2>2. Owed(worker[w]) = 0
    BY <1>1, <2>1 DEF Shares
  <2> QED BY <2>2, WorkerTypes, SMTT(30) DEF Owed, LocalState, WorkerPoints
<1> QED BY <1>3, <1>4 DEF Quiet

\* wait_pop_timed dequeues a result, or finds none and goes on or ends the loop.
LEMMA DequeueKeeps ==
    ASSUME IInv, Dequeue
    PROVE  IInv'
<1>1. /\ UNCHANGED <<repVars, gsVars, editVars, errVars, ret, stratum, retry, fileq, left, worker>>
      /\ UNCHANGED <<repVars, gsVars, editVars, flushed, stratum, worker>>
      /\ tc = "dequeue" /\ tc \notin {"new", "idle", "index"} /\ Calling /\ Indexed
  BY DEF Dequeue, errVars, Calling, Indexed
<1>2. ASSUME NEW x \in outq, outq' = outq \ {x}, item' = x.file,
             tc' = IF x.file # NoFile THEN "flush" ELSE "poll"
      PROVE  IInv'
  <2>1. /\ tc' \in {"flush", "poll"} /\ (tc' = "flush" => x.file # NoFile)
        /\ tc' \in Points /\ tc' \notin {"new", "idle"} /\ Calling' /\ ~Ahead'
    BY <1>2 DEF Points, Calling, Ahead
  <2>2. Types'
    BY <1>1, <1>2, <2>1 DEF IInv, Types, repVars, gsVars, editVars, errVars
  <2>3. LocalInv' /\ QueueInv'
    BY <1>1, <2>1 DEF IInv, LocalInv, LocalState, QueueInv
  <2>4. Accounted'
    BY <1>1 DEF IInv, Accounted, Shares
  <2>5. Apart'
    <3>1. Apart /\ stratum' = stratum /\ fileq' = fileq /\ worker' = worker
      BY <1>1 DEF IInv
    <3>2. \A f : Pushed(f) => Pushed(f)'
      BY <3>1 DEF Pushed
    <3>3. tc' = "flush" =>
            /\ item' \in FilesOf(stratum)' \ fileq'
            /\ Pushed(item)'
            /\ \A y \in outq' : y.file # item'
      BY <1>2, <2>1, <3>1 DEF Apart, FilesOf, Pushed
    <3>4. \A y \in outq' : y.file # NoFile =>
            /\ y.file \in FilesOf(stratum)' \ fileq'
            /\ Pushed(y.file)'
            /\ \A z \in outq' : z.file = y.file => z = y
      BY <1>2, <3>1, <3>2 DEF Apart, FilesOf
    <3> QED BY <3>1, <3>3, <3>4 DEF Apart, FilesOf
  <2>6. \E done : Flushed(done)'
    <3>1. PICK done : Flushed(done)
      BY DEF IInv, FlushInv
    <3>2. Flushed(done)'
      BY <1>1, <1>2, <3>1 DEF Flushed, Pushed
    <3> QED BY <3>2
  <2>7. CallInv'
    BY <2>3, <2>4, <2>5, <2>6 DEF CallInv
  <2> QED BY <1>1, <2>1, <2>2, <2>7, RestKept
<1>3. ASSUME outq = {}, UNCHANGED <<outq, item>>, tc' = IF KeepsWaiting THEN "poll" ELSE "drained"
      PROVE  IInv'
  <2>1. Types' /\ tc' \in {"poll", "drained"} /\ tc' \notin {"new", "idle"} /\ ~Ahead'
    BY <1>1, <1>3 DEF IInv, Types, repVars, gsVars, editVars, errVars, Ahead, Points
  <2>2. UNCHANGED <<queueVars, worker>> /\ UNCHANGED <<queueVars, worker, stratum, flushed>>
    BY <1>1, <1>3 DEF queueVars
  <2>3. CASE tc' = "poll"
    <3>1. (Calling' <=> Calling) /\ tc' # "flush" /\ tc' # "dequeue"
      BY <1>1, <2>3 DEF Calling
    <3>2. CallInv'
      BY <2>2, <3>1, CallKept
    <3> QED BY <1>1, <2>1, <3>2, RestKept
  <2>4. CASE tc' = "drained"
    <3>1. left = 0 /\ ~Calling'
      BY <1>1, <1>3, <2>4 DEF KeepsWaiting, IInv, QueueInv, Calling
    <3>2. Quiet
      BY <1>3, <3>1, NothingLeft
    <3>3. CallInv'
      BY <2>2, <3>1, <3>2, CallQuiet
    <3> QED BY <1>1, <2>1, <3>3, RestKept
  <2> QED BY <2>1, <2>3, <2>4
<1> QED BY <1>2, <1>3 DEF Dequeue

\* The workers get the closure, and the files of the stratum are theirs to take.
LEMMA FillQueueKeeps ==
    ASSUME IInv, FillQueue
    PROVE  IInv'
<1>1. /\ tc = "fill" /\ tc' = "load" /\ fileq' = FilesOf(stratum) /\ outq' = {}
      /\ left' = Cardinality(FilesOf(stratum))
      /\ UNCHANGED <<repVars, gsVars, editVars, errVars, ret, stratum, retry, item>>
  BY DEF FillQueue
<1>2. ~Calling /\ Indexed /\ Ahead /\ Calling' /\ ~Ahead'
  BY <1>1 DEF Calling, Indexed, Ahead
<1>3. Quiet
  BY <1>2, QuietOutside
<1>4. ASSUME NEW w \in Workers
      PROVE  /\ worker'[w] \in WorkerState /\ worker'[w].queued = worker[w].queued + 1
             /\ worker'[w].pc \in {"idle", "pop"} /\ worker'[w].processed = 0
             /\ worker'[w].file = NoFile
  <2>1. /\ worker[w].file = NoFile /\ worker[w].pc \in {"idle", "pop"}
        /\ worker[w].processed = 0 /\ worker[w].queued + 1 \in Nat /\ worker[w] \in WorkerState
    BY <1>3, WorkerTypes, SMTT(30) DEF LocalState, Quiet
  <2>2. worker'[w] = [worker[w] EXCEPT !.queued = @ + 1, !.mine = FALSE]
    BY DEF FillQueue
  <2> QED BY <2>1, <2>2 DEF WorkerState
<1>5. Types'
  <2>1. worker' \in [Workers -> WorkerState]
    <3>1. worker' = [w \in Workers |-> worker'[w]]
      BY DEF FillQueue
    <3> QED BY <1>4, <3>1
  <2>2. left' \in Int /\ fileq' \in SUBSET Files
    BY <1>1, FilesFinite, SMTT(30) DEF FilesOf
  <2> QED BY <1>1, <2>1, <2>2 DEF IInv, Types, repVars, gsVars, editVars, errVars, Points
<1>6. LocalInv' /\ QueueInv'
  BY <1>1, <1>2, <1>4 DEF LocalInv, LocalState, QueueInv
<1>7. Accounted'
  <2> DEFINE none == [w \in Workers |-> {}]
  <2>1. \A w \in Workers : Owed(worker'[w]) = 0
    BY <1>4, SMT DEF Owed
  <2>2. Cardinality({}) = 0 /\ fileq' \cup UNION {none[w] : w \in Workers} = fileq'
    BY FS_EmptySet
  <2>3. none \in [Workers -> SUBSET Files] /\ \A w \in Workers : none[w] = {}
    OBVIOUS
  <2> HIDE DEF none
  <2>4. Shares(none)'
    BY <1>1, <2>1, <2>2, <2>3 DEF Shares, Owed, FilesOf
  <2> QED BY <2>4 DEF Accounted
<1>8. Apart'
  BY <1>1, <1>4 DEF Apart, FilesOf
<1>9. FlushInv'
  <2>1. flushed' = 0 /\ Cardinality({}) = 0
    BY <1>1, <1>2, FS_EmptySet DEF IInv, FlushInv, errVars
  <2>2. Flushed({})'
    BY <2>1 DEF Flushed
  <2> QED BY <1>2, <2>2 DEF FlushInv
<1>10. TreeInv' /\ RepInv' /\ CancelInv'
  BY <1>1, <1>2, <1>4 DEF IInv, TreeInv, RepInv, CancelInv, FilesOf, Tracked, SanityCheck,
     repVars, gsVars, editVars
<1>11. ClosureInv'
  <2>1. Calls' = Calls + 1 /\ Calls \in Int
    <3> DEFINE base == slow.epoch * (LastStratum + 1) + stratum
    <3>1. slow.epoch \in Nat /\ stratum \in Nat
      BY LastStratumIsNat, MaxEditsIsNat, SMTT(30) DEF IInv, Types, Strata
    <3>2. slow.epoch * (LastStratum + 1) \in Nat
      BY <3>1, LastStratumIsNat, SMTT(30)
    <3>3. base \in Nat
      BY <3>1, <3>2, SMTT(30)
    <3>4. Calls = base + 0 /\ Calls' = base + 1
      BY <1>1, <1>2 DEF Calls, editVars
    <3> HIDE DEF base
    <3> QED BY <3>3, <3>4, SMTT(30)
  <2>2. ASSUME NEW w \in Workers PROVE worker'[w].queued <= Calls'
    <3>1. worker[w].queued <= Calls /\ worker[w].queued \in Nat
      BY WorkerTypes DEF IInv, ClosureInv
    <3> QED BY <1>4, <2>1, <3>1, SMTT(30)
  <2> QED BY <2>2 DEF ClosureInv
<1> QED BY <1>5, <1>6, <1>7, <1>8, <1>9, <1>10, <1>11 DEF IInv

\* pipeline::typecheck returns.
LEMMA LeaveLoopKeeps ==
    ASSUME IInv, LeaveLoop
    PROVE  IInv'
<1>1. /\ tc = "drained" /\ UNCHANGED <<queueVars, worker>>
      /\ \/ (tc' = "commit" /\ stratum' = stratum)
         \/ (tc' = "index" /\ stratum' = stratum + 1 /\ stratum # LastStratum)
      /\ UNCHANGED <<repVars, gsVars, editVars, errq, ret, retry, item>>
  BY DEF LeaveLoop, NextStratum
<1>2. flushed' = 0 \/ (flushed' = flushed /\ slow.cancelable /\ canceled)
  BY DEF LeaveLoop, ResetFlushed
<1>3. ~Calling /\ ~Ahead /\ ~Calling' /\ ~Indexed'
  BY <1>1 DEF Calling, Indexed, Ahead
<1>4. Quiet
  BY <1>3, QuietOutside
<1>5. CallInv'
  BY <1>1, <1>2, <1>3, <1>4, CallQuiet
<1>6. stratum \in Nat /\ stratum' \in Strata /\ slow.epoch \in Nat /\ LastStratum + 1 \in Nat
  BY <1>1, LastStratumIsNat, MaxEditsIsNat, SMTT(30) DEF IInv, Types, Strata
<1>7. Types'
  <2>1. flushed' \in Nat /\ tc' \in Points
    BY <1>1, <1>2, SMTT(30) DEF IInv, Types, Points
  <2> QED BY <1>1, <1>6, <2>1 DEF IInv, Types, repVars, gsVars, editVars, queueVars
<1>8. /\ worker' = worker /\ fileEpoch' = fileEpoch /\ rep' = rep /\ edits' = edits
      /\ slow' = slow /\ canceled' = canceled /\ cancels' = cancels
      /\ tc' \notin {"new", "idle"} /\ tc \notin {"new", "idle"}
  BY <1>1 DEF repVars, gsVars, editVars
<1>9. FlushInv'
  <2>1. Ahead' => tc' = "index"
    BY <1>1 DEF Ahead
  <2> QED BY <1>2, <1>5, <1>8, <2>1 DEF CallInv, FlushInv
<1>10. TreeInv' /\ CancelInv'
  BY <1>3, <1>4, <1>8 DEF IInv, TreeInv, CancelInv, Quiet
<1>11. RepInv'
  BY <1>3, <1>8 DEF IInv, RepInv, Tracked, SanityCheck
<1>12. ClosureInv'
  <2> DEFINE base == slow.epoch * (LastStratum + 1)
  <2>1. base \in Nat
    BY <1>6, SMT
  <2>2. Calls = base + stratum + 1 /\ Calls' = base + stratum' + IF Ahead' THEN 0 ELSE 1
    BY <1>3, <1>8 DEF Calls
  <2>3. (tc' = "index" <=> Ahead') /\ (tc' = "commit" => ~Ahead')
    BY <1>1 DEF Ahead
  <2> HIDE DEF base
  <2>4. Calls' = Calls
    BY <1>1, <1>6, <2>1, <2>2, <2>3, SMTT(30)
  <2> QED BY <1>8, <2>4 DEF IInv, ClosureInv
<1> QED BY <1>5, <1>7, <1>9, <1>10, <1>11, <1>12 DEF IInv, CallInv
=============================================================================
