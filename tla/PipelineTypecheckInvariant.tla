--------------------- MODULE PipelineTypecheckInvariant ---------------------
(***************************************************************************)
(* The inductive invariant of the typecheck runs, for the proofs about them.*)
(***************************************************************************)
EXTENDS PipelineTypecheck

-----------------------------------------------------------------------------
\* The reporter.

\* The files whose errors clientErrorCount counts.
Counted(r) == {f \in Files : r.last[f] >= r.full}

\* A reporter with an exact count, whose reports are of epochs up to epoch.
Tracked(r, epoch) ==
    /\ r \in Reporter
    /\ SanityCheck(r)
    /\ \A f \in Files : /\ r.last[f] <= epoch
                        /\ f >= r.size => r.last[f] = 0 /\ r.count[f] = 0

\* later is r after reports of this epoch.
Forward(r, later, epoch) ==
    /\ later.full = r.full
    /\ later.size >= r.size
    /\ \A f \in Files : /\ later.last[f] >= r.last[f]
                        /\ later.count[f] # r.count[f] => later.last[f] = epoch

-----------------------------------------------------------------------------
\* The typecheck run.

\* The typechecker thread is in the loop of pipeline::typecheck.
Calling == tc \in {"load", "dequeue", "flush", "poll"} \/ (tc = "park" /\ ret = "poll")

\* The files of the stratum are indexed, and the slow path is not done with it.
Indexed == Calling \/ tc \in {"begin", "fill", "drained"} \/ (tc = "park" /\ ret = "begin")

\* The files of the stratum have not been given to the workers yet.
Ahead == tc \in {"new", "index", "begin", "fill"} \/ (tc = "park" /\ ret = "begin")

\* What matters of a worker.
WorkerState == [pc : WorkerPoints, file : Files \cup {NoFile}, processed : Nat,
                mine : BOOLEAN, queued : Nat]

\* The types of the variables, without the bounds on counters.
Types ==
    /\ cancels \in Nat
    /\ truth \in Errors /\ errq \in Errors
    /\ fileEpoch \in [Files -> 0..MaxEdits] /\ tree \in [Files -> 0..MaxEdits]
    /\ undo \in [epoch : {NoUndo} \cup 0..MaxEdits, truth : Errors,
                 fileEpoch : [Files -> 0..MaxEdits]]
    /\ edits \in 0..MaxEdits
    /\ pend \in SUBSET Files
    /\ slow \in [epoch : 0..MaxEdits, start : Strata, relevant : SUBSET Files,
                 cancelable : BOOLEAN]
    /\ canceled \in BOOLEAN /\ retry \in BOOLEAN
    /\ flushed \in Nat
    /\ tc \in Points /\ ret \in {"begin", "poll", "last"}
    /\ stratum \in Strata
    /\ item \in Files \cup {NoFile}
    /\ fileq \in SUBSET Files
    /\ outq \in SUBSET [file : Files \cup {NoFile}, by : Workers]
    /\ left \in Int
    /\ worker \in [Workers -> WorkerState]

\* What a worker holds at each point of the closure, and that none is at work
\* but in the loop.
LocalState(s) ==
    /\ s.pc \in {"idle", "pop"} => s.file = NoFile
    /\ s.pc = "idle" => s.processed = 0
    /\ s.pc \in {"lock", "decide", "check"} => s.file # NoFile
    /\ s.pc \in {"check", "enqueue", "count"} => s.processed > 0
    /\ ~Calling => s.pc \in {"idle", "pop"} /\ s.processed = 0

\* ... of every worker.
LocalInv == \A w \in Workers : LocalState(worker[w])

\* The queues are empty but in the loop.  shouldRetry is only false once there is
\* nothing left to push.
QueueInv ==
    /\ ~Calling => fileq = {} /\ outq = {}
    /\ tc = "dequeue" /\ ~retry => left = 0

\* The files that a worker has popped and not counted on outputq yet.
Owed(s) == s.processed + IF s.pc \in {"lock", "decide"} THEN 1 ELSE 0

\* elementsLeftToPush is the number of files in fileq and of those the workers
\* owe.  Which files these are the code does not keep: share[w] may be theirs.
Shares(share) ==
    /\ share \in [Workers -> SUBSET Files]
    /\ \A w \in Workers : Cardinality(share[w]) = Owed(worker[w]) /\ share[w] \cap fileq = {}
    /\ \A v, w \in Workers : v # w => share[v] \cap share[w] = {}
    /\ left = Cardinality(fileq \cup UNION {share[w] : w \in Workers})

\* Some files account for what is left to push.
Accounted == \E share : Shares(share)

\* No worker is still to enqueue f.
Pushed(f) == \A w \in Workers : worker[w].file = f => worker[w].pc = "count"

\* A file of the stratum is in one place: in fileq, with a worker, in outputq or
\* with the typechecker thread.
Apart ==
    /\ fileq \subseteq FilesOf(stratum)
    /\ \A w \in Workers : worker[w].file # NoFile =>
          /\ worker[w].file \in FilesOf(stratum) \ fileq
          /\ \A v \in Workers : v # w => worker[v].file # worker[w].file
    /\ \A x \in outq : x.file # NoFile =>
          /\ x.file \in FilesOf(stratum) \ fileq
          /\ Pushed(x.file)
          /\ \A y \in outq : y.file = x.file => y = x
    /\ tc = "flush" =>
          /\ item \in FilesOf(stratum) \ fileq
          /\ Pushed(item)
          /\ \A x \in outq : x.file # item

\* The files that were flushed, which is done once with each.
Flushed(done) ==
    /\ done \in SUBSET Files
    /\ Cardinality(done) = flushed
    /\ \A f \in done : /\ f \notin fileq
                       /\ Pushed(f)
                       /\ \A x \in outq : x.file # f
                       /\ tc = "flush" => item # f

\* The count of flushed files is zero before a call, unless the loop over the
\* strata goes on with a canceled run, to end it.
FlushInv ==
    /\ \E done : Flushed(done)
    /\ Ahead => flushed = 0 \/ (slow.cancelable /\ canceled /\ tc = "index")

\* The trees of the stratum, and of the files that workers are to check.
TreeInv ==
    /\ Indexed => \A f \in FilesOf(stratum) :
                     fileEpoch[f] > slow.epoch \/ tree[f] = fileEpoch[f]
    /\ \A w \in Workers : worker[w].pc = "check" => fileEpoch[worker[w].file] <= slow.epoch

\* The reporter, and the entries sortParsedFiles has made.
RepInv ==
    /\ Tracked(rep, edits)
    /\ rep.full = slow.epoch
    /\ slow.epoch <= edits
    /\ tc = "new" => rep = NewReporter
    /\ Indexed => \A f, g \in FilesOf(stratum) : f # g => f < rep.size

\* Only a slow path that is running and may be canceled is, and only once.
CancelInv ==
    /\ canceled => slow.cancelable /\ tc # "idle"
    /\ slow.cancelable => tc # "new"
    /\ cancels <= edits
    /\ slow.cancelable /\ tc # "idle" => cancels < edits

\* The calls of pipeline::typecheck so far, at most.
Calls == slow.epoch * (LastStratum + 1) + stratum + IF Ahead THEN 0 ELSE 1

\* A worker has at most one closure of every call in its queue.
ClosureInv == \A w \in Workers : worker[w].queued <= Calls

\* The inductive invariant.
IInv ==
    /\ Types
    /\ LocalInv /\ QueueInv /\ Accounted /\ Apart /\ FlushInv
    /\ TreeInv /\ RepInv /\ CancelInv /\ ClosureInv
=============================================================================
