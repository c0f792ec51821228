------------------------ MODULE WorkspaceEditsProofs ------------------------
(***************************************************************************)
(* That the typechecker ends up with the files of the indexer, that a slow *)
(* path can be undone for as long as it may be canceled, and that the fast *)
(* path is taken only where it is enough: the invariants of                *)
(* WorkspaceEdits, for any files, versions, edits and number of messages.  *)
(*                                                                         *)
(* The epochs are the key. An edit in the queue stands for an interval of  *)
(* messages, those that were merged into it; Numbered and Gapless say that *)
(* the intervals follow each other and the last edit that was handled, so  *)
(* that merging, promoting and dropping keep `epoch - mergeCount` exact,   *)
(* and a slow path is found to be newer than what the pending update began *)
(* with. Updates says how the two file tables differ while an update is    *)
(* under way, and Undoable that pending, evicted and undo hold what        *)
(* CanBeUndone needs.                                                      *)
(***************************************************************************)
EXTENDS WorkspaceEdits, WellFoundedInduction, TLAPS

\* Most leaves are first-order: Zenon is the backend, SMT where arithmetic or
\* sequences are at work.
USE ZenonT(20)

-----------------------------------------------------------------------------
\* The inductive invariant.

Task == [kind : {"edit", "hover"}, files : FileTable, epoch : Nat, mergeCount : Nat,
         decision : {"none", "Fast", "Slow"}]

IsEdit(task) == task.kind = "edit"

\* The number of the first message that an edit may stand for.
First(task) == task.epoch - task.mergeCount

\* The edits of q stand for messages after lo and up to hi, in their order.
Numbered(q, lo, hi) ==
    /\ \A i \in DOMAIN q : IsEdit(q[i]) => lo < First(q[i]) /\ q[i].epoch <= hi
    /\ \A i, j \in DOMAIN q :
          i < j /\ IsEdit(q[i]) /\ IsEdit(q[j]) => q[i].epoch < First(q[j])

\* ... and for every one of them.
Gapless(q, lo, hi) ==
    \A n \in lo + 1 .. hi : \E i \in DOMAIN q :
        IsEdit(q[i]) /\ First(q[i]) <= n /\ n <= q[i].epoch

\* The number of the last edit that was indexed, or is to be by runSpecial.
Handled == IF deferred = NoEdit THEN pending.epoch ELSE deferred.epoch

\* An edit without the files that are as they were.
NoNoops(changed) == \A f \in Files : changed[f] # None => changed[f] # files[f]

Types ==
    /\ files \in FileTable /\ tcFiles \in FileTable /\ undo \in FileTable
    /\ evicted \in FileTable
    /\ pending.files \in FileTable
    /\ pending.epoch \in Nat /\ pending.editCount \in Nat
    /\ work.files \in FileTable /\ work.epoch \in Nat
    /\ deferred \in Task
    /\ tasks \in Seq(Task)
    /\ nextVersion \in Nat /\ skipped \in BOOLEAN
    /\ main \in {"idle", "await", "fast", "slow"}
    /\ slot \in {"none", "scheduled", "running", "finished"}
    /\ tc \in {"idle", "slow", "run", "raised"}
    /\ processing \in Nat /\ committed \in Nat /\ invalidator \in Nat

\* Where the three threads may be, and what the epochs say of it.
Control ==
    /\ slot = "none" <=> main # "await"
    /\ slot = "scheduled" => tc = "slow"
    /\ slot = "running" => tc # "idle"
    /\ tc \in {"run", "raised"} => slot = "running"
    /\ tc = "idle" <=> ~SlowPathRunning
    /\ tc # "raised" /\ SlowPathWasCanceled =>
          main \in {"fast", "slow"} /\ tc = "slow" /\ deferred = NoEdit
    /\ main = "slow" /\ tc = "slow" /\ deferred = NoEdit => SlowPathWasCanceled
    /\ deferred # NoEdit =>
          /\ main = "slow" /\ IsEdit(deferred)
          /\ ~(Cardinality(Touched(deferred.files)) =< MaxFiles)
          /\ NoNoops(deferred.files)

\* The epochs follow the edits.
Epochs ==
    /\ committed <= processing /\ processing <= pending.epoch
    /\ pending.epoch <= Handled /\ invalidator <= Handled /\ Handled <= nextVersion
    /\ main \in {"fast", "slow"} => processing < Handled
    /\ main \in {"fast", "slow"} /\ deferred = NoEdit =>
          work.epoch = pending.epoch /\ pending.editCount > 0
    /\ Numbered(tasks, Handled, nextVersion)
    /\ ~skipped => Gapless(tasks, Handled, nextVersion)
    /\ SlowPathRunning /\ ~SlowPathWasCanceled /\ ~skipped =>
          processing > pending.epoch - pending.editCount

\* The files the typechecker will have when it runs its next update.
Base == IF tc = "slow" /\ SlowPathWasCanceled THEN undo ELSE tcFiles

\* An update was made and has not been run yet.
Busy == (main \in {"fast", "slow"} /\ deferred = NoEdit) \/ tc = "run"

\* What the update that is about to run does.
Updates ==
    /\ tc # "raised" => files = IF Busy THEN Overlay(Base, work.files) ELSE tcFiles
    /\ main = "fast" \/ tc = "run" => EnoughFor(Base, work)

\* What commitEdit remembers is about the slow path that runs, or is to begin.
Undoable ==
    /\ tc \in {"slow", "run"} /\ (main # "slow" \/ SlowPathWasCanceled) =>
          CanBeUndone(files, pending, evicted, undo)
    /\ main = "slow" /\ tc = "idle" /\ deferred = NoEdit =>
          CanBeUndone(files, pending, evicted, tcFiles)

IInv == Types /\ Control /\ Epochs /\ Updates /\ Undoable

-----------------------------------------------------------------------------
\* The queue.

\* The tasks of r have the kinds and numbers of those of q.
SameNumbers(q, r) ==
    /\ DOMAIN r = DOMAIN q
    /\ \A i \in DOMAIN q : /\ r[i].kind = q[i].kind
                           /\ r[i].epoch = q[i].epoch
                           /\ r[i].mergeCount = q[i].mergeCount

\* What the numbers say does not depend on anything else in a task.
LEMMA SameNumbersKeep ==
    ASSUME NEW q, NEW r, SameNumbers(q, r), NEW lo, NEW hi
    PROVE  /\ Numbered(q, lo, hi) => Numbered(r, lo, hi)
           /\ Gapless(q, lo, hi) => Gapless(r, lo, hi)
BY DEF SameNumbers, Numbered, Gapless, IsEdit, First

\* A decision is one of two.
LEMMA DecisionType ==
    ASSUME NEW task \in Task PROVE Decision(task) \in {"Fast", "Slow"}
BY DEF Decision, PathInQueue, PathOf, Task

\* preemptionPossible leaves decisions in the tasks and nothing else.
LEMMA AskedKeeps ==
    ASSUME NEW q \in Seq(Task)
    PROVE  Asked(q) \in Seq(Task) /\ SameNumbers(q, Asked(q)) /\ Len(Asked(q)) = Len(q)
<1> DEFINE Kept(i) == [q[i] EXCEPT !.decision = Decision(q[i])]
           r == Asked(q)
<1>1. DOMAIN q = 1 .. Len(q) /\ Len(q) \in Nat /\ \A i \in DOMAIN q : q[i] \in Task
  BY SMT
<1>2. ASSUME NEW i \in DOMAIN q
      PROVE  /\ Kept(i) \in Task /\ Kept(i).kind = q[i].kind
             /\ Kept(i).epoch = q[i].epoch /\ Kept(i).mergeCount = q[i].mergeCount
  <2>1. q[i] \in Task /\ Decision(q[i]) \in {"Fast", "Slow"}
    BY <1>1, DecisionType
  <2> QED BY <2>1 DEF Task
<1>3. DOMAIN r = DOMAIN q /\ \A i \in DOMAIN q : r[i] \in {q[i], Kept(i)}
  BY DEF Asked
<1> HIDE DEF r
<1>4. SameNumbers(q, r) /\ \A i \in DOMAIN q : r[i] \in Task
  BY <1>1, <1>2, <1>3 DEF SameNumbers
<1>5. r = [i \in DOMAIN q |-> r[i]]
  BY DEF r, Asked
<1> QED BY <1>1, <1>3, <1>4, <1>5, SMT DEF r

\* The head of the queue is taken.
LEMMA TailKeeps ==
    ASSUME NEW q \in Seq(Task), q # <<>>, NEW lo \in Nat, NEW hi \in Nat, Numbered(q, lo, hi)
    PROVE  /\ Tail(q) \in Seq(Task) /\ q[1] \in Task
           /\ ~IsEdit(q[1]) =>
                /\ Numbered(Tail(q), lo, hi)
                /\ Gapless(q, lo, hi) => Gapless(Tail(q), lo, hi)
           /\ IsEdit(q[1]) =>
                /\ lo < First(q[1]) /\ First(q[1]) <= q[1].epoch /\ q[1].epoch <= hi
                /\ Numbered(Tail(q), q[1].epoch, hi)
                /\ Gapless(q, lo, hi) => First(q[1]) = lo + 1 /\ Gapless(Tail(q), q[1].epoch, hi)
<1> DEFINE r == Tail(q)
<1>1. /\ Len(q) \in Nat /\ Len(q) >= 1 /\ DOMAIN q = 1 .. Len(q)
      /\ r \in Seq(Task) /\ DOMAIN r = 1 .. Len(q) - 1
      /\ \A i \in DOMAIN r : r[i] = q[i + 1]
      /\ \A i \in DOMAIN q : q[i] \in Task
  BY SMT
<1> HIDE DEF r
<1>2. \A i \in DOMAIN q : /\ q[i].epoch \in Nat /\ q[i].mergeCount \in Nat
                          /\ First(q[i]) \in Int /\ First(q[i]) <= q[i].epoch
  BY <1>1, SMTT(30) DEF Task, First
<1>3. /\ \A i \in DOMAIN r : i + 1 \in DOMAIN q /\ i + 1 > 1
      /\ \A i, j \in DOMAIN r : i < j => i + 1 < j + 1
  BY <1>1, SMT
<1> DEFINE Covers(i, n) == IsEdit(q[i]) /\ First(q[i]) <= n /\ n <= q[i].epoch
<1>4. ASSUME NEW n, NEW m \in Nat, NEW i \in DOMAIN q, Covers(i, n), i # 1
      PROVE  \E j \in DOMAIN r : IsEdit(r[j]) /\ First(r[j]) <= n /\ n <= r[j].epoch
  <2>1. i - 1 \in DOMAIN r /\ r[i - 1] = q[i]
    BY <1>1, <1>4, SMTT(30)
  <2> QED BY <2>1, <1>4
<1>5. CASE ~IsEdit(q[1])
  <2>1. Numbered(r, lo, hi)
    BY <1>1, <1>3 DEF Numbered
  <2>2. ASSUME Gapless(q, lo, hi) PROVE Gapless(r, lo, hi)
    <3> SUFFICES ASSUME NEW n \in lo + 1 .. hi
                 PROVE  \E j \in DOMAIN r : IsEdit(r[j]) /\ First(r[j]) <= n /\ n <= r[j].epoch
      BY DEF Gapless
    <3>1. PICK i \in DOMAIN q : Covers(i, n)
      BY <2>2 DEF Gapless
    <3> QED BY <3>1, <1>4, <1>5
  <2> QED BY <2>1, <2>2, <1>1, <1>5, SMT DEF r
<1>6. CASE IsEdit(q[1])
  <2>1. lo < First(q[1]) /\ First(q[1]) <= q[1].epoch /\ q[1].epoch <= hi
    BY <1>1, <1>2, <1>6, SMT DEF Numbered
  <2>2. \A i \in DOMAIN q : IsEdit(q[i]) /\ i # 1 => q[1].epoch < First(q[i])
    <3>1. 1 \in DOMAIN q /\ \A i \in DOMAIN q : i # 1 => 1 < i
      BY <1>1, SMT
    <3> QED BY <3>1, <1>6 DEF Numbered
  <2>3. Numbered(r, q[1].epoch, hi)
    <3>1. \A i \in DOMAIN r : i + 1 # 1
      BY <1>1, SMT
    <3> QED BY <3>1, <1>1, <1>3, <2>2 DEF Numbered
  <2>4. ASSUME Gapless(q, lo, hi) PROVE First(q[1]) = lo + 1
    <3>1. lo + 1 \in lo + 1 .. hi
      BY <1>1, <1>2, <2>1, SMT
    <3>2. PICK i \in DOMAIN q : Covers(i, lo + 1)
      BY <3>1, <2>4 DEF Gapless
    <3>3. i = 1
      BY <3>2, <1>1, <1>2, <2>1, <2>2, SMTT(30)
    <3> QED BY <3>2, <3>3, <1>1, <1>2, <2>1, SMT
  <2>5. ASSUME Gapless(q, lo, hi) PROVE Gapless(r, q[1].epoch, hi)
    <3> SUFFICES ASSUME NEW n \in q[1].epoch + 1 .. hi
                 PROVE  \E j \in DOMAIN r : IsEdit(r[j]) /\ First(r[j]) <= n /\ n <= r[j].epoch
      BY DEF Gapless
    <3>1. q[1].epoch \in Nat /\ n \in lo + 1 .. hi /\ n > q[1].epoch
      BY <1>1, <1>2, <2>1, SMT
    <3>2. PICK i \in DOMAIN q : Covers(i, n)
      BY <3>1, <2>5 DEF Gapless
    <3>3. i # 1
      BY <3>1, <3>2, SMT
    <3> QED BY <3>2, <3>3, <1>4
  <2> QED BY <2>1, <2>3, <2>4, <2>5, <1>1, <1>6, SMT DEF r
<1> QED BY <1>5, <1>6

\* A table over another one is a table.
LEMMA OverlayType ==
    ASSUME NEW a \in FileTable, NEW b \in FileTable PROVE Overlay(a, b) \in FileTable
BY DEF Overlay, FileTable

\* An edit that has taken in a newer one has its number, and stands for no
\* message before those of either.
LEMMA MergeNewerKeeps ==
    ASSUME NEW older \in Task, NEW newer \in Task, NEW m, m = MergeNewer(older, newer)
    PROVE  /\ m \in Task /\ m.kind = older.kind /\ m.epoch = newer.epoch
           /\ older.epoch < First(newer) => First(older) <= First(m)
           /\ First(newer) = older.epoch + 1 => First(m) = First(older)
<1>1. older.files \in FileTable /\ newer.files \in FileTable
  BY DEF Task
<1>2. Overlay(older.files, newer.files) \in FileTable
  BY <1>1, OverlayType
<1>3. /\ older.epoch \in Nat /\ older.mergeCount \in Nat
      /\ newer.epoch \in Nat /\ newer.mergeCount \in Nat
  BY DEF Task
<1>4. ASSUME NEW table \in FileTable, NEW e \in Nat, NEW n \in Nat,
             m = [older EXCEPT !.files = table, !.epoch = e, !.mergeCount = n,
                               !.decision = "none"]
      PROVE  m \in Task /\ m.kind = older.kind /\ m.epoch = e /\ m.mergeCount = n
  BY <1>4 DEF Task
<1>5. /\ m \in Task /\ m.kind = older.kind /\ m.epoch = newer.epoch
      /\ m.mergeCount = older.mergeCount + newer.mergeCount + 1
  <2>1. older.mergeCount + newer.mergeCount + 1 \in Nat
    BY <1>3, SMT
  <2>2. m = [older EXCEPT !.files = Overlay(older.files, newer.files), !.epoch = newer.epoch,
                          !.mergeCount = older.mergeCount + newer.mergeCount + 1,
                          !.decision = "none"]
    BY DEF MergeNewer
  <2> HIDE DEF MergeNewer
  <2> QED BY <2>1, <2>2, <1>2, <1>3, <1>4
<1> QED BY <1>3, <1>5, SMT DEF First

\* In a queue without gaps, the edit with the next number follows.
LEMMA NextEdit ==
    ASSUME NEW q \in Seq(Task), NEW lo \in Nat, NEW hi \in Nat,
           Numbered(q, lo, hi), Gapless(q, lo, hi),
           NEW i \in DOMAIN q, IsEdit(q[i]), q[i].epoch < hi
    PROVE  \E j \in DOMAIN q : i < j /\ IsEdit(q[j]) /\ First(q[j]) = q[i].epoch + 1
<1>1. \A j \in DOMAIN q : /\ j \in Nat /\ q[j].epoch \in Nat /\ First(q[j]) \in Int
                          /\ First(q[j]) <= q[j].epoch
  <2>1. \A j \in DOMAIN q : j \in Nat /\ q[j] \in Task
    BY SMT
  <2> QED BY <2>1, SMTT(30) DEF Task, First
<1> DEFINE n == q[i].epoch + 1
<1>2. lo < First(q[i])
  BY DEF Numbered
<1>3. n \in lo + 1 .. hi
  BY <1>1, <1>2, SMT
<1>4. PICK j \in DOMAIN q : IsEdit(q[j]) /\ First(q[j]) <= n /\ n <= q[j].epoch
  BY <1>3 DEF Gapless
<1>5. /\ i < j => q[i].epoch < First(q[j])
      /\ j < i => q[j].epoch < First(q[i])
  BY <1>4 DEF Numbered
<1>6. i < j
  BY <1>1, <1>4, <1>5, SMTT(30)
<1> QED BY <1>1, <1>4, <1>5, <1>6, SMT

\* mergeFileChanges and push_back: the new edit is the last one, or in it.
LEMMA EnqueueKeeps ==
    ASSUME tasks \in Seq(Task), NEW edit \in Task, IsEdit(edit), NEW lo \in Nat, NEW hi \in Nat,
           lo <= hi, edit.epoch = hi + 1, edit.mergeCount = 0, Numbered(tasks, lo, hi)
    PROVE  /\ Enqueue(edit) \in Seq(Task)
           /\ Numbered(Enqueue(edit), lo, hi + 1)
           /\ Gapless(tasks, lo, hi) => Gapless(Enqueue(edit), lo, hi + 1)
<1> DEFINE n == Len(tasks)
           q == tasks
           r == Enqueue(edit)
<1>1. n \in Nat /\ DOMAIN q = 1 .. n /\ \A i \in DOMAIN q : q[i] \in Task
  BY SMT
<1>2. \A i \in DOMAIN q : /\ q[i].epoch \in Nat /\ q[i].mergeCount \in Nat
                          /\ First(q[i]) \in Int /\ First(q[i]) <= q[i].epoch
  BY <1>1, SMT DEF Task, First
<1>3. First(edit) = hi + 1
  BY SMT DEF First
<1>4. /\ \A i \in DOMAIN q : IsEdit(q[i]) => lo < First(q[i]) /\ q[i].epoch <= hi
      /\ \A i, j \in DOMAIN q : i < j /\ IsEdit(q[i]) /\ IsEdit(q[j]) => q[i].epoch < First(q[j])
  BY DEF Numbered
<1>5. CASE tasks # <<>> /\ IsEdit(tasks[n])
  <2> DEFINE m == MergeNewer(q[n], edit)
  <2>1. r = [q EXCEPT ![n] = m] /\ n \in DOMAIN q /\ n >= 1
    BY <1>1, <1>5, SMT DEF Enqueue, IsEdit
  <2>2. /\ m \in Task /\ m.kind = q[n].kind /\ m.epoch = hi + 1
        /\ q[n].epoch < First(edit) => First(q[n]) <= First(m)
        /\ First(edit) = q[n].epoch + 1 => First(m) = First(q[n])
    BY <1>1, <2>1, MergeNewerKeeps, SMT
  <2>3. q[n].epoch < First(edit) /\ First(m) \in Int
    <3>1. q[n].epoch < First(edit)
      BY <1>2, <1>3, <1>4, <1>5, <2>1, SMT
    <3>2. ASSUME NEW task \in Task PROVE First(task) \in Int
      BY SMT DEF First, Task
    <3> QED BY <3>1, <3>2, <2>2
  <2> HIDE DEF m
  <2>4. /\ r \in Seq(Task) /\ DOMAIN r = DOMAIN q /\ r[n] = m
        /\ \A i \in DOMAIN q : i # n => r[i] = q[i] /\ i < n
    BY <1>1, <2>1, <2>2, SMT
  <2> HIDE DEF r
  <2>5. IsEdit(m)
    BY <1>5, <2>2 DEF IsEdit
  <2>6. \A i \in DOMAIN r : IsEdit(r[i]) => lo < First(r[i]) /\ r[i].epoch <= hi + 1
    <3> TAKE i \in DOMAIN r
    <3>1. CASE i = n
      BY <3>1, <1>2, <1>4, <1>5, <2>1, <2>2, <2>3, <2>4, SMTT(30)
    <3>2. CASE i # n
      BY <3>2, <1>2, <1>4, <2>4, SMT
    <3> QED BY <3>1, <3>2
  <2>7. ASSUME NEW i \in DOMAIN r, NEW j \in DOMAIN r, i < j, IsEdit(r[i]), IsEdit(r[j])
        PROVE  r[i].epoch < First(r[j])
    <3>1. r[i] = q[i] /\ i # n
      BY <1>1, <2>4, <2>7, SMT
    <3>2. q[i].epoch < First(q[j])
      BY <1>4, <1>5, <2>4, <2>7, <3>1
    <3>3. CASE j = n
      BY <3>1, <3>2, <3>3, <1>2, <2>1, <2>2, <2>3, <2>4, SMTT(30)
    <3>4. CASE j # n
      BY <3>1, <3>2, <3>4, <2>4
    <3> QED BY <3>3, <3>4
  <2>8. ASSUME Gapless(q, lo, hi) PROVE Gapless(r, lo, hi + 1)
    <3>1. q[n].epoch = hi
      <4>1. SUFFICES ASSUME q[n].epoch < hi PROVE FALSE
        BY <1>2, <1>4, <1>5, <2>1, SMT
      <4>2. \E j \in DOMAIN q : n < j
        BY <1>5, <2>1, <2>8, <4>1, NextEdit
      <4> QED BY <4>2, <1>1, SMT
    <3>2. First(m) = First(q[n])
      BY <3>1, <1>3, <2>2
    <3> SUFFICES ASSUME NEW k \in lo + 1 .. hi + 1
                 PROVE  \E i \in DOMAIN r : IsEdit(r[i]) /\ First(r[i]) <= k /\ k <= r[i].epoch
      BY DEF Gapless
    <3>3. CASE k = hi + 1
      <4>1. n \in DOMAIN r /\ First(m) <= k /\ k <= m.epoch
        BY <3>1, <3>2, <3>3, <1>2, <2>1, <2>2, <2>4, SMT
      <4> QED BY <4>1, <2>4, <2>5
    <3>4. CASE k # hi + 1
      <4>1. k \in lo + 1 .. hi
        BY <3>4, SMT
      <4>2. PICK i \in DOMAIN q : IsEdit(q[i]) /\ First(q[i]) <= k /\ k <= q[i].epoch
        BY <2>8, <4>1 DEF Gapless
      <4>3. CASE i = n
        BY <4>1, <4>2, <4>3, <3>2, <2>2, <2>4, <2>5, SMT
      <4>4. CASE i # n
        BY <4>2, <4>4, <2>4
      <4> QED BY <4>3, <4>4
    <3> QED BY <3>3, <3>4
  <2>9. Numbered(r, lo, hi + 1)
    BY <2>6, <2>7 DEF Numbered
  <2> QED BY <2>4, <2>8, <2>9 DEF r
<1>6. CASE ~(tasks # <<>> /\ IsEdit(tasks[n]))
  <2>1. r = Append(q, edit)
    BY <1>6 DEF Enqueue, IsEdit
  <2>2. /\ r \in Seq(Task) /\ DOMAIN r = 1 .. n + 1 /\ r[n + 1] = edit
        /\ \A i \in DOMAIN q : r[i] = q[i] /\ i \in DOMAIN r
        /\ \A i \in DOMAIN r : i # n + 1 => i \in DOMAIN q /\ i < n + 1
    BY <1>1, <2>1, SMT
  <2> HIDE DEF r
  <2>3. \A i \in DOMAIN r : IsEdit(r[i]) => lo < First(r[i]) /\ r[i].epoch <= hi + 1
    <3> TAKE i \in DOMAIN r
    <3>1. CASE i = n + 1
      BY <3>1, <1>3, <2>2, SMT
    <3>2. CASE i # n + 1
      BY <3>2, <1>2, <1>4, <2>2, SMT
    <3> QED BY <3>1, <3>2
  <2>4. ASSUME NEW i \in DOMAIN r, NEW j \in DOMAIN r, i < j, IsEdit(r[i]), IsEdit(r[j])
        PROVE  r[i].epoch < First(r[j])
    <3>1. r[i] = q[i] /\ i \in DOMAIN q
      BY <1>1, <2>2, <2>4, SMT
    <3>2. CASE j = n + 1
      BY <3>1, <3>2, <1>2, <1>3, <1>4, <2>2, <2>4, SMT
    <3>3. CASE j # n + 1
      BY <3>1, <3>3, <1>4, <2>2, <2>4
    <3> QED BY <3>2, <3>3
  <2>5. ASSUME Gapless(q, lo, hi) PROVE Gapless(r, lo, hi + 1)
    <3> SUFFICES ASSUME NEW k \in lo + 1 .. hi + 1
                 PROVE  \E i \in DOMAIN r : IsEdit(r[i]) /\ First(r[i]) <= k /\ k <= r[i].epoch
      BY DEF Gapless
    <3>1. CASE k = hi + 1
      <4>1. n + 1 \in DOMAIN r
        BY <1>1, <2>2, SMT
      <4> QED BY <3>1, <4>1, <1>3, <2>2, SMTT(30)
    <3>2. CASE k # hi + 1
      <4>1. k \in lo + 1 .. hi
        BY <3>2, SMT
      <4>2. PICK i \in DOMAIN q : IsEdit(q[i]) /\ First(q[i]) <= k /\ k <= q[i].epoch
        BY <2>5, <4>1 DEF Gapless
      <4> QED BY <4>2, <2>2
    <3> QED BY <3>1, <3>2
  <2>6. Numbered(r, lo, hi + 1)
    BY <2>3, <2>4 DEF Numbered
  <2> QED BY <2>2, <2>5, <2>6 DEF r
<1> QED BY <1>5, <1>6

\* A request changes none of the numbers.
LEMMA AppendHoverKeeps ==
    ASSUME NEW q \in Seq(Task), NEW hover \in Task, ~IsEdit(hover),
           NEW lo \in Nat, NEW hi \in Nat, Numbered(q, lo, hi)
    PROVE  /\ Append(q, hover) \in Seq(Task)
           /\ Numbered(Append(q, hover), lo, hi)
           /\ Gapless(q, lo, hi) => Gapless(Append(q, hover), lo, hi)
<1> DEFINE r == Append(q, hover)
<1>1. /\ r \in Seq(Task)
      /\ \A i \in DOMAIN q : r[i] = q[i] /\ i \in DOMAIN r
      /\ \A i \in DOMAIN r : i \in DOMAIN q \/ r[i] = hover
  BY SMT
<1> HIDE DEF r
<1>2. Numbered(r, lo, hi)
  BY <1>1 DEF Numbered
<1>3. Gapless(q, lo, hi) => Gapless(r, lo, hi)
  BY <1>1 DEF Gapless
<1> QED BY <1>1, <1>2, <1>3 DEF r

\* So does a message that was no edit, but for the gap.
LEMMA LaterNumbered ==
    ASSUME NEW q \in Seq(Task), NEW lo \in Nat, NEW hi \in Nat, Numbered(q, lo, hi)
    PROVE  Numbered(q, lo, hi + 1)
<1>1. \A i \in DOMAIN q : q[i].epoch \in Nat
  <2>1. \A i \in DOMAIN q : q[i] \in Task
    BY SMT
  <2> QED BY <2>1 DEF Task
<1>2. \A e \in Nat : e <= hi => e <= hi + 1
  BY SMT
<1> QED BY <1>1, <1>2 DEF Numbered

-----------------------------------------------------------------------------
\* Edits that are moved to the front.

\* A set of numbers that has 0 and the successor of each of its members.
LEMMA Induction ==
    ASSUME NEW S, 0 \in S, \A n \in Nat : n \in S => n + 1 \in S
    PROVE  \A n \in Nat : n \in S
<1> SUFFICES ASSUME Nat \ S # {} PROVE FALSE
  OBVIOUS
<1> DEFINE R == OpToRel(<, Nat)
<1>1. IsWellFoundedOn(R, Nat)
  BY NatLessThanWellFounded
<1>2. \A x, y \in Nat : y < x => <<y, x>> \in R
  BY DEF OpToRel
<1> HIDE DEF R
<1>3. PICK x \in Nat \ S : \A y \in Nat \ S : ~(<<y, x>> \in R)
  <2>1. Nat \ S \subseteq Nat
    OBVIOUS
  <2> QED BY <1>1, <2>1, WFMin
<1>4. x - 1 \in Nat \ S /\ x - 1 < x
  BY <1>3, SMT
<1> QED BY <1>2, <1>3, <1>4

\* What is left of a sequence after some of it.
LEMMA RestOf ==
    ASSUME NEW S, NEW q \in Seq(S), NEW m \in Nat, m <= Len(q),
           NEW r, r = SubSeq(q, m + 1, Len(q))
    PROVE  /\ r \in Seq(S) /\ Len(r) = Len(q) - m
           /\ \A i \in 1 .. Len(q) - m : r[i] = q[i + m]
BY SMT

\* One sequence after another.
LEMMA ConcatOf ==
    ASSUME NEW S, NEW p \in Seq(S), NEW q \in Seq(S), NEW r, r = p \o q
    PROVE  /\ r \in Seq(S) /\ DOMAIN r = 1 .. Len(p) + Len(q)
           /\ \A i \in DOMAIN p : r[i] = p[i]
           /\ \A i \in DOMAIN r : i \notin DOMAIN p => r[i] = q[i - Len(p)]
BY SMT

\* The queues that Promoted goes through.
Promotes(p, q) ==
    p = [i \in 0 .. Len(q) |-> IF i = 0 THEN <<>> ELSE Promote(p[i - 1], q[i])]

\* There are such queues.
LEMMA PromotesExists ==
    ASSUME NEW q \in Seq(Task) PROVE \E p : Promotes(p, q)
<1> DEFINE Runs(k) == \E p : p = [i \in 0 .. k |-> IF i = 0 THEN <<>> ELSE Promote(p[i - 1], q[i])]
           N == {k \in Nat : Runs(k)}
<1>1. Runs(0)
  <2> DEFINE p == [i \in 0 .. 0 |-> <<>>]
  <2>1. p = [i \in 0 .. 0 |-> IF i = 0 THEN <<>> ELSE Promote(p[i - 1], q[i])]
    BY SMT
  <2> QED BY <2>1
<1>2. ASSUME NEW k \in Nat, Runs(k) PROVE Runs(k + 1)
  <2>1. PICK p : p = [i \in 0 .. k |-> IF i = 0 THEN <<>> ELSE Promote(p[i - 1], q[i])]
    BY <1>2
  <2> DEFINE r == [i \in 0 .. k + 1 |-> IF i <= k THEN p[i] ELSE Promote(p[k], q[k + 1])]
  <2>2. \A i \in 0 .. k + 1 : r[i] = IF i = 0 THEN <<>> ELSE Promote(r[i - 1], q[i])
    <3> TAKE i \in 0 .. k + 1
    <3>1. CASE i <= k
      BY <2>1, <3>1, SMT
    <3>2. CASE i = k + 1
      BY <3>2, SMT
    <3> QED BY <3>1, <3>2, SMT
  <2>3. r = [i \in 0 .. k + 1 |-> IF i = 0 THEN <<>> ELSE Promote(r[i - 1], q[i])]
    BY <2>2
  <2> QED BY <2>3
<1>3. 0 \in N /\ \A k \in Nat : k \in N => k + 1 \in N
  <2> HIDE DEF Runs
  <2> QED BY <1>1, <1>2, SMT
<1>4. \A k \in Nat : k \in N
  <2> HIDE DEF N
  <2> QED BY <1>3, Induction
<1>5. Len(q) \in N
  BY <1>4, SMT
<1> QED BY <1>5 DEF Promotes

\* p is the queue after the first n tasks of q were promoted: its edit, if it
\* has one, is at its head and has the number of the last of theirs.
Leads(p, q, n, lo) ==
    /\ p \in Seq(Task)
    /\ \A i \in DOMAIN p : IsEdit(p[i]) => i = 1
    /\ p # <<>> /\ IsEdit(p[1]) =>
          lo < First(p[1]) /\ \E j \in 1 .. n : IsEdit(q[j]) /\ p[1].epoch = q[j].epoch
    /\ \A j \in 1 .. n : IsEdit(q[j]) =>
          p # <<>> /\ IsEdit(p[1]) /\ q[j].epoch <= p[1].epoch

\* ... and stands for the messages of them all.
Covers(p, q, n) == \A j \in 1 .. n : IsEdit(q[j]) => First(p[1]) <= First(q[j])

\* One more task is promoted.
LEMMA PromoteKeeps ==
    ASSUME NEW q \in Seq(Task), NEW lo \in Nat, NEW hi \in Nat, Numbered(q, lo, hi),
           NEW n \in Nat, n + 1 \in DOMAIN q, NEW p, Leads(p, q, n, lo),
           NEW r, r = Promote(p, q[n + 1])
    PROVE  /\ Leads(r, q, n + 1, lo)
           /\ Gapless(q, lo, hi) /\ Covers(p, q, n) => Covers(r, q, n + 1)
<1> DEFINE task == q[n + 1]
<1>1. \A i \in DOMAIN q : /\ i \in Nat /\ q[i] \in Task /\ q[i].epoch \in Nat
                          /\ First(q[i]) \in Int /\ First(q[i]) <= q[i].epoch
  <2>1. \A j \in DOMAIN q : j \in Nat /\ q[j] \in Task
    BY SMT
  <2> QED BY <2>1, SMTT(30) DEF Task, First
<1>2. /\ \A i \in DOMAIN q : IsEdit(q[i]) => lo < First(q[i]) /\ q[i].epoch <= hi
      /\ \A i, j \in DOMAIN q : i < j /\ IsEdit(q[i]) /\ IsEdit(q[j]) => q[i].epoch < First(q[j])
  BY DEF Numbered
<1>3. /\ \A j \in 1 .. n : j \in DOMAIN q /\ j < n + 1 /\ j \in 1 .. n + 1
      /\ \A j \in 1 .. n + 1 : j \in 1 .. n \/ j = n + 1
      /\ n + 1 \in 1 .. n + 1
  BY SMT
<1>4. p \in Seq(Task) /\ task \in Task
  BY <1>1 DEF Leads
<1>5. CASE ~IsEdit(task)
  <2>1. r = Append(p, task)
    BY <1>5 DEF Promote, IsEdit
  <2>2. /\ r \in Seq(Task) /\ r # <<>>
        /\ p # <<>> => r[1] = p[1]
        /\ p = <<>> => r[1] = task
        /\ \A i \in DOMAIN r : (i \in DOMAIN p /\ r[i] = p[i]) \/ r[i] = task
    BY <1>4, <2>1, SMTT(30)
  <2>3. \A i \in DOMAIN r : IsEdit(r[i]) => i = 1
    BY <1>5, <2>2 DEF Leads
  <2>4. r # <<>> /\ IsEdit(r[1]) =>
          lo < First(r[1]) /\ \E j \in 1 .. n + 1 : IsEdit(q[j]) /\ r[1].epoch = q[j].epoch
    BY <1>3, <1>5, <2>2 DEF Leads
  <2>5. \A j \in 1 .. n + 1 : IsEdit(q[j]) =>
          p # <<>> /\ r # <<>> /\ r[1] = p[1] /\ IsEdit(r[1]) /\ q[j].epoch <= r[1].epoch
    BY <1>3, <1>5, <2>2 DEF Leads
  <2>6. Leads(r, q, n + 1, lo)
    BY <2>2, <2>3, <2>4, <2>5 DEF Leads
  <2>7. Covers(p, q, n) => Covers(r, q, n + 1)
    BY <1>3, <1>5, <2>5 DEF Covers
  <2> QED BY <2>6, <2>7
<1>6. CASE IsEdit(task) /\ p # <<>> /\ IsEdit(p[1])
  <2>1. r = [p EXCEPT ![1] = MergeNewer(p[1], task)]
    BY <1>6 DEF Promote, IsEdit
  <2> DEFINE m == MergeNewer(p[1], task)
  <2>2. PICK k \in 1 .. n : IsEdit(q[k]) /\ p[1].epoch = q[k].epoch
    BY <1>6 DEF Leads
  <2>3. /\ p[1] \in Task /\ p[1].epoch \in Nat /\ First(p[1]) \in Int
        /\ First(p[1]) <= p[1].epoch /\ lo < First(p[1])
    <3>1. p[1] \in Task
      BY <1>4, <1>6, SMT
    <3>2. p[1].epoch \in Nat /\ First(p[1]) \in Int /\ First(p[1]) <= p[1].epoch
      BY <3>1, SMTT(30) DEF Task, First
    <3> QED BY <3>1, <3>2, <1>6 DEF Leads
  <2>4. p[1].epoch < First(task)
    BY <1>2, <1>3, <1>6, <2>2
  <2>5. /\ m \in Task /\ m.kind = p[1].kind /\ m.epoch = task.epoch
        /\ First(p[1]) <= First(m)
        /\ First(task) = p[1].epoch + 1 => First(m) = First(p[1])
    BY <1>4, <2>3, <2>4, MergeNewerKeeps, SMT
  <2>6. First(m) \in Int
    BY <2>5, SMT DEF Task, First
  <2> HIDE DEF m
  <2>7. /\ r \in Seq(Task) /\ r # <<>> /\ r[1] = m
        /\ \A i \in DOMAIN r : i = 1 \/ (i \in DOMAIN p /\ r[i] = p[i])
    BY <1>4, <1>6, <2>1, <2>5, SMT DEF m
  <2>8. IsEdit(r[1])
    BY <1>6, <2>5, <2>7 DEF IsEdit
  <2>9. \A i \in DOMAIN r : IsEdit(r[i]) => i = 1
    BY <2>7 DEF Leads
  <2>10. lo < First(r[1]) /\ r[1].epoch = task.epoch
    BY <2>3, <2>5, <2>6, <2>7, SMT
  <2>11. \A j \in 1 .. n + 1 : IsEdit(q[j]) => q[j].epoch <= r[1].epoch
    <3> SUFFICES ASSUME NEW j \in 1 .. n + 1, IsEdit(q[j]) PROVE q[j].epoch <= r[1].epoch
      OBVIOUS
    <3>1. CASE j = n + 1
      BY <3>1, <1>1, <2>10, SMT
    <3>2. CASE j \in 1 .. n
      <4>1. q[j].epoch < First(task)
        BY <3>2, <1>2, <1>3, <1>6
      <4>2. j \in DOMAIN q
        BY <3>2, <1>3
      <4> QED BY <4>1, <4>2, <1>1, <2>10, SMTT(30)
    <3> QED BY <3>1, <3>2, SMT
  <2>12. Leads(r, q, n + 1, lo)
    BY <1>3, <1>6, <2>7, <2>8, <2>9, <2>10, <2>11 DEF Leads
  <2>13. ASSUME Gapless(q, lo, hi), Covers(p, q, n) PROVE Covers(r, q, n + 1)
    <3>1. /\ task.epoch \in Nat /\ First(task) \in Int /\ First(task) <= task.epoch
          /\ task.epoch <= hi
      BY <1>1, <1>2, <1>6
    <3>2. k \in DOMAIN q /\ q[k].epoch < hi
      BY <3>1, <1>3, <2>2, <2>3, <2>4, SMTT(30)
    <3>3. PICK j \in DOMAIN q : k < j /\ IsEdit(q[j]) /\ First(q[j]) = q[k].epoch + 1
      BY <2>2, <2>13, <3>2, NextEdit
    <3>4. j \notin 1 .. n
      <4>1. j \in 1 .. n => q[j].epoch <= p[1].epoch
        BY <3>3 DEF Leads
      <4> QED BY <4>1, <1>1, <2>2, <3>3, SMTT(30)
    <3>5. ~(n + 1 < j)
      <4>1. n + 1 < j => task.epoch < First(q[j])
        BY <3>3, <1>2, <1>6
      <4> QED BY <4>1, <3>1, <2>2, <2>3, <2>4, <3>3, SMTT(30)
    <3>6. j = n + 1
      BY <3>3, <3>4, <3>5, SMT
    <3>7. First(r[1]) = First(p[1]) /\ First(p[1]) <= First(task)
      BY <3>3, <3>6, <2>2, <2>3, <2>4, <2>5, <2>7, <1>1, SMTT(30)
    <3> QED BY <3>7, <1>3, <2>13 DEF Covers
  <2> QED BY <2>12, <2>13
<1>7. CASE IsEdit(task) /\ ~(p # <<>> /\ IsEdit(p[1]))
  <2>1. r = <<task>> \o p
    BY <1>7 DEF Promote, IsEdit
  <2>2. /\ r \in Seq(Task) /\ r # <<>> /\ r[1] = task
        /\ \A i \in DOMAIN r : i = 1 \/ (i - 1 \in DOMAIN p /\ r[i] = p[i - 1])
    BY <1>4, <2>1, SMT
  <2>3. \A i \in DOMAIN p : ~IsEdit(p[i])
    <3>1. \A i \in DOMAIN p : p # <<>>
      BY <1>4, SMT
    <3> QED BY <3>1, <1>7 DEF Leads
  <2>4. \A i \in DOMAIN r : IsEdit(r[i]) => i = 1
    BY <2>2, <2>3
  <2>5. \A j \in 1 .. n : ~IsEdit(q[j])
    BY <1>7 DEF Leads
  <2>6. lo < First(r[1]) /\ IsEdit(r[1]) /\ r[1].epoch <= r[1].epoch /\ First(r[1]) <= First(r[1])
    BY <1>1, <1>2, <1>7, <2>2, SMT
  <2>7. Leads(r, q, n + 1, lo)
    BY <1>3, <1>7, <2>2, <2>4, <2>5, <2>6 DEF Leads
  <2>8. Covers(r, q, n + 1)
    BY <1>3, <2>2, <2>5, <2>6 DEF Covers
  <2> QED BY <2>7, <2>8
<1> QED BY <1>5, <1>6, <1>7

\* The edits up to the first task that blocks are moved to the front.
LEMMA PromotedKeeps ==
    ASSUME NEW q \in Seq(Task), NEW lo \in Nat, NEW hi \in Nat, Numbered(q, lo, hi),
           \E i \in DOMAIN q : Blocks(q, i)
    PROVE  /\ Promoted(q) \in Seq(Task)
           /\ Numbered(Promoted(q), lo, hi)
           /\ Gapless(q, lo, hi) => Gapless(Promoted(q), lo, hi)
<1> DEFINE last == CHOOSE i \in DOMAIN q : Blocks(q, i)
           fcn == CHOOSE p : Promotes(p, q)
           p == fcn[last]
           after == SubSeq(q, last + 1, Len(q))
           r == Promoted(q)
<1>1. last \in DOMAIN q
  OBVIOUS
<1> HIDE DEF last
<1>2. r = p \o after
  BY DEF Promoted, Promotes, last
<1>3. Promotes(fcn, q)
  BY PromotesExists
<1> HIDE DEF fcn
<1>4. /\ fcn[0] = <<>>
      /\ \A i \in Nat : i + 1 \in DOMAIN q => fcn[i + 1] = Promote(fcn[i], q[i + 1])
  BY <1>3, SMT DEF Promotes
<1> DEFINE Good(n) == Leads(fcn[n], q, n, lo) /\ (Gapless(q, lo, hi) => Covers(fcn[n], q, n))
           N == {n \in Nat : n <= Len(q) => Good(n)}
<1>5. 0 \in N
  <2>1. /\ <<>> \in Seq(Task) /\ DOMAIN <<>> = {}
        /\ \A j \in 1 .. 0 : FALSE
    BY SMT
  <2>2. Good(0)
    BY <2>1, <1>4 DEF Leads, Covers
  <2> QED BY <2>2
<1>6. ASSUME NEW n \in Nat, n \in N PROVE n + 1 \in N
  <2>1. CASE n + 1 <= Len(q)
    <3>1. n + 1 \in DOMAIN q /\ Good(n)
      BY <1>6, <2>1, SMT
    <3>2. Good(n + 1)
      BY <1>4, <3>1, PromoteKeeps
    <3> QED BY <3>2, SMT
  <2>2. CASE ~(n + 1 <= Len(q))
    BY <2>2, SMT
  <2> QED BY <2>1, <2>2
<1>7. Good(last)
  <2>1. last \in Nat /\ last <= Len(q)
    BY <1>1, SMT
  <2>2. last \in N
    <3> HIDE DEF N
    <3> QED BY <1>5, <1>6, <2>1, Induction
  <2> HIDE DEF Good
  <2> QED BY <2>1, <2>2
<1> HIDE DEF p
<1>8. /\ Leads(p, q, last, lo)
      /\ Gapless(q, lo, hi) => Covers(p, q, last)
  BY <1>7 DEF p
<1>9. p \in Seq(Task) /\ \A i \in DOMAIN p : IsEdit(p[i]) => i = 1
  BY <1>8 DEF Leads
<1> DEFINE k == Len(p)
           At(i) == i - k + last
<1>10. /\ last \in Nat /\ last >= 1 /\ last <= Len(q) /\ Len(q) \in Nat /\ k \in Nat
       /\ DOMAIN q = 1 .. Len(q) /\ DOMAIN p = 1 .. k
  BY <1>1, <1>9, SMT
<1>11. /\ after \in Seq(Task) /\ Len(after) = Len(q) - last
       /\ \A i \in 1 .. Len(q) - last : after[i] = q[i + last]
  <2>1. last \in Nat /\ last <= Len(q)
    BY <1>10
  <2>2. after = SubSeq(q, last + 1, Len(q))
    OBVIOUS
  <2> HIDE DEF after
  <2> QED BY <2>1, <2>2, RestOf, SMT
<1> HIDE DEF after
<1>12. /\ r \in Seq(Task) /\ DOMAIN r = 1 .. k + (Len(q) - last)
       /\ \A i \in DOMAIN p : r[i] = p[i]
       /\ \A i \in DOMAIN r : i \notin DOMAIN p =>
             At(i) \in DOMAIN q /\ At(i) > last /\ r[i] = q[At(i)]
  <2> HIDE DEF p
  <2>1. /\ r \in Seq(Task) /\ DOMAIN r = 1 .. k + Len(after)
        /\ \A i \in DOMAIN p : r[i] = p[i]
        /\ \A i \in DOMAIN r : i \notin DOMAIN p => r[i] = after[i - k]
    BY <1>2, <1>9, <1>11, ConcatOf, SMTT(30)
  <2> HIDE DEF k
  <2>2. ASSUME NEW i \in DOMAIN r, i \notin DOMAIN p
        PROVE  /\ At(i) \in DOMAIN q /\ At(i) > last
               /\ i - k \in 1 .. Len(q) - last /\ At(i) = (i - k) + last
    BY <2>1, <2>2, <1>10, <1>11, SMTT(30)
  <2> QED BY <2>1, <2>2, <1>11
<1>13. \A i \in DOMAIN q : /\ q[i].epoch \in Nat /\ First(q[i]) \in Int
                           /\ First(q[i]) <= q[i].epoch
  <2>1. \A j \in DOMAIN q : q[j] \in Task
    BY SMT
  <2> QED BY <2>1, SMT DEF Task, First
<1>14. ASSUME NEW i \in DOMAIN p, IsEdit(r[i])
       PROVE  /\ i = 1 /\ r[i] = p[1] /\ lo < First(p[1])
              /\ p # <<>> /\ IsEdit(p[1])
              /\ \E j \in DOMAIN q : j <= last /\ IsEdit(q[j]) /\ p[1].epoch = q[j].epoch
  <2>1. i = 1 /\ r[i] = p[1] /\ p # <<>> /\ IsEdit(p[1])
    BY <1>9, <1>12, <1>14, SMT
  <2>2. \A j \in 1 .. last : j \in DOMAIN q /\ j <= last
    BY <1>10, SMT
  <2> QED BY <1>8, <2>1, <2>2 DEF Leads
<1> HIDE DEF r
<1>15. ASSUME NEW i \in DOMAIN r, IsEdit(r[i])
       PROVE  lo < First(r[i]) /\ r[i].epoch <= hi
  <2>1. CASE i \in DOMAIN p
    BY <1>14, <1>15, <2>1 DEF Numbered
  <2>2. CASE i \notin DOMAIN p
    BY <1>12, <1>15, <2>2 DEF Numbered
  <2> QED BY <2>1, <2>2
<1>16. ASSUME NEW i \in DOMAIN r, NEW j \in DOMAIN r, i < j, IsEdit(r[i]), IsEdit(r[j])
       PROVE  r[i].epoch < First(r[j])
  <2>1. j \notin DOMAIN p
    <3>1. j \in DOMAIN p => i \in DOMAIN p
      BY <1>10, <1>12, <1>16, SMT
    <3>2. j \in DOMAIN p => i = 1 /\ j = 1
      BY <1>14, <1>16, <3>1
    <3> QED BY <3>2, <1>16, SMT
  <2>2. At(j) \in DOMAIN q /\ At(j) > last /\ r[j] = q[At(j)]
    BY <1>12, <2>1
  <2>3. CASE i \in DOMAIN p
    <3>1. PICK l \in DOMAIN q : l <= last /\ IsEdit(q[l]) /\ r[i].epoch = q[l].epoch
      BY <1>14, <1>16, <2>3
    <3>2. l < At(j)
      BY <2>2, <3>1, <1>10, <1>12, SMTT(30)
    <3> HIDE DEF At
    <3> QED BY <1>16, <2>2, <3>1, <3>2 DEF Numbered
  <2>4. CASE i \notin DOMAIN p
    <3>1. At(i) \in DOMAIN q /\ r[i] = q[At(i)]
      BY <1>12, <2>4
    <3>2. At(i) < At(j)
      BY <1>10, <1>12, <1>16, SMT
    <3> HIDE DEF At
    <3> QED BY <1>16, <2>2, <3>1, <3>2 DEF Numbered
  <2> QED BY <2>3, <2>4
<1>17. ASSUME Gapless(q, lo, hi) PROVE Gapless(r, lo, hi)
  <2> SUFFICES ASSUME NEW n \in lo + 1 .. hi
               PROVE  \E i \in DOMAIN r : IsEdit(r[i]) /\ First(r[i]) <= n /\ n <= r[i].epoch
    BY DEF Gapless
  <2>1. PICK j \in DOMAIN q : IsEdit(q[j]) /\ First(q[j]) <= n /\ n <= q[j].epoch
    BY <1>17 DEF Gapless
  <2>2. CASE j <= last
    <3>1. j \in 1 .. last
      BY <1>10, <2>2, SMT
    <3>2. p # <<>> /\ IsEdit(p[1]) /\ q[j].epoch <= p[1].epoch
      BY <1>8, <2>1, <3>1 DEF Leads
    <3>3. First(p[1]) <= First(q[j])
      BY <1>8, <1>17, <2>1, <3>1 DEF Covers
    <3>4. 1 \in DOMAIN p /\ 1 \in DOMAIN r /\ r[1] = p[1]
      BY <1>9, <1>10, <1>12, <3>2, SMT
    <3>5. p[1].epoch \in Nat /\ First(p[1]) \in Int
      <4>1. p[1] \in Task
        BY <1>9, <3>4, SMT
      <4> QED BY <4>1, SMTT(30) DEF Task, First
    <3>6. First(p[1]) <= n /\ n <= p[1].epoch
      BY <1>13, <2>1, <3>2, <3>3, <3>5, SMTT(30)
    <3> QED BY <3>2, <3>4, <3>6
  <2>3. CASE ~(j <= last)
    <3> DEFINE i == j - last + k
    <3>1. i \in DOMAIN r /\ i \notin DOMAIN p /\ At(i) = j
      BY <1>10, <1>12, <2>3, SMTT(30)
    <3>2. r[i] = q[j]
      BY <1>12, <3>1
    <3> HIDE DEF i
    <3> QED BY <2>1, <3>1, <3>2
  <2> QED BY <2>2, <2>3
<1>18. Numbered(r, lo, hi)
  BY <1>15, <1>16 DEF Numbered
<1> QED BY <1>12, <1>17, <1>18 DEF r

\* The decisions that were left in the tasks are the ones that were made.
LEMMA AskedBlocks ==
    ASSUME NEW q \in Seq(Task), NEW i \in DOMAIN q
    PROVE  Blocks(Asked(q), i) <=> Blocks(q, i)
<1> DEFINE r == Asked(q)
<1>1. ASSUME NEW j \in DOMAIN q PROVE CanPreempt(r[j]) <=> CanPreempt(q[j])
  <2>1. q[j] \in Task /\ Decision(q[j]) \in {"Fast", "Slow"}
    BY DecisionType, SMT
  <2>2. r[j] = q[j] \/ r[j] = [q[j] EXCEPT !.decision = Decision(q[j])]
    BY DEF Asked
  <2>3. CASE r[j] = [q[j] EXCEPT !.decision = Decision(q[j])]
    <3>1. r[j].kind = q[j].kind /\ r[j].decision = Decision(q[j])
      BY <2>1, <2>3 DEF Task
    <3>2. Decision(r[j]) = Decision(q[j])
      <4> HIDE DEF r
      <4>1. r[j].decision # "none"
        BY <2>1, <3>1
      <4> QED BY <3>1, <4>1 DEF Decision
    <3> QED BY <3>1, <3>2 DEF CanPreempt
  <2> QED BY <2>2, <2>3
<1>2. \A j \in 1 .. i - 1 : j \in DOMAIN q
  BY SMT
<1> HIDE DEF r
<1>3. Blocks(r, i) <=> Blocks(q, i)
  BY <1>1, <1>2 DEF Blocks
<1> QED BY <1>3 DEF r

-----------------------------------------------------------------------------
\* commitEdit.

\* The versions that an edit evicts from the table, with those evicted before,
\* and whether it has a file that is new.
Newly(changed) == [f \in Files |-> IF changed[f] # None THEN files[f] ELSE None]
Both(changed) == MergeEvictedFiles(evicted, Newly(changed))
IsNew(changed) == \E f \in Touched(changed) : files[f] = None

\* They are tables.
LEMMA EvictedType ==
    ASSUME files \in FileTable, evicted \in FileTable, NEW changed \in FileTable
    PROVE  Newly(changed) \in FileTable /\ Both(changed) \in FileTable
<1>1. Newly(changed) \in FileTable
  BY DEF Newly, FileTable
<1> QED BY <1>1, OverlayType DEF Both, MergeEvictedFiles

\* An edit on top of others that can be undone can be undone with them.
LEMMA UndoMerged ==
    ASSUME files \in FileTable, evicted \in FileTable, pending.files \in FileTable,
           NEW changed \in FileTable, NEW old \in FileTable,
           CanBeUndone(files, pending, evicted, old),
           NEW p, p.files = Overlay(pending.files, changed),
           p.hasNewFiles <=> IsNew(changed) \/ pending.hasNewFiles
    PROVE  CanBeUndone(Overlay(files, changed), p, Both(changed), old)
<1> DEFINE table == Overlay(files, changed)
           ev == Both(changed)
<1>1. ASSUME NEW f \in Files
      PROVE  /\ p.files[f] # None <=> table[f] # old[f] \/ ev[f] # None
             /\ p.files[f] # None => p.files[f] = table[f]
             /\ old[f] # None => OldFile(table, ev, f) = old[f]
             /\ old[f] = None /\ table[f] # None => p.hasNewFiles
  <2>1. /\ pending.files[f] # None <=> files[f] # old[f] \/ evicted[f] # None
        /\ pending.files[f] # None => pending.files[f] = files[f]
        /\ old[f] # None => OldFile(files, evicted, f) = old[f]
        /\ old[f] = None /\ files[f] # None => pending.hasNewFiles
    BY DEF CanBeUndone
  <2>2. /\ table[f] = IF changed[f] # None THEN changed[f] ELSE files[f]
        /\ p.files[f] = IF changed[f] # None THEN changed[f] ELSE pending.files[f]
        /\ ev[f] = IF evicted[f] # None THEN evicted[f]
                   ELSE IF changed[f] # None THEN files[f] ELSE None
    BY DEF Overlay, Both, MergeEvictedFiles, Newly
  <2> HIDE DEF table, ev
  <2>3. CASE changed[f] = None
    BY <2>1, <2>2, <2>3 DEF OldFile
  <2>4. CASE changed[f] # None
    <3>1. files[f] = None => IsNew(changed)
      BY <2>4 DEF IsNew, Touched
    <3>2. /\ table[f] = changed[f] /\ p.files[f] = changed[f]
          /\ ev[f] = IF evicted[f] # None THEN evicted[f] ELSE files[f]
      BY <2>2, <2>4
    <3>3. CASE evicted[f] # None
      BY <2>1, <2>4, <3>1, <3>2, <3>3 DEF OldFile
    <3>4. CASE evicted[f] = None
      BY <2>1, <2>4, <3>1, <3>2, <3>4 DEF OldFile
    <3> QED BY <3>3, <3>4
  <2> QED BY <2>3, <2>4
<1> QED BY <1>1 DEF CanBeUndone

\* An edit alone can be undone to the files before it.
LEMMA UndoAlone ==
    ASSUME files \in FileTable, NEW changed \in FileTable, NoNoops(changed),
           NEW p, p.files = changed, p.hasNewFiles <=> IsNew(changed)
    PROVE  CanBeUndone(Overlay(files, changed), p, Newly(changed), files)
<1> DEFINE table == Overlay(files, changed)
           ev == Newly(changed)
<1>1. ASSUME NEW f \in Files
      PROVE  /\ p.files[f] # None <=> table[f] # files[f] \/ ev[f] # None
             /\ p.files[f] # None => p.files[f] = table[f]
             /\ files[f] # None => OldFile(table, ev, f) = files[f]
             /\ files[f] = None /\ table[f] # None => p.hasNewFiles
  <2>1. /\ table[f] = IF changed[f] # None THEN changed[f] ELSE files[f]
        /\ p.files[f] = changed[f]
        /\ ev[f] = IF changed[f] # None THEN files[f] ELSE None
        /\ changed[f] # None => changed[f] # files[f]
    BY DEF Overlay, Newly, NoNoops
  <2> HIDE DEF table, ev
  <2>2. CASE changed[f] = None
    BY <2>1, <2>2 DEF OldFile
  <2>3. CASE changed[f] # None
    <3>1. files[f] = None => IsNew(changed)
      BY <2>3 DEF IsNew, Touched
    <3> QED BY <2>1, <2>3, <3>1 DEF OldFile
  <2> QED BY <2>2, <2>3
<1> QED BY <1>1 DEF CanBeUndone

\* The files to be typechecked again, on top of the old ones, are the new ones.
LEMMA RedoneOverUndone ==
    ASSUME NEW table \in FileTable, NEW u, NEW ev, NEW old \in FileTable,
           CanBeUndone(table, u, ev, old)
    PROVE  Overlay(old, u.files) = table
<1>1. \A f \in Files : Overlay(old, u.files)[f] = table[f]
  <2> TAKE f \in Files
  <2>1. Overlay(old, u.files)[f] = IF u.files[f] # None THEN u.files[f] ELSE old[f]
    BY DEF Overlay
  <2>2. /\ u.files[f] # None => u.files[f] = table[f]
        /\ table[f] # old[f] => u.files[f] # None
    BY DEF CanBeUndone
  <2> QED BY <2>1, <2>2
<1>2. Overlay(old, u.files) = [f \in Files |-> Overlay(old, u.files)[f]]
  BY DEF Overlay
<1>3. table = [f \in Files |-> table[f]]
  BY DEF FileTable
<1> QED BY <1>1, <1>2, <1>3

\* The fast path is enough for an update that it is taken for.
LEMMA FastIsEnough ==
    ASSUME NEW table \in FileTable, NEW u, NEW ev, NEW old \in FileTable,
           CanBeUndone(table, u, ev, old), ~u.hasNewFiles,
           TakesFastPath(table, ev, u.files), u.extra = ExtraFiles(table, ev, u.files)
    PROVE  EnoughFor(old, u)
<1> DEFINE names == UNION {ChangedNames(old[f], table[f]) : f \in Touched(old)}
           redone == Touched(u.files) \cup u.extra
<1>1. Overlay(old, u.files) = table
  BY RedoneOverUndone
<1>2. ASSUME NEW f \in Files, old[f] # table[f]
      PROVE  /\ f \in Touched(u.files) /\ u.files[f] = table[f] /\ old[f] # None
             /\ OldFile(table, ev, f) = old[f]
  <2>1. /\ u.files[f] # None <=> table[f] # old[f] \/ ev[f] # None
        /\ u.files[f] # None => u.files[f] = table[f]
        /\ old[f] # None => OldFile(table, ev, f) = old[f]
        /\ old[f] = None /\ table[f] # None => u.hasNewFiles
    BY DEF CanBeUndone
  <2>2. u.files[f] # None /\ u.files[f] = table[f]
    BY <1>2, <2>1
  <2> QED BY <2>1, <2>2 DEF Touched
<1>3. ASSUME NEW f \in Files, old[f] # table[f]
      PROVE  /\ old[f] # None
             /\ table[f] \notin Invalid
             /\ Hierarchy[old[f]] = Hierarchy[table[f]]
  <2>1. /\ u.files[f] \notin Invalid
        /\ Hierarchy[u.files[f]] = Hierarchy[OldFile(table, ev, f)]
    BY <1>2, <1>3 DEF TakesFastPath
  <2> QED BY <2>1, <1>2, <1>3
<1>4. \A v : ChangedNames(v, v) = {}
  BY DEF ChangedNames
<1>5. names \subseteq NamesChanged(table, ev, u.files)
  <2> SUFFICES ASSUME NEW f \in Touched(old), NEW x \in ChangedNames(old[f], table[f])
               PROVE  x \in NamesChanged(table, ev, u.files)
    OBVIOUS
  <2>1. f \in Files
    BY DEF Touched
  <2>2. old[f] # table[f]
    BY <1>4
  <2>3. f \in Touched(u.files) /\ x \in ChangedNames(OldFile(table, ev, f), u.files[f])
    BY <1>2, <2>1, <2>2
  <2> QED BY <2>3 DEF NamesChanged
<1> HIDE DEF names
<1>6. ASSUME NEW f \in Files, table[f] # None, Uses[table[f]] \cap names # {}
      PROVE  f \in redone
  <2>1. Uses[table[f]] \cap NamesChanged(table, ev, u.files) # {}
    BY <1>5, <1>6
  <2>2. f \in Touched(u.files) \/ f \in ExtraFiles(table, ev, u.files)
    BY <1>6, <2>1 DEF ExtraFiles
  <2> QED BY <2>2
<1>7. Cardinality(redone) =< MaxFiles
  BY DEF TakesFastPath
<1> DEFINE after == Overlay(old, u.files)
<1> HIDE DEF after
<1>8. after = table
  BY <1>1 DEF after
<1>9. \A f \in Files : old[f] # after[f] =>
        old[f] # None /\ after[f] \notin Invalid /\ Hierarchy[old[f]] = Hierarchy[after[f]]
  BY <1>3, <1>8
<1>10. \A f \in Files : after[f] # None /\ Uses[after[f]] \cap names # {} => f \in redone
  BY <1>6, <1>8
<1>11. names = UNION {ChangedNames(old[f], after[f]) : f \in Touched(old)}
  BY <1>8 DEF names
<1> HIDE DEF redone
<1> QED BY <1>7, <1>9, <1>10, <1>11 DEF EnoughFor, after, redone

UpdateFields == {"epoch", "editCount", "committedEditCount", "files", "hasNewFiles", "path",
                 "extra", "canceledSlowPath"}

\* What mergeOlder does to each field of an update,
LEMMA MergeOlderFields ==
    ASSUME NEW u, DOMAIN u = UpdateFields, NEW older
    PROVE  /\ DOMAIN MergeOlder(u, older) = UpdateFields
           /\ MergeOlder(u, older).epoch = u.epoch
           /\ MergeOlder(u, older).editCount = u.editCount + older.editCount
           /\ MergeOlder(u, older).files = Overlay(older.files, u.files)
           /\ MergeOlder(u, older).hasNewFiles <=> u.hasNewFiles \/ older.hasNewFiles
<1>1. /\ DOMAIN MergeOlder(u, older) = UpdateFields
      /\ MergeOlder(u, older).epoch = u.epoch
      /\ MergeOlder(u, older).editCount = u.editCount + older.editCount
      /\ MergeOlder(u, older).files = Overlay(older.files, u.files)
  BY DEF MergeOlder, UpdateFields
<1>2. MergeOlder(u, older).hasNewFiles <=> u.hasNewFiles \/ older.hasNewFiles
  BY DEF MergeOlder, UpdateFields
<1> QED BY <1>1, <1>2

\* ... and getTypecheckingPath,
LEMMA DecidedFields ==
    ASSUME NEW u, DOMAIN u = UpdateFields, NEW table, NEW old
    PROVE  LET d == Decided(u, table, old)
               fast == ~u.hasNewFiles /\ TakesFastPath(table, old, u.files)
           IN  /\ DOMAIN d = UpdateFields
               /\ d.path = PathOf(fast)
               /\ fast => d.extra = ExtraFiles(table, old, u.files)
               /\ d.epoch = u.epoch /\ d.editCount = u.editCount /\ d.files = u.files
               /\ d.hasNewFiles <=> u.hasNewFiles
               /\ d.canceledSlowPath <=> u.canceledSlowPath
BY DEF Decided, UpdateFields

\* ... and what pendingTypecheckUpdates takes from an update of each path.
LEMMA PendingFields ==
    ASSUME NEW u, DOMAIN u = UpdateFields
    PROVE  /\ Copied(u).epoch = u.epoch /\ Copied(u).editCount = u.editCount
           /\ Copied(u).files = u.files
           /\ Copied(u).hasNewFiles <=> u.hasNewFiles
           /\ PendingAfterFast(u).epoch = u.epoch
           /\ PendingAfterFast(u).editCount = u.editCount + pending.editCount
           /\ PendingAfterFast(u).files = Overlay(pending.files, u.files)
           /\ PendingAfterFast(u).hasNewFiles <=> u.hasNewFiles \/ pending.hasNewFiles
<1> DEFINE copy == Copied(u)
           merged == MergeOlder(copy, pending)
<1>1. /\ DOMAIN copy = UpdateFields
      /\ copy.epoch = u.epoch /\ copy.editCount = u.editCount
      /\ copy.files = u.files
      /\ copy.hasNewFiles <=> u.hasNewFiles
  BY DEF Copied, UpdateFields
<1> HIDE DEF copy
<1>2. /\ DOMAIN merged = UpdateFields
      /\ merged.epoch = u.epoch
      /\ merged.editCount = u.editCount + pending.editCount
      /\ merged.files = Overlay(pending.files, u.files)
      /\ merged.hasNewFiles <=> u.hasNewFiles \/ pending.hasNewFiles
  <2>1. /\ DOMAIN merged = UpdateFields
        /\ merged.epoch = copy.epoch
        /\ merged.editCount = copy.editCount + pending.editCount
        /\ merged.files = Overlay(pending.files, copy.files)
        /\ merged.hasNewFiles <=> copy.hasNewFiles \/ pending.hasNewFiles
    BY <1>1, MergeOlderFields
  <2> HIDE DEF merged
  <2> QED BY <1>1, <2>1
<1> HIDE DEF merged
<1> DEFINE more == [merged EXCEPT !.committedEditCount = @ + u.editCount]
<1>3. /\ more.epoch = merged.epoch /\ more.editCount = merged.editCount
      /\ more.files = merged.files
      /\ more.hasNewFiles <=> merged.hasNewFiles
  BY <1>2 DEF UpdateFields
<1> HIDE DEF more
<1>4. PendingAfterFast(u) = IF u.canceledSlowPath THEN merged ELSE more
  BY DEF PendingAfterFast, merged, more, copy
<1>5. PendingAfterFast(u) = merged \/ PendingAfterFast(u) = more
  BY <1>4
<1> QED BY <1>1, <1>2, <1>3, <1>5 DEF copy

\* The three outcomes of commitEdit: a fast path, a slow path that cancels
\* nothing, and an update that cancels the slow path and redoes what it did.
FastCommit(edit, r) ==
    /\ r.update.path = "Fast" /\ ~r.update.canceledSlowPath
    /\ r.update.files = edit.files
    /\ r.pending.editCount = edit.mergeCount + 1 + pending.editCount
    /\ EnoughFor(files, r.update)
    /\ \A old \in FileTable : CanBeUndone(files, pending, evicted, old) =>
                              CanBeUndone(r.files, r.pending, r.evicted, old)

SlowCommit(edit, r) ==
    /\ r.update.path = "Slow" /\ ~r.update.canceledSlowPath
    /\ r.update.files = edit.files
    /\ r.pending.editCount = edit.mergeCount + 1
    /\ CanBeUndone(r.files, r.pending, r.evicted, files)

CancelingCommit(edit, r) ==
    /\ r.update.path \in {"Fast", "Slow"} /\ r.update.canceledSlowPath
    /\ r.pending.editCount > 0
    /\ \A old \in FileTable : CanBeUndone(files, pending, evicted, old) =>
          /\ CanBeUndone(r.files, r.pending, r.evicted, old)
          /\ r.files = Overlay(old, r.update.files)
          /\ r.update.path = "Fast" => EnoughFor(old, r.update)

Committed(edit, canCancel, r) ==
    /\ r.files = Overlay(files, edit.files)
    /\ r.files \in FileTable /\ r.evicted \in FileTable
    /\ r.update.files \in FileTable /\ r.update.epoch = edit.epoch
    /\ r.pending.files \in FileTable
    /\ r.pending.epoch = edit.epoch /\ r.pending.editCount \in Nat
    /\ \/ /\ FastCommit(edit, r)
          /\ Cardinality(Touched(edit.files)) =< MaxFiles
       \/ SlowCommit(edit, r) /\ ~canCancel
       \/ CancelingCommit(edit, r) /\ canCancel

\* commitEdit remembers what it takes to undo the slow path, and decides for the
\* fast path only where that is enough.
LEMMA CommitKeeps ==
    ASSUME files \in FileTable, evicted \in FileTable,
           pending.files \in FileTable, pending.editCount \in Nat,
           NEW edit, edit.files \in FileTable, edit.epoch \in Nat, edit.mergeCount \in Nat,
           NoNoops(edit.files), NEW canCancel,
           NEW r, r = CommitEdit(edit, canCancel)
    PROVE  Committed(edit, canCancel, r)
<1> DEFINE changed == edit.files
           table == Overlay(files, changed)
           newly == Newly(changed)
           both == Both(changed)
           fast == ~IsNew(changed) /\ TakesFastPath(table, newly, changed)
           first == [NoUpdate EXCEPT !.epoch = edit.epoch, !.editCount = edit.mergeCount + 1,
                                     !.files = changed, !.hasNewFiles = IsNew(changed)]
           u == Decided(first, table, newly)
           all == Overlay(pending.files, changed)
           new == IsNew(changed) \/ pending.hasNewFiles
           fast2 == ~new /\ TakesFastPath(table, both, all)
           merged == MergeOlder(u, pending)
           decided == Decided(merged, table, both)
           c == [decided EXCEPT !.canceledSlowPath = TRUE]
           cancels == u.path # "Fast" /\ canCancel
           final == IF cancels THEN c ELSE u
<1>1. /\ table \in FileTable /\ newly \in FileTable /\ both \in FileTable /\ all \in FileTable
  BY OverlayType, EvictedType
<1>2. r = [update |-> final, files |-> table,
           pending |-> IF final.path = "Fast" THEN PendingAfterFast(final) ELSE Copied(final),
           evicted |-> IF cancels \/ final.path = "Fast" THEN both ELSE newly]
  BY DEF CommitEdit, IsNew, Both, Newly
<1>3. /\ fast => PathOf(fast) = "Fast"
      /\ ~fast => PathOf(fast) = "Slow"
      /\ PathOf(fast2) = "Fast" => fast2
      /\ PathOf(fast2) \in {"Fast", "Slow"}
  <2> HIDE DEF fast, fast2
  <2> QED BY DEF PathOf
<1>4. /\ DOMAIN first = UpdateFields /\ first.epoch = edit.epoch
      /\ first.editCount = edit.mergeCount + 1 /\ first.files = changed
      /\ first.hasNewFiles <=> IsNew(changed)
      /\ ~first.canceledSlowPath
  BY DEF NoUpdate, UpdateFields
<1> HIDE DEF first
<1>5. /\ DOMAIN u = UpdateFields /\ u.path = PathOf(fast) /\ u.files = changed
      /\ ~u.canceledSlowPath /\ u.epoch = edit.epoch /\ u.editCount = edit.mergeCount + 1
      /\ u.hasNewFiles <=> IsNew(changed)
      /\ fast => u.extra = ExtraFiles(table, newly, changed)
  <2> HIDE DEF table, newly, changed
  <2> DEFINE fast1 == ~first.hasNewFiles /\ TakesFastPath(table, newly, first.files)
  <2>1. /\ DOMAIN u = UpdateFields
        /\ u.path = PathOf(fast1)
        /\ fast1 => u.extra = ExtraFiles(table, newly, first.files)
        /\ u.epoch = first.epoch /\ u.editCount = first.editCount /\ u.files = first.files
        /\ u.hasNewFiles <=> first.hasNewFiles
        /\ u.canceledSlowPath <=> first.canceledSlowPath
    BY <1>4, DecidedFields
  <2>2. (fast1 <=> fast) /\ PathOf(fast1) = PathOf(fast)
    BY <1>4 DEF PathOf
  <2> HIDE DEF fast, fast1, u
  <2> QED BY <2>1, <2>2, <1>4
<1> HIDE DEF u
<1>6. /\ DOMAIN c = UpdateFields /\ c.path = PathOf(fast2) /\ c.files = all
      /\ c.canceledSlowPath /\ c.epoch = edit.epoch
      /\ c.editCount = edit.mergeCount + 1 + pending.editCount
      /\ c.hasNewFiles <=> new
      /\ fast2 => c.extra = ExtraFiles(table, both, all)
  <2> HIDE DEF table, both, changed
  <2>1. /\ DOMAIN merged = UpdateFields /\ merged.epoch = edit.epoch
        /\ merged.editCount = edit.mergeCount + 1 + pending.editCount
        /\ merged.files = all
        /\ merged.hasNewFiles <=> new
    <3>1. /\ DOMAIN merged = UpdateFields
          /\ merged.epoch = u.epoch
          /\ merged.editCount = u.editCount + pending.editCount
          /\ merged.files = Overlay(pending.files, u.files)
          /\ merged.hasNewFiles <=> u.hasNewFiles \/ pending.hasNewFiles
      BY <1>5, MergeOlderFields
    <3> HIDE DEF merged
    <3> QED BY <1>5, <3>1
  <2> HIDE DEF merged
  <2> DEFINE fast3 == ~merged.hasNewFiles /\ TakesFastPath(table, both, merged.files)
  <2>2. (fast3 <=> fast2) /\ PathOf(fast3) = PathOf(fast2)
    BY <2>1 DEF PathOf
  <2>3. /\ DOMAIN decided = UpdateFields /\ decided.path = PathOf(fast3)
        /\ fast3 => decided.extra = ExtraFiles(table, both, merged.files)
        /\ decided.epoch = merged.epoch /\ decided.editCount = merged.editCount
        /\ decided.files = merged.files
        /\ decided.hasNewFiles <=> merged.hasNewFiles
    BY <2>1, DecidedFields
  <2> HIDE DEF decided, fast2, fast3
  <2>4. /\ DOMAIN c = UpdateFields /\ c.path = decided.path /\ c.extra = decided.extra
        /\ c.epoch = decided.epoch /\ c.editCount = decided.editCount
        /\ c.files = decided.files
        /\ c.hasNewFiles <=> decided.hasNewFiles
        /\ c.canceledSlowPath
    BY <2>3 DEF UpdateFields
  <2> HIDE DEF c
  <2> QED BY <2>1, <2>2, <2>3, <2>4
<1> HIDE DEF c
<1>7. /\ Copied(u).epoch = edit.epoch /\ Copied(u).editCount = edit.mergeCount + 1
      /\ Copied(u).files = changed
      /\ Copied(u).hasNewFiles <=> IsNew(changed)
      /\ PendingAfterFast(u).epoch = edit.epoch
      /\ PendingAfterFast(u).editCount = edit.mergeCount + 1 + pending.editCount
      /\ PendingAfterFast(u).files = all
      /\ PendingAfterFast(u).hasNewFiles <=> new
  <2> HIDE DEF changed
  <2> QED BY <1>5, PendingFields
<1>8. /\ Copied(c).epoch = edit.epoch
      /\ Copied(c).editCount = edit.mergeCount + 1 + pending.editCount
      /\ Copied(c).files = all
      /\ Copied(c).hasNewFiles <=> new
      /\ PendingAfterFast(c).epoch = edit.epoch
      /\ PendingAfterFast(c).editCount = edit.mergeCount + 1 + pending.editCount + pending.editCount
      /\ PendingAfterFast(c).files = all
      /\ PendingAfterFast(c).hasNewFiles <=> new
  <2>1. Overlay(pending.files, all) = all
    BY DEF Overlay
  <2>2. new \/ pending.hasNewFiles <=> new
    OBVIOUS
  <2>3. /\ Copied(c).epoch = c.epoch /\ Copied(c).editCount = c.editCount
        /\ Copied(c).files = c.files
        /\ Copied(c).hasNewFiles <=> c.hasNewFiles
        /\ PendingAfterFast(c).epoch = c.epoch
        /\ PendingAfterFast(c).editCount = c.editCount + pending.editCount
        /\ PendingAfterFast(c).files = Overlay(pending.files, c.files)
        /\ PendingAfterFast(c).hasNewFiles <=> c.hasNewFiles \/ pending.hasNewFiles
    BY <1>6, PendingFields
  <2> HIDE DEF all, new
  <2>4. PendingAfterFast(c).files = all
    BY <2>1, <2>3, <1>6
  <2>5. PendingAfterFast(c).editCount = edit.mergeCount + 1 + pending.editCount + pending.editCount
    BY <2>3, <1>6
  <2> QED BY <2>2, <2>3, <2>4, <2>5, <1>6
<1>9. ASSUME NEW p, p.files = all, p.hasNewFiles <=> new, NEW old \in FileTable,
             CanBeUndone(files, pending, evicted, old)
      PROVE  CanBeUndone(table, p, both, old)
  BY <1>9, UndoMerged
<1>10. CASE fast
  <2>1. r.update = u /\ r.files = table /\ r.pending = PendingAfterFast(u) /\ r.evicted = both
    <3>1. u.path = "Fast"
      BY <1>5, <1>3, <1>10
    <3> HIDE DEF table, both, newly, fast
    <3> QED BY <3>1, <1>2, SMT
  <2>2. EnoughFor(files, u)
    <3>1. CanBeUndone(table, u, newly, files)
      BY <1>5, UndoAlone
    <3> QED BY <3>1, <1>1, <1>5, <1>10, FastIsEnough
  <2>3. FastCommit(edit, r)
    BY <2>1, <2>2, <1>5, <1>7, <1>3, <1>9, <1>10 DEF FastCommit
  <2>4. Cardinality(Touched(changed)) =< MaxFiles
    BY <1>10 DEF TakesFastPath
  <2>5. edit.mergeCount + 1 + pending.editCount \in Nat
    BY SMT
  <2> QED BY <2>1, <2>3, <2>4, <2>5, <1>1, <1>5, <1>7 DEF Committed
<1>11. CASE ~fast /\ ~canCancel
  <2>1. r.update = u /\ r.files = table /\ r.pending = Copied(u) /\ r.evicted = newly
    <3>1. u.path = "Slow"
      BY <1>5, <1>3, <1>11
    <3> HIDE DEF table, both, newly, fast
    <3> QED BY <3>1, <1>2, <1>11, SMT
  <2>2. CanBeUndone(table, r.pending, newly, files)
    BY <2>1, <1>7, UndoAlone
  <2>3. SlowCommit(edit, r)
    BY <2>1, <2>2, <1>5, <1>7, <1>3, <1>11 DEF SlowCommit
  <2>4. edit.mergeCount + 1 \in Nat
    BY SMT
  <2> QED BY <2>1, <2>3, <2>4, <1>1, <1>5, <1>7, <1>11 DEF Committed
<1>12. CASE ~fast /\ canCancel
  <2>1. r.update = c /\ r.files = table /\ r.evicted = both
        /\ r.pending = IF c.path = "Fast" THEN PendingAfterFast(c) ELSE Copied(c)
    <3>1. u.path = "Slow"
      BY <1>5, <1>3, <1>12
    <3> HIDE DEF table, both, newly, fast
    <3> QED BY <3>1, <1>2, <1>12, SMT
  <2>2. /\ r.pending.epoch = edit.epoch /\ r.pending.files = all
        /\ r.pending.hasNewFiles <=> new
    BY <2>1, <1>8
  <2>3. r.pending.editCount \in Nat /\ r.pending.editCount > 0
    <3>1. /\ edit.mergeCount + 1 + pending.editCount \in Nat
          /\ edit.mergeCount + 1 + pending.editCount > 0
          /\ edit.mergeCount + 1 + pending.editCount + pending.editCount \in Nat
          /\ edit.mergeCount + 1 + pending.editCount + pending.editCount > 0
      BY SMT
    <3> QED BY <3>1, <2>1, <1>8
  <2>4. ASSUME NEW old \in FileTable, CanBeUndone(files, pending, evicted, old)
        PROVE  /\ CanBeUndone(table, r.pending, both, old)
               /\ table = Overlay(old, c.files)
               /\ c.path = "Fast" => EnoughFor(old, c)
    <3>1. CanBeUndone(table, r.pending, both, old) /\ CanBeUndone(table, c, both, old)
      <4> HIDE DEF table, both, all, new
      <4>1. CanBeUndone(table, r.pending, both, old)
        BY <1>9, <2>2, <2>4
      <4>2. CanBeUndone(table, c, both, old)
        BY <1>6, <1>9, <2>4
      <4> QED BY <4>1, <4>2
    <3>2. table = Overlay(old, c.files)
      BY <3>1, <1>1, RedoneOverUndone
    <3>3. ASSUME c.path = "Fast" PROVE EnoughFor(old, c)
      <4>1. fast2
        <5>1. PathOf(fast2) = "Fast"
          BY <3>3, <1>6
        <5> HIDE DEF fast2
        <5> QED BY <5>1, <1>3
      <4> QED BY <3>1, <4>1, <1>1, <1>6, FastIsEnough
    <3> QED BY <3>1, <3>2, <3>3
  <2>5. c.path \in {"Fast", "Slow"}
    BY <1>6, <1>3
  <2>6. CancelingCommit(edit, r)
    BY <2>1, <2>3, <2>4, <2>5, <1>6 DEF CancelingCommit
  <2>7. /\ r.files \in FileTable /\ r.evicted \in FileTable /\ r.update.files \in FileTable
        /\ r.pending.files \in FileTable /\ r.update.epoch = edit.epoch
    BY <2>1, <2>2, <1>1, <1>6
  <2> QED BY <2>1, <2>2, <2>3, <2>6, <2>7, <1>12 DEF Committed
<1> QED BY <1>10, <1>11, <1>12

-----------------------------------------------------------------------------
\* The steps.

\* An edit and a request are tasks.
LEMMA TaskTypes ==
    /\ NoEdit \in Task /\ NoEdit.epoch = 0 /\ NoEdit.files = Nothing
    /\ Hover \in Task /\ ~IsEdit(Hover)
    /\ \A changed \in FileTable, e \in Nat :
          /\ Edit(changed, e) \in Task /\ IsEdit(Edit(changed, e))
          /\ Edit(changed, e).epoch = e /\ Edit(changed, e).mergeCount = 0
<1>1. Nothing \in FileTable
  BY DEF Nothing, FileTable
<1>2. \A changed \in FileTable, e \in Nat :
          /\ Edit(changed, e) \in Task /\ IsEdit(Edit(changed, e))
          /\ Edit(changed, e).epoch = e /\ Edit(changed, e).mergeCount = 0
          /\ Edit(changed, e).files = changed
  BY DEF Edit, Task, IsEdit
<1>3. NoEdit \in Task /\ NoEdit.epoch = 0 /\ NoEdit.files = Nothing
  BY <1>1, <1>2, SMT DEF NoEdit
<1>4. Hover \in Task /\ ~IsEdit(Hover)
  BY <1>1 DEF Hover, Edit, Task, IsEdit
<1> QED BY <1>2, <1>3, <1>4, SMT

\* The invariant holds at first.
LEMMA InitKeeps == Init => IInv
<1> SUFFICES ASSUME Init PROVE IInv
  OBVIOUS
<1>1. PICK table \in InitialTables : IndexerInit(table) /\ tcFiles = table
  BY DEF Init
<1>2. /\ files = tcFiles /\ tcFiles \in FileTable /\ evicted = Nothing
      /\ pending.files = Nothing /\ pending.epoch = 0 /\ pending.editCount = 0
      /\ Nothing \in FileTable
  BY <1>1, EditsAssumption DEF IndexerInit, NoUpdate, Nothing, FileTable
<1>3. work.files = Nothing /\ work.epoch = 0
  BY DEF Init, NoUpdate
<1>4. /\ tasks = <<>> /\ nextVersion = 0 /\ skipped = FALSE /\ main = "idle" /\ slot = "none"
      /\ deferred = NoEdit /\ tc = "idle" /\ undo = Nothing
      /\ processing = 0 /\ committed = 0 /\ invalidator = 0
  BY DEF Init, EpochInit
<1>5. Types
  <2>1. <<>> \in Seq(Task) /\ 0 \in Nat
    BY SMT
  <2> QED BY <2>1, <1>2, <1>3, <1>4, TaskTypes DEF Types
<1>6. Control
  BY <1>4 DEF Control, SlowPathRunning, SlowPathWasCanceled
<1>7. Numbered(tasks, 0, 0) /\ Gapless(tasks, 0, 0)
  BY <1>4, SMT DEF Numbered, Gapless
<1>8. Epochs
  BY <1>2, <1>4, <1>7, SMT DEF Epochs, Handled, SlowPathRunning
<1>9. Updates /\ Undoable
  BY <1>2, <1>4 DEF Updates, Undoable, Busy
<1> QED BY <1>5, <1>6, <1>8, <1>9 DEF IInv

\* Where the processing thread and the PreemptionLoop may be.
Turns ==
    /\ slot = "none" <=> main # "await"
    /\ slot = "scheduled" => tc = "slow"
    /\ slot = "running" => tc # "idle"
    /\ tc \in {"run", "raised"} => slot = "running"

\* A step that indexes, typechecks and cancels nothing.
LEMMA QuietKeeps ==
    ASSUME IInv, UNCHANGED <<indexerVars, epochVars, tcVars>>,
           tasks' \in Seq(Task), nextVersion' \in Nat, nextVersion <= nextVersion',
           skipped' \in BOOLEAN,
           Numbered(tasks', Handled, nextVersion'),
           ~skipped' => ~skipped /\ Gapless(tasks', Handled, nextVersion'),
           main' = main \/ (main \in {"idle", "await"} /\ main' \in {"idle", "await"}),
           slot' \in {"none", "scheduled", "running", "finished"}, Turns'
    PROVE  IInv'
<1> USE DEF indexerVars, epochVars, tcVars
<1>1. Types'
  BY DEF IInv, Types
<1>2. Control'
  BY DEF IInv, Control, Turns, SlowPathRunning, SlowPathWasCanceled, NoNoops
<1>3. Handled' = Handled /\ Handled \in Nat /\ nextVersion \in Nat
  BY DEF IInv, Types, Handled, Task
<1>4. Epochs'
  BY <1>3, SMT DEF IInv, Epochs, SlowPathRunning, SlowPathWasCanceled
<1>5. Updates' /\ Undoable'
  BY DEF IInv, Updates, Undoable, Base, Busy, SlowPathWasCanceled
<1> QED BY <1>1, <1>2, <1>4, <1>5 DEF IInv

\* What the invariant says of the queue, and of a step that does not touch it.
LEMMA QueueFacts ==
    ASSUME IInv
    PROVE  /\ tasks \in Seq(Task) /\ nextVersion \in Nat /\ skipped \in BOOLEAN
           /\ Handled \in Nat /\ Handled <= nextVersion
           /\ Numbered(tasks, Handled, nextVersion)
           /\ ~skipped => Gapless(tasks, Handled, nextVersion)
           /\ slot \in {"none", "scheduled", "running", "finished"}
           /\ main \in {"idle", "await", "fast", "slow"}
           /\ Turns
           /\ SameNumbers(tasks, Asked(tasks)) /\ Asked(tasks) \in Seq(Task)
           /\ Len(Asked(tasks)) = Len(tasks)
           /\ Numbered(Asked(tasks), Handled, nextVersion)
           /\ ~skipped => Gapless(Asked(tasks), Handled, nextVersion)
<1>1. /\ tasks \in Seq(Task) /\ nextVersion \in Nat /\ skipped \in BOOLEAN
      /\ Handled \in Nat
      /\ slot \in {"none", "scheduled", "running", "finished"}
      /\ main \in {"idle", "await", "fast", "slow"}
  BY DEF IInv, Types, Handled, Task
<1>2. /\ Handled <= nextVersion /\ Numbered(tasks, Handled, nextVersion)
      /\ ~skipped => Gapless(tasks, Handled, nextVersion)
  BY DEF IInv, Epochs
<1>3. Turns
  BY DEF IInv, Control, Turns
<1>4. /\ SameNumbers(tasks, Asked(tasks)) /\ Asked(tasks) \in Seq(Task)
      /\ Len(Asked(tasks)) = Len(tasks)
  BY <1>1, AskedKeeps
<1>5. /\ Numbered(Asked(tasks), Handled, nextVersion)
      /\ ~skipped => Gapless(Asked(tasks), Handled, nextVersion)
  BY <1>2, <1>4, SameNumbersKeep
<1> QED BY <1>1, <1>2, <1>3, <1>4, <1>5

\* The client's messages.
LEMMA ClientKeeps ==
    ASSUME IInv,
           (\E changed \in Edits : ClientEdits(changed)) \/ ClientEditsNothing \/ ClientHovers
    PROVE  IInv'
<1>1. /\ UNCHANGED <<indexerVars, epochVars, main, slot, tcVars>>
      /\ nextVersion' \in {nextVersion, nextVersion + 1}
      /\ skipped' = skipped \/ skipped' = TRUE
  BY DEF ClientEdits, ClientEditsNothing, ClientHovers
<1>2. Turns' /\ nextVersion' \in Nat /\ nextVersion <= nextVersion' /\ skipped' \in BOOLEAN
  <2>1. skipped' \in BOOLEAN
    BY <1>1, QueueFacts
  <2>2. Turns'
    BY <1>1, QueueFacts DEF Turns, tcVars
  <2>3. nextVersion' \in Nat /\ nextVersion <= nextVersion'
    BY <1>1, QueueFacts, SMT
  <2> QED BY <2>1, <2>2, <2>3
<1>3. /\ tasks' \in Seq(Task) /\ Numbered(tasks', Handled, nextVersion')
      /\ ~skipped' => ~skipped /\ Gapless(tasks', Handled, nextVersion')
  <2>1. ASSUME NEW changed \in Edits, ClientEdits(changed)
        PROVE  /\ tasks' \in Seq(Task) /\ Numbered(tasks', Handled, nextVersion')
               /\ ~skipped' => ~skipped /\ Gapless(tasks', Handled, nextVersion')
    <3> DEFINE edit == Edit(changed, nextVersion + 1)
    <3>1. changed \in FileTable /\ nextVersion + 1 \in Nat
      BY EditsAssumption, QueueFacts, SMT
    <3>2. edit \in Task /\ IsEdit(edit) /\ edit.epoch = nextVersion + 1 /\ edit.mergeCount = 0
      BY <3>1, TaskTypes
    <3>3. tasks' = Enqueue(edit) /\ nextVersion' = nextVersion + 1 /\ skipped' = skipped
      BY <2>1 DEF ClientEdits
    <3> HIDE DEF edit
    <3>4. /\ Enqueue(edit) \in Seq(Task)
          /\ Numbered(Enqueue(edit), Handled, nextVersion + 1)
          /\ Gapless(tasks, Handled, nextVersion) =>
               Gapless(Enqueue(edit), Handled, nextVersion + 1)
      BY <3>2, QueueFacts, EnqueueKeeps
    <3> QED BY <3>3, <3>4, QueueFacts
  <2>2. ASSUME ClientEditsNothing
        PROVE  /\ tasks' \in Seq(Task) /\ Numbered(tasks', Handled, nextVersion')
               /\ skipped'
    <3>1. tasks' = tasks /\ nextVersion' = nextVersion + 1 /\ skipped'
      BY <2>2 DEF ClientEditsNothing
    <3> QED BY <3>1, QueueFacts, LaterNumbered
  <2>3. ASSUME ClientHovers
        PROVE  /\ tasks' \in Seq(Task) /\ Numbered(tasks', Handled, nextVersion')
               /\ ~skipped' => ~skipped /\ Gapless(tasks', Handled, nextVersion')
    <3>1. tasks' = Append(tasks, Hover) /\ nextVersion' = nextVersion /\ skipped' = skipped
      BY <2>3 DEF ClientHovers
    <3> QED BY <3>1, QueueFacts, TaskTypes, AppendHoverKeeps
  <2> QED BY <2>1, <2>2, <2>3
<1>4. slot' = slot /\ main' = main /\ UNCHANGED <<indexerVars, epochVars, tcVars>>
  BY <1>1
<1> QED BY <1>2, <1>3, <1>4, QueueFacts, QuietKeeps

\* The queue is asked what may preempt, in turns of the two loops.
LEMMA LoopKeeps ==
    ASSUME IInv, SchedulePreemption \/ AwaitEnds \/ Preempt \/ PreemptEnds
    PROVE  IInv'
<1>1. /\ UNCHANGED <<indexerVars, epochVars, tcVars>>
      /\ nextVersion' = nextVersion /\ skipped' = skipped
  BY DEF SchedulePreemption, AwaitEnds, Preempt, PreemptEnds, queueVars
<1>2. Turns /\ tc' = tc
  BY <1>1, QueueFacts DEF tcVars
<1>3. /\ main' = main \/ (main \in {"idle", "await"} /\ main' \in {"idle", "await"})
      /\ slot' \in {"none", "scheduled", "running", "finished"}
      /\ Turns'
  <2>1. CASE SchedulePreemption
    <3>1. main = "idle" /\ main' = "await" /\ slot' = "scheduled" /\ tc # "raised" /\ tc # "idle"
      BY <2>1 DEF SchedulePreemption, MainReady, IInv, Control
    <3>2. tc \in {"idle", "slow", "run", "raised"}
      BY DEF IInv, Types
    <3> QED BY <3>1, <3>2, <1>2 DEF Turns
  <2>2. CASE AwaitEnds
    BY <2>2, <1>2 DEF AwaitEnds, Turns
  <2>3. CASE Preempt
    BY <2>3, <1>2 DEF Preempt, Turns
  <2>4. CASE PreemptEnds
    BY <2>4, <1>2 DEF PreemptEnds, Turns
  <2> QED BY <2>1, <2>2, <2>3, <2>4
<1>4. /\ tasks' \in Seq(Task) /\ Numbered(tasks', Handled, nextVersion)
      /\ ~skipped => Gapless(tasks', Handled, nextVersion)
  <2>1. \/ tasks' = tasks \/ tasks' = Asked(tasks)
        \/ tasks' = Promoted(Asked(tasks)) /\ \E i \in DOMAIN tasks : Blocks(tasks, i)
    BY DEF SchedulePreemption, AwaitEnds, Preempt, PreemptEnds, queueVars
  <2>2. CASE tasks' = Promoted(Asked(tasks)) /\ \E i \in DOMAIN tasks : Blocks(tasks, i)
    <3>1. \E i \in DOMAIN Asked(tasks) : Blocks(Asked(tasks), i)
      BY <2>2, QueueFacts, AskedBlocks DEF SameNumbers
    <3> QED BY <2>2, <3>1, QueueFacts, PromotedKeeps
  <2> QED BY <2>1, <2>2, QueueFacts
<1>5. nextVersion <= nextVersion /\ nextVersion' \in Nat /\ skipped' \in BOOLEAN
  BY <1>1, QueueFacts, SMT
<1> QED BY <1>1, <1>3, <1>4, <1>5, QuietKeeps

\* A request is taken from the queue.
LEMMA HoverKeeps ==
    ASSUME IInv, PopHover \/ (PreemptNext /\ tasks[1].kind = "hover")
    PROVE  IInv'
<1>1. /\ UNCHANGED <<indexerVars, epochVars, nextVersion, skipped, main, slot, tcVars>>
      /\ tasks' = Tail(tasks) \/ tasks' = Tail(Asked(tasks))
      /\ tasks[1].kind = "hover" /\ tasks # <<>>
  BY DEF PopHover, PreemptNext, PreemptionPossible, MainReady, tcVars
<1>2. /\ nextVersion' = nextVersion /\ skipped' = skipped /\ main' = main /\ slot' = slot
      /\ Turns' /\ UNCHANGED <<indexerVars, epochVars, tcVars>>
      /\ nextVersion <= nextVersion'
  BY <1>1, QueueFacts, SMT DEF Turns, tcVars
<1>3. ~IsEdit(tasks[1]) /\ ~IsEdit(Asked(tasks)[1]) /\ Asked(tasks) # <<>>
  <2>1. 1 \in DOMAIN tasks /\ ~IsEdit(tasks[1]) /\ Asked(tasks) # <<>>
    BY <1>1, QueueFacts, SMT DEF IsEdit
  <2> QED BY <2>1, QueueFacts DEF SameNumbers, IsEdit
<1>4. /\ tasks' \in Seq(Task) /\ Numbered(tasks', Handled, nextVersion)
      /\ ~skipped => Gapless(tasks', Handled, nextVersion)
  BY <1>1, <1>3, QueueFacts, TailKeeps
<1> QED BY <1>2, <1>4, QueueFacts, QuietKeeps

\* An edit is taken from the queue: what it stands for comes next.
LEMMA HeadFacts ==
    ASSUME IInv, tasks # <<>>, IsEdit(tasks[1]), NEW edit, edit = Indexed(tasks[1]),
           tasks' = Tail(tasks) \/ tasks' = Tail(Asked(tasks))
    PROVE  /\ edit \in Task /\ IsEdit(edit) /\ edit.files \in FileTable
           /\ edit.epoch \in Nat /\ edit.mergeCount \in Nat /\ NoNoops(edit.files)
           /\ Handled < edit.epoch - edit.mergeCount /\ edit.epoch <= nextVersion
           /\ tasks' \in Seq(Task) /\ Numbered(tasks', edit.epoch, nextVersion)
           /\ ~skipped => /\ edit.epoch - edit.mergeCount = Handled + 1
                          /\ Gapless(tasks', edit.epoch, nextVersion)
<1> DEFINE task == tasks[1]
           asked == Asked(tasks)
<1>1. task \in Task /\ files \in FileTable
  BY QueueFacts, SMT DEF IInv, Types
<1>2. WithoutNoops(task.files) \in FileTable /\ NoNoops(WithoutNoops(task.files))
  BY <1>1 DEF WithoutNoops, NoNoops, FileTable, Task
<1>3. /\ edit \in Task /\ edit.files = WithoutNoops(task.files) /\ edit.kind = task.kind
      /\ edit.epoch = task.epoch /\ edit.mergeCount = task.mergeCount
  BY <1>1, <1>2 DEF Indexed, Task
<1>4. /\ IsEdit(edit) /\ edit.files \in FileTable /\ NoNoops(edit.files)
      /\ edit.epoch \in Nat /\ edit.mergeCount \in Nat
  <2>1. edit.epoch \in Nat /\ edit.mergeCount \in Nat
    BY <1>3 DEF Task
  <2> QED BY <1>2, <1>3, <2>1 DEF IsEdit
<1>5. 1 \in DOMAIN tasks /\ asked # <<>>
  BY QueueFacts, SMT
<1>6. asked[1].kind = task.kind /\ asked[1].epoch = task.epoch
      /\ asked[1].mergeCount = task.mergeCount
  BY <1>5, QueueFacts DEF SameNumbers
<1>7. ASSUME NEW q \in {tasks, asked}
      PROVE  /\ Handled < First(q[1]) /\ q[1].epoch <= nextVersion
             /\ Tail(q) \in Seq(Task) /\ Numbered(Tail(q), q[1].epoch, nextVersion)
             /\ ~skipped => First(q[1]) = Handled + 1 /\ Gapless(Tail(q), q[1].epoch, nextVersion)
  <2>1. /\ q \in Seq(Task) /\ q # <<>> /\ IsEdit(q[1])
        /\ Numbered(q, Handled, nextVersion) /\ (~skipped => Gapless(q, Handled, nextVersion))
    BY <1>5, <1>6, QueueFacts DEF IsEdit
  <2> QED BY <2>1, QueueFacts, TailKeeps
<1>8. ASSUME NEW q \in {tasks, asked}
      PROVE  q[1].epoch = edit.epoch /\ First(q[1]) = edit.epoch - edit.mergeCount
  BY <1>3, <1>6 DEF First
<1>9. PICK q \in {tasks, asked} : tasks' = Tail(q)
  OBVIOUS
<1>10. /\ Handled < edit.epoch - edit.mergeCount /\ edit.epoch <= nextVersion
       /\ tasks' \in Seq(Task) /\ Numbered(tasks', edit.epoch, nextVersion)
       /\ ~skipped => /\ edit.epoch - edit.mergeCount = Handled + 1
                      /\ Gapless(tasks', edit.epoch, nextVersion)
  BY <1>7, <1>8, <1>9
<1> QED BY <1>3, <1>4, <1>10

\* How far behind the last edit a canceled slow path may start.
LEMMA StillBehind ==
    ASSUME NEW start \in Nat, NEW last \in Nat, NEW count \in Nat, NEW epoch \in Nat,
           NEW merges \in Nat, start > last - count, epoch - merges = last + 1
    PROVE  start > epoch - (merges + 1 + count)
BY SMT

\* It is indexed, at a moment when everything indexed before has been applied.
LEMMA CommitStep ==
    ASSUME IInv, deferred = NoEdit, ~SlowPathWasCanceled,
           tasks # <<>>, IsEdit(tasks[1]), NEW edit, edit = Indexed(tasks[1]),
           tasks' = Tail(tasks) \/ tasks' = Tail(Asked(tasks)),
           NEW r, r = CommitEdit(edit, CanCancel(edit.epoch)), Commit(r),
           UNCHANGED <<nextVersion, skipped, deferred>>
    PROVE  /\ files' \in FileTable /\ evicted' \in FileTable
           /\ pending'.files \in FileTable /\ pending'.epoch \in Nat /\ pending'.editCount \in Nat
           /\ work'.files \in FileTable /\ work'.epoch \in Nat
           /\ tasks' \in Seq(Task) /\ invalidator' \in Nat
           /\ processing' = processing /\ committed' = committed
           /\ Epochs'
           /\ \/ /\ r.update.path = "Fast" /\ ~r.update.canceledSlowPath
                 /\ invalidator' = invalidator
                 /\ files' = Overlay(files, work'.files) /\ EnoughFor(files, work')
                 /\ \A old \in FileTable : CanBeUndone(files, pending, evicted, old) =>
                                           CanBeUndone(files', pending', evicted', old)
              \/ /\ ~SlowPathRunning
                 /\ r.update.path = "Slow" /\ ~r.update.canceledSlowPath
                 /\ invalidator' = invalidator
                 /\ files' = Overlay(files, work'.files)
                 /\ CanBeUndone(files', pending', evicted', files)
              \/ /\ SlowPathRunning
                 /\ r.update.path \in {"Fast", "Slow"} /\ r.update.canceledSlowPath
                 /\ invalidator' # processing
                 /\ \A old \in FileTable : CanBeUndone(files, pending, evicted, old) =>
                       /\ CanBeUndone(files', pending', evicted', old)
                       /\ files' = Overlay(old, work'.files)
                       /\ r.update.path = "Fast" => EnoughFor(old, work')
<1>1. /\ files \in FileTable /\ evicted \in FileTable /\ pending.files \in FileTable
      /\ pending.editCount \in Nat /\ pending.epoch \in Nat
      /\ processing \in Nat /\ committed \in Nat /\ invalidator \in Nat
  BY DEF IInv, Types
<1>2. /\ edit.files \in FileTable /\ edit.epoch \in Nat /\ edit.mergeCount \in Nat
      /\ NoNoops(edit.files)
      /\ Handled < edit.epoch - edit.mergeCount /\ edit.epoch <= nextVersion
      /\ tasks' \in Seq(Task) /\ Numbered(tasks', edit.epoch, nextVersion)
      /\ ~skipped => /\ edit.epoch - edit.mergeCount = Handled + 1
                     /\ Gapless(tasks', edit.epoch, nextVersion)
  BY HeadFacts
<1>3. /\ processing \in Nat /\ committed \in Nat /\ invalidator \in Nat
      /\ pending.epoch \in Nat /\ pending.editCount \in Nat
      /\ edit.epoch \in Nat /\ edit.mergeCount \in Nat
  BY <1>1, <1>2
<1>4. /\ r.files = Overlay(files, edit.files)
      /\ r.files \in FileTable /\ r.evicted \in FileTable
      /\ r.update.files \in FileTable /\ r.update.epoch = edit.epoch
      /\ r.pending.files \in FileTable
      /\ r.pending.epoch = edit.epoch /\ r.pending.editCount \in Nat
      /\ \/ FastCommit(edit, r)
         \/ SlowCommit(edit, r) /\ ~CanCancel(edit.epoch)
         \/ CancelingCommit(edit, r) /\ CanCancel(edit.epoch)
  <2> DEFINE can == CanCancel(edit.epoch)
  <2>1. r = CommitEdit(edit, can)
    OBVIOUS
  <2> HIDE DEF can
  <2>2. Committed(edit, can, r)
    BY <2>1, <1>1, <1>2, CommitKeeps
  <2> QED BY <2>2 DEF Committed, can
<1>5. /\ files' = r.files /\ pending' = r.pending /\ evicted' = r.evicted /\ work' = r.update
      /\ processing' = processing /\ committed' = committed
      /\ invalidator' = IF r.update.canceledSlowPath THEN edit.epoch ELSE invalidator
  BY <1>4 DEF Commit, CancelSlowPath, epochVars
<1>6. /\ Handled = pending.epoch /\ Handled' = edit.epoch
      /\ processing < edit.epoch /\ committed <= processing /\ invalidator = processing
      /\ pending.epoch < edit.epoch - edit.mergeCount
  <2>1. Handled = pending.epoch /\ Handled' = edit.epoch
    BY <1>4, <1>5 DEF Handled
  <2>2. committed <= processing /\ processing <= pending.epoch /\ invalidator = processing
    BY DEF IInv, Epochs, SlowPathWasCanceled
  <2>3. pending.epoch < edit.epoch - edit.mergeCount
    BY <1>2, <2>1
  <2>4. processing < edit.epoch
    BY <1>3, <2>2, <2>3, SMTT(30)
  <2> QED BY <2>1, <2>2, <2>3, <2>4
<1>7. edit.epoch # processing
  BY <1>3, <1>6, SMT
<1>8. CanCancel(edit.epoch) <=> SlowPathRunning
  BY <1>7 DEF CanCancel
<1>9. invalidator' \in Nat /\ invalidator' <= edit.epoch
  <2>1. invalidator' = edit.epoch \/ invalidator' = invalidator
    BY <1>5
  <2> QED BY <2>1, <1>3, <1>6, SMT
<1>10. pending'.editCount > 0
  <2>1. \/ pending'.editCount = edit.mergeCount + 1 + pending.editCount
        \/ pending'.editCount = edit.mergeCount + 1
        \/ pending'.editCount > 0
    BY <1>4, <1>5 DEF FastCommit, SlowCommit, CancelingCommit
  <2> QED BY <2>1, <1>3, SMT
<1>11. ASSUME SlowPathRunning, invalidator' = processing, ~skipped
       PROVE  processing > edit.epoch - pending'.editCount
  <2>1. ~r.update.canceledSlowPath
    BY <1>5, <1>7, <1>11
  <2>2. FastCommit(edit, r)
    BY <2>1, <1>4, <1>8, <1>11 DEF CancelingCommit
  <2>3. pending'.editCount = edit.mergeCount + 1 + pending.editCount
    BY <2>2, <1>5 DEF FastCommit
  <2>4. processing > pending.epoch - pending.editCount
    BY <1>6, <1>11 DEF IInv, Epochs, SlowPathWasCanceled
  <2>5. edit.epoch - edit.mergeCount = pending.epoch + 1
    BY <1>2, <1>6, <1>11
  <2>6. processing > edit.epoch - (edit.mergeCount + 1 + pending.editCount)
    BY <1>3, <2>4, <2>5, StillBehind
  <2> QED BY <2>3, <2>6
<1>12. Epochs'
  <2>1. /\ pending'.epoch = edit.epoch /\ work'.epoch = edit.epoch
        /\ nextVersion' = nextVersion /\ Handled' = edit.epoch
        /\ skipped' <=> skipped
        /\ SlowPathRunning' <=> SlowPathRunning
    BY <1>4, <1>5, <1>6 DEF SlowPathRunning
  <2>2. /\ committed' <= processing' /\ processing' <= pending'.epoch
        /\ pending'.epoch <= Handled' /\ invalidator' <= Handled' /\ Handled' <= nextVersion'
        /\ processing' < Handled' /\ work'.epoch = pending'.epoch
    <3>1. processing <= edit.epoch /\ edit.epoch <= edit.epoch
      BY <1>3, <1>6, SMT
    <3>2. edit.epoch <= nextVersion
      BY <1>2
    <3> QED BY <2>1, <3>1, <3>2, <1>5, <1>6, <1>9
  <2>3. /\ Numbered(tasks', Handled', nextVersion')
        /\ ~skipped' => Gapless(tasks', Handled', nextVersion')
    <3>1. /\ Numbered(tasks', edit.epoch, nextVersion)
          /\ ~skipped => Gapless(tasks', edit.epoch, nextVersion)
      BY <1>2
    <3> QED BY <2>1, <3>1, SMT
  <2>4. ASSUME SlowPathRunning', ~(SlowPathWasCanceled'), ~skipped'
        PROVE  processing' > pending'.epoch - pending'.editCount
    <3>1. SlowPathRunning /\ ~skipped /\ invalidator' = processing
      BY <2>1, <2>4, <1>5 DEF SlowPathWasCanceled
    <3> QED BY <2>1, <3>1, <1>5, <1>11
  <2> QED BY <2>2, <2>3, <2>4, <1>10 DEF Epochs
<1>13. CASE FastCommit(edit, r)
  BY <1>2, <1>4, <1>5, <1>9, <1>12, <1>13 DEF FastCommit
<1>14. CASE SlowCommit(edit, r) /\ ~CanCancel(edit.epoch)
  <2>1. /\ ~SlowPathRunning
        /\ r.update.path = "Slow" /\ ~r.update.canceledSlowPath
        /\ invalidator' = invalidator
    BY <1>5, <1>8, <1>14 DEF SlowCommit
  <2>2. files' = Overlay(files, work'.files) /\ CanBeUndone(files', pending', evicted', files)
    BY <1>4, <1>5, <1>14 DEF SlowCommit
  <2> QED BY <2>1, <2>2, <1>2, <1>4, <1>5, <1>9, <1>12
<1>15. CASE CancelingCommit(edit, r) /\ CanCancel(edit.epoch)
  <2>1. invalidator' # processing
    BY <1>5, <1>7, <1>15 DEF CancelingCommit
  <2> QED BY <2>1, <1>2, <1>4, <1>5, <1>8, <1>9, <1>12, <1>15 DEF CancelingCommit
<1> QED BY <1>4, <1>13, <1>14, <1>15

\* The processing thread takes an edit.
LEMMA PopEditKeeps == ASSUME IInv, PopEdit PROVE IInv'
<1> DEFINE edit == Indexed(tasks[1])
           r == CommitEdit(edit, CanCancel(edit.epoch))
           few == Cardinality(Touched(edit.files)) =< MaxFiles
<1>1. /\ main = "idle" /\ tasks # <<>> /\ tc # "raised" /\ IsEdit(tasks[1])
      /\ tasks' = Tail(tasks)
      /\ UNCHANGED <<nextVersion, skipped, slot, tc, tcFiles, undo>>
  BY DEF PopEdit, MainReady, IsEdit
<1>2. /\ slot = "none" /\ deferred = NoEdit /\ ~SlowPathWasCanceled /\ tc \in {"idle", "slow"}
      /\ files = tcFiles /\ (tc = "idle" <=> ~SlowPathRunning)
      /\ tc = "slow" => CanBeUndone(files, pending, evicted, undo)
  BY <1>1 DEF IInv, Types, Control, Updates, Undoable, Busy
<1>3. tcFiles \in FileTable /\ undo \in FileTable
  BY DEF IInv, Types
<1>4. CASE few
  <2>1. /\ Commit(r) /\ deferred' = deferred
        /\ main' = IF r.update.path = "Fast" THEN "fast" ELSE "slow"
    BY <1>4 DEF PopEdit
  <2>2. /\ files' \in FileTable /\ evicted' \in FileTable
        /\ pending'.files \in FileTable /\ pending'.epoch \in Nat /\ pending'.editCount \in Nat
        /\ work'.files \in FileTable /\ work'.epoch \in Nat
        /\ tasks' \in Seq(Task) /\ invalidator' \in Nat
        /\ processing' = processing /\ committed' = committed
        /\ Epochs'
    BY <1>1, <1>2, <2>1, CommitStep
  <2> DEFINE F == /\ r.update.path = "Fast" /\ ~r.update.canceledSlowPath
                  /\ invalidator' = invalidator
                  /\ files' = Overlay(files, work'.files) /\ EnoughFor(files, work')
                  /\ \A old \in FileTable : CanBeUndone(files, pending, evicted, old) =>
                                            CanBeUndone(files', pending', evicted', old)
             S == /\ ~SlowPathRunning
                  /\ r.update.path = "Slow" /\ ~r.update.canceledSlowPath
                  /\ invalidator' = invalidator
                  /\ files' = Overlay(files, work'.files)
                  /\ CanBeUndone(files', pending', evicted', files)
             C == /\ SlowPathRunning
                  /\ r.update.path \in {"Fast", "Slow"} /\ r.update.canceledSlowPath
                  /\ invalidator' # processing
                  /\ \A old \in FileTable : CanBeUndone(files, pending, evicted, old) =>
                        /\ CanBeUndone(files', pending', evicted', old)
                        /\ files' = Overlay(old, work'.files)
                        /\ r.update.path = "Fast" => EnoughFor(old, work')
  <2>3. F \/ S \/ C
    BY <1>1, <1>2, <2>1, CommitStep
  <2> HIDE DEF r, edit
  <2>4. Types'
    BY <1>1, <2>1, <2>2 DEF IInv, Types
  <2>5. ASSUME NEW old \in {undo, tcFiles},
               SlowPathWasCanceled' => tc = "slow",
               tc = "slow" /\ main' = "slow" => SlowPathWasCanceled',
               Base' = old, files' = Overlay(old, work'.files),
               main' = "fast" => EnoughFor(old, work'),
               tc = "slow" => CanBeUndone(files', pending', evicted', undo),
               tc = "idle" /\ main' = "slow" => CanBeUndone(files', pending', evicted', tcFiles)
        PROVE  Control' /\ Updates' /\ Undoable'
    <3>1. main' \in {"fast", "slow"} /\ deferred' = NoEdit /\ tc' = tc /\ slot' = "none"
          /\ tcFiles' = tcFiles /\ undo' = undo
      BY <1>1, <1>2, <2>1
    <3>2. SlowPathRunning' <=> SlowPathRunning
      BY <2>2 DEF SlowPathRunning
    <3>3. Control'
      BY <1>2, <2>5, <3>1, <3>2 DEF Control
    <3>4. Updates'
      BY <1>2, <2>5, <3>1 DEF Updates, Busy
    <3>5. Undoable'
      BY <1>2, <2>5, <3>1, SMT DEF Undoable
    <3> QED BY <3>3, <3>4, <3>5
  <2>6. CASE F
    <3>1. ~(SlowPathWasCanceled') /\ Base' = tcFiles /\ main' = "fast"
      BY <1>1, <1>2, <2>1, <2>2, <2>6 DEF SlowPathWasCanceled, Base
    <3>2. tc = "slow" => CanBeUndone(files', pending', evicted', undo)
      BY <1>2, <1>3, <2>6, SMT
    <3> QED BY <3>1, <3>2, <1>2, <2>2, <2>4, <2>5, <2>6 DEF IInv
  <2>7. CASE S
    <3>1. ~(SlowPathWasCanceled') /\ Base' = tcFiles /\ main' = "slow" /\ tc = "idle"
      BY <1>1, <1>2, <2>1, <2>2, <2>7 DEF SlowPathWasCanceled, Base
    <3> QED BY <3>1, <1>2, <2>2, <2>4, <2>5, <2>7 DEF IInv
  <2>8. CASE C
    <3>1. SlowPathWasCanceled' /\ Base' = undo /\ tc = "slow"
      BY <1>1, <1>2, <2>1, <2>2, <2>8 DEF SlowPathWasCanceled, Base
    <3>2. main' = "fast" => r.update.path = "Fast"
      BY <2>1
    <3>3. /\ CanBeUndone(files', pending', evicted', undo)
          /\ files' = Overlay(undo, work'.files)
          /\ main' = "fast" => EnoughFor(undo, work')
      BY <3>1, <3>2, <1>2, <1>3, <2>8
    <3> QED BY <3>1, <3>3, <2>2, <2>4, <2>5 DEF IInv
  <2> QED BY <2>3, <2>6, <2>7, <2>8
<1>5. CASE ~few
  <2>1. /\ deferred' = edit /\ main' = "slow"
        /\ UNCHANGED <<files, pending, evicted, processing, committed, invalidator, work>>
    BY <1>5 DEF PopEdit, indexerVars, epochVars
  <2>2. /\ edit \in Task /\ IsEdit(edit) /\ edit.files \in FileTable
        /\ edit.epoch \in Nat /\ edit.mergeCount \in Nat /\ NoNoops(edit.files)
        /\ Handled < edit.epoch - edit.mergeCount /\ edit.epoch <= nextVersion
        /\ tasks' \in Seq(Task) /\ Numbered(tasks', edit.epoch, nextVersion)
        /\ ~skipped => Gapless(tasks', edit.epoch, nextVersion)
    BY <1>1, HeadFacts
  <2> HIDE DEF edit
  <2>3. /\ Handled = pending.epoch /\ pending.epoch \in Nat
        /\ processing \in Nat /\ committed \in Nat /\ invalidator \in Nat
    BY <1>2 DEF IInv, Types, Handled
  <2>4. deferred' # NoEdit /\ Handled' = edit.epoch
    <3>1. edit.epoch # 0
      BY <2>2, <2>3, SMT
    <3>2. edit # NoEdit
      BY <3>1, TaskTypes
    <3> QED BY <3>2, <2>1 DEF Handled
  <2>5. Types'
    BY <1>1, <2>1, <2>2 DEF IInv, Types
  <2>6. Control'
    BY <1>1, <1>2, <1>5, <2>1, <2>2, <2>4
       DEF Control, SlowPathRunning, SlowPathWasCanceled, NoNoops
  <2>7. Epochs'
    <3>1. /\ committed' = committed /\ processing' = processing /\ invalidator' = invalidator
          /\ pending' = pending /\ nextVersion' = nextVersion /\ Handled' = edit.epoch
          /\ (skipped' <=> skipped)
      BY <1>1, <2>1, <2>4
    <3>2. /\ committed <= processing /\ processing <= pending.epoch /\ invalidator <= pending.epoch
          /\ pending.epoch < edit.epoch - edit.mergeCount /\ edit.epoch <= nextVersion
      BY <2>2, <2>3 DEF IInv, Epochs
    <3>3. processing < edit.epoch /\ pending.epoch <= edit.epoch /\ invalidator <= edit.epoch
      BY <2>2, <2>3, <3>2, SMT
    <3>4. /\ Numbered(tasks', Handled', nextVersion')
          /\ ~skipped' => Gapless(tasks', Handled', nextVersion')
      BY <2>2, <3>1
    <3>5. SlowPathRunning' /\ ~(SlowPathWasCanceled') /\ ~skipped' =>
            processing' > pending'.epoch - pending'.editCount
      BY <3>1 DEF IInv, Epochs, SlowPathRunning, SlowPathWasCanceled
    <3> QED BY <2>4, <3>1, <3>2, <3>3, <3>4, <3>5 DEF Epochs
  <2>8. Updates' /\ Undoable'
    BY <1>1, <1>2, <2>1, <2>4 DEF Updates, Undoable, Busy, SlowPathWasCanceled
  <2> QED BY <2>5, <2>6, <2>7, <2>8 DEF IInv
<1> QED BY <1>4, <1>5

\* The PreemptionLoop takes an edit.
LEMMA PreemptNextKeeps ==
    ASSUME IInv, PreemptNext, ~(tasks[1].kind = "hover")
    PROVE  IInv'
<1> DEFINE edit == Indexed(tasks[1])
           r == CommitEdit(edit, CanCancel(edit.epoch))
<1>1. /\ tc = "slow" /\ slot = "running" /\ tasks # <<>>
      /\ tasks' = Tail(Asked(tasks))
      /\ Commit(r)
      /\ tc' = IF r.update.path = "Fast" /\ ~r.update.canceledSlowPath THEN "run" ELSE "raised"
      /\ UNCHANGED <<nextVersion, skipped, main, slot, deferred, tcFiles, undo>>
  BY DEF PreemptNext, PreemptionPossible
<1>2. IsEdit(tasks[1])
  <2>1. tasks[1] \in Task
    BY <1>1, QueueFacts, SMT
  <2> QED BY <2>1 DEF Task, IsEdit
<1>3. /\ main = "await" /\ deferred = NoEdit /\ ~SlowPathWasCanceled /\ SlowPathRunning
      /\ files = tcFiles /\ CanBeUndone(files, pending, evicted, undo)
  BY <1>1 DEF IInv, Types, Control, Updates, Undoable, Busy
<1>4. tcFiles \in FileTable /\ undo \in FileTable
  BY DEF IInv, Types
<1>5. UNCHANGED <<nextVersion, skipped, deferred>>
  BY <1>1
<1>6. /\ files' \in FileTable /\ evicted' \in FileTable
      /\ pending'.files \in FileTable /\ pending'.epoch \in Nat /\ pending'.editCount \in Nat
      /\ work'.files \in FileTable /\ work'.epoch \in Nat
      /\ tasks' \in Seq(Task) /\ invalidator' \in Nat
      /\ processing' = processing /\ committed' = committed
      /\ Epochs'
      /\ \/ /\ r.update.path = "Fast" /\ ~r.update.canceledSlowPath
            /\ invalidator' = invalidator
            /\ files' = Overlay(files, work'.files) /\ EnoughFor(files, work')
            /\ \A old \in FileTable : CanBeUndone(files, pending, evicted, old) =>
                                      CanBeUndone(files', pending', evicted', old)
         \/ r.update.canceledSlowPath
  BY <1>1, <1>2, <1>3, <1>5, CommitStep
<1> HIDE DEF r, edit
<1>7. Types'
  <2>1. tc' \in {"run", "raised"}
    BY <1>1
  <2> QED BY <2>1, <1>1, <1>6 DEF IInv, Types
<1>8. SlowPathRunning'
  BY <1>3, <1>6 DEF SlowPathRunning
<1>9. CASE r.update.canceledSlowPath
  <2>1. tc' = "raised" /\ main' = "await" /\ slot' = "running" /\ deferred' = NoEdit
    BY <1>1, <1>3, <1>9
  <2> QED BY <2>1, <1>6, <1>7, <1>8 DEF IInv, Control, Updates, Undoable
<1>10. CASE ~r.update.canceledSlowPath
  <2>1. /\ tc' = "run" /\ main' = "await" /\ slot' = "running" /\ deferred' = NoEdit
        /\ ~(SlowPathWasCanceled') /\ tcFiles' = tcFiles /\ undo' = undo
    BY <1>1, <1>3, <1>6, <1>10 DEF SlowPathWasCanceled
  <2>2. CanBeUndone(files', pending', evicted', undo)
    BY <1>3, <1>4, <1>6, <1>10
  <2>3. Control'
    BY <2>1, <1>8 DEF Control
  <2>4. Updates' /\ Undoable'
    BY <2>1, <2>2, <1>3, <1>6, <1>10 DEF Updates, Undoable, Base, Busy
  <2> QED BY <2>3, <2>4, <1>6, <1>7 DEF IInv
<1> QED BY <1>9, <1>10

\* The typechecker runs an update that takes the fast path, between slow paths or
\* on the state of one.
LEMMA RunKeeps == ASSUME IInv, RunFast \/ PreemptRun PROVE IInv'
<1>1. /\ UNCHANGED <<files, pending, evicted, processing, committed, invalidator>>
      /\ UNCHANGED <<tasks, nextVersion, skipped, slot, deferred, undo>>
      /\ tcFiles' = Overlay(tcFiles, work.files) /\ work' = NoUpdate
      /\ \/ main = "fast" /\ tc = "idle" /\ main' = "idle" /\ tc' = "idle"
         \/ tc = "run" /\ tc' = "slow" /\ main' = main
  BY DEF RunFast, PreemptRun, indexerVars, epochVars, queueVars
<1>2. /\ deferred = NoEdit /\ ~SlowPathWasCanceled /\ files = Overlay(tcFiles, work.files)
      /\ tc = "run" => main = "await" /\ slot = "running"
  BY <1>1 DEF IInv, Control, Updates, Base, Busy
<1>3. /\ SlowPathRunning' = SlowPathRunning /\ SlowPathWasCanceled' = SlowPathWasCanceled
      /\ Handled' = Handled
  BY <1>1 DEF SlowPathRunning, SlowPathWasCanceled, Handled
<1>4. Types'
  <2>1. work'.files \in FileTable /\ work'.epoch \in Nat
    BY <1>1 DEF NoUpdate, Nothing, FileTable
  <2>2. tcFiles' \in FileTable
    BY <1>1, <1>2 DEF IInv, Types
  <2>3. main' \in {"idle", "await", "fast", "slow"} /\ tc' \in {"idle", "slow", "run", "raised"}
    BY <1>1 DEF IInv, Types
  <2> QED BY <2>1, <2>2, <2>3, <1>1 DEF IInv, Types
<1>5. Control'
  BY <1>1, <1>2, <1>3 DEF IInv, Control
<1>6. Epochs'
  BY <1>1, <1>2, <1>3 DEF IInv, Epochs
<1>7. Updates' /\ Undoable'
  BY <1>1, <1>2, <1>3 DEF IInv, Updates, Undoable, Busy
<1> QED BY <1>4, <1>5, <1>6, <1>7 DEF IInv

\* A slow path begins.
LEMMA StartSlowKeeps == ASSUME IInv, StartSlow PROVE IInv'
<1> DEFINE r == CommitEdit(deferred, FALSE)
           update == IF deferred = NoEdit THEN work ELSE r.update
<1>1. /\ main = "slow" /\ tc = "idle" /\ tc' = "slow" /\ main' = "idle"
      /\ IF deferred = NoEdit THEN UNCHANGED <<files, pending, evicted>>
         ELSE files' = r.files /\ pending' = r.pending /\ evicted' = r.evicted
      /\ processing' = update.epoch /\ invalidator' = update.epoch /\ committed' = committed
      /\ undo' = tcFiles /\ tcFiles' = Overlay(tcFiles, update.files)
      /\ work' = NoUpdate /\ deferred' = NoEdit
      /\ UNCHANGED <<tasks, nextVersion, skipped, slot>>
  BY DEF StartSlow, StartCommitEpoch, indexerVars, queueVars
<1>2. /\ files \in FileTable /\ evicted \in FileTable /\ pending.files \in FileTable
      /\ tcFiles \in FileTable /\ pending.epoch \in Nat /\ pending.editCount \in Nat
      /\ work.files \in FileTable /\ work.epoch \in Nat /\ deferred \in Task
      /\ processing \in Nat /\ committed \in Nat
  BY DEF IInv, Types
<1>3. /\ slot = "none" /\ committed <= processing /\ processing < Handled
      /\ Handled <= nextVersion
  BY <1>1 DEF IInv, Control, Epochs
<1>4. /\ files' \in FileTable /\ evicted' \in FileTable /\ pending'.files \in FileTable
      /\ pending'.epoch = Handled /\ pending'.editCount \in Nat /\ pending'.editCount > 0
      /\ update.epoch = Handled
      /\ files' = Overlay(tcFiles, update.files)
      /\ CanBeUndone(files', pending', evicted', tcFiles)
  <2>1. CASE deferred = NoEdit
    <3>1. /\ Handled = pending.epoch /\ work.epoch = pending.epoch /\ pending.editCount > 0
          /\ files = Overlay(tcFiles, work.files)
          /\ CanBeUndone(files, pending, evicted, tcFiles)
      BY <1>1, <2>1 DEF IInv, Handled, Epochs, Updates, Undoable, Base, Busy
    <3>2. update = work
      BY <2>1
    <3> HIDE DEF update
    <3> QED BY <1>1, <1>2, <2>1, <3>1, <3>2
  <2>2. CASE deferred # NoEdit
    <3>1. /\ files = tcFiles /\ NoNoops(deferred.files) /\ Handled = deferred.epoch
          /\ ~(Cardinality(Touched(deferred.files)) =< MaxFiles)
      BY <1>1, <2>2 DEF IInv, Control, Handled, Updates, Busy
    <3>2. deferred.files \in FileTable /\ deferred.epoch \in Nat /\ deferred.mergeCount \in Nat
      BY <1>2 DEF Task
    <3>3. /\ r.files = Overlay(files, deferred.files)
          /\ r.files \in FileTable /\ r.evicted \in FileTable
          /\ r.update.epoch = deferred.epoch /\ r.pending.files \in FileTable
          /\ r.pending.epoch = deferred.epoch /\ r.pending.editCount \in Nat
          /\ SlowCommit(deferred, r)
      <4> DEFINE can == FALSE
                 result == CommitEdit(deferred, can)
      <4>1. ~can /\ r = result
        OBVIOUS
      <4> HIDE DEF can, r
      <4>2. Committed(deferred, can, result)
        BY <1>2, <3>1, <3>2, CommitKeeps
      <4> HIDE DEF result
      <4> QED BY <4>1, <4>2, <3>1 DEF Committed
    <3> HIDE DEF r
    <3>4. update = r.update
      BY <2>2
    <3> HIDE DEF update
    <3>5. /\ r.update.files = deferred.files /\ r.pending.editCount = deferred.mergeCount + 1
          /\ CanBeUndone(r.files, r.pending, r.evicted, files)
      BY <3>3 DEF SlowCommit
    <3>6. /\ files' = r.files /\ pending' = r.pending /\ evicted' = r.evicted
      BY <1>1, <2>2
    <3>7. r.pending.editCount > 0
      BY <3>2, <3>5, SMT
    <3>8. /\ files' \in FileTable /\ evicted' \in FileTable /\ pending'.files \in FileTable
          /\ pending'.epoch = Handled /\ pending'.editCount \in Nat /\ pending'.editCount > 0
          /\ update.epoch = Handled
      BY <3>1, <3>3, <3>4, <3>6, <3>7
    <3>9. files' = Overlay(tcFiles, update.files)
      BY <3>1, <3>3, <3>4, <3>5, <3>6
    <3>10. CanBeUndone(files', pending', evicted', tcFiles)
      BY <3>1, <3>5, <3>6
    <3> QED BY <3>8, <3>9, <3>10
  <2> QED BY <2>1, <2>2
<1> HIDE DEF update, r
<1>5. Handled \in Nat
  BY <1>2 DEF Handled, Task
<1>6. Handled' = Handled
  BY <1>1, <1>4 DEF Handled
<1>7. processing' = Handled /\ invalidator' = Handled /\ committed' = committed
      /\ SlowPathRunning' /\ ~(SlowPathWasCanceled')
  BY <1>1, <1>2, <1>3, <1>4, <1>5, SMTT(30) DEF SlowPathRunning, SlowPathWasCanceled
<1>8. Types'
  <2>1. work'.files \in FileTable /\ work'.epoch \in Nat
    BY <1>1 DEF NoUpdate, Nothing, FileTable
  <2>2. tcFiles' \in FileTable /\ undo' \in FileTable /\ pending'.epoch \in Nat
    BY <1>1, <1>2, <1>4, <1>5
  <2>3. main' \in {"idle", "await", "fast", "slow"} /\ tc' \in {"idle", "slow", "run", "raised"}
    BY <1>1
  <2>4. deferred' \in Task
    BY <1>1, TaskTypes
  <2> QED BY <2>1, <2>2, <2>3, <2>4, <1>1, <1>2, <1>4, <1>5, <1>7 DEF IInv, Types
<1>9. Control'
  BY <1>1, <1>3, <1>7 DEF Control
<1>10. Epochs'
  <2>1. /\ Numbered(tasks', Handled', nextVersion')
        /\ ~skipped' => Gapless(tasks', Handled', nextVersion')
    BY <1>1, <1>6 DEF IInv, Epochs
  <2>2. /\ committed' <= processing' /\ processing' <= pending'.epoch
        /\ pending'.epoch <= Handled' /\ invalidator' <= Handled' /\ Handled' <= nextVersion'
        /\ processing' > pending'.epoch - pending'.editCount
    <3>1. /\ committed' = committed /\ processing' = Handled /\ pending'.epoch = Handled
          /\ invalidator' = Handled /\ Handled' = Handled /\ nextVersion' = nextVersion
      BY <1>1, <1>4, <1>6, <1>7
    <3>2. /\ committed \in Nat /\ processing \in Nat /\ Handled \in Nat
          /\ committed <= processing /\ processing < Handled /\ Handled <= nextVersion
          /\ pending'.editCount \in Nat /\ pending'.editCount > 0
      BY <1>2, <1>3, <1>4, <1>5
    <3> HIDE DEF Handled
    <3> QED BY <3>1, <3>2, SMTT(30)
  <2>3. ~(main' \in {"fast", "slow"})
    BY <1>1
  <2> QED BY <2>1, <2>2, <2>3 DEF Epochs
<1>11. Updates' /\ Undoable'
  BY <1>1, <1>4, <1>7 DEF Updates, Undoable, Busy
<1> QED BY <1>8, <1>9, <1>10, <1>11 DEF IInv

\* A slow path ends: it commits, or is undone for the update that canceled it.
LEMMA EndSlowKeeps == ASSUME IInv, EndSlow PROVE IInv'
<1>1. /\ tc = "slow" /\ slot \notin {"scheduled", "running"} /\ tc' = "idle"
      /\ UNCHANGED <<files, pending, evicted, tasks, nextVersion, skipped, main, slot>>
      /\ UNCHANGED <<work, deferred>>
      /\ tcFiles' = IF SlowPathWasCanceled THEN undo ELSE tcFiles
      /\ undo' = Nothing /\ CommitEpoch
  BY DEF EndSlow, indexerVars, queueVars
<1>2. /\ processing \in Nat /\ committed \in Nat /\ invalidator \in Nat
      /\ committed <= processing /\ processing <= pending.epoch /\ invalidator <= Handled
      /\ pending.epoch \in Nat /\ Handled \in Nat /\ pending.epoch <= Handled
  BY DEF IInv, Types, Epochs, Handled, Task
<1>3. /\ ~(SlowPathRunning') /\ ~(SlowPathWasCanceled')
      /\ processing' \in Nat /\ committed' \in Nat /\ invalidator' \in Nat
      /\ committed' <= processing' /\ processing' <= processing /\ invalidator' <= Handled
  BY <1>1, <1>2, SMT DEF CommitEpoch, SlowPathRunning, SlowPathWasCanceled
<1>4. Handled' = Handled
  BY <1>1 DEF Handled
<1>5. SlowPathWasCanceled => main \in {"fast", "slow"} /\ deferred = NoEdit
  BY <1>1 DEF IInv, Control
<1>6. Types'
  <2>1. tcFiles' \in FileTable /\ undo' \in FileTable
    BY <1>1 DEF IInv, Types, Nothing, FileTable
  <2>2. tc' \in {"idle", "slow", "run", "raised"}
    BY <1>1
  <2> QED BY <2>1, <2>2, <1>1, <1>3 DEF IInv, Types
<1>7. Control'
  BY <1>1, <1>3 DEF IInv, Control, NoNoops
<1>8. Epochs'
  <2>1. /\ Numbered(tasks', Handled', nextVersion')
        /\ ~skipped' => Gapless(tasks', Handled', nextVersion')
    BY <1>1, <1>4 DEF IInv, Epochs
  <2>2. /\ processing' <= pending'.epoch /\ pending'.epoch <= Handled'
        /\ invalidator' <= Handled' /\ Handled' <= nextVersion'
    BY <1>1, <1>2, <1>3, <1>4, SMT DEF IInv, Epochs
  <2>3. main' \in {"fast", "slow"} => processing' < Handled'
    <3>1. main \in {"fast", "slow"} => processing < Handled
      BY DEF IInv, Epochs
    <3> QED BY <3>1, <1>1, <1>2, <1>3, <1>4, SMT
  <2>4. main' \in {"fast", "slow"} /\ deferred' = NoEdit =>
          work'.epoch = pending'.epoch /\ pending'.editCount > 0
    BY <1>1 DEF IInv, Epochs
  <2> QED BY <2>1, <2>2, <2>3, <2>4, <1>3 DEF Epochs
<1>9. Updates'
  <2>1. Base' = Base /\ (Busy' <=> Busy)
    BY <1>1, <1>3 DEF Base, Busy
  <2>2. ~Busy => tcFiles' = tcFiles
    BY <1>1, <1>5 DEF Busy
  <2> QED BY <2>1, <2>2, <1>1 DEF IInv, Updates
<1>10. Undoable'
  <2>1. main = "slow" /\ deferred = NoEdit => SlowPathWasCanceled
    BY <1>1 DEF IInv, Control
  <2> QED BY <2>1, <1>1 DEF IInv, Undoable
<1> QED BY <1>6, <1>7, <1>8, <1>9, <1>10 DEF IInv

\* Every step keeps the invariant.
LEMMA NextKeeps == IInv /\ [Next]_vars => IInv'
<1> SUFFICES ASSUME IInv, [Next]_vars PROVE IInv'
  OBVIOUS
<1>1. CASE UNCHANGED vars
  <2>1. /\ UNCHANGED <<indexerVars, epochVars, tcVars>>
        /\ UNCHANGED <<tasks, nextVersion, skipped, main, slot, tc>>
    BY <1>1 DEF vars, queueVars, tcVars
  <2>2. Turns' /\ nextVersion <= nextVersion'
    BY <2>1, QueueFacts, SMT DEF Turns
  <2>3. tasks' = tasks /\ nextVersion' = nextVersion /\ skipped' = skipped /\ main' = main
        /\ slot' = slot /\ UNCHANGED <<indexerVars, epochVars, tcVars>>
    BY <2>1
  <2> QED BY <2>2, <2>3, QueueFacts, QuietKeeps
<1>2. CASE (\E changed \in Edits : ClientEdits(changed)) \/ ClientEditsNothing \/ ClientHovers
  BY <1>2, ClientKeeps
<1>3. CASE SchedulePreemption \/ AwaitEnds \/ Preempt \/ PreemptEnds
  BY <1>3, LoopKeeps
<1>4. CASE PopEdit
  BY <1>4, PopEditKeeps
<1>5. CASE PopHover
  BY <1>5, HoverKeeps
<1>6. CASE PreemptNext
  BY <1>6, HoverKeeps, PreemptNextKeeps, SMT
<1>7. CASE RunFast \/ PreemptRun
  BY <1>7, RunKeeps
<1>8. CASE StartSlow
  BY <1>8, StartSlowKeeps
<1>9. CASE EndSlow
  BY <1>9, EndSlowKeeps
<1> QED BY <1>1, <1>2, <1>3, <1>4, <1>5, <1>6, <1>7, <1>8, <1>9 DEF Next

\* The inductive invariant holds in every reachable state.
THEOREM Invariant == Spec => []IInv
<1>1. Init => IInv
  BY InitKeeps
<1>2. IInv /\ [Next]_vars => IInv'
  BY NextKeeps
<1> QED BY <1>1, <1>2, PTL DEF Spec

-----------------------------------------------------------------------------
\* What follows from it.

\* Every variable has the type its declaration in the code gives it; the queue
\* holds no edit with a number that no message has had.
THEOREM TypeCorrect == Spec => []TypeOK
<1>1. IInv => TypeOK
  <2> SUFFICES ASSUME IInv PROVE TypeOK
    OBVIOUS
  <2>1. ASSUME NEW i \in DOMAIN tasks
        PROVE  /\ tasks[i].kind = "edit" => tasks[i].epoch \in 1 .. nextVersion
               /\ tasks[i].decision \in {"none", "Fast", "Slow"}
    <3>1. tasks[i] \in Task /\ nextVersion \in Nat /\ Handled \in Nat
      BY QueueFacts, SMT
    <3>2. IsEdit(tasks[i]) => Handled < First(tasks[i]) /\ tasks[i].epoch <= nextVersion
      BY QueueFacts DEF Numbered
    <3> QED BY <3>1, <3>2, SMT DEF Task, First, IsEdit
  <2>2. {processing, committed, invalidator} \subseteq 0 .. nextVersion
    <3>1. /\ processing \in Nat /\ committed \in Nat /\ invalidator \in Nat
          /\ Handled \in Nat /\ nextVersion \in Nat /\ pending.epoch \in Nat
      BY QueueFacts DEF IInv, Types
    <3>2. /\ committed <= processing /\ processing <= pending.epoch
          /\ pending.epoch <= Handled /\ invalidator <= Handled /\ Handled <= nextVersion
      BY DEF IInv, Epochs
    <3> QED BY <3>1, <3>2, SMT
  <2> QED BY <2>1, <2>2 DEF IInv, Types, TypeOK
<1> QED BY <1>1, Invariant, PTL

\* Whatever was preempted, canceled, restored, merged or indexed on the other
\* thread: once the edits that were indexed have been applied, the typechecker
\* has the files of the indexer.
THEOREM TypecheckerHasTheFilesHolds == Spec => []TypecheckerHasTheFiles
<1>1. IInv => TypecheckerHasTheFiles
  BY DEF IInv, Updates, Busy, TypecheckerHasTheFiles, Settled
<1> QED BY <1>1, Invariant, PTL

\* For as long as a slow path may be canceled, commitEdit has what it takes to
\* undo it: the versions evicted since it began and every file it changed.
THEOREM SlowPathCanBeUndoneHolds == Spec => []SlowPathCanBeUndone
<1>1. IInv => SlowPathCanBeUndone
  BY DEF IInv, Undoable, SlowPathCanBeUndone, Settled
<1> QED BY <1>1, Invariant, PTL

\* The fast path is run only where the few files it redoes are enough, judged by
\* the files that the typechecker has when it runs.
THEOREM FastPathIsEnoughHolds == Spec => []FastPathIsEnough
<1>1. IInv => FastPathIsEnough
  BY DEF IInv, Updates, Base, FastPathIsEnough
<1> QED BY <1>1, Invariant, PTL

\* commitEdit's ENFORCEs about the epoch of the slow path, as long as every
\* number went to an edit.
THEOREM EpochIsPendingHolds == Spec => []EpochIsPending
<1>1. IInv => EpochIsPending
  BY DEF IInv, Epochs, EpochIsPending
<1> QED BY <1>1, Invariant, PTL

=============================================================================
