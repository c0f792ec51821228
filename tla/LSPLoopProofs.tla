--------------------------- MODULE LSPLoopProofs ----------------------------
(***************************************************************************)
(* Proofs of the scheduling core for every number of messages, files and   *)
(* strata: what the rewrites of the task queue keep, type correctness, the *)
(* ownership of the preemption slot, the exclusion of preemption and       *)
(* cancellation, the completeness of the last run of a preemption task,    *)
(* and the undo state of a canceled slow path; then that epochs only move  *)
(* forward, and that no message of the client is lost or acted on twice.   *)
(***************************************************************************)
EXTENDS LSPLoop, TLAPS

\* Most leaves are first-order: Zenon is the backend, SMT where arithmetic or
\* sequences are at work.
USE ZenonT(20)

-----------------------------------------------------------------------------
\* The task queue: every rewrite leaves a queue of tasks; mergeFileChanges and
\* the promotion of runLSP change neither the messages the queue stands for nor
\* the order of its edits.

-----------------------------------------------------------------------------
\* Types.

\* Removing a task leaves a queue of tasks.
LEMMA WithoutTaskType ==
    ASSUME NEW q \in Seq(Task), NEW i \in DOMAIN q
    PROVE  WithoutTask(q, i) \in Seq(Task)
  <1>1. i \in 1..Len(q)
    BY SMT
  <1>2. SubSeq(q, 1, i - 1) \in Seq(Task)
    BY <1>1, SMT
  <1>3. SubSeq(q, i + 1, Len(q)) \in Seq(Task)
    BY <1>1, SMT
  <1> QED
    BY <1>2, <1>3, SMT DEF WithoutTask

\* The merge of two edits is a task.
LEMMA MergeNewerType ==
    ASSUME NEW older \in Task, NEW newer \in Task, NEW path \in Paths
    PROVE  MergeNewer(older, newer, path) \in Task
  BY DEF MergeNewer, Task

\* mergeFileChanges leaves a queue of tasks.
LEMMA MergeFileChangesType ==
    ASSUME NEW q \in Seq(Task), NEW r, MergeFileChanges(q, r)
    PROVE  r \in Seq(Task)
  <1>1. CASE r = q
    BY <1>1
  <1>2. CASE \E i, j \in DOMAIN q, path \in Paths :
               r = WithoutTask([q EXCEPT ![i] = MergeNewer(q[i], q[j], path)], j)
    <2>1. PICK i \in DOMAIN q, j \in DOMAIN q, path \in Paths :
                 r = WithoutTask([q EXCEPT ![i] = MergeNewer(q[i], q[j], path)], j)
      BY <1>2
    <2> DEFINE merged == MergeNewer(q[i], q[j], path)
               s == [q EXCEPT ![i] = merged]
    <2>2. q[i] \in Task /\ q[j] \in Task
      BY SMT
    <2>3. merged \in Task
      BY <2>2, MergeNewerType
    <2> HIDE DEF merged
    <2>4. s \in Seq(Task) /\ DOMAIN s = DOMAIN q
      BY <2>3, SMT
    <2> HIDE DEF s
    <2>5. r = WithoutTask(s, j)
      BY <2>1 DEF s, merged
    <2> QED
      BY <2>4, <2>5, WithoutTaskType
  <1> QED
    BY <1>1, <1>2 DEF MergeFileChanges

\* The promotion of the edits up to c leaves a queue of tasks.
LEMMA PromoteType ==
    ASSUME NEW q \in Seq(Task), NEW c \in DOMAIN q, NEW r, Promote(q, c, r)
    PROVE  r \in Seq(Task)
  <1>1. PICK oldest \in EditsUpTo(q, c), path \in Paths, n \in 0..(c - 1) :
          \E order \in [1..n -> 1..c] :
            r = <<[q[oldest] EXCEPT
                     !.path = path,
                     !.epoch = q[c].epoch,
                     !.files = UNION {q[i].files : i \in EditsUpTo(q, c)},
                     !.covers = UNION {q[i].covers : i \in EditsUpTo(q, c)}]>>
               \o [i \in 1..n |-> q[order[i]]]
               \o SubSeq(q, c + 1, Len(q))
    BY ZenonT(30) DEF Promote
  <1>2. PICK order \in [1..n -> 1..c] :
            r = <<[q[oldest] EXCEPT
                     !.path = path,
                     !.epoch = q[c].epoch,
                     !.files = UNION {q[i].files : i \in EditsUpTo(q, c)},
                     !.covers = UNION {q[i].covers : i \in EditsUpTo(q, c)}]>>
               \o [i \in 1..n |-> q[order[i]]]
               \o SubSeq(q, c + 1, Len(q))
    BY <1>1
  <1> DEFINE files == UNION {q[i].files : i \in EditsUpTo(q, c)}
             covers == UNION {q[i].covers : i \in EditsUpTo(q, c)}
             edit == [q[oldest] EXCEPT !.path = path, !.epoch = q[c].epoch,
                                       !.files = files, !.covers = covers]
             others == [i \in 1..n |-> q[order[i]]]
             rest == SubSeq(q, c + 1, Len(q))
  <1>3. c \in 1..Len(q) /\ \A i \in 1..c : q[i] \in Task
    BY SMT
  <1>4. EditsUpTo(q, c) \subseteq 1..c
    BY DEF EditsUpTo
  <1>5. files \subseteq Files /\ covers \subseteq Nat
    BY <1>3, <1>4, SMTT(30) DEF Task
  <1>6. q[oldest] \in Task /\ q[c].epoch \in Nat
    BY <1>3, <1>4, SMTT(30) DEF Task
  <1> HIDE DEF files, covers
  <1>7. edit \in Task
    BY <1>5, <1>6 DEF Task
  <1> HIDE DEF edit
  <1>8. others \in Seq(Task)
    BY <1>3, SMT
  <1>9. rest \in Seq(Task)
    BY <1>3, SMT
  <1>10. r = <<edit>> \o others \o rest
    BY <1>2 DEF edit, files, covers
  <1> HIDE DEF others, rest
  <1>11. <<edit>> \in Seq(Task)
    BY <1>7, SMT
  <1> QED
    BY <1>8, <1>9, <1>10, <1>11, SMT

-----------------------------------------------------------------------------
\* Messages and epochs.

\* The messages the tasks of q stand for.
Messages(q) == UNION {q[i].covers : i \in DOMAIN q}

\* No message is in two tasks of q.
Disjoint(q) == \A i, j \in DOMAIN q : i # j => q[i].covers \cap q[j].covers = {}

\* The edits of q are in the order of their epochs.
EditsOrdered(q) ==
    \A i, j \in DOMAIN q :
      i < j /\ IsEdit(q[i]) /\ IsEdit(q[j]) => q[i].epoch < q[j].epoch

\* The epochs of the edits of q are above lo and at most hi.
EditsWithin(q, lo, hi) ==
    \A i \in DOMAIN q : IsEdit(q[i]) => lo < q[i].epoch /\ q[i].epoch <= hi

\* r gathers the tasks of q at the positions of to: the one at i goes into the task
\* at to[i], which stands for the messages of all that went into it.
Gathers(q, to, r) ==
    /\ DOMAIN to \subseteq DOMAIN q /\ \A i \in DOMAIN to : to[i] \in DOMAIN r
    /\ \A k \in DOMAIN r : \A m :
         m \in r[k].covers <=> \E i \in DOMAIN to : to[i] = k /\ m \in q[i].covers

\* The edit at k of r has the epoch of the edit at pos[k] of q.
Follows(q, pos, r) ==
    /\ DOMAIN pos = DOMAIN r
    /\ \A k \in DOMAIN r : IsEdit(r[k]) =>
         pos[k] \in DOMAIN q /\ IsEdit(q[pos[k]]) /\ r[k].epoch = q[pos[k]].epoch
    /\ \A k, l \in DOMAIN r :
         k < l /\ IsEdit(r[k]) /\ IsEdit(r[l]) => pos[k] < pos[l]

\* r has no new edit, and those of q it keeps are in the same order.
KeepsOrder(q, r) ==
    /\ EditsOrdered(q) => EditsOrdered(r)
    /\ \A lo, hi \in Nat : EditsWithin(q, lo, hi) => EditsWithin(r, lo, hi)

\* Gathering keeps the messages apart and loses none of those gathered.
LEMMA Gathered ==
    ASSUME NEW q, NEW r, NEW to, Gathers(q, to, r)
    PROVE  /\ Disjoint(q) => Disjoint(r)
           /\ Messages(r) = UNION {q[i].covers : i \in DOMAIN to}
  <1>1. Disjoint(q) => Disjoint(r)
    <2> SUFFICES ASSUME Disjoint(q), NEW k \in DOMAIN r, NEW l \in DOMAIN r,
                        NEW m, m \in r[k].covers, m \in r[l].covers
                 PROVE  k = l
      BY DEF Disjoint
    <2>1. PICK i \in DOMAIN to : to[i] = k /\ m \in q[i].covers
      BY SMT DEF Gathers
    <2>2. PICK j \in DOMAIN to : to[j] = l /\ m \in q[j].covers
      BY DEF Gathers
    <2> QED
      BY <2>1, <2>2 DEF Disjoint, Gathers
  <1>2. \A m : m \in Messages(r) <=> m \in UNION {q[i].covers : i \in DOMAIN to}
    <2> SUFFICES ASSUME NEW m
                 PROVE  (\E k \in DOMAIN r : m \in r[k].covers)
                          <=> (\E i \in DOMAIN to : m \in q[i].covers)
      BY DEF Messages
    <2> QED
      BY DEF Gathers
  <1> QED
    BY <1>1, <1>2

\* The order is kept where the epochs follow the positions.
LEMMA OrderKept ==
    ASSUME NEW q \in Seq(Task), NEW r, NEW pos, Follows(q, pos, r)
    PROVE  KeepsOrder(q, r)
  <1>1. EditsOrdered(q) => EditsOrdered(r)
    BY DEF EditsOrdered, Follows
  <1>2. \A lo, hi \in Nat : EditsWithin(q, lo, hi) => EditsWithin(r, lo, hi)
    BY DEF EditsWithin, Follows
  <1> QED
    BY <1>1, <1>2 DEF KeepsOrder

\* The elements of a concatenation.
LEMMA ConcatAt ==
    ASSUME NEW S, NEW a \in Seq(S), NEW b \in Seq(S)
    PROVE  /\ a \o b \in Seq(S) /\ Len(a \o b) = Len(a) + Len(b)
           /\ DOMAIN (a \o b) = 1..(Len(a) + Len(b))
           /\ \A k \in 1..(Len(a) + Len(b)) :
                (a \o b)[k] = IF k <= Len(a) THEN a[k] ELSE b[k - Len(a)]
  BY SMT

\* Where the tasks of a queue are once the one at j is gone.
LEMMA WithoutTaskAt ==
    ASSUME NEW q \in Seq(Task), NEW j \in DOMAIN q
    PROVE  /\ DOMAIN WithoutTask(q, j) = 1..(Len(q) - 1)
           /\ \A k \in 1..(Len(q) - 1) :
                WithoutTask(q, j)[k] = IF k < j THEN q[k] ELSE q[k + 1]
  <1>1. j \in 1..Len(q) /\ Len(q) \in Nat
    BY SMT
  <1> DEFINE a == SubSeq(q, 1, j - 1)
             b == SubSeq(q, j + 1, Len(q))
  <1>2. a \in Seq(Task) /\ Len(a) = j - 1 /\ \A k \in 1..(j - 1) : a[k] = q[k]
    BY <1>1, SMT
  <1>3. /\ b \in Seq(Task) /\ Len(b) = Len(q) - j
        /\ \A k \in 1..(Len(q) - j) : b[k] = q[k + j]
    BY <1>1, SMTT(30)
  <1>4. WithoutTask(q, j) = a \o b
    BY DEF WithoutTask
  <1> HIDE DEF a, b
  <1>5. /\ DOMAIN WithoutTask(q, j) = 1..(Len(a) + Len(b))
        /\ \A k \in 1..(Len(a) + Len(b)) :
             WithoutTask(q, j)[k] = IF k <= Len(a) THEN a[k] ELSE b[k - Len(a)]
    <2>1. /\ DOMAIN (a \o b) = 1..(Len(a) + Len(b))
          /\ \A k \in 1..(Len(a) + Len(b)) :
               (a \o b)[k] = IF k <= Len(a) THEN a[k] ELSE b[k - Len(a)]
      BY <1>2, <1>3, ConcatAt
    <2> QED
      BY <1>4, <2>1
  <1>6. Len(a) + Len(b) = Len(q) - 1
    BY <1>1, <1>2, <1>3, SMTT(30)
  <1>7. ASSUME NEW k \in 1..(Len(q) - 1)
        PROVE  WithoutTask(q, j)[k] = IF k < j THEN q[k] ELSE q[k + 1]
    <2>1. WithoutTask(q, j)[k] = IF k <= j - 1 THEN a[k] ELSE b[k - (j - 1)]
      BY <1>2, <1>5, <1>6
    <2>2. CASE k < j
      BY <1>1, <1>2, <2>1, <2>2, SMT
    <2>3. CASE ~(k < j)
      <3>1. k - (j - 1) \in 1..(Len(q) - j) /\ k - (j - 1) + j = k + 1
        BY <1>1, <2>3, SMT
      <3>2. b[k - (j - 1)] = q[k - (j - 1) + j]
        BY <1>3, <3>1
      <3> QED
        BY <1>1, <2>1, <2>3, <3>1, <3>2, SMTT(30)
    <2> QED
      BY <2>2, <2>3
  <1> QED
    BY <1>5, <1>6, <1>7

\* Removing a task removes its messages and nothing else.
LEMMA WithoutTaskKeeps ==
    ASSUME NEW q \in Seq(Task), NEW j \in DOMAIN q
    PROVE  /\ Disjoint(q) => /\ Disjoint(WithoutTask(q, j))
                             /\ q[j].covers \cap Messages(WithoutTask(q, j)) = {}
           /\ Messages(q) = q[j].covers \cup Messages(WithoutTask(q, j))
           /\ KeepsOrder(q, WithoutTask(q, j))
  <1> DEFINE r == WithoutTask(q, j)
             D == DOMAIN q \ {j}
             to == [i \in D |-> IF i < j THEN i ELSE i - 1]
             pos == [k \in DOMAIN r |-> IF k < j THEN k ELSE k + 1]
  <1>1. Len(q) \in Nat /\ j \in 1..Len(q) /\ DOMAIN q = 1..Len(q)
    BY SMT
  <1>2. /\ DOMAIN r = 1..(Len(q) - 1)
        /\ \A k \in DOMAIN r : r[k] = IF k < j THEN q[k] ELSE q[k + 1]
    BY WithoutTaskAt
  <1> HIDE DEF r
  <1>3. /\ \A k \in DOMAIN r : pos[k] \in D /\ r[k] = q[pos[k]] /\ to[pos[k]] = k
        /\ \A i \in D : to[i] \in DOMAIN r /\ pos[to[i]] = i
        /\ \A k, l \in DOMAIN r : k < l => pos[k] < pos[l]
    BY <1>1, <1>2, SMTT(30)
  <1>4. DOMAIN to = D /\ DOMAIN pos = DOMAIN r /\ D \subseteq DOMAIN q
    OBVIOUS
  <1>5. Messages(q) = q[j].covers \cup UNION {q[i].covers : i \in D}
    BY DEF Messages
  <1>6. Disjoint(q) => q[j].covers \cap UNION {q[i].covers : i \in D} = {}
    BY DEF Disjoint
  <1> HIDE DEF to, pos, D
  <1>7. Gathers(q, to, r)
    <2> SUFFICES ASSUME NEW k \in DOMAIN r, NEW m
                 PROVE  m \in r[k].covers
                          <=> \E i \in D : to[i] = k /\ m \in q[i].covers
      BY <1>3, <1>4 DEF Gathers
    <2> QED
      BY <1>3, SMT
  <1>8. Follows(q, pos, r)
    BY <1>3, <1>4 DEF Follows
  <1>9. KeepsOrder(q, r)
    BY <1>8, OrderKept
  <1> QED
    BY <1>4, <1>5, <1>6, <1>7, <1>9, Gathered DEF r

\* r is q with merged at i and without the task at j.
MergedAt(q, i, j, merged, r) ==
    /\ DOMAIN r = 1..(Len(q) - 1)
    /\ r[i] = merged
    /\ \A k \in 1..(Len(q) - 1) : k # i => r[k] = IF k < j THEN q[k] ELSE q[k + 1]

\* Where the tasks of a queue are once the edit at j is merged into the one at i.
LEMMA MergeAt ==
    ASSUME NEW q \in Seq(Task), NEW i \in DOMAIN q, NEW j \in DOMAIN q, i < j,
           NEW merged \in Task
    PROVE  MergedAt(q, i, j, merged, WithoutTask([q EXCEPT ![i] = merged], j))
  <1> DEFINE s == [q EXCEPT ![i] = merged]
  <1>1. Len(q) \in Nat /\ i \in 1..Len(q) /\ j \in 1..Len(q) /\ DOMAIN q = 1..Len(q)
    BY SMT
  <1>2. /\ s \in Seq(Task) /\ DOMAIN s = DOMAIN q /\ Len(s) = Len(q) /\ s[i] = merged
        /\ \A k \in DOMAIN q : k # i => s[k] = q[k]
    BY <1>1, SMT
  <1> HIDE DEF s
  <1>3. /\ DOMAIN WithoutTask(s, j) = 1..(Len(q) - 1)
        /\ \A k \in 1..(Len(q) - 1) :
             WithoutTask(s, j)[k] = IF k < j THEN s[k] ELSE s[k + 1]
    BY <1>2, WithoutTaskAt
  <1>4. i \in 1..(Len(q) - 1)
    BY <1>1, SMT
  <1>5. WithoutTask(s, j)[i] = merged
    BY <1>2, <1>3, <1>4
  <1>6. ASSUME NEW k \in 1..(Len(q) - 1), k # i
        PROVE  WithoutTask(s, j)[k] = IF k < j THEN q[k] ELSE q[k + 1]
    <2>1. k \in DOMAIN q /\ k + 1 \in DOMAIN q /\ (~(k < j) => k + 1 # i)
      BY <1>1, SMT
    <2> QED
      BY <1>2, <1>3, <1>6, <2>1
  <1> QED
    BY <1>3, <1>5, <1>6 DEF s, MergedAt

\* Merging an edit into an older one changes neither the messages of the queue
\* nor the order of its edits.
LEMMA MergeKeeps ==
    ASSUME NEW q \in Seq(Task), NEW i \in DOMAIN q, NEW j \in DOMAIN q,
           Mergeable(q, i, j), NEW merged, NEW r,
           merged.covers = q[i].covers \cup q[j].covers, merged.epoch = q[j].epoch,
           MergedAt(q, i, j, merged, r)
    PROVE  /\ Disjoint(q) => Disjoint(r)
           /\ Messages(r) = Messages(q)
           /\ KeepsOrder(q, r)
  <1> DEFINE to == [x \in DOMAIN q |-> IF x = j THEN i ELSE IF x < j THEN x ELSE x - 1]
             pos == [k \in DOMAIN r |-> IF k = i THEN j ELSE IF k < j THEN k ELSE k + 1]
  <1>1. /\ Len(q) \in Nat /\ i \in 1..Len(q) /\ j \in 1..Len(q) /\ i < j
        /\ DOMAIN q = 1..Len(q) /\ i \in DOMAIN r
        /\ DOMAIN r = 1..(Len(q) - 1) /\ r[i] = merged
        /\ \A k \in DOMAIN r : k # i => r[k] = IF k < j THEN q[k] ELSE q[k + 1]
    BY SMT DEF Mergeable, MergedAt
  <1>2. /\ \A k \in DOMAIN r : pos[k] \in DOMAIN q /\ to[pos[k]] = k
        /\ \A k \in DOMAIN r : k # i => r[k] = q[pos[k]]
        /\ \A x \in DOMAIN q : to[x] \in DOMAIN r /\ (x # i => pos[to[x]] = x)
        /\ to[i] = i /\ to[j] = i /\ pos[i] = j /\ r[i] = merged
    BY <1>1, SMTT(30)
  <1>3. ASSUME NEW k \in DOMAIN r, NEW l \in DOMAIN r,
               k < l, IsEdit(r[k]), IsEdit(r[l])
        PROVE  pos[k] < pos[l]
    <2>1. l \in (i + 1)..(j - 1) => ~IsEdit(r[l])
      BY <1>1, SMTT(30) DEF Mergeable
    <2> QED
      BY <1>1, <1>3, <2>1, SMTT(30)
  <1>4. DOMAIN to = DOMAIN q /\ DOMAIN pos = DOMAIN r
    OBVIOUS
  <1> HIDE DEF to, pos
  <1>5. Gathers(q, to, r)
    <2> SUFFICES ASSUME NEW k \in DOMAIN r, NEW m
                 PROVE  m \in r[k].covers
                          <=> \E x \in DOMAIN q : to[x] = k /\ m \in q[x].covers
      BY <1>2, <1>4, SMT DEF Gathers
    <2>1. CASE k = i
      <3>1. \A x \in DOMAIN q : to[x] = k => x = i \/ x = j
        BY <1>2, <2>1
      <3> QED
        BY <1>2, <2>1, <3>1
    <2>2. CASE k # i
      <3>1. \A x \in DOMAIN q : to[x] = k => x = pos[k]
        BY <1>2, <2>2
      <3>2. r[k] = q[pos[k]] /\ pos[k] \in DOMAIN q /\ to[pos[k]] = k
        BY <1>2, <2>2
      <3> QED
        BY <3>1, <3>2
    <2> QED
      BY <2>1, <2>2
  <1>6. Follows(q, pos, r)
    BY <1>2, <1>3, <1>4 DEF Follows, Mergeable
  <1>7. KeepsOrder(q, r)
    BY <1>6, OrderKept
  <1>8. /\ Disjoint(q) => Disjoint(r)
        /\ Messages(r) = UNION {q[x].covers : x \in DOMAIN to}
    BY <1>5, Gathered
  <1> QED
    BY <1>4, <1>7, <1>8 DEF Messages

\* mergeFileChanges changes neither the messages of the queue nor the order of its
\* edits.
LEMMA MergeFileChangesKeeps ==
    ASSUME NEW q \in Seq(Task), NEW r, MergeFileChanges(q, r)
    PROVE  /\ Disjoint(q) => Disjoint(r)
           /\ Messages(r) = Messages(q)
           /\ KeepsOrder(q, r)
  <1>1. CASE r = q
    BY <1>1 DEF KeepsOrder
  <1>2. CASE \E i, j \in DOMAIN q, path \in Paths :
               /\ Mergeable(q, i, j)
               /\ r = WithoutTask([q EXCEPT ![i] = MergeNewer(q[i], q[j], path)], j)
    <2>1. PICK i \in DOMAIN q, j \in DOMAIN q, path \in Paths :
                 /\ Mergeable(q, i, j)
                 /\ r = WithoutTask([q EXCEPT ![i] = MergeNewer(q[i], q[j], path)], j)
      BY <1>2
    <2> DEFINE merged == MergeNewer(q[i], q[j], path)
    <2>2. q[i] \in Task /\ q[j] \in Task
      BY SMT
    <2>3. /\ merged \in Task /\ merged.covers = q[i].covers \cup q[j].covers
          /\ merged.epoch = q[j].epoch
      BY <2>2, MergeNewerType DEF MergeNewer, Task
    <2> HIDE DEF merged
    <2>4. r = WithoutTask([q EXCEPT ![i] = merged], j) /\ i < j /\ Mergeable(q, i, j)
      BY <2>1 DEF merged, Mergeable
    <2>5. MergedAt(q, i, j, merged, r)
      BY <2>3, <2>4, MergeAt
    <2> QED
      BY <2>3, <2>4, <2>5, MergeKeeps
  <1> QED
    BY <1>1, <1>2 DEF MergeFileChanges

\* The head of the queue is taken with its messages.
LEMMA TailKeeps ==
    ASSUME NEW q \in Seq(Task), q # <<>>
    PROVE  /\ Disjoint(q) => /\ Disjoint(Tail(q))
                             /\ Head(q).covers \cap Messages(Tail(q)) = {}
           /\ Messages(q) = Head(q).covers \cup Messages(Tail(q))
           /\ KeepsOrder(q, Tail(q))
           /\ EditsOrdered(q) /\ IsEdit(Head(q)) => \A hi \in Nat :
                EditsWithin(q, 0, hi) => EditsWithin(Tail(q), Head(q).epoch, hi)
  <1>1. /\ Len(q) \in Nat /\ 1 \in DOMAIN q /\ Head(q) = q[1] /\ Tail(q) \in Seq(Task)
        /\ Len(Tail(q)) = Len(q) - 1
        /\ \A k \in 1..(Len(q) - 1) : Tail(q)[k] = q[k + 1]
    BY SMT
  <1>2. Tail(q) = WithoutTask(q, 1)
    <2>1. WithoutTask(q, 1) \in Seq(Task) /\ DOMAIN WithoutTask(q, 1) = 1..(Len(q) - 1)
      BY <1>1, WithoutTaskType, WithoutTaskAt
    <2>2. \A k \in 1..(Len(q) - 1) : WithoutTask(q, 1)[k] = q[k + 1]
      BY <1>1, WithoutTaskAt, SMT
    <2> QED
      BY <1>1, <2>1, <2>2, SMT
  <1>3. ASSUME EditsOrdered(q), IsEdit(Head(q)), NEW hi \in Nat, EditsWithin(q, 0, hi)
        PROVE  EditsWithin(Tail(q), Head(q).epoch, hi)
    BY <1>1, <1>3, SMT DEF EditsOrdered, EditsWithin
  <1>4. /\ Disjoint(q) => /\ Disjoint(WithoutTask(q, 1))
                          /\ q[1].covers \cap Messages(WithoutTask(q, 1)) = {}
        /\ Messages(q) = q[1].covers \cup Messages(WithoutTask(q, 1))
        /\ KeepsOrder(q, WithoutTask(q, 1))
    BY <1>1, WithoutTaskKeeps
  <1> QED
    BY <1>1, <1>2, <1>3, <1>4

\* A new task brings its messages.
LEMMA AppendKeeps ==
    ASSUME NEW q \in Seq(Task), NEW task \in Task, NEW hi \in Nat, task.epoch = hi + 1
    PROVE  /\ Disjoint(q) /\ task.covers \cap Messages(q) = {} => Disjoint(Append(q, task))
           /\ Messages(Append(q, task)) = Messages(q) \cup task.covers
           /\ \A lo \in 0..hi : EditsWithin(q, lo, hi) => EditsWithin(Append(q, task), lo, hi + 1)
           /\ EditsOrdered(q) /\ EditsWithin(q, 0, hi) => EditsOrdered(Append(q, task))
  <1> DEFINE r == Append(q, task)
  <1>1. /\ DOMAIN r = DOMAIN q \cup {Len(q) + 1} /\ r[Len(q) + 1] = task
        /\ \A k \in DOMAIN q : r[k] = q[k] /\ k \in Nat /\ k < Len(q) + 1 /\ q[k].epoch \in Nat
        /\ Len(q) \in Nat /\ Len(q) + 1 \notin DOMAIN q
    <2>1. \A k \in DOMAIN q : q[k] \in Task
      BY SMT
    <2>2. \A k \in DOMAIN q : q[k].epoch \in Nat
      BY <2>1 DEF Task
    <2> QED
      BY <2>2, SMT
  <1> HIDE DEF r
  <1>2. Disjoint(q) /\ task.covers \cap Messages(q) = {} => Disjoint(r)
    BY <1>1, SMT DEF Disjoint, Messages
  <1>3. Messages(r) = Messages(q) \cup task.covers
    BY <1>1, SMT DEF Messages
  <1>4. \A lo \in 0..hi : EditsWithin(q, lo, hi) => EditsWithin(r, lo, hi + 1)
    BY <1>1, SMT DEF EditsWithin
  <1>5. EditsOrdered(q) /\ EditsWithin(q, 0, hi) => EditsOrdered(r)
    BY <1>1, SMT DEF EditsOrdered, EditsWithin
  <1> QED
    BY <1>2, <1>3, <1>4, <1>5 DEF r

\* r is q with the edits among its first c tasks, gathered in edit, at the front, and
\* the other ones of the first c in the order they had.
PromotedAt(q, c, n, order, edit, r) ==
    /\ DOMAIN r = 1..(1 + n + (Len(q) - c))
    /\ r[1] = edit
    /\ \A k \in 2..(n + 1) : r[k] = q[order[k - 1]]
    /\ \A k \in (n + 2)..(1 + n + (Len(q) - c)) : r[k] = q[k - n - 1 + c]

\* Where the tasks of a queue are once its first edits are promoted.
LEMMA PromoteAt ==
    ASSUME NEW q \in Seq(Task), NEW c \in DOMAIN q, NEW n \in Nat,
           NEW order \in [1..n -> 1..c], NEW edit \in Task
    PROVE  PromotedAt(q, c, n, order, edit,
             <<edit>> \o [i \in 1..n |-> q[order[i]]] \o SubSeq(q, c + 1, Len(q)))
  <1> DEFINE others == [i \in 1..n |-> q[order[i]]]
             rest == SubSeq(q, c + 1, Len(q))
             front == <<edit>> \o others
  <1>1. Len(q) \in Nat /\ c \in 1..Len(q) /\ \A i \in 1..c : q[i] \in Task
    BY SMT
  <1>2. /\ others \in Seq(Task) /\ Len(others) = n
        /\ \A k \in 1..n : others[k] = q[order[k]]
    BY <1>1, SMT
  <1>3. /\ rest \in Seq(Task) /\ Len(rest) = Len(q) - c
        /\ \A k \in 1..(Len(q) - c) : rest[k] = q[k + c]
    BY <1>1, SMT
  <1>4. <<edit>> \in Seq(Task) /\ Len(<<edit>>) = 1 /\ <<edit>>[1] = edit
    BY SMT
  <1> HIDE DEF others, rest
  <1>5. /\ front \in Seq(Task) /\ Len(front) = 1 + n
        /\ \A k \in 1..(1 + n) : front[k] = IF k <= 1 THEN <<edit>>[k] ELSE others[k - 1]
    BY <1>2, <1>4, ConcatAt, SMT
  <1> HIDE DEF front
  <1> DEFINE r == front \o rest
  <1>6. /\ DOMAIN r = 1..(Len(front) + Len(rest))
        /\ \A k \in 1..(Len(front) + Len(rest)) :
             r[k] = IF k <= Len(front) THEN front[k] ELSE rest[k - Len(front)]
    <2>1. front \in Seq(Task) /\ rest \in Seq(Task)
      BY <1>3, <1>5
    <2> QED
      BY <2>1, ConcatAt
  <1> HIDE DEF r
  <1>7. /\ DOMAIN r = 1..(1 + n + (Len(q) - c))
        /\ \A k \in 1..(1 + n) : r[k] = front[k]
        /\ \A k \in (n + 2)..(1 + n + (Len(q) - c)) : r[k] = rest[k - (1 + n)]
    BY <1>1, <1>3, <1>5, <1>6, SMTT(30)
  <1>8. r[1] = edit
    BY <1>4, <1>5, <1>7, SMT
  <1>9. ASSUME NEW k \in 2..(n + 1) PROVE r[k] = q[order[k - 1]]
    BY <1>2, <1>5, <1>7, SMTT(30)
  <1>10. ASSUME NEW k \in (n + 2)..(1 + n + (Len(q) - c)) PROVE r[k] = q[k - n - 1 + c]
    <2>1. k - (1 + n) \in 1..(Len(q) - c) /\ k - (1 + n) + c = k - n - 1 + c
      BY <1>1, SMTT(30)
    <2> QED
      BY <1>3, <1>7, <2>1
  <1> QED
    BY <1>7, <1>8, <1>9, <1>10 DEF PromotedAt, r, front, others, rest

\* The promotion changes neither the messages of the queue nor the order of its
\* edits.
LEMMA PromotedKeeps ==
    ASSUME NEW q \in Seq(Task), NEW c \in DOMAIN q, NEW n \in Nat,
           NEW order \in [1..n -> 1..c], NEW edit, NEW r,
           IsEdit(q[c]), OtherTasksInOrder(q, c, order),
           edit.covers = UNION {q[i].covers : i \in EditsUpTo(q, c)},
           edit.epoch = q[c].epoch,
           PromotedAt(q, c, n, order, edit, r)
    PROVE  /\ Disjoint(q) => Disjoint(r)
           /\ Messages(r) = Messages(q)
           /\ KeepsOrder(q, r)
  <1> DEFINE at(x) == CHOOSE a \in 1..n : order[a] = x
             to == [x \in DOMAIN q |-> IF x > c THEN x - c + n + 1
                                      ELSE IF IsEdit(q[x]) THEN 1 ELSE at(x) + 1]
             pos == [k \in DOMAIN r |-> IF k = 1 THEN c
                                       ELSE IF k <= n + 1 THEN order[k - 1]
                                       ELSE k - n - 1 + c]
  <1>1. Len(q) \in Nat /\ c \in 1..Len(q) /\ DOMAIN q = 1..Len(q)
    BY SMT
  <1>2. \A x \in 1..c : ~IsEdit(q[x]) => at(x) \in 1..n /\ order[at(x)] = x
    <2> SUFFICES ASSUME NEW x \in 1..c, ~IsEdit(q[x])
                 PROVE  \E a \in 1..n : order[a] = x
      OBVIOUS
    <2>1. x \in {order[i] : i \in DOMAIN order}
      BY DEF OtherTasksInOrder, EditsUpTo
    <2> QED
      BY <2>1
  <1> HIDE DEF at
  <1>3. /\ \A a \in 1..n : order[a] \in 1..c /\ ~IsEdit(q[order[a]])
        /\ \A a, b \in 1..n : a < b => order[a] < order[b]
    BY DEF OtherTasksInOrder, EditsUpTo
  <1>4. ASSUME NEW a \in 1..n PROVE at(order[a]) = a
    <2>1. at(order[a]) \in 1..n /\ order[at(order[a])] = order[a] /\ order[a] \in 1..c
      BY <1>2, <1>3
    <2> QED
      BY <1>3, <2>1, SMT
  <1>5. DOMAIN r = 1..(1 + n + (Len(q) - c)) /\ 1 \in DOMAIN r /\ r[1] = edit
    BY <1>1, SMTT(30) DEF PromotedAt
  <1>6. /\ pos[1] = c
        /\ \A k \in 2..(n + 1) : pos[k] = order[k - 1] /\ k - 1 \in 1..n
        /\ \A k \in DOMAIN r : k > n + 1 => pos[k] = k - n - 1 + c /\ pos[k] \in (c + 1)..Len(q)
    BY <1>1, <1>5, SMTT(30)
  <1>7. /\ \A x \in (c + 1)..Len(q) : to[x] = x - c + n + 1
        /\ \A x \in 1..c : to[x] = IF IsEdit(q[x]) THEN 1 ELSE at(x) + 1
        /\ DOMAIN to = DOMAIN q /\ DOMAIN pos = DOMAIN r
    BY <1>1, SMTT(30)
  <1> HIDE DEF to, pos
  <1>8. \A k \in DOMAIN r : k # 1 => r[k] = q[pos[k]]
    BY <1>1, <1>5, <1>6, SMTT(30) DEF PromotedAt
  <1>9. \A k \in DOMAIN r : pos[k] \in DOMAIN q
    BY <1>1, <1>3, <1>5, <1>6, SMTT(30)
  <1>10. ASSUME NEW k \in DOMAIN r PROVE to[pos[k]] = k
    <2>1. CASE k = 1
      <3>1. c \in 1..c
        BY <1>1, SMT
      <3> QED
        BY <1>6, <1>7, <2>1, <3>1
    <2>2. CASE k \in 2..(n + 1)
      <3>1. pos[k] \in 1..c /\ ~IsEdit(q[pos[k]]) /\ at(pos[k]) = k - 1
        BY <1>3, <1>4, <1>6, <2>2
      <3> QED
        BY <1>7, <2>2, <3>1, SMTT(30)
    <2>3. CASE k > n + 1
      BY <1>1, <1>5, <1>6, <1>7, <2>3, SMTT(30)
    <2> QED
      BY <1>5, <2>1, <2>2, <2>3, SMT
  <1>11. \A x \in EditsUpTo(q, c) : x \in DOMAIN q /\ to[x] = 1
    BY <1>1, <1>7, SMT DEF EditsUpTo
  <1>12. ASSUME NEW x \in DOMAIN q, x \notin EditsUpTo(q, c)
         PROVE  to[x] \in DOMAIN r /\ to[x] # 1 /\ pos[to[x]] = x
    <2>1. CASE x > c
      <3>1. x \in (c + 1)..Len(q)
        BY <1>1, <2>1, SMT
      <3>2. to[x] = x - c + n + 1
        BY <1>7, <3>1
      <3> DEFINE y == x - c + n + 1
      <3>3. /\ y \in 1..(1 + n + (Len(q) - c)) /\ y > n + 1 /\ y # 1
            /\ y - n - 1 + c = x
        BY <1>1, <3>1, SMTT(30)
      <3> HIDE DEF y
      <3>4. y \in DOMAIN r /\ to[x] = y
        BY <1>5, <3>2, <3>3 DEF y
      <3>5. pos[y] = x
        BY <1>6, <3>3, <3>4
      <3> QED
        BY <3>3, <3>4, <3>5
    <2>2. CASE ~(x > c)
      <3>1. x \in 1..c /\ ~IsEdit(q[x]) /\ at(x) \in 1..n /\ order[at(x)] = x
        BY <1>1, <1>2, <1>12, <2>2, SMT DEF EditsUpTo
      <3>2. to[x] = at(x) + 1
        BY <1>7, <3>1
      <3> QED
        BY <1>1, <1>5, <1>6, <3>1, <3>2, SMTT(30)
    <2> QED
      BY <2>1, <2>2
  <1>13. \A k \in 2..(n + 1) : ~IsEdit(q[pos[k]])
    BY <1>3, <1>6
  <1>14. Gathers(q, to, r)
    <2> SUFFICES ASSUME NEW k \in DOMAIN r, NEW m
                 PROVE  m \in r[k].covers
                          <=> \E x \in DOMAIN q : to[x] = k /\ m \in q[x].covers
      BY <1>5, <1>7, <1>11, <1>12, SMT DEF Gathers
    <2>1. CASE k = 1
      <3>1. \A x \in DOMAIN q : to[x] = k <=> x \in EditsUpTo(q, c)
        BY <1>11, <1>12, <2>1
      <3>2. m \in r[k].covers <=> \E x \in EditsUpTo(q, c) : m \in q[x].covers
        BY <1>5, <2>1, SMT
      <3> QED
        BY <1>11, <3>1, <3>2
    <2>2. CASE k # 1
      <3>1. \A x \in DOMAIN q : to[x] = k => x = pos[k]
        BY <1>11, <1>12, <2>2
      <3>2. r[k] = q[pos[k]] /\ pos[k] \in DOMAIN q /\ to[pos[k]] = k
        BY <1>8, <1>9, <1>10, <2>2
      <3> QED
        BY <3>1, <3>2
    <2> QED
      BY <2>1, <2>2
  <1>15. Follows(q, pos, r)
    <2>1. \A k \in DOMAIN r : IsEdit(r[k]) => k = 1 \/ k > n + 1
      BY <1>5, <1>8, <1>13, SMTT(30)
    <2>2. ASSUME NEW k \in DOMAIN r, NEW l \in DOMAIN r, k < l,
                 IsEdit(r[k]), IsEdit(r[l])
          PROVE  pos[k] < pos[l]
      <3>1. l > n + 1
        BY <1>5, <2>1, <2>2, SMT
      <3>2. pos[l] = l - n - 1 + c /\ pos[l] \in (c + 1)..Len(q)
        BY <1>6, <3>1
      <3>3. CASE k = 1
        BY <1>1, <1>6, <3>2, <3>3, SMT
      <3>4. CASE k > n + 1
        <4>1. pos[k] = k - n - 1 + c
          BY <1>6, <3>4
        <4> QED
          BY <1>1, <1>5, <2>2, <3>2, <4>1, SMTT(30)
      <3> QED
        BY <2>1, <2>2, <3>3, <3>4
    <2> QED
      BY <1>5, <1>6, <1>7, <1>8, <1>9, <2>2 DEF Follows
  <1>16. KeepsOrder(q, r)
    BY <1>15, OrderKept
  <1>17. /\ Disjoint(q) => Disjoint(r)
         /\ Messages(r) = UNION {q[x].covers : x \in DOMAIN to}
    BY <1>14, Gathered
  <1> QED
    BY <1>7, <1>16, <1>17 DEF Messages

\* The promotion of runLSP changes neither the messages of the queue nor the order
\* of its edits.
LEMMA PromoteKeeps ==
    ASSUME NEW q \in Seq(Task), NEW c \in DOMAIN q, NEW r, IsEdit(q[c]), Promote(q, c, r)
    PROVE  /\ Disjoint(q) => Disjoint(r)
           /\ Messages(r) = Messages(q)
           /\ KeepsOrder(q, r)
  <1> DEFINE files == UNION {q[i].files : i \in EditsUpTo(q, c)}
             covers == UNION {q[i].covers : i \in EditsUpTo(q, c)}
             edit(o, path) == [q[o] EXCEPT !.path = path, !.epoch = q[c].epoch,
                                           !.files = files, !.covers = covers]
  <1>1. PICK oldest \in EditsUpTo(q, c), path \in Paths, n \in 0..(c - 1) :
          \E order \in [1..n -> 1..c] :
            /\ OtherTasksInOrder(q, c, order)
            /\ r = <<edit(oldest, path)>> \o [i \in 1..n |-> q[order[i]]]
                  \o SubSeq(q, c + 1, Len(q))
    BY ZenonT(30) DEF Promote
  <1>2. PICK order \in [1..n -> 1..c] :
            /\ OtherTasksInOrder(q, c, order)
            /\ r = <<edit(oldest, path)>> \o [i \in 1..n |-> q[order[i]]]
                  \o SubSeq(q, c + 1, Len(q))
    BY <1>1
  <1>3. c \in 1..Len(q) /\ \A i \in 1..c : q[i] \in Task
    BY SMT
  <1>4. EditsUpTo(q, c) \subseteq 1..c
    BY DEF EditsUpTo
  <1>5. files \subseteq Files /\ covers \subseteq Nat
    BY <1>3, <1>4, SMTT(30) DEF Task
  <1>6. q[oldest] \in Task /\ q[c].epoch \in Nat /\ n \in Nat
    BY <1>3, <1>4, SMTT(30) DEF Task
  <1> HIDE DEF files, covers
  <1>7. /\ edit(oldest, path) \in Task
        /\ edit(oldest, path).covers = covers
        /\ edit(oldest, path).epoch = q[c].epoch
    BY <1>5, <1>6 DEF Task
  <1> HIDE DEF edit
  <1>8. PromotedAt(q, c, n, order, edit(oldest, path), r)
    <2> DEFINE e == edit(oldest, path)
    <2> HIDE DEF e
    <2>1. e \in Task
      BY <1>7 DEF e
    <2>2. PromotedAt(q, c, n, order, e, <<e>> \o [i \in 1..n |-> q[order[i]]]
                                         \o SubSeq(q, c + 1, Len(q)))
      BY <1>6, <2>1, PromoteAt
    <2>3. r = <<e>> \o [i \in 1..n |-> q[order[i]]] \o SubSeq(q, c + 1, Len(q))
      BY <1>2 DEF e
    <2>4. PromotedAt(q, c, n, order, e, r)
      BY <2>2, <2>3
    <2> QED
      BY <2>4 DEF e
  <1> QED
    <2> DEFINE e == edit(oldest, path)
    <2> HIDE DEF e
    <2>1. /\ OtherTasksInOrder(q, c, order) /\ PromotedAt(q, c, n, order, e, r)
          /\ e.covers = UNION {q[i].covers : i \in EditsUpTo(q, c)}
          /\ e.epoch = q[c].epoch
      BY <1>2, <1>7, <1>8 DEF e, covers
    <2> QED
      BY <1>6, <2>1, PromotedKeeps

-----------------------------------------------------------------------------
\* The inductive invariant.

\* The typechecker thread is between two preemption points of pipeline::typecheck
\* (last = FALSE) or in the last one, of tryCommitEpoch (last = TRUE).
AtPreemptionPoint(last) ==
    /\ tc \in {"cas", "preempt", "run", "settle"}
    /\ ret = IF last THEN "finish" ELSE "typecheck"

\* While the processing thread is blocked on a PreemptionLoop nobody else can
\* cancel the slow path, and the loop in the slot has not been finished.
BlockedIsLive ==
    /\ main \in {"await", "waitFinished"} => loops > 0 /\ ~SlowPathWasCanceled
    /\ finished <= loops
    /\ preemptTask # 0 => finished < loops

\* A slow path runs, for the epoch manager, from startCommitEpoch to the critical
\* section of tryCommitEpoch at the latest.
RunningHasCommitAhead ==
    SlowPathRunning => tc \in {"index", "typecheck", "commit"} \/ AtPreemptionPoint(FALSE)

\* The compare-and-swap is attempted with a task that was loaded.  In the last
\* preemption point it can only find that same task, and only after a commit:
\* nothing is scheduled any more, whereas between two files the task may have
\* been canceled and another one scheduled since the load.
LoadedTask ==
    tc = "cas" => /\ taken # 0
                  /\ ret = "finish" /\ preemptTask # 0 => outcome /\ preemptTask = taken

\* A slow path that is not canceled reaches tryCommitEpoch in the last stratum.
CommitsInLastStratum ==
    /\ tc = "commit" /\ ~SlowPathWasCanceled => stratum = LastStratum
    /\ (tc = "final" \/ AtPreemptionPoint(TRUE)) /\ outcome => stratum = LastStratum

\* The processing thread waits for the one piece of work it handed over.
OneWorkAtATime ==
    /\ Len(tcQueue) <= 1
    /\ tcQueue # <<>> => main \in {"sync", "start", "shutdown"}

NextCanceled == tcQueue # <<>> /\ Head(tcQueue).canceled

\* The undo state is held for the duration of the slow path, which is rolled back
\* exactly when the work that canceled it is next in line.
UndoHeld ==
    /\ InSlowPath => undo = "held"
    /\ InSlowPath => (NextCanceled <=> SlowPathWasCanceled \/ ~outcome)
    /\ tc \in {"index", "typecheck", "commit"} \/ AtPreemptionPoint(FALSE) => outcome
    /\ tc \in {"final", "finish"} \/ AtPreemptionPoint(TRUE) => ~SlowPathWasCanceled

SlotInv ==
    /\ SlotOwned
    /\ PreemptsLiveSlowPath
    /\ LastRunDefersNothing
    /\ BlockedIsLive
    /\ RunningHasCommitAhead
    /\ LoadedTask
    /\ CommitsInLastStratum

UndoInv ==
    /\ UndoStateMatches
    /\ OneWorkAtATime
    /\ UndoHeld

IInv == TypeOK /\ SlotInv /\ UndoInv

-----------------------------------------------------------------------------
\* Type correctness.

\* The placeholder of a thread without a task is a task.
LEMMA NoTaskType == NoTask \in Task
  BY DEF NoTask, Task, Paths

\* The server starts with every variable in its type.
LEMMA InitType == Init => TypeOK
  BY NoTaskType, LastStratumIsNat, SMT
     DEF Init, EpochInit, SlotInit, TypeOK, Strata

\* The epoch operations keep the epochs natural numbers.
LEMMA CommitEditType ==
    ASSUME TypeOK, NEW task \in Task, NEW path \in Paths, NEW newPath \in Paths,
           CommitEdit(task, path, newPath)
    PROVE  /\ processing' \in Nat /\ committed' \in Nat /\ invalidator' \in Nat
           /\ pending' \subseteq Nat
           /\ Update(task, path, newPath) \in Work
  <1>1. Covered(task, path) \subseteq Nat
    BY DEF Covered, TypeOK, Task
  <1>2. task.epoch \in Nat
    BY DEF Task
  <1>3. processing' \in Nat /\ committed' \in Nat /\ invalidator' \in Nat
    BY <1>2 DEF CommitEdit, CancelSlowPath, epochVars, TypeOK
  <1>4. pending' \subseteq Nat
    BY <1>1 DEF CommitEdit, TypeOK
  <1>5. [task EXCEPT !.covers = Covered(task, path), !.path = newPath] \in Task
    BY <1>1 DEF Task
  <1>6. Cancels(task, path) \in BOOLEAN
    BY DEF Cancels, CanCancel, SlowPathRunning
  <1>7. Update(task, path, newPath) \in Work
    BY <1>5, <1>6 DEF Update, Work
  <1> QED
    BY <1>3, <1>4, <1>7

\* The preprocessor thread keeps the types.
LEMMA PreprocessorType == TypeOK /\ Preprocessor => TypeOK'
  <1> SUFFICES ASSUME TypeOK, Preprocessor PROVE TypeOK'
    OBVIOUS
  <1> USE DEF epochVars, slotVars, mainVars, tcVars, gsVars
  <1>1. ASSUME NEW kind \in {"edit", "hover", "symbols", "references"},
               NEW path \in Paths, NEW files \in SUBSET Files,
               Enqueue(kind, path, files)
        PROVE  TypeOK'
    <2> DEFINE task == [kind |-> kind, path |-> path, files |-> files,
                        epoch |-> sent + 1, covers |-> {sent + 1}]
    <2>1. sent + 1 \in Nat
      BY SMT DEF TypeOK
    <2>2. task \in Task
      BY <2>1 DEF Task
    <2>3. Append(tasks, task) \in Seq(Task)
      BY <2>2, SMT DEF TypeOK
    <2>4. MergeFileChanges(Append(tasks, task), tasks') \/ tasks' = Append(tasks, task)
      BY <1>1 DEF Enqueue
    <2> HIDE DEF task
    <2>5. tasks' \in Seq(Task)
      BY <2>3, <2>4, MergeFileChangesType
    <2> QED
      BY <1>1, <2>1, <2>5, SMT DEF Enqueue, TypeOK
  <1>2. ASSUME NEW i \in DOMAIN tasks, CancelRequest(i)
        PROVE  TypeOK'
    <2>1. WithoutTask(tasks, i) \in Seq(Task)
      BY WithoutTaskType DEF TypeOK
    <2>2. tasks' \in Seq(Task)
      BY <1>2, <2>1, MergeFileChangesType DEF CancelRequest, AfterCancel
    <2>3. tasks[i] \in Task
      BY SMT DEF TypeOK
    <2>4. answered' \subseteq Nat
      BY <1>2, <2>3 DEF CancelRequest, TypeOK, Task
    <2> QED
      BY <1>2, <2>2, <2>4, SMT DEF CancelRequest, TypeOK
  <1>3. ASSUME Terminate
        PROVE  TypeOK'
    BY <1>3, SMT DEF Terminate, TypeOK
  <1>4. \A f \in Files : {f} \in SUBSET Files /\ {} \in SUBSET Files
    OBVIOUS
  <1>5. {} \in SUBSET Files /\ "Slow" \in Paths
    BY DEF Paths
  <1> QED
    BY <1>1, <1>2, <1>3, <1>4, <1>5 DEF Preprocessor

\* The promotion in runLSP leaves a queue of tasks.
LEMMA PromoteSlowEditsType ==
    ASSUME TypeOK, PromoteSlowEdits
    PROVE  tasks' \in Seq(Task)
  BY PromoteType DEF PromoteSlowEdits, TypeOK

\* Handing work over to the typechecker thread.
LEMMA DispatchType ==
    ASSUME TypeOK, NEW w \in Work, Dispatch(w),
           processing' \in Nat, committed' \in Nat, invalidator' \in Nat,
           pending' \subseteq Nat
    PROVE  TypeOK'
  <1>1. tcQueue' \in Seq(Work)
    BY SMT DEF Dispatch, TypeOK
  <1> QED
    BY <1>1, NoTaskType, SMT
       DEF Dispatch, TypeOK, slotVars, queueVars, tcVars, gsVars

\* The processing thread keeps the types.
LEMMA ProcessingThreadType == TypeOK /\ ProcessingThread => TypeOK'
  <1> SUFFICES ASSUME TypeOK, ProcessingThread PROVE TypeOK'
    OBVIOUS
  <1> USE DEF epochVars, slotVars, queueVars, tcVars, gsVars
  <1>1. CASE SchedulePreemption
    BY <1>1, LastStratumIsNat, SMTT(30) DEF SchedulePreemption, ScheduleTask, TypeOK, Strata
  <1>2. CASE AwaitAndCancel
    <2>1. tasks' \in Seq(Task)
      BY <1>2, PromoteSlowEditsType DEF AwaitAndCancel
    <2> QED
      BY <1>2, <2>1, SMT DEF AwaitAndCancel, TakeTask, TypeOK
  <1>3. CASE AwaitAndWait
    BY <1>3, SMTT(30) DEF AwaitAndWait, TypeOK
  <1>4. CASE PreemptionFinished
    <2>1. tasks' \in Seq(Task)
      BY <1>4, PromoteSlowEditsType DEF PreemptionFinished
    <2> QED
      BY <1>4, <2>1, SMT DEF PreemptionFinished, TypeOK
  <1>5. CASE PopTask
    <2>1. Head(tasks) \in Task /\ Tail(tasks) \in Seq(Task)
      BY <1>5, SMT DEF PopTask, MainReady, TypeOK
    <2> QED
      BY <1>5, <2>1, SMTT(30) DEF PopTask, TypeOK
  <1>6. CASE RunEdit
    <2>1. PICK path \in {"Fast", "Slow"}, newPath \in {"Fast", "Slow"} :
                 /\ CommitEdit(mainTask, path, newPath)
                 /\ Dispatch(Update(mainTask, path, newPath))
      BY <1>6 DEF RunEdit
    <2>2. mainTask \in Task /\ path \in Paths /\ newPath \in Paths
      BY DEF TypeOK, Paths
    <2> QED
      BY <2>1, <2>2, CommitEditType, DispatchType
  <1>7. CASE RunOther
    <2> DEFINE w == [how |-> IF IsEdit(mainTask) THEN "slow" ELSE "sync",
                     task |-> mainTask, canceled |-> FALSE]
    <2>1. w \in Work
      BY DEF Work, TypeOK
    <2>2. Dispatch(w)
      BY <1>7 DEF RunOther
    <2>3. /\ processing' \in Nat /\ committed' \in Nat /\ invalidator' \in Nat
          /\ pending' \subseteq Nat
      BY <1>7 DEF RunOther, TypeOK
    <2> HIDE DEF w
    <2> QED
      BY <2>1, <2>2, <2>3, DispatchType
  <1>8. CASE Shutdown
    <2> DEFINE w == [how |-> "shutdown", task |-> NoTask, canceled |-> FALSE]
    <2>1. w \in Work
      BY NoTaskType DEF Work
    <2>2. tcQueue' = Append(tcQueue, w)
      BY <1>8 DEF Shutdown
    <2> HIDE DEF w
    <2>3. tcQueue' \in Seq(Work)
      BY <2>1, <2>2, SMT DEF TypeOK
    <2> QED
      BY <1>8, <2>3 DEF Shutdown, TypeOK
  <1> QED
    BY <1>1, <1>2, <1>3, <1>4, <1>5, <1>6, <1>7, <1>8 DEF ProcessingThread

\* The typechecker thread keeps the types.
LEMMA TypecheckerThreadType == TypeOK /\ TypecheckerThread => TypeOK'
  <1> SUFFICES ASSUME TypeOK, TypecheckerThread PROVE TypeOK'
    OBVIOUS
  <1> USE DEF epochVars, slotVars, queueVars, mainVars, tcVars, gsVars
  <1>1. ASSUME tcQueue # <<>>
        PROVE  /\ Tail(tcQueue) \in Seq(Work)
               /\ Head(tcQueue).task \in Task
               /\ Head(tcQueue).task.covers \subseteq Nat
               /\ Head(tcQueue).task.epoch \in Nat
    <2>1. Tail(tcQueue) \in Seq(Work) /\ Head(tcQueue) \in Work
      BY <1>1, SMT DEF TypeOK
    <2>2. Head(tcQueue).task \in Task
      BY <2>1 DEF Work
    <2> QED
      BY <2>1, <2>2 DEF Task
  <1>2. CASE RunSync
    <2>1. undo' \in {"none", "held", "restored"}
      BY <1>2 DEF RunSync, ConsumedUndo, TypeOK
    <2>2. applied' \subseteq Nat /\ answered' \subseteq Nat
      BY <1>1, <1>2 DEF RunSync, TypeOK
    <2> QED
      BY <1>1, <1>2, <2>1, <2>2 DEF RunSync, TypeOK
  <1>3. CASE RunShutdown
    BY <1>1, <1>3 DEF RunShutdown, TypeOK
  <1>4. CASE StartSlowPath
    <2>1. applied' \subseteq Nat /\ pending' \subseteq Nat /\ undoApplied' \subseteq Nat
      BY <1>1, <1>4 DEF StartSlowPath, TypeOK
    <2> QED
      BY <1>1, <1>4, <2>1 DEF StartSlowPath, StartCommitEpoch, TypeOK
  <1>5. CASE IndexStratum
    BY <1>5 DEF IndexStratum, TypeOK
  <1>6. CASE FinishStratum
    BY <1>6, LastStratumIsNat, SMT DEF FinishStratum, MoreStrata, TypeOK, Strata
  <1>7. CASE TryCommitEpoch
    BY <1>7, SMT DEF TryCommitEpoch, CommitEpoch, SlowPathWasCanceled, TypeOK
  <1>8. CASE FinishSlowPath
    BY <1>8 DEF FinishSlowPath, UndoLeft, TypeOK
  <1>9. CASE LoadPreemptTask
    BY ZenonT(30), <1>9 DEF LoadPreemptTask, TypeOK
  <1>10. CASE SwapPreemptTask
    BY <1>10, SMT DEF SwapPreemptTask, TakeTask, TypeOK
  <1>11. CASE LeavePreemptionLoop
    BY <1>11 DEF LeavePreemptionLoop, TypeOK
  <1>12. CASE PopPreemptingTask
    <2>1. Head(tasks) \in Task /\ Tail(tasks) \in Seq(Task)
      BY <1>12, SMT DEF PopPreemptingTask, PreemptionPossible, TypeOK
    <2>2. /\ processing' \in Nat /\ committed' \in Nat /\ invalidator' \in Nat
          /\ pending' \subseteq Nat
      <3>1. CASE IsEdit(Head(tasks))
        BY <1>12, <2>1, <3>1, CommitEditType DEF PopPreemptingTask, Paths
      <3>2. CASE ~IsEdit(Head(tasks))
        BY <1>12, <3>2 DEF PopPreemptingTask, TypeOK
      <3> QED
        BY <3>1, <3>2
    <2> QED
      BY <1>12, <2>1, <2>2 DEF PopPreemptingTask, TypeOK
  <1>13. CASE RunPreemptingTask
    <2>1. tcTask.covers \subseteq Nat
      BY DEF TypeOK, Task
    <2>2. applied' \subseteq Nat /\ answered' \subseteq Nat
      BY <1>13, <2>1 DEF RunPreemptingTask, TypeOK
    <2> QED
      BY <1>13, <2>2, NoTaskType DEF RunPreemptingTask, TypeOK
  <1>14. CASE SettlePreemptTask
    BY <1>14 DEF SettlePreemptTask, RescheduleTask, Finish, TypeOK
  <1> QED
    BY <1>2, <1>3, <1>4, <1>5, <1>6, <1>7, <1>8, <1>9, <1>10, <1>11, <1>12,
       <1>13, <1>14 DEF TypecheckerThread

\* Every step keeps the types.
LEMMA NextType == TypeOK /\ [Next]_vars => TypeOK'
  <1> SUFFICES ASSUME TypeOK, [Next]_vars PROVE TypeOK'
    OBVIOUS
  <1>1. CASE Next
    BY <1>1, PreprocessorType, ProcessingThreadType, TypecheckerThreadType DEF Next
  <1>2. CASE UNCHANGED vars
    BY <1>2, SMT DEF vars, epochVars, slotVars, queueVars, mainVars, tcVars, gsVars, TypeOK
  <1> QED
    BY <1>1, <1>2

\* Every variable of the scheduling core always has its type, for any number of
\* messages, files and strata.
THEOREM TypeCorrect == Spec => []TypeOK
  BY InitType, NextType, PTL DEF Spec


-----------------------------------------------------------------------------
\* The preemption slot.

\* Steps that touch nothing the slot invariant speaks of.
slotInvVars == <<epochVars, preemptTask, main, loops, finished, tc, ret, stratum,
                 outcome, taken, resched>>

\* SlotInv depends on these variables only.
LEMMA SlotInvUnchanged == SlotInv /\ UNCHANGED slotInvVars => SlotInv'
  BY SMT DEF SlotInv, slotInvVars, SlotOwned, PreemptsLiveSlowPath,
         LastRunDefersNothing, BlockedIsLive, RunningHasCommitAhead, LoadedTask,
         CommitsInLastStratum, AtPreemptionPoint, Preempting, SlowPathRunning,
         SlowPathWasCanceled, epochVars

\* The slot is empty when the server starts.
LEMMA InitSlotInv == Init => SlotInv
  BY SMT DEF Init, EpochInit, SlotInit, SlotInv, SlotOwned, PreemptsLiveSlowPath,
         LastRunDefersNothing, BlockedIsLive, RunningHasCommitAhead, LoadedTask,
         CommitsInLastStratum, AtPreemptionPoint, Preempting, SlowPathRunning,
         SlowPathWasCanceled

\* The preprocessor thread does not touch the slot.
LEMMA PreprocessorSlotInv == SlotInv /\ Preprocessor => SlotInv'
  <1> SUFFICES ASSUME SlotInv, Preprocessor PROVE UNCHANGED slotInvVars
    BY SlotInvUnchanged
  <1> QED
    BY DEF Preprocessor, Enqueue, CancelRequest, Terminate, slotInvVars,
           epochVars, slotVars, mainVars, tcVars, gsVars

\* Scheduling, taking back and waiting for a preemption task keep SlotInv.
LEMMA ProcessingThreadSlotInv == TypeOK /\ SlotInv /\ ProcessingThread => SlotInv'
  <1> SUFFICES ASSUME TypeOK, SlotInv, ProcessingThread PROVE SlotInv'
    OBVIOUS
  <1> USE DEF epochVars, slotVars, queueVars, tcVars, gsVars,
              SlotInv, SlotOwned, PreemptsLiveSlowPath, LastRunDefersNothing,
              BlockedIsLive, RunningHasCommitAhead, LoadedTask,
              CommitsInLastStratum, AtPreemptionPoint, Preempting,
              SlowPathRunning, SlowPathWasCanceled
  <1>1. CASE SchedulePreemption
    BY <1>1, SMTT(30) DEF SchedulePreemption, MainReady, ScheduleTask, CanSchedule, TypeOK
  <1>2. CASE AwaitAndCancel
    BY <1>2, SMT DEF AwaitAndCancel, TakeTask, TypeOK
  <1>3. CASE AwaitAndWait
    BY <1>3 DEF AwaitAndWait, TypeOK
  <1>4. CASE PreemptionFinished
    BY <1>4, SMTT(30) DEF PreemptionFinished, TypeOK
  <1>5. CASE PopTask
    BY <1>5 DEF PopTask, MainReady, TypeOK
  <1>6. CASE RunEdit
    <2>1. /\ processing' = processing /\ committed' = committed
          /\ \/ invalidator' = invalidator
             \/ invalidator' # processing
      BY <1>6 DEF RunEdit, CommitEdit, CancelSlowPath, Cancels, CanCancel
    <2>2. /\ main = "index" /\ main' \in {"sync", "start"}
          /\ UNCHANGED <<slotVars, tcVars, loops, finished>>
      BY <1>6 DEF RunEdit, Dispatch
    <2> QED
      BY <2>1, <2>2 DEF TypeOK
  <1>7. CASE RunOther
    BY <1>7 DEF RunOther, Dispatch, TypeOK
  <1>8. CASE Shutdown
    BY <1>8 DEF Shutdown, TypeOK
  <1> QED
    BY <1>1, <1>2, <1>3, <1>4, <1>5, <1>6, <1>7, <1>8 DEF ProcessingThread

\* The slow path and its preemption points keep SlotInv.
LEMMA TypecheckerThreadSlotInv == TypeOK /\ SlotInv /\ TypecheckerThread => SlotInv'
  <1> SUFFICES ASSUME TypeOK, SlotInv, TypecheckerThread PROVE SlotInv'
    OBVIOUS
  <1> USE DEF epochVars, slotVars, queueVars, mainVars, tcVars, gsVars,
              SlotInv, SlotOwned, PreemptsLiveSlowPath, LastRunDefersNothing,
              BlockedIsLive, RunningHasCommitAhead, LoadedTask,
              CommitsInLastStratum, AtPreemptionPoint, Preempting,
              SlowPathRunning, SlowPathWasCanceled
  <1>1. CASE RunSync
    BY <1>1 DEF RunSync, TypeOK
  <1>2. CASE RunShutdown
    BY <1>2 DEF RunShutdown, TypeOK
  <1>3. CASE StartSlowPath
    BY <1>3 DEF StartSlowPath, StartCommitEpoch, TypeOK
  <1>4. CASE IndexStratum
    BY <1>4 DEF IndexStratum, TypeOK
  <1>5. CASE FinishStratum
    BY <1>5, LastStratumIsNat, SMTT(30) DEF FinishStratum, MoreStrata, TypeOK, Strata
  <1>6. CASE TryCommitEpoch
    BY <1>6 DEF TryCommitEpoch, CommitEpoch, TypeOK
  <1>7. CASE FinishSlowPath
    BY <1>7 DEF FinishSlowPath, TypeOK
  <1>8. CASE LoadPreemptTask
    BY <1>8 DEF LoadPreemptTask, LastRun, CanRunAt, TypeOK
  <1>9. CASE SwapPreemptTask
    BY <1>9, SMTT(30) DEF SwapPreemptTask, TakeTask, TypeOK
  <1>10. CASE LeavePreemptionLoop
    BY <1>10, LastStratumIsNat, SMT DEF LeavePreemptionLoop, TypeOK, Strata
  <1>11. CASE PopPreemptingTask
    <2>1. UNCHANGED epochVars
      BY <1>11 DEF PopPreemptingTask, CommitEdit, Cancels
    <2> QED
      BY <1>11, <2>1 DEF PopPreemptingTask, TypeOK
  <1>12. CASE RunPreemptingTask
    BY <1>12 DEF RunPreemptingTask, TypeOK
  <1>13. CASE SettlePreemptTask
    BY <1>13, SMTT(30) DEF SettlePreemptTask, AllowReschedule, RescheduleTask, Finish, TypeOK
  <1> QED
    BY ZenonT(30), <1>1, <1>2, <1>3, <1>4, <1>5, <1>6, <1>7, <1>8, <1>9, <1>10, <1>11,
       <1>12, <1>13 DEF TypecheckerThread

-----------------------------------------------------------------------------
\* The undo state.

undoInvVars == <<epochVars, main, tc, ret, outcome, tcQueue, undo>>

\* UndoInv depends on these variables only.
LEMMA UndoInvUnchanged == UndoInv /\ UNCHANGED undoInvVars => UndoInv'
  BY SMT DEF UndoInv, undoInvVars, UndoStateMatches, OneWorkAtATime, UndoHeld,
         NextCanceled, InSlowPath, AtPreemptionPoint, SlowPathWasCanceled, epochVars

\* There is no undo state when the server starts.
LEMMA InitUndoInv == Init => UndoInv
  BY SMT DEF Init, EpochInit, UndoInv, UndoStateMatches, OneWorkAtATime, UndoHeld,
         NextCanceled, InSlowPath, AtPreemptionPoint, SlowPathWasCanceled

\* The preprocessor thread does not touch the undo state.
LEMMA PreprocessorUndoInv == UndoInv /\ Preprocessor => UndoInv'
  <1> SUFFICES ASSUME UndoInv, Preprocessor PROVE UNCHANGED undoInvVars
    BY UndoInvUnchanged
  <1> QED
    BY DEF Preprocessor, Enqueue, CancelRequest, Terminate, undoInvVars,
           epochVars, mainVars, tcVars, gsVars

\* Work is handed over when there is none.
LEMMA HandOver ==
    ASSUME TypeOK, UndoInv, main \in {"idle", "index"}, NEW w \in Work,
           tcQueue' = Append(tcQueue, w)
    PROVE  tcQueue = <<>> /\ Len(tcQueue') = 1 /\ tcQueue' # <<>> /\ Head(tcQueue') = w
  <1>1. tcQueue = <<>>
    BY DEF UndoInv, OneWorkAtATime
  <1> QED
    BY <1>1, SMT

\* A queue of at most one element that is not empty.
LEMMA SingletonQueue ==
    ASSUME NEW S, NEW q \in Seq(S), q # <<>>, Len(q) <= 1
    PROVE  Head(q) \in S /\ Tail(q) = <<>> /\ DOMAIN q = {1} /\ Head(q) = q[1]
  <1>1. Len(q) \in Nat \ {0}
    BY SMT
  <1>2. Len(q) = 1
    BY <1>1, SMT
  <1>3. Head(q) \in S /\ Tail(q) \in Seq(S) /\ Len(Tail(q)) = Len(q) - 1
    BY SMT
  <1>4. Len(Tail(q)) = 0
    BY <1>2, <1>3, SMT
  <1>5. DOMAIN q = {1} /\ Head(q) = q[1]
    BY <1>2, SMT
  <1> QED
    BY <1>3, <1>4, <1>5, SMT

\* Work is taken when it is the only piece.
LEMMA TakeWork ==
    ASSUME TypeOK, UndoInv, tcQueue # <<>>, tcQueue' = Tail(tcQueue)
    PROVE  tcQueue' = <<>> /\ Len(tcQueue') = 0 /\ Head(tcQueue).canceled \in BOOLEAN
  <1>1. tcQueue \in Seq(Work) /\ Len(tcQueue) <= 1
    BY DEF UndoInv, OneWorkAtATime, TypeOK
  <1>2. Head(tcQueue) \in Work /\ tcQueue' = <<>>
    BY <1>1, SingletonQueue
  <1>3. Head(tcQueue).canceled \in BOOLEAN
    BY <1>2 DEF Work
  <1> QED
    BY <1>2, <1>3

\* Handing over an update that cancels the slow path keeps UndoInv.
LEMMA ProcessingThreadUndoInv ==
    TypeOK /\ SlotInv /\ UndoInv /\ ProcessingThread => UndoInv'
  <1> SUFFICES ASSUME TypeOK, SlotInv, UndoInv, ProcessingThread PROVE UndoInv'
    OBVIOUS
  <1> USE DEF epochVars, slotVars, queueVars, tcVars, gsVars
  <1>1. CASE SchedulePreemption \/ AwaitAndCancel \/ AwaitAndWait
               \/ PreemptionFinished \/ PopTask
    <2>1. /\ main \in {"idle", "await", "waitFinished"}
          /\ UNCHANGED <<epochVars, tcVars, tcQueue, undo>>
      BY <1>1 DEF SchedulePreemption, MainReady, AwaitAndCancel, AwaitAndWait,
                  PreemptionFinished, PopTask
    <2>2. tcQueue = <<>>
      BY <2>1 DEF UndoInv, OneWorkAtATime
    <2> QED
      BY <2>1, <2>2
         DEF UndoInv, UndoStateMatches, OneWorkAtATime, UndoHeld, NextCanceled,
             InSlowPath, AtPreemptionPoint, SlowPathWasCanceled
  <1>2. CASE RunEdit
    <2>1. PICK path \in {"Fast", "Slow"}, newPath \in {"Fast", "Slow"} :
                 /\ CommitEdit(mainTask, path, newPath)
                 /\ Dispatch(Update(mainTask, path, newPath))
      BY <1>2 DEF RunEdit
    <2> DEFINE w == Update(mainTask, path, newPath)
    <2>2. w \in Work
      BY <2>1, CommitEditType DEF TypeOK, Paths
    <2>3. w.canceled = Cancels(mainTask, path)
      BY DEF Update
    <2>4. /\ processing' = processing /\ committed' = committed
          /\ IF w.canceled THEN SlowPathRunning /\ invalidator' # processing
                           ELSE invalidator' = invalidator
      BY <2>1, <2>3 DEF CommitEdit, CancelSlowPath, Cancels, CanCancel
    <2> HIDE DEF w
    <2>5. /\ main = "index" /\ main' \in {"sync", "start"}
          /\ tcQueue' = Append(tcQueue, w)
          /\ UNCHANGED <<tcVars, undo>>
      BY <1>2, <2>1 DEF RunEdit, Dispatch, w
    <2>6. tcQueue = <<>> /\ Len(tcQueue') = 1 /\ tcQueue' # <<>> /\ Head(tcQueue') = w
      BY <2>2, <2>5, HandOver
    <2>7. w.canceled \in BOOLEAN
      BY <2>2 DEF Work
    <2>8. w.canceled => tc \in {"index", "typecheck", "commit"} \/ AtPreemptionPoint(FALSE)
      BY <2>4 DEF SlotInv, RunningHasCommitAhead
    <2> QED
      BY <2>4, <2>5, <2>6, <2>7, <2>8, SMT
         DEF UndoInv, UndoStateMatches, OneWorkAtATime, UndoHeld, NextCanceled,
             InSlowPath, AtPreemptionPoint, SlowPathWasCanceled
  <1>3. CASE RunOther \/ Shutdown
    <2>1. PICK w \in Work : ~w.canceled /\ tcQueue' = Append(tcQueue, w)
      <3>1. CASE RunOther
        <4> DEFINE w == [how |-> IF IsEdit(mainTask) THEN "slow" ELSE "sync",
                         task |-> mainTask, canceled |-> FALSE]
        <4>1. w \in Work /\ ~w.canceled
          BY DEF TypeOK, Work
        <4> QED
          BY <3>1, <4>1 DEF RunOther, Dispatch
      <3>2. CASE Shutdown
        <4> DEFINE w == [how |-> "shutdown", task |-> NoTask, canceled |-> FALSE]
        <4>1. w \in Work /\ ~w.canceled
          BY NoTaskType DEF Work
        <4> QED
          BY <3>2, <4>1 DEF Shutdown
      <3> QED
        BY <1>3, <3>1, <3>2
    <2>2. /\ main \in {"idle", "index"}
          /\ main' \in {"sync", "start", "shutdown"}
          /\ UNCHANGED <<epochVars, tcVars, undo>>
      BY <1>3 DEF RunOther, Dispatch, Shutdown
    <2>3. tcQueue = <<>> /\ Len(tcQueue') = 1 /\ tcQueue' # <<>> /\ Head(tcQueue') = w
      BY <2>1, <2>2, HandOver
    <2> QED
      BY <2>1, <2>2, <2>3, SMT
         DEF UndoInv, UndoStateMatches, OneWorkAtATime, UndoHeld, NextCanceled,
             InSlowPath, AtPreemptionPoint, SlowPathWasCanceled
  <1> QED
    BY <1>1, <1>2, <1>3 DEF ProcessingThread

\* Holding, freeing and restoring the undo state keep UndoInv.
LEMMA TypecheckerThreadUndoInv ==
    TypeOK /\ SlotInv /\ UndoInv /\ TypecheckerThread => UndoInv'
  <1> SUFFICES ASSUME TypeOK, SlotInv, UndoInv, TypecheckerThread PROVE UndoInv'
    OBVIOUS
  <1> USE DEF epochVars, slotVars, queueVars, mainVars, tcVars, gsVars
  <1>1. CASE RunSync \/ RunShutdown
    <2>1. tcQueue # <<>> /\ tcQueue' = Tail(tcQueue) /\ tc = "idle"
      BY <1>1 DEF RunSync, RunShutdown
    <2>2. tcQueue' = <<>> /\ Len(tcQueue') = 0 /\ Head(tcQueue).canceled \in BOOLEAN
      BY <2>1, TakeWork
    <2>3. tc' = "done" \/ (tc' = "idle" /\ undo' = ConsumedUndo(Head(tcQueue)))
      BY <1>1, <2>1 DEF RunSync, RunShutdown
    <2> QED
      BY <2>1, <2>2, <2>3, SMT
         DEF ConsumedUndo, UndoInv, UndoStateMatches, OneWorkAtATime, UndoHeld,
             NextCanceled, InSlowPath, AtPreemptionPoint, SlowPathWasCanceled
  <1>2. CASE StartSlowPath
    <2>1. /\ tcQueue # <<>> /\ tcQueue' = Tail(tcQueue)
          /\ tc' = "index" /\ outcome' = TRUE /\ undo' = "held"
          /\ processing' = invalidator'
      BY <1>2 DEF StartSlowPath, StartCommitEpoch
    <2>2. tcQueue' = <<>> /\ Len(tcQueue') = 0
      BY <2>1, TakeWork
    <2> QED
      BY <2>1, <2>2, SMT
         DEF UndoInv, UndoStateMatches, OneWorkAtATime, UndoHeld, NextCanceled,
             InSlowPath, AtPreemptionPoint, SlowPathWasCanceled
  <1>3. CASE IndexStratum \/ FinishStratum \/ LoadPreemptTask \/ LeavePreemptionLoop
    <2>1. /\ \/ /\ tc \in {"index", "typecheck"} /\ ret' = ret
                /\ tc' \in {"index", "typecheck", "commit"}
             \/ tc = "typecheck" /\ ret' = "typecheck" /\ tc' = "cas"
             \/ tc = "final" /\ ret' = "finish" /\ tc' \in {"cas", "finish"}
             \/ tc = "preempt" /\ ret' = ret /\ tc' = "settle"
          /\ UNCHANGED <<epochVars, main, outcome, tcQueue, undo>>
      BY <1>3 DEF IndexStratum, FinishStratum, LoadPreemptTask, LeavePreemptionLoop
    <2> QED
      BY <2>1
         DEF UndoInv, UndoStateMatches, OneWorkAtATime, UndoHeld, NextCanceled,
             InSlowPath, AtPreemptionPoint, SlowPathWasCanceled
  <1>4. CASE TryCommitEpoch
    BY <1>4
       DEF TryCommitEpoch, CommitEpoch, TypeOK,
           UndoInv, UndoStateMatches, OneWorkAtATime, UndoHeld, NextCanceled,
           InSlowPath, AtPreemptionPoint, SlowPathWasCanceled
  <1>5. CASE FinishSlowPath
    BY <1>5
       DEF FinishSlowPath, UndoLeft, TypeOK,
           UndoInv, UndoStateMatches, OneWorkAtATime, UndoHeld, NextCanceled,
           InSlowPath, AtPreemptionPoint, SlowPathWasCanceled
  <1>6. CASE SwapPreemptTask \/ SettlePreemptTask
    <2>1. /\ AtPreemptionPoint(FALSE) \/ AtPreemptionPoint(TRUE)
          /\ tc' \in {"preempt", ret}
          /\ UNCHANGED <<epochVars, main, ret, outcome, tcQueue, undo>>
      BY <1>6 DEF SwapPreemptTask, SettlePreemptTask, AtPreemptionPoint, TypeOK
    <2> QED
      BY <2>1
         DEF UndoInv, UndoStateMatches, OneWorkAtATime, UndoHeld, NextCanceled,
             InSlowPath, AtPreemptionPoint, SlowPathWasCanceled
  <1>7. CASE PopPreemptingTask \/ RunPreemptingTask
    <2>1. UNCHANGED epochVars
      BY <1>7 DEF PopPreemptingTask, RunPreemptingTask, CommitEdit, Cancels
    <2> QED
      BY <1>7, <2>1, SMT
         DEF PopPreemptingTask, RunPreemptingTask,
             UndoInv, UndoStateMatches, OneWorkAtATime, UndoHeld, NextCanceled,
             InSlowPath, AtPreemptionPoint, SlowPathWasCanceled
  <1> QED
    BY <1>1, <1>2, <1>3, <1>4, <1>5, <1>6, <1>7 DEF TypecheckerThread

-----------------------------------------------------------------------------
\* The server starts in a state of the inductive invariant.
LEMMA InitIInv == Init => IInv
  BY InitType, InitSlotInv, InitUndoInv DEF IInv

\* Every step of the three threads keeps the inductive invariant.
LEMMA NextIInv == IInv /\ [Next]_vars => IInv'
  <1> SUFFICES ASSUME IInv, [Next]_vars PROVE IInv'
    OBVIOUS
  <1>1. CASE Preprocessor
    BY <1>1, PreprocessorType, PreprocessorSlotInv, PreprocessorUndoInv DEF IInv
  <1>2. CASE ProcessingThread
    BY <1>2, ProcessingThreadType, ProcessingThreadSlotInv, ProcessingThreadUndoInv
       DEF IInv
  <1>3. CASE TypecheckerThread
    BY <1>3, TypecheckerThreadType, TypecheckerThreadSlotInv, TypecheckerThreadUndoInv
       DEF IInv
  <1>4. CASE UNCHANGED vars
    <2>1. UNCHANGED slotInvVars /\ UNCHANGED undoInvVars
      BY <1>4 DEF vars, slotInvVars, undoInvVars, epochVars, slotVars, queueVars,
                  mainVars, tcVars, gsVars
    <2> QED
      BY <1>4, <2>1, NextType, SlotInvUnchanged, UndoInvUnchanged DEF IInv
  <1> QED
    BY <1>1, <1>2, <1>3, <1>4 DEF Next

\* The invariant that the properties of the preemption slot and of the undo state
\* follow from holds in every reachable state of the scheduling core.
THEOREM Inductive == Spec => []IInv
  BY InitIInv, NextIInv, PTL DEF Spec

\* trySchedulePreemptionTask and tryCommitEpoch never leave a preemption task
\* behind: the slot is filled only while its owner is blocked and the slow path
\* has a preemption point ahead.
THEOREM SlotIsOwned == Spec => []SlotOwned
  <1>1. IInv => SlotOwned
    BY DEF IInv, SlotInv
  <1> QED
    BY <1>1, Inductive, PTL

\* A preemption task never runs beside the processing thread's own use of the
\* indexer, nor on the state of a slow path that has been canceled.
THEOREM PreemptionIsExclusive == Spec => []PreemptsLiveSlowPath
  <1>1. IInv => PreemptsLiveSlowPath
    BY DEF IInv, SlotInv
  <1> QED
    BY <1>1, Inductive, PTL

\* tryCommitEpoch may pass allowReschedule = false: the last run of a preemption
\* task has no stratum left to wait for.
THEOREM LastRunIsComplete == Spec => []LastRunDefersNothing
  <1>1. IInv => LastRunDefersNothing
    BY DEF IInv, SlotInv
  <1> QED
    BY <1>1, Inductive, PTL

\* The typechecker thread finds an undo state exactly when the update it runs
\* canceled the slow path before it.
THEOREM UndoStateIsMatched == Spec => []UndoStateMatches
  <1>1. IInv => UndoStateMatches
    BY DEF IInv, UndoInv
  <1> QED
    BY <1>1, Inductive, PTL

-----------------------------------------------------------------------------
\* A thread that is not at work on a task has none.
Places ==
    /\ main # "index" => mainTask = NoTask
    /\ tc # "run" => tcTask = NoTask

\* Nothing to do has no kind that matters and covers nothing.
LEMMA NoTaskIsNothing == ~IsEdit(NoTask) /\ NoTask.covers = {}
  BY DEF NoTask, IsEdit

\* Every step keeps the tasks in their places.
LEMMA NextPlaces == UndoInv /\ Places /\ [Next]_vars => Places'
  <1> SUFFICES ASSUME UndoInv, Places, [Next]_vars PROVE Places'
    OBVIOUS
  <1> USE DEF Places, mainVars, tcVars
  <1>1. CASE Preprocessor
    BY <1>1 DEF Preprocessor, Enqueue, CancelRequest, Terminate
  <1>2. CASE ProcessingThread
    BY <1>2 DEF ProcessingThread, SchedulePreemption, MainReady, AwaitAndCancel,
                AwaitAndWait, PreemptionFinished, PopTask, RunEdit, RunOther,
                Dispatch, Shutdown
  <1>3. CASE TypecheckerThread
    <2>1. CASE RunSync \/ RunShutdown \/ StartSlowPath
      BY <2>1 DEF RunSync, RunShutdown, StartSlowPath, UndoInv, OneWorkAtATime
    <2> QED
      BY <1>3, <2>1
         DEF TypecheckerThread, IndexStratum, FinishStratum,
             TryCommitEpoch, FinishSlowPath, LoadPreemptTask, SwapPreemptTask,
             LeavePreemptionLoop, PopPreemptingTask, RunPreemptingTask, SettlePreemptTask
  <1>4. CASE UNCHANGED vars
    BY <1>4 DEF vars
  <1> QED
    BY <1>1, <1>2, <1>3, <1>4 DEF Next

-----------------------------------------------------------------------------
\* Epochs.

\* The work that is next in line for the typechecker thread is a slow path.
SlowNext == tcQueue # <<>> /\ Head(tcQueue).how = "slow"

\* The epoch of the edit that left the queue last and has not started, or the last
\* epoch the epoch manager heard of.
Lead ==
    IF IsEdit(mainTask) THEN mainTask.epoch
    ELSE IF SlowNext THEN Head(tcQueue).task.epoch
    ELSE invalidator

EpochInv ==
    /\ committed <= processing /\ processing <= invalidator
    /\ invalidator <= Lead /\ Lead <= sent
    /\ IsEdit(mainTask) => invalidator < mainTask.epoch
    /\ SlowNext => processing < Head(tcQueue).task.epoch
    /\ EditsOrdered(tasks) /\ EditsWithin(tasks, Lead, sent)

\* What the invariant says of the numbers alone.
LEMMA EpochNumbers ==
    ASSUME TypeOK, EpochInv
    PROVE  /\ processing \in Nat /\ committed \in Nat /\ invalidator \in Nat /\ sent \in Nat
           /\ committed <= processing /\ processing <= invalidator
           /\ invalidator <= Lead /\ Lead <= sent
           /\ IsEdit(mainTask) => invalidator < mainTask.epoch
           /\ SlowNext => processing < Head(tcQueue).task.epoch
  BY DEF EpochInv, TypeOK

\* The work next in line is the only task outside the queue.
LEMMA WorkNext ==
    ASSUME TypeOK, UndoInv, Places, tcQueue # <<>>
    PROVE  /\ Head(tcQueue) \in Work /\ Head(tcQueue).task \in Task
           /\ mainTask = NoTask /\ ~IsEdit(mainTask) /\ main # "index"
  <1>1. Head(tcQueue) \in Work
    BY SMT DEF TypeOK
  <1>2. main # "index"
    BY DEF UndoInv, OneWorkAtATime
  <1> QED
    BY <1>1, <1>2, NoTaskIsNothing DEF Places, Work

\* While the processing thread is not waiting for the typechecker there is no work.
LEMMA NoWork ==
    ASSUME UndoInv, main \in {"idle", "await", "waitFinished", "index"}
    PROVE  tcQueue = <<>> /\ ~SlowNext
  BY DEF UndoInv, OneWorkAtATime, SlowNext

\* Lead is an epoch.
LEMMA LeadType ==
    ASSUME TypeOK, UndoInv, Places
    PROVE  Lead \in Nat /\ mainTask.epoch \in Nat
  <1>1. mainTask.epoch \in Nat
    BY DEF TypeOK, Task
  <1>2. SlowNext => Head(tcQueue).task.epoch \in Nat
    BY WorkNext DEF SlowNext, Task
  <1> QED
    BY <1>1, <1>2 DEF Lead, TypeOK

\* A weaker lower bound.
LEMMA WithinWeaker ==
    ASSUME NEW q \in Seq(Task), NEW lo \in Nat, NEW hi \in Nat, NEW lower \in Nat,
           lower <= lo, EditsWithin(q, lo, hi)
    PROVE  EditsWithin(q, lower, hi)
  <1>1. \A i \in DOMAIN q : q[i] \in Task
    BY SMT
  <1>2. \A i \in DOMAIN q : q[i].epoch \in Nat
    BY <1>1 DEF Task
  <1> QED
    BY <1>2, SMT DEF EditsWithin

\* A step that takes no edit out of the queue and leaves the epochs alone.
LEMMA EpochInvKept ==
    ASSUME TypeOK, UndoInv, Places, EpochInv, KeepsOrder(tasks, tasks'),
           UNCHANGED <<epochVars, sent, mainTask, tcQueue>>
    PROVE  EpochInv'
  <1>1. Lead' = Lead /\ SlowNext' = SlowNext /\ Lead \in Nat /\ sent \in Nat
    BY LeadType DEF Lead, SlowNext, epochVars, TypeOK
  <1>2. EditsOrdered(tasks') /\ EditsWithin(tasks', Lead, sent)
    BY <1>1 DEF EpochInv, KeepsOrder
  <1> QED
    BY <1>1, <1>2 DEF EpochInv, epochVars

-----------------------------------------------------------------------------
\* The steps that rewrite the queue.

\* preprocessAndEnqueue adds the new message, and nothing else.
LEMMA EnqueueQueue ==
    ASSUME TypeOK, NEW kind \in {"edit", "hover", "symbols", "references"},
           NEW path \in Paths, NEW files \in SUBSET Files, Enqueue(kind, path, files)
    PROVE  /\ Messages(tasks') = Messages(tasks) \cup {sent + 1}
           /\ Disjoint(tasks) /\ sent + 1 \notin Messages(tasks) => Disjoint(tasks')
           /\ \A lo \in 0..sent : EditsOrdered(tasks) /\ EditsWithin(tasks, lo, sent)
                => EditsOrdered(tasks') /\ EditsWithin(tasks', lo, sent + 1)
  <1> DEFINE task == [kind |-> kind, path |-> path, files |-> files,
                      epoch |-> sent + 1, covers |-> {sent + 1}]
             added == Append(tasks, task)
  <1>1. sent \in Nat /\ tasks \in Seq(Task) /\ sent + 1 \in Nat
    BY SMT DEF TypeOK
  <1>2. task \in Task /\ task.epoch = sent + 1 /\ task.covers = {sent + 1}
    BY <1>1 DEF Task
  <1>3. MergeFileChanges(added, tasks') \/ tasks' = added
    BY DEF Enqueue
  <1> HIDE DEF task
  <1>4. added \in Seq(Task)
    BY <1>1, <1>2, SMT
  <1>5. /\ Disjoint(tasks) /\ task.covers \cap Messages(tasks) = {} => Disjoint(added)
        /\ Messages(added) = Messages(tasks) \cup task.covers
        /\ \A lo \in 0..sent : EditsWithin(tasks, lo, sent) => EditsWithin(added, lo, sent + 1)
        /\ EditsOrdered(tasks) /\ EditsWithin(tasks, 0, sent) => EditsOrdered(added)
    BY <1>1, <1>2, AppendKeeps
  <1> HIDE DEF added
  <1>6. /\ Disjoint(added) => Disjoint(tasks')
        /\ Messages(tasks') = Messages(added)
        /\ KeepsOrder(added, tasks')
    BY <1>3, <1>4, MergeFileChangesKeeps DEF KeepsOrder
  <1>7. sent + 1 \notin Messages(tasks) => task.covers \cap Messages(tasks) = {}
    BY <1>2
  <1>8. ASSUME NEW lo \in 0..sent, EditsOrdered(tasks), EditsWithin(tasks, lo, sent)
        PROVE  EditsOrdered(tasks') /\ EditsWithin(tasks', lo, sent + 1)
    <2>1. lo \in Nat /\ 0 \in Nat /\ 0 <= lo
      BY <1>1, SMT
    <2>2. EditsWithin(tasks, 0, sent)
      BY <1>1, <1>8, <2>1, WithinWeaker
    <2>3. EditsOrdered(added) /\ EditsWithin(added, lo, sent + 1)
      BY <1>5, <1>8, <2>2
    <2> QED
      BY <1>1, <1>6, <2>1, <2>3 DEF KeepsOrder
  <1> QED
    BY <1>2, <1>5, <1>6, <1>7, <1>8

\* CancelRequestTask removes the messages of the task it cancels, and nothing else.
LEMMA CancelQueue ==
    ASSUME TypeOK, NEW i \in DOMAIN tasks, AfterCancel(i, tasks')
    PROVE  /\ Messages(tasks) = tasks[i].covers \cup Messages(tasks')
           /\ Disjoint(tasks) => Disjoint(tasks')
           /\ Disjoint(tasks) => tasks[i].covers \cap Messages(tasks') = {}
           /\ KeepsOrder(tasks, tasks')
  <1> DEFINE left == WithoutTask(tasks, i)
  <1>1. tasks \in Seq(Task) /\ left \in Seq(Task)
    BY WithoutTaskType DEF TypeOK
  <1>2. /\ Disjoint(tasks) => /\ Disjoint(left)
                              /\ tasks[i].covers \cap Messages(left) = {}
        /\ Messages(tasks) = tasks[i].covers \cup Messages(left)
        /\ KeepsOrder(tasks, left)
    BY <1>1, WithoutTaskKeeps
  <1>3. MergeFileChanges(left, tasks')
    BY DEF AfterCancel
  <1> HIDE DEF left
  <1>4. /\ Disjoint(left) => Disjoint(tasks')
        /\ Messages(tasks') = Messages(left)
        /\ KeepsOrder(left, tasks')
    BY <1>1, <1>3, MergeFileChangesKeeps
  <1> QED
    BY <1>2, <1>4 DEF KeepsOrder

\* The promotion in runLSP keeps the messages of the queue.
LEMMA PromoteQueue ==
    ASSUME TypeOK, PromoteSlowEdits
    PROVE  /\ Messages(tasks') = Messages(tasks)
           /\ Disjoint(tasks) => Disjoint(tasks')
           /\ KeepsOrder(tasks, tasks')
  <1>1. tasks \in Seq(Task)
    BY DEF TypeOK
  <1>2. CASE tasks' = tasks
    BY <1>2 DEF KeepsOrder
  <1>3. ASSUME NEW c \in DOMAIN tasks, Promotable(tasks, c), Promote(tasks, c, tasks')
        PROVE  /\ Messages(tasks') = Messages(tasks)
               /\ Disjoint(tasks) => Disjoint(tasks')
               /\ KeepsOrder(tasks, tasks')
    BY <1>1, <1>3, PromoteKeeps DEF Promotable
  <1> QED
    BY <1>2, <1>3 DEF PromoteSlowEdits

-----------------------------------------------------------------------------
\* Every step keeps the epochs in order.

\* The first epoch is ahead of none.
LEMMA InitEpochInv == Init => Places /\ EpochInv
  BY NoTaskIsNothing, SMT
     DEF Init, EpochInit, Places, EpochInv, Lead, SlowNext, EditsOrdered, EditsWithin

\* A new edit has the highest epoch.
LEMMA PreprocessorEpochInv ==
    TypeOK /\ UndoInv /\ Places /\ EpochInv /\ Preprocessor => EpochInv'
  <1> SUFFICES ASSUME TypeOK, UndoInv, Places, EpochInv, Preprocessor PROVE EpochInv'
    OBVIOUS
  <1> USE DEF mainVars, tcVars, gsVars
  <1>1. ASSUME NEW kind \in {"edit", "hover", "symbols", "references"},
               NEW path \in Paths, NEW files \in SUBSET Files,
               Enqueue(kind, path, files)
        PROVE  EpochInv'
    <2>1. /\ sent' = sent + 1 /\ sent \in Nat /\ Lead \in 0..sent
          /\ UNCHANGED <<epochVars, mainTask, tcQueue>>
      <3>1. sent' = sent + 1 /\ UNCHANGED <<epochVars, mainTask, tcQueue>>
        BY <1>1 DEF Enqueue
      <3>2. Lead \in Nat
        BY LeadType
      <3>3. Lead \in 0..sent
        BY <3>2, EpochNumbers, SMT
      <3> QED
        BY <3>1, <3>3, EpochNumbers
    <2>2. Lead' = Lead /\ SlowNext' = SlowNext
      BY <2>1 DEF Lead, SlowNext, epochVars
    <2>3. EditsOrdered(tasks') /\ EditsWithin(tasks', Lead, sent + 1)
      BY <1>1, <2>1, EnqueueQueue DEF EpochInv
    <2>4. Lead <= sent + 1
      BY <2>1, SMT
    <2> QED
      BY <2>1, <2>2, <2>3, <2>4 DEF EpochInv, epochVars
  <1>2. ASSUME NEW i \in DOMAIN tasks, CancelRequest(i)
        PROVE  EpochInv'
    <2>1. AfterCancel(i, tasks') /\ UNCHANGED <<epochVars, sent, mainTask, tcQueue>>
      BY <1>2 DEF CancelRequest
    <2> QED
      BY <2>1, CancelQueue, EpochInvKept
  <1>3. CASE Terminate
    <2>1. UNCHANGED <<epochVars, tasks, sent, mainTask, tcQueue>>
      BY <1>3 DEF Terminate
    <2> QED
      BY <2>1, EpochInvKept DEF KeepsOrder
  <1>4. \A f \in Files : {f} \in SUBSET Files
    OBVIOUS
  <1>5. {} \in SUBSET Files /\ "Slow" \in Paths
    BY DEF Paths
  <1> QED
    BY <1>1, <1>2, <1>3, <1>4, <1>5 DEF Preprocessor

\* The head of the queue leads the rest of the queue.
LEMMA HeadLeads ==
    ASSUME TypeOK, EpochInv, UndoInv, Places, tasks # <<>>, IsEdit(Head(tasks))
    PROVE  /\ Lead < Head(tasks).epoch /\ Head(tasks).epoch <= sent
           /\ EditsWithin(Tail(tasks), Head(tasks).epoch, sent)
  <1>1. tasks \in Seq(Task) /\ sent \in Nat /\ Lead \in Nat /\ 0 \in Nat /\ 0 <= Lead
    BY LeadType, SMT DEF TypeOK
  <1>2. 1 \in DOMAIN tasks /\ Head(tasks) = tasks[1]
    BY <1>1, SMT
  <1>3. EditsOrdered(tasks) /\ EditsWithin(tasks, Lead, sent)
    BY DEF EpochInv
  <1>4. EditsWithin(tasks, 0, sent)
    BY <1>1, <1>3, WithinWeaker
  <1> QED
    BY <1>1, <1>2, <1>3, <1>4, TailKeeps DEF EditsWithin

\* Handing over the edit that leads keeps the epochs in order.
LEMMA HandOverEpochInv ==
    ASSUME TypeOK, UndoInv, Places, EpochInv, main \in {"idle", "index"},
           NEW w \in Work, tcQueue' = Append(tcQueue, w), mainTask' = NoTask,
           UNCHANGED <<tasks, sent, processing, committed>>,
           w.how = "slow" => IsEdit(mainTask) /\ w.task.epoch = mainTask.epoch,
           invalidator' = invalidator \/ (IsEdit(mainTask) /\ invalidator' = mainTask.epoch)
    PROVE  EpochInv'
  <1>1. tcQueue = <<>> /\ tcQueue' # <<>> /\ Head(tcQueue') = w
    BY HandOver
  <1>2. ~SlowNext /\ (SlowNext' <=> w.how = "slow")
    BY <1>1 DEF SlowNext
  <1>3. Lead = IF IsEdit(mainTask) THEN mainTask.epoch ELSE invalidator
    BY <1>2 DEF Lead
  <1>4. Lead' = IF w.how = "slow" THEN mainTask.epoch ELSE invalidator'
    BY <1>1, <1>2, NoTaskIsNothing DEF Lead
  <1>5. Lead \in Nat /\ mainTask.epoch \in Nat
    BY LeadType
  <1>6. /\ Lead' \in Nat /\ Lead' <= Lead /\ invalidator' <= Lead'
        /\ processing <= invalidator' /\ Lead' <= sent
        /\ w.how = "slow" => processing < mainTask.epoch
    BY <1>3, <1>4, <1>5, EpochNumbers, SMTT(30)
  <1>7. EditsWithin(tasks, Lead', sent)
    BY <1>5, <1>6, WithinWeaker DEF EpochInv, TypeOK
  <1> QED
    BY <1>1, <1>2, <1>6, <1>7, NoTaskIsNothing DEF EpochInv

\* Popping, indexing and handing over an edit keep the epochs in order.
LEMMA ProcessingThreadEpochInv ==
    TypeOK /\ UndoInv /\ Places /\ EpochInv /\ ProcessingThread => EpochInv'
  <1> SUFFICES ASSUME TypeOK, UndoInv, Places, EpochInv, ProcessingThread PROVE EpochInv'
    OBVIOUS
  <1>1. CASE SchedulePreemption \/ AwaitAndWait
    <2>1. UNCHANGED <<epochVars, tasks, sent, mainTask, tcQueue>>
      BY <1>1 DEF SchedulePreemption, AwaitAndWait, queueVars
    <2> QED
      BY <2>1, EpochInvKept DEF KeepsOrder
  <1>2. CASE AwaitAndCancel \/ PreemptionFinished
    <2>1. PromoteSlowEdits /\ UNCHANGED <<epochVars, sent, mainTask, tcQueue>>
      BY <1>2 DEF AwaitAndCancel, PreemptionFinished
    <2> QED
      BY <2>1, PromoteQueue, EpochInvKept
  <1>3. CASE PopTask
    <2>1. /\ main = "idle" /\ tasks # <<>> /\ tcQueue' = tcQueue
          /\ mainTask' = Head(tasks) /\ tasks' = Tail(tasks)
          /\ UNCHANGED <<epochVars, sent>>
      BY <1>3 DEF PopTask, MainReady
    <2>2. mainTask = NoTask /\ tcQueue = <<>> /\ ~SlowNext /\ ~SlowNext'
      BY <2>1, NoWork DEF Places, SlowNext
    <2>3. Lead = invalidator
      BY <2>2, NoTaskIsNothing DEF Lead
    <2>4. Lead' = IF IsEdit(Head(tasks)) THEN Head(tasks).epoch ELSE invalidator
      BY <2>1, <2>2 DEF Lead, epochVars
    <2>5. KeepsOrder(tasks, Tail(tasks))
      BY <2>1, TailKeeps DEF TypeOK
    <2>6. EditsOrdered(Tail(tasks)) /\ EditsWithin(Tail(tasks), invalidator, sent)
      BY <2>3, <2>5 DEF KeepsOrder, EpochInv, TypeOK
    <2>7. Head(tasks).epoch \in Nat
      <3>1. Head(tasks) \in Task
        BY <2>1, SMT DEF TypeOK
      <3> QED
        BY <3>1 DEF Task
    <2>8. CASE IsEdit(Head(tasks))
      <3>1. /\ invalidator < Head(tasks).epoch /\ Head(tasks).epoch <= sent
            /\ EditsWithin(Tail(tasks), Head(tasks).epoch, sent)
        BY <2>1, <2>3, <2>8, HeadLeads
      <3>2. invalidator <= Head(tasks).epoch
        BY <2>7, <3>1, SMTT(30) DEF TypeOK
      <3> QED
        BY <2>1, <2>2, <2>4, <2>6, <2>8, <3>1, <3>2 DEF EpochInv, epochVars
    <2>9. CASE ~IsEdit(Head(tasks))
      BY <2>1, <2>2, <2>3, <2>4, <2>6, <2>9 DEF EpochInv, epochVars
    <2> QED
      BY <2>8, <2>9
  <1>4. CASE RunEdit
    <2>1. PICK path \in {"Fast", "Slow"}, newPath \in {"Fast", "Slow"} :
                 /\ CommitEdit(mainTask, path, newPath)
                 /\ Dispatch(Update(mainTask, path, newPath))
      BY <1>4 DEF RunEdit
    <2> DEFINE w == Update(mainTask, path, newPath)
    <2>2. w \in Work /\ w.task.epoch = mainTask.epoch
      <3>1. w \in Work
        BY <2>1, CommitEditType DEF TypeOK, Paths
      <3>2. w.task.epoch = mainTask.epoch
        BY DEF Update, TypeOK, Task
      <3> QED
        BY <3>1, <3>2
    <2>3. /\ processing' = processing /\ committed' = committed
          /\ invalidator' = invalidator \/ invalidator' = mainTask.epoch
      BY <2>1 DEF CommitEdit, CancelSlowPath, epochVars
    <2> HIDE DEF w
    <2>4. /\ main = "index" /\ IsEdit(mainTask) /\ mainTask' = NoTask
          /\ tcQueue' = Append(tcQueue, w) /\ UNCHANGED <<tasks, sent>>
      BY <1>4, <2>1 DEF RunEdit, Dispatch, queueVars, w
    <2>5. main \in {"idle", "index"} /\ UNCHANGED <<tasks, sent, processing, committed>>
      BY <2>3, <2>4
    <2> QED
      BY <2>2, <2>3, <2>4, <2>5, HandOverEpochInv
  <1>5. CASE RunOther
    <2> DEFINE w == [how |-> IF IsEdit(mainTask) THEN "slow" ELSE "sync",
                     task |-> mainTask, canceled |-> FALSE]
    <2>1. /\ w \in Work /\ w.task = mainTask
          /\ w.how = "slow" => IsEdit(mainTask)
      BY DEF Work, TypeOK
    <2>2. /\ main = "index" /\ mainTask' = NoTask
          /\ tcQueue' = Append(tcQueue, w) /\ UNCHANGED <<epochVars, tasks, sent>>
      BY <1>5 DEF RunOther, Dispatch, queueVars
    <2> HIDE DEF w
    <2>3. /\ main \in {"idle", "index"} /\ invalidator' = invalidator
          /\ UNCHANGED <<tasks, sent, processing, committed>>
      BY <2>2 DEF epochVars
    <2> QED
      BY <2>1, <2>2, <2>3, HandOverEpochInv
  <1>6. CASE Shutdown
    <2> DEFINE w == [how |-> "shutdown", task |-> NoTask, canceled |-> FALSE]
    <2>1. w \in Work /\ w.how # "slow"
      BY NoTaskType DEF Work
    <2>2. /\ main = "idle" /\ mainTask' = mainTask /\ mainTask = NoTask
          /\ tcQueue' = Append(tcQueue, w) /\ UNCHANGED <<epochVars, tasks, sent>>
      BY <1>6 DEF Shutdown, queueVars, Places
    <2> HIDE DEF w
    <2>3. /\ main \in {"idle", "index"} /\ invalidator' = invalidator
          /\ UNCHANGED <<tasks, sent, processing, committed>>
      BY <2>2 DEF epochVars
    <2> QED
      BY <2>1, <2>2, <2>3, HandOverEpochInv
  <1> QED
    BY <1>1, <1>2, <1>3, <1>4, <1>5, <1>6 DEF ProcessingThread

\* Starting, canceling and committing a slow path keep the epochs in order.
LEMMA TypecheckerThreadEpochInv ==
    IInv /\ Places /\ EpochInv /\ TypecheckerThread => EpochInv'
  <1> SUFFICES ASSUME TypeOK, SlotInv, UndoInv, Places, EpochInv, TypecheckerThread
               PROVE  EpochInv'
    BY DEF IInv
  <1>1. CASE RunSync \/ RunShutdown
    <2>1. /\ tcQueue # <<>> /\ tcQueue' = Tail(tcQueue) /\ ~SlowNext
          /\ UNCHANGED <<epochVars, tasks, sent, mainTask>>
      BY <1>1 DEF RunSync, RunShutdown, queueVars, SlowNext
    <2>2. ~SlowNext'
      BY <2>1, TakeWork DEF SlowNext
    <2>3. Lead' = Lead
      BY <2>1, <2>2 DEF Lead, epochVars
    <2> QED
      BY <2>1, <2>2, <2>3 DEF EpochInv, epochVars
  <1>2. CASE StartSlowPath
    <2> DEFINE e == Head(tcQueue).task.epoch
    <2>1. /\ tcQueue # <<>> /\ tcQueue' = Tail(tcQueue) /\ SlowNext
          /\ processing' = e /\ invalidator' = e /\ committed' = committed
          /\ UNCHANGED <<tasks, sent, mainTask>>
      BY <1>2 DEF StartSlowPath, StartCommitEpoch, queueVars, SlowNext
    <2>2. ~SlowNext'
      BY <2>1, TakeWork DEF SlowNext
    <2>3. ~IsEdit(mainTask) /\ Lead = e
      BY <2>1, WorkNext DEF Lead
    <2> HIDE DEF e
    <2>4. Lead' = e
      BY <2>1, <2>2, <2>3 DEF Lead
    <2>5. e \in Nat
      BY <2>3, LeadType
    <2>6. committed <= e /\ e <= e
      <3>1. processing < e
        BY <2>1, EpochNumbers DEF e
      <3> QED
        BY <2>5, <3>1, EpochNumbers, SMT
    <2> QED
      BY <2>1, <2>2, <2>3, <2>4, <2>6 DEF EpochInv
  <1>3. CASE TryCommitEpoch
    <2>1. /\ UNCHANGED <<tasks, sent, mainTask, tcQueue>>
          /\ CommitEpoch
      BY <1>3 DEF TryCommitEpoch, queueVars, mainVars
    <2>2. /\ committed' <= processing' /\ processing' <= invalidator'
          /\ processing' <= processing /\ invalidator' <= invalidator
          /\ invalidator' \in Nat /\ processing' \in Nat
      BY <2>1, EpochNumbers, SMT DEF CommitEpoch
    <2>3. SlowNext' = SlowNext
      BY <2>1 DEF SlowNext
    <2>4. Lead' = IF IsEdit(mainTask) \/ SlowNext THEN Lead ELSE invalidator'
      BY <2>1, <2>3 DEF Lead
    <2>5. Lead \in Nat /\ mainTask.epoch \in Nat
      BY LeadType
    <2>6. /\ Lead' \in Nat /\ Lead' <= Lead /\ invalidator' <= Lead' /\ Lead' <= sent
          /\ IsEdit(mainTask) => invalidator' < mainTask.epoch
      BY <2>2, <2>4, <2>5, EpochNumbers, SMTT(30)
    <2>7. SlowNext => processing' < Head(tcQueue).task.epoch
      <3>1. SlowNext => Head(tcQueue).task.epoch \in Nat
        BY WorkNext DEF SlowNext, Task
      <3> QED
        BY <2>2, <3>1, EpochNumbers, SMTT(30)
    <2>8. EditsWithin(tasks, Lead', sent)
      BY <2>5, <2>6, WithinWeaker DEF EpochInv, TypeOK
    <2> QED
      BY <2>1, <2>2, <2>3, <2>6, <2>7, <2>8 DEF EpochInv
  <1>4. CASE PopPreemptingTask
    <2>1. tc = "preempt" /\ UNCHANGED <<epochVars, sent, mainTask, tcQueue>>
      BY <1>4 DEF PopPreemptingTask, mainVars, CommitEdit, Cancels
    <2>2. tasks # <<>> /\ tasks' = Tail(tasks)
      BY <1>4 DEF PopPreemptingTask, PreemptionPossible
    <2>3. KeepsOrder(tasks, tasks')
      BY <2>2, TailKeeps DEF TypeOK
    <2> QED
      BY <2>1, <2>3, EpochInvKept
  <1>5. CASE IndexStratum \/ FinishStratum \/ FinishSlowPath \/ LoadPreemptTask
               \/ SwapPreemptTask \/ LeavePreemptionLoop \/ RunPreemptingTask
               \/ SettlePreemptTask
    <2>1. UNCHANGED <<epochVars, tasks, sent, mainTask, tcQueue>>
      BY <1>5 DEF IndexStratum, FinishStratum, FinishSlowPath, LoadPreemptTask,
           SwapPreemptTask, LeavePreemptionLoop, RunPreemptingTask, SettlePreemptTask,
           queueVars, mainVars
    <2> QED
      BY <2>1, EpochInvKept DEF KeepsOrder
  <1> QED
    BY <1>1, <1>2, <1>3, <1>4, <1>5 DEF TypecheckerThread

-----------------------------------------------------------------------------
\* Messages.

Waiting == Messages(tasks)
Handed == IF tcQueue = <<>> THEN {} ELSE Head(tcQueue).task.covers
AtWork == mainTask.covers \cup tcTask.covers \cup Handed
Settled == answered \cup applied \cup pending

\* Every message is in one place only, apart from the edits that a task outside of
\* the queue stands for: those are pending, and may be applied and rolled back.
Apart ==
    /\ Disjoint(tasks)
    /\ Settled \cup Waiting \cup AtWork \subseteq 1..sent
    /\ Waiting \cap (Settled \cup AtWork) = {}
    /\ mainTask.covers \cap Settled = {}
    /\ answered \cap (applied \cup pending \cup tcTask.covers \cup Handed) = {}

\* The edits that are indexed and not applied yet are pending; requests are not.
IndexedIsPending ==
    /\ IF IsEdit(tcTask) THEN tcTask.covers \subseteq pending
                         ELSE tcTask.covers \cap Settled = {}
    /\ tcQueue # <<>> /\ ~IsEdit(Head(tcQueue).task) => Handed \cap Settled = {}
    /\ tcQueue # <<>> /\ Head(tcQueue).how = "shutdown" => Handed = {}
    /\ SlowNext => IsEdit(Head(tcQueue).task)
    /\ SlowNext /\ Head(tcQueue).task.path # "Huge" => Handed \subseteq pending

\* The edits a cancellation would roll back are pending: commitEdit merges them into
\* the edit that cancels.
RollbackIsPending ==
    /\ undoApplied \subseteq applied
    /\ SlowPathRunning => applied \subseteq undoApplied \cup pending

\* Every message is settled for good or some task stands for it.
Kept == 1..sent \subseteq answered \cup Durable \cup Waiting \cup AtWork

MsgInv == Apart /\ IndexedIsPending /\ RollbackIsPending /\ Kept

\* The properties follow.
LEMMA MsgInvIsEnough == TypeOK /\ UndoInv /\ Places /\ MsgInv => NoMessageLost
  <1> SUFFICES ASSUME TypeOK, UndoInv, MsgInv PROVE NoMessageLost
    OBVIOUS
  <1>1. Handed = UNION {task.covers : task \in HandedOver}
    <2>1. CASE tcQueue = <<>>
      BY <2>1, SMT DEF Handed, HandedOver
    <2>2. CASE tcQueue # <<>>
      <3>1. DOMAIN tcQueue = {1} /\ Head(tcQueue) = tcQueue[1]
        <4>1. tcQueue \in Seq(Work) /\ Len(tcQueue) <= 1
          BY DEF TypeOK, UndoInv, OneWorkAtATime
        <4> QED
          BY <2>2, <4>1, SingletonQueue
      <3> QED
        BY <2>2, <3>1 DEF Handed, HandedOver
    <2> QED
      BY <2>1, <2>2
  <1>2. InFlight = Waiting \cup AtWork
    BY <1>1, SMT DEF InFlight, QueuedTasks, Waiting, Messages, AtWork
  <1>3. answered \cap (InFlight \cup applied) = {}
    BY <1>2 DEF MsgInv, Apart, Settled, AtWork
  <1>4. 1..sent \subseteq answered \cup Durable \cup InFlight
    BY <1>2 DEF MsgInv, Kept
  <1> QED
    BY <1>3, <1>4 DEF NoMessageLost, MsgInv, Apart, Disjoint

\* There are no messages when the server starts.
LEMMA InitMsgInv == Init => MsgInv
  <1> SUFFICES ASSUME Init PROVE MsgInv
    OBVIOUS
  <1>1. /\ Waiting = {} /\ AtWork = {} /\ Settled = {} /\ undoApplied = {} /\ applied = {}
        /\ mainTask.covers = {} /\ tcTask.covers = {} /\ Handed = {} /\ answered = {}
    BY NoTaskIsNothing, SMTT(30) DEF Init, Waiting, Messages, Handed, AtWork, Settled
  <1>2. 1..sent = {} /\ Disjoint(tasks) /\ ~SlowNext
    BY SMT DEF Init, Disjoint, SlowNext
  <1> QED
    BY <1>1, <1>2, NoTaskIsNothing
       DEF Init, MsgInv, Apart, IndexedIsPending, RollbackIsPending, Kept

msgVars == <<epochVars, sent, answered, mainTask, pending, tcQueue, outcome, tcTask,
             gsVars>>

\* A step that keeps the messages of the queue, and touches nothing else the
\* invariant speaks of.
LEMMA MsgInvKept ==
    ASSUME MsgInv, UNCHANGED msgVars, Disjoint(tasks'), Messages(tasks') = Messages(tasks)
    PROVE  MsgInv'
  <1>1. /\ Waiting' = Waiting /\ Handed' = Handed /\ AtWork' = AtWork
        /\ Settled' = Settled /\ Durable' = Durable /\ SlowNext' = SlowNext
        /\ SlowPathRunning' = SlowPathRunning
    BY DEF msgVars, epochVars, gsVars, Waiting, Handed, AtWork, Settled, Durable,
           Doomed, SlowNext, SlowPathRunning, SlowPathWasCanceled
  <1>2. /\ mainTask' = mainTask /\ tcTask' = tcTask /\ answered' = answered
        /\ applied' = applied /\ pending' = pending /\ undoApplied' = undoApplied
        /\ sent' = sent /\ tcQueue' = tcQueue
    BY DEF msgVars, gsVars
  <1> QED
    BY <1>1, <1>2 DEF MsgInv, Apart, IndexedIsPending, RollbackIsPending, Kept

\* A new message is in the queue, a canceled request is answered.
LEMMA PreprocessorMsgInv == TypeOK /\ MsgInv /\ Preprocessor => MsgInv'
  <1> SUFFICES ASSUME TypeOK, MsgInv, Preprocessor PROVE MsgInv'
    OBVIOUS
  <1>1. ASSUME NEW kind \in {"edit", "hover", "symbols", "references"},
               NEW path \in Paths, NEW files \in SUBSET Files,
               Enqueue(kind, path, files)
        PROVE  MsgInv'
    <2>1. /\ sent' = sent + 1 /\ sent \in Nat
          /\ UNCHANGED <<epochVars, answered, mainTask, pending, tcQueue, outcome, tcTask,
                         gsVars>>
      BY <1>1 DEF Enqueue, TypeOK, mainVars, tcVars
    <2>2. 1..(sent + 1) = 1..sent \cup {sent + 1} /\ sent + 1 \notin 1..sent
      BY <2>1, SMT
    <2>3. /\ Handed' = Handed /\ AtWork' = AtWork /\ SlowNext' = SlowNext
          /\ Settled' = Settled /\ Durable' = Durable
          /\ SlowPathRunning' = SlowPathRunning
      BY <2>1 DEF epochVars, gsVars, Handed, AtWork, Settled, Durable,
           Doomed, SlowNext, SlowPathRunning, SlowPathWasCanceled
    <2>4. sent + 1 \notin Waiting /\ sent + 1 \notin Settled \cup AtWork
      BY <2>2 DEF MsgInv, Apart
    <2>5. Waiting' = Waiting \cup {sent + 1} /\ Disjoint(tasks')
      BY <1>1, <2>4, EnqueueQueue DEF Waiting, MsgInv, Apart
    <2>6. Apart'
      BY <2>1, <2>2, <2>3, <2>4, <2>5 DEF MsgInv, Apart, gsVars
    <2>7. Kept'
      BY <2>1, <2>2, <2>3, <2>5 DEF MsgInv, Kept
    <2> QED
      BY <2>1, <2>3, <2>6, <2>7
         DEF MsgInv, IndexedIsPending, RollbackIsPending, gsVars
  <1>2. ASSUME NEW i \in DOMAIN tasks, CancelRequest(i)
        PROVE  MsgInv'
    <2> DEFINE gone == tasks[i].covers
    <2>1. /\ AfterCancel(i, tasks') /\ answered' = answered \cup gone
          /\ UNCHANGED <<epochVars, sent, mainTask, pending, tcQueue, outcome, tcTask,
                         gsVars>>
      BY <1>2 DEF CancelRequest, mainVars, tcVars
    <2>2. /\ Waiting = gone \cup Waiting' /\ Disjoint(tasks') /\ gone \cap Waiting' = {}
      BY <2>1, CancelQueue DEF Waiting, MsgInv, Apart
    <2> HIDE DEF gone
    <2>3. /\ Handed' = Handed /\ AtWork' = AtWork /\ SlowNext' = SlowNext
          /\ Settled' = Settled \cup gone /\ Durable' = Durable
          /\ SlowPathRunning' = SlowPathRunning
      BY <2>1 DEF epochVars, gsVars, Handed, AtWork, Settled, Durable,
           Doomed, SlowNext, SlowPathRunning, SlowPathWasCanceled
    <2>4. gone \subseteq 1..sent /\ gone \cap (Settled \cup AtWork) = {}
      BY <2>2 DEF MsgInv, Apart
    <2>5. Apart'
      BY <2>1, <2>2, <2>3, <2>4 DEF MsgInv, Apart, AtWork, Settled, gsVars
    <2>6. Kept'
      BY <2>1, <2>2, <2>3 DEF MsgInv, Kept
    <2>7. IndexedIsPending'
      BY <2>1, <2>3, <2>4 DEF MsgInv, IndexedIsPending, AtWork
    <2> QED
      BY <2>1, <2>3, <2>5, <2>6, <2>7 DEF MsgInv, RollbackIsPending, gsVars
  <1>3. CASE Terminate
    <2>1. UNCHANGED msgVars /\ tasks' = tasks
      BY <1>3 DEF Terminate, msgVars, mainVars, tcVars
    <2> QED
      BY <2>1, MsgInvKept DEF MsgInv, Apart
  <1>4. \A f \in Files : {f} \in SUBSET Files
    OBVIOUS
  <1>5. {} \in SUBSET Files /\ "Slow" \in Paths
    BY DEF Paths
  <1> QED
    BY <1>1, <1>2, <1>3, <1>4, <1>5 DEF Preprocessor

\* Handing over a request, a huge edit or the end of the session.
LEMMA HandOverMsgInv ==
    ASSUME TypeOK, UndoInv, MsgInv, main \in {"idle", "index"},
           NEW w \in Work, tcQueue' = Append(tcQueue, w), mainTask' = NoTask,
           w.task.covers = mainTask.covers,
           w.how = "slow" => IsEdit(w.task) /\ w.task.path = "Huge",
           w.how = "shutdown" => mainTask = NoTask,
           UNCHANGED <<epochVars, tasks, sent, answered, pending, outcome, tcTask, gsVars>>
    PROVE  MsgInv'
  <1>1. tcQueue = <<>> /\ tcQueue' # <<>> /\ Head(tcQueue') = w
    BY HandOver
  <1>2. Handed = {} /\ Handed' = mainTask.covers /\ (SlowNext' => w.how = "slow")
    BY <1>1 DEF Handed, SlowNext
  <1>3. /\ Waiting' = Waiting /\ Settled' = Settled /\ Durable' = Durable
        /\ SlowPathRunning' = SlowPathRunning
    BY DEF epochVars, gsVars, Waiting, Settled, Durable,
           Doomed, SlowPathRunning, SlowPathWasCanceled
  <1>4. mainTask'.covers = {} /\ AtWork' = AtWork
    BY <1>2, NoTaskIsNothing DEF AtWork
  <1>5. Apart'
    BY <1>2, <1>3, <1>4 DEF MsgInv, Apart, Settled, gsVars
  <1>6. IndexedIsPending'
    BY <1>1, <1>2, <1>3, NoTaskIsNothing DEF MsgInv, IndexedIsPending, Apart
  <1> QED
    BY <1>3, <1>4, <1>5, <1>6 DEF MsgInv, Kept, RollbackIsPending, gsVars

\* commitEdit: an edit that cancels the slow path stands for its edits too.
LEMMA RunEditMsgInv == IInv /\ Places /\ EpochInv /\ MsgInv /\ RunEdit => MsgInv'
  <1> SUFFICES ASSUME TypeOK, SlotInv, UndoInv, Places, EpochInv, MsgInv, RunEdit
               PROVE  MsgInv'
    BY DEF IInv
  <1>1. PICK path \in {"Fast", "Slow"}, newPath \in {"Fast", "Slow"} :
               /\ CommitEdit(mainTask, path, newPath)
               /\ Dispatch(Update(mainTask, path, newPath))
    BY DEF RunEdit
  <1> DEFINE w == Update(mainTask, path, newPath)
             covered == Covered(mainTask, path)
             cancels == Cancels(mainTask, path)
  <1>2. w \in Work
    BY <1>1, CommitEditType DEF TypeOK, Paths
  <1>3. /\ IsEdit(w.task) /\ w.task.covers = covered /\ w.task.path # "Huge"
        /\ (w.how = "slow" => newPath = "Slow") /\ w.how # "shutdown"
    <2>1. mainTask \in Task /\ IsEdit(mainTask)
      BY DEF TypeOK, RunEdit
    <2> QED
      BY <2>1 DEF Update, Task, IsEdit
  <1>4. /\ main = "index" /\ mainTask' = NoTask /\ tcQueue' = Append(tcQueue, w)
        /\ UNCHANGED <<tasks, sent, answered, outcome, tcTask, gsVars>>
    BY <1>1 DEF RunEdit, Dispatch, queueVars, tcVars
  <1>5. /\ cancels \/ newPath = path
        /\ processing' = processing /\ committed' = committed
        /\ IF cancels THEN invalidator' = mainTask.epoch ELSE invalidator' = invalidator
        /\ pending' = IF newPath = "Fast" THEN covered \cup pending ELSE covered
        /\ covered = IF cancels THEN mainTask.covers \cup pending ELSE mainTask.covers
    BY <1>1 DEF CommitEdit, CancelSlowPath, epochVars, Covered
  <1>6. /\ SlowPathRunning /\ path = "Slow" => cancels
        /\ cancels => SlowPathRunning /\ mainTask.epoch # processing
    <2>1. mainTask.epoch # processing
      BY LeadType, SMTT(30) DEF EpochInv, TypeOK, RunEdit
    <2> QED
      BY <2>1 DEF Cancels, CanCancel
  <1> HIDE DEF w, covered, cancels
  <1>7. tcQueue = <<>> /\ tcQueue' # <<>> /\ Head(tcQueue') = w
    <2>1. main \in {"idle", "index"}
      BY <1>4
    <2> QED
      BY <1>2, <1>4, <2>1, HandOver
  <1>8. Handed = {} /\ Handed' = covered /\ (SlowNext' => newPath = "Slow")
    BY <1>3, <1>7 DEF Handed, SlowNext
  <1>9. tcTask = NoTask /\ tcTask.covers = {} /\ mainTask'.covers = {} /\ ~IsEdit(tcTask)
    <2>1. tc # "run"
      BY <1>4 DEF SlotInv, PreemptsLiveSlowPath, Preempting
    <2> QED
      BY <1>4, <2>1, NoTaskIsNothing DEF Places
  <1>10. /\ Waiting' = Waiting /\ tcTask' = tcTask /\ undoApplied' = undoApplied
         /\ applied' = applied /\ (SlowPathRunning' <=> SlowPathRunning)
         /\ AtWork = mainTask.covers /\ AtWork' = covered
    BY <1>4, <1>5, <1>8, <1>9 DEF gsVars, Waiting, SlowPathRunning, AtWork
  <1>11. covered \subseteq mainTask.covers \cup pending /\ mainTask.covers \subseteq covered
    BY <1>5
  <1>12. covered \subseteq pending' /\ pending' \subseteq mainTask.covers \cup pending
    BY <1>5, <1>11
  <1>13. Apart'
    BY <1>4, <1>8, <1>9, <1>10, <1>11, <1>12 DEF MsgInv, Apart, Settled
  <1>14. IndexedIsPending'
    BY <1>3, <1>7, <1>8, <1>9, <1>10, <1>12 DEF IndexedIsPending
  <1>15. SlowPathRunning => pending \subseteq pending'
    <2>1. CASE newPath = "Fast"
      BY <1>5, <2>1
    <2>2. CASE newPath = "Slow"
      BY <1>5, <1>6, <2>2
    <2> QED
      BY <2>1, <2>2
  <1>16. Durable \subseteq Durable' \cup covered
    <2>1. CASE cancels
      <3>1. undo = "held"
        BY <1>6, <2>1 DEF SlotInv, RunningHasCommitAhead, UndoInv, UndoHeld, InSlowPath,
             AtPreemptionPoint
      <3>2. Durable' = undoApplied
        BY <1>4, <1>5, <1>6, <2>1, <3>1
           DEF Durable, Doomed, SlowPathWasCanceled, gsVars
      <3>3. pending \subseteq covered
        BY <1>5, <2>1
      <3> QED
        BY <1>6, <2>1, <3>2, <3>3 DEF Durable, MsgInv, RollbackIsPending
    <2>2. CASE ~cancels
      BY <1>4, <1>5, <2>2 DEF Durable, Doomed, SlowPathWasCanceled, gsVars
    <2> QED
      BY <2>1, <2>2
  <1>17. Kept'
    BY <1>4, <1>10, <1>11, <1>16 DEF MsgInv, Kept
  <1> QED
    BY <1>10, <1>13, <1>14, <1>15, <1>17 DEF MsgInv, RollbackIsPending

\* Promoting, popping and handing over a task keep its messages.
LEMMA ProcessingThreadMsgInv ==
    IInv /\ Places /\ EpochInv /\ MsgInv /\ ProcessingThread => MsgInv'
  <1> SUFFICES ASSUME IInv, TypeOK, SlotInv, UndoInv, Places, EpochInv, MsgInv,
                      ProcessingThread
               PROVE  MsgInv'
    BY DEF IInv
  <1>1. CASE SchedulePreemption \/ AwaitAndWait
    <2>1. UNCHANGED msgVars /\ tasks' = tasks
      BY <1>1 DEF SchedulePreemption, AwaitAndWait, queueVars, tcVars, msgVars
    <2> QED
      BY <2>1, MsgInvKept DEF MsgInv, Apart
  <1>2. CASE AwaitAndCancel \/ PreemptionFinished
    <2>1. PromoteSlowEdits /\ UNCHANGED msgVars
      BY <1>2 DEF AwaitAndCancel, PreemptionFinished, tcVars, msgVars
    <2> QED
      BY <2>1, PromoteQueue, MsgInvKept DEF MsgInv, Apart
  <1>3. CASE PopTask
    <2>1. /\ main = "idle" /\ tasks # <<>> /\ tasks \in Seq(Task)
          /\ mainTask' = Head(tasks) /\ tasks' = Tail(tasks)
          /\ UNCHANGED <<epochVars, sent, answered, pending, tcQueue, outcome, tcTask, gsVars>>
      BY <1>3 DEF PopTask, MainReady, tcVars, TypeOK
    <2>2. mainTask.covers = {} /\ tcQueue = <<>>
      BY <2>1, NoWork, NoTaskIsNothing DEF Places
    <2>3. tcTask.covers = {}
      <3>1. tc # "run"
        BY <2>1 DEF SlotInv, PreemptsLiveSlowPath, Preempting
      <3> QED
        BY <3>1, NoTaskIsNothing DEF Places
    <2>4. /\ Disjoint(tasks') /\ Head(tasks).covers \cap Waiting' = {}
          /\ Waiting = Head(tasks).covers \cup Waiting'
      BY <2>1, TailKeeps DEF MsgInv, Apart, Waiting
    <2>5. /\ Handed = {} /\ Handed' = {} /\ SlowNext' = SlowNext
          /\ Settled' = Settled /\ Durable' = Durable
          /\ SlowPathRunning' = SlowPathRunning
      BY <2>1, <2>2 DEF epochVars, gsVars, Handed, Settled, Durable, Doomed,
           SlowNext, SlowPathRunning, SlowPathWasCanceled
    <2>6. AtWork = {} /\ AtWork' = Head(tasks).covers
      BY <2>1, <2>2, <2>3, <2>5 DEF AtWork
    <2>7. Apart'
      BY <2>1, <2>4, <2>5, <2>6 DEF MsgInv, Apart, gsVars
    <2>8. Kept'
      BY <2>1, <2>4, <2>5, <2>6 DEF MsgInv, Kept
    <2> QED
      BY <2>1, <2>5, <2>7, <2>8
         DEF MsgInv, IndexedIsPending, RollbackIsPending, gsVars
  <1>4. CASE RunEdit
    BY <1>4, RunEditMsgInv
  <1>5. CASE RunOther
    <2> DEFINE w == [how |-> IF IsEdit(mainTask) THEN "slow" ELSE "sync",
                     task |-> mainTask, canceled |-> FALSE]
    <2>1. /\ w \in Work /\ w.task = mainTask
          /\ w.how = "slow" => IsEdit(mainTask) /\ mainTask.path = "Huge"
          /\ w.how # "shutdown"
      BY <1>5 DEF RunOther, Work, TypeOK
    <2>2. /\ mainTask' = NoTask /\ tcQueue' = Append(tcQueue, w)
          /\ UNCHANGED <<epochVars, tasks, sent, answered, pending, outcome, tcTask, gsVars>>
      BY <1>5 DEF RunOther, Dispatch, queueVars, tcVars
    <2>3. main \in {"idle", "index"}
      BY <1>5 DEF RunOther
    <2> HIDE DEF w
    <2> QED
      BY <2>1, <2>2, <2>3, HandOverMsgInv
  <1>6. CASE Shutdown
    <2> DEFINE w == [how |-> "shutdown", task |-> NoTask, canceled |-> FALSE]
    <2>1. w \in Work /\ w.task = NoTask /\ w.how # "slow"
      BY NoTaskType DEF Work
    <2>2. /\ main = "idle" /\ mainTask' = mainTask /\ tcQueue' = Append(tcQueue, w)
          /\ UNCHANGED <<epochVars, tasks, sent, answered, pending, outcome, tcTask, gsVars>>
      BY <1>6 DEF Shutdown, queueVars, tcVars
    <2>3. main \in {"idle", "index"} /\ mainTask = NoTask
      BY <2>2 DEF Places
    <2> HIDE DEF w
    <2> QED
      BY <2>1, <2>2, <2>3, HandOverMsgInv
  <1> QED
    BY <1>1, <1>2, <1>3, <1>4, <1>5, <1>6 DEF ProcessingThread

\* The typechecker thread is idle: no slow path runs, nothing will be rolled back,
\* and it has the work it takes to itself.
LEMMA IdleTypechecker ==
    ASSUME IInv, Places, tc = "idle", tcQueue # <<>>, tcQueue' = Tail(tcQueue)
    PROVE  /\ ~SlowPathRunning /\ undo # "held" /\ Durable = applied
           /\ mainTask.covers = {} /\ tcTask.covers = {} /\ ~IsEdit(tcTask)
           /\ Handed = Head(tcQueue).task.covers /\ tcQueue' = <<>> /\ Handed' = {}
           /\ ~SlowNext'
  <1>1. ~SlowPathRunning
    BY DEF IInv, SlotInv, RunningHasCommitAhead, AtPreemptionPoint
  <1>2. undo # "held"
    BY DEF IInv, UndoInv, UndoStateMatches
  <1>3. mainTask = NoTask
    BY WorkNext DEF IInv
  <1>4. tcTask = NoTask
    BY DEF Places
  <1>5. tcQueue' = <<>>
    BY TakeWork DEF IInv
  <1> QED
    BY <1>1, <1>2, <1>3, <1>4, <1>5, NoTaskIsNothing
       DEF Durable, Doomed, Handed, SlowNext

\* Running the work handed over, or starting a slow path with it.
LEMMA TakeWorkMsgInv ==
    IInv /\ Places /\ MsgInv /\ (RunSync \/ RunShutdown \/ StartSlowPath) => MsgInv'
  <1> SUFFICES ASSUME IInv, TypeOK, UndoInv, Places, MsgInv,
                      RunSync \/ RunShutdown \/ StartSlowPath
               PROVE  MsgInv'
    BY DEF IInv
  <1>1. /\ tc = "idle" /\ tcQueue # <<>> /\ tcQueue' = Tail(tcQueue)
        /\ UNCHANGED <<tasks, sent, mainTask, tcTask>>
    BY DEF RunSync, RunShutdown, StartSlowPath, queueVars, tcVars
  <1>2. /\ ~SlowPathRunning /\ undo # "held" /\ Durable = applied
        /\ mainTask.covers = {} /\ tcTask.covers = {} /\ ~IsEdit(tcTask)
        /\ Handed = Head(tcQueue).task.covers /\ tcQueue' = <<>> /\ Handed' = {}
        /\ ~SlowNext'
    BY <1>1, IdleTypechecker
  <1>3. Waiting' = Waiting /\ AtWork = Handed /\ AtWork' = {} /\ tcTask' = tcTask
    BY <1>1, <1>2 DEF Waiting, AtWork
  <1>4. CASE RunSync
    <2> DEFINE edits == IF IsEdit(Head(tcQueue).task) THEN Head(tcQueue).task.covers ELSE {}
    <2>1. /\ applied' = applied \cup edits /\ answered' = answered \cup (Handed \ edits)
          /\ UNCHANGED <<epochVars, outcome, pending, undoApplied>>
          /\ undo' = ConsumedUndo(Head(tcQueue))
      BY <1>2, <1>4 DEF RunSync, tcVars
    <2>2. /\ IsEdit(Head(tcQueue).task) => edits = Handed
          /\ ~IsEdit(Head(tcQueue).task) => edits = {} /\ Handed \cap Settled = {}
      BY <1>1, <1>2 DEF MsgInv, IndexedIsPending
    <2> HIDE DEF edits
    <2>3. edits \subseteq Handed /\ (Handed \ edits) \cap Settled = {}
      BY <2>2
    <2>4. undo' # "held" /\ Durable' = applied' /\ ~SlowPathRunning'
      BY <1>2, <2>1 DEF ConsumedUndo, Durable, Doomed, SlowPathRunning, epochVars
    <2>5. Settled' \subseteq Settled \cup Handed
      BY <2>1, <2>3 DEF Settled
    <2>6. answered' \cap (applied' \cup pending') = {}
      BY <2>1, <2>3 DEF MsgInv, Apart, Settled
    <2>7. Apart'
      BY <1>1, <1>2, <1>3, <2>5, <2>6 DEF MsgInv, Apart
    <2>8. IndexedIsPending' /\ RollbackIsPending'
      BY <1>2, <1>3, <2>1, <2>4 DEF MsgInv, IndexedIsPending, RollbackIsPending
    <2>9. Kept'
      BY <1>1, <1>2, <1>3, <2>1, <2>4 DEF MsgInv, Kept
    <2> QED
      BY <2>7, <2>8, <2>9 DEF MsgInv
  <1>5. CASE RunShutdown
    <2>1. /\ Head(tcQueue).how = "shutdown"
          /\ UNCHANGED <<epochVars, answered, pending, outcome, gsVars>>
      BY <1>5 DEF RunShutdown
    <2>2. Handed = {}
      BY <1>1, <2>1 DEF MsgInv, IndexedIsPending
    <2>3. /\ Settled' = Settled /\ Durable' = Durable /\ AtWork' = AtWork
          /\ (SlowPathRunning' <=> SlowPathRunning)
      BY <1>3, <2>1, <2>2 DEF Settled, Durable, Doomed, SlowPathRunning,
           SlowPathWasCanceled, epochVars, gsVars
    <2>4. Apart'
      BY <1>1, <1>2, <1>3, <2>1, <2>2, <2>3 DEF MsgInv, Apart, gsVars
    <2>5. IndexedIsPending' /\ RollbackIsPending' /\ Kept'
      BY <1>1, <1>2, <1>3, <2>1, <2>3
         DEF MsgInv, IndexedIsPending, RollbackIsPending, Kept, gsVars
    <2> QED
      BY <2>4, <2>5 DEF MsgInv
  <1>6. CASE StartSlowPath
    <2>1. /\ undo' = "held" /\ undoApplied' = applied /\ applied' = applied \cup Handed
          /\ outcome' = TRUE /\ answered' = answered /\ processing' = invalidator'
          /\ pending' = IF Head(tcQueue).task.path = "Huge" THEN Handed ELSE pending
      BY <1>2, <1>6 DEF StartSlowPath, StartCommitEpoch
    <2>2. SlowNext
      BY <1>1, <1>6 DEF StartSlowPath, SlowNext
    <2>3. Durable' = applied'
      BY <2>1 DEF Durable, Doomed, SlowPathWasCanceled
    <2>4. Handed \subseteq pending' /\ pending' \subseteq pending \cup Handed
      BY <2>1, <2>2 DEF MsgInv, IndexedIsPending
    <2>5. Settled' \subseteq Settled \cup Handed
      BY <2>1, <2>4 DEF Settled
    <2>6. answered' \cap (applied' \cup pending') = {}
      BY <2>1, <2>4 DEF MsgInv, Apart
    <2>7. Apart'
      BY <1>1, <1>2, <1>3, <2>5, <2>6 DEF MsgInv, Apart
    <2>8. IndexedIsPending' /\ RollbackIsPending'
      BY <1>2, <1>3, <2>1, <2>4 DEF IndexedIsPending, RollbackIsPending
    <2>9. Kept'
      BY <1>1, <1>2, <1>3, <2>1, <2>3 DEF MsgInv, Kept
    <2> QED
      BY <2>7, <2>8, <2>9 DEF MsgInv
  <1> QED
    BY <1>4, <1>5, <1>6

\* The end of a slow path, committed or rolled back.
LEMMA SlowPathMsgInv ==
    IInv /\ Places /\ MsgInv /\ (TryCommitEpoch \/ FinishSlowPath) => MsgInv'
  <1> SUFFICES ASSUME IInv, SlotInv, UndoInv, Places, MsgInv, TryCommitEpoch \/ FinishSlowPath
               PROVE  MsgInv'
    BY DEF IInv
  <1>1. UNCHANGED <<tasks, sent, mainTask, answered, pending, tcQueue, tcTask>>
    BY DEF TryCommitEpoch, FinishSlowPath, queueVars, mainVars
  <1>2. Waiting' = Waiting /\ Handed' = Handed /\ AtWork' = AtWork /\ SlowNext' = SlowNext
    BY <1>1 DEF Waiting, Handed, AtWork, SlowNext
  <1>3. undo = "held"
    BY DEF TryCommitEpoch, FinishSlowPath, UndoInv, UndoHeld, InSlowPath
  <1>4. CASE TryCommitEpoch
    <2>1. UNCHANGED gsVars /\ outcome' = ~SlowPathWasCanceled /\ CommitEpoch /\ tc = "commit"
      BY <1>4 DEF TryCommitEpoch
    <2>2. outcome
      BY <2>1 DEF UndoInv, UndoHeld
    <2>3. ~SlowPathRunning' /\ ~SlowPathWasCanceled'
      BY <2>1 DEF CommitEpoch, SlowPathRunning, SlowPathWasCanceled
    <2>4. Durable' = Durable
      BY <1>3, <2>1, <2>2, <2>3 DEF Durable, Doomed, gsVars
    <2>5. Settled' = Settled
      BY <1>1, <2>1 DEF Settled, gsVars
    <2>6. Apart' /\ Kept'
      BY <1>1, <1>2, <2>1, <2>4, <2>5 DEF MsgInv, Apart, Kept, gsVars
    <2> QED
      BY <1>1, <1>2, <2>1, <2>3, <2>5, <2>6
         DEF MsgInv, IndexedIsPending, RollbackIsPending, gsVars
  <1>5. CASE FinishSlowPath
    <2>1. /\ applied' = IF outcome THEN applied ELSE undoApplied
          /\ undo' = UndoLeft /\ undoApplied' = {} /\ epochVars' = epochVars
          /\ tc = "finish"
      BY <1>5 DEF FinishSlowPath
    <2>2. ~SlowPathWasCanceled /\ ~SlowPathRunning
      BY <2>1 DEF UndoInv, UndoHeld, SlotInv, RunningHasCommitAhead, AtPreemptionPoint
    <2>3. undo' # "held" /\ ~SlowPathRunning'
      BY <2>1, <2>2 DEF UndoLeft, SlowPathRunning, epochVars
    <2>4. Durable' = Durable /\ applied' \subseteq applied
      BY <1>3, <2>1, <2>2, <2>3 DEF Durable, Doomed, MsgInv, RollbackIsPending
    <2>5. Settled' \subseteq Settled
      BY <1>1, <2>4 DEF Settled
    <2>6. Apart'
      BY <1>1, <1>2, <2>4, <2>5 DEF MsgInv, Apart
    <2>7. IndexedIsPending'
      BY <1>1, <1>2, <2>5 DEF MsgInv, IndexedIsPending
    <2> QED
      BY <1>1, <1>2, <2>1, <2>3, <2>4, <2>6, <2>7
         DEF MsgInv, RollbackIsPending, Kept
  <1> QED
    BY <1>4, <1>5

\* A preempting task is taken from the queue and run on a slow path that will not be
\* rolled back without it.
LEMMA PreemptionMsgInv ==
    IInv /\ Places /\ MsgInv /\ (PopPreemptingTask \/ RunPreemptingTask) => MsgInv'
  <1> SUFFICES ASSUME IInv, TypeOK, SlotInv, UndoInv, Places, MsgInv,
                      PopPreemptingTask \/ RunPreemptingTask
               PROVE  MsgInv'
    BY DEF IInv
  <1>1. /\ UNCHANGED <<epochVars, sent, mainTask, tcQueue, outcome, undo, undoApplied>>
    BY DEF PopPreemptingTask, RunPreemptingTask, queueVars, mainVars, gsVars,
         CommitEdit, Cancels
  <1>2. tc \in {"preempt", "run"}
    BY DEF PopPreemptingTask, RunPreemptingTask
  <1>3. main \in {"await", "waitFinished"} /\ ~SlowPathWasCanceled /\ outcome
    BY <1>2 DEF TypeOK, SlotInv, PreemptsLiveSlowPath, Preempting, UndoInv, UndoHeld,
         AtPreemptionPoint
  <1>4. mainTask.covers = {} /\ tcQueue = <<>> /\ ~SlowNext
    BY <1>3, NoWork, NoTaskIsNothing DEF Places
  <1>5. /\ Handed = {} /\ Handed' = {} /\ AtWork = tcTask.covers /\ AtWork' = tcTask'.covers
        /\ Durable = applied /\ Durable' = applied' /\ ~SlowNext'
        /\ (SlowPathRunning' <=> SlowPathRunning)
    BY <1>1, <1>3, <1>4 DEF Handed, AtWork, Durable, Doomed, SlowNext,
         SlowPathWasCanceled, SlowPathRunning, epochVars
  <1>6. CASE PopPreemptingTask
    <2>1. /\ tasks # <<>> /\ tasks' = Tail(tasks) /\ tcTask' = Head(tasks)
          /\ UNCHANGED <<applied, answered>> /\ tc # "run"
      BY <1>6 DEF PopPreemptingTask, PreemptionPossible, gsVars
    <2>2. pending' = IF IsEdit(tcTask') THEN tcTask'.covers \cup pending ELSE pending
      BY <1>6, <2>1 DEF PopPreemptingTask, CommitEdit, Covered, Cancels
    <2>3. /\ Disjoint(tasks') /\ tcTask'.covers \cap Waiting' = {}
          /\ Waiting = tcTask'.covers \cup Waiting'
      BY <2>1, TailKeeps DEF MsgInv, Apart, Waiting, TypeOK
    <2>4. tcTask.covers = {}
      BY <2>1, NoTaskIsNothing DEF Places
    <2>5. /\ Settled' \subseteq Settled \cup tcTask'.covers
          /\ ~IsEdit(tcTask') => Settled' = Settled
          /\ pending \subseteq pending' /\ pending' \subseteq pending \cup tcTask'.covers
      BY <2>1, <2>2 DEF Settled
    <2>6. tcTask'.covers \cap Settled = {} /\ tcTask'.covers \subseteq 1..sent
      BY <2>3 DEF MsgInv, Apart
    <2>7. Apart'
      BY <1>1, <1>4, <1>5, <2>1, <2>3, <2>5, <2>6, SMTT(30) DEF MsgInv, Apart, Settled
    <2>8. IndexedIsPending' /\ RollbackIsPending'
      BY <1>1, <1>4, <1>5, <2>1, <2>2, <2>5, <2>6
         DEF MsgInv, IndexedIsPending, RollbackIsPending
    <2>9. Kept'
      BY <1>1, <1>5, <2>1, <2>3, <2>4 DEF MsgInv, Kept
    <2> QED
      BY <2>7, <2>8, <2>9 DEF MsgInv
  <1>7. CASE RunPreemptingTask
    <2>1. /\ applied' = IF IsEdit(tcTask) THEN applied \cup tcTask.covers ELSE applied
          /\ answered' = IF IsEdit(tcTask) THEN answered ELSE answered \cup tcTask.covers
          /\ tcTask' = NoTask /\ UNCHANGED <<tasks, pending>>
      BY <1>7 DEF RunPreemptingTask, queueVars
    <2>2. Waiting' = Waiting /\ tcTask'.covers = {} /\ ~IsEdit(tcTask')
      BY <2>1, NoTaskIsNothing DEF Waiting
    <2>3. Settled' \subseteq Settled \cup tcTask.covers
      BY <2>1 DEF Settled
    <2>4. answered' \cap (applied' \cup pending') = {}
      BY <2>1 DEF MsgInv, Apart, IndexedIsPending, Settled
    <2>5. Apart'
      BY <1>1, <1>4, <1>5, <2>1, <2>2, <2>3, <2>4 DEF MsgInv, Apart
    <2>6. IndexedIsPending' /\ RollbackIsPending'
      BY <1>1, <1>4, <1>5, <2>1, <2>2
         DEF MsgInv, IndexedIsPending, RollbackIsPending
    <2>7. Kept'
      BY <1>1, <1>5, <2>1, <2>2 DEF MsgInv, Kept
    <2> QED
      BY <2>5, <2>6, <2>7 DEF MsgInv
  <1> QED
    BY <1>6, <1>7

\* The typechecker thread keeps every message.
LEMMA TypecheckerThreadMsgInv == IInv /\ Places /\ MsgInv /\ TypecheckerThread => MsgInv'
  <1> SUFFICES ASSUME IInv, Places, MsgInv, TypecheckerThread PROVE MsgInv'
    OBVIOUS
  <1>1. CASE IndexStratum \/ FinishStratum \/ LoadPreemptTask \/ SwapPreemptTask
               \/ LeavePreemptionLoop \/ SettlePreemptTask
    <2>1. UNCHANGED msgVars /\ tasks' = tasks
      BY <1>1 DEF IndexStratum, FinishStratum, LoadPreemptTask, SwapPreemptTask,
           LeavePreemptionLoop, SettlePreemptTask, queueVars, mainVars, msgVars
    <2> QED
      BY <2>1, MsgInvKept DEF MsgInv, Apart
  <1> QED
    BY <1>1, TakeWorkMsgInv, SlowPathMsgInv, PreemptionMsgInv DEF TypecheckerThread

-----------------------------------------------------------------------------
\* The inductive invariant of the messages, with the one of the slot and the undo
\* state that it rests on.
LoopInv == IInv /\ Places /\ EpochInv /\ MsgInv

\* Every step of the three threads keeps it.
LEMMA NextLoopInv == LoopInv /\ [Next]_vars => LoopInv'
  <1> SUFFICES ASSUME IInv, TypeOK, UndoInv, Places, EpochInv, MsgInv, [Next]_vars
               PROVE  LoopInv'
    BY DEF LoopInv, IInv
  <1>1. IInv' /\ Places'
    BY NextIInv, NextPlaces
  <1>2. EpochInv' /\ MsgInv'
    <2>1. CASE Preprocessor
      BY <2>1, PreprocessorEpochInv, PreprocessorMsgInv
    <2>2. CASE ProcessingThread
      BY <2>2, ProcessingThreadEpochInv, ProcessingThreadMsgInv
    <2>3. CASE TypecheckerThread
      BY <2>3, TypecheckerThreadEpochInv, TypecheckerThreadMsgInv
    <2>4. CASE UNCHANGED vars
      <3>1. UNCHANGED msgVars /\ UNCHANGED <<epochVars, sent, mainTask, tcQueue>> /\ tasks' = tasks
        BY <2>4 DEF vars, msgVars, queueVars, mainVars, tcVars
      <3> QED
        BY <3>1, MsgInvKept, EpochInvKept DEF MsgInv, Apart, KeepsOrder
    <2> QED
      BY <2>1, <2>2, <2>3, <2>4 DEF Next
  <1> QED
    BY <1>1, <1>2 DEF LoopInv

\* It holds in every reachable state of the scheduling core.
THEOREM LoopInductive == Spec => []LoopInv
  <1>1. Init => LoopInv
    BY InitIInv, InitEpochInv, InitMsgInv DEF LoopInv
  <1> QED
    BY <1>1, NextLoopInv, PTL DEF Spec

\* The ENFORCEs of startCommitEpoch and tryCancelSlowPath never fail: whatever is
\* merged, promoted, canceled or rolled back, the epoch of an edit that has yet to
\* start is ahead of all the epoch manager has seen.
THEOREM EpochsOnlyAdvance == Spec => []EpochsAdvance
  <1>1. LoopInv => EpochsAdvance
    <2> SUFFICES ASSUME TypeOK, UndoInv, Places, EpochInv PROVE EpochsAdvance
      BY DEF LoopInv, IInv
    <2>1. /\ Lead \in Nat /\ invalidator \in Nat /\ invalidator <= Lead
          /\ \A i \in DOMAIN tasks : tasks[i].epoch \in Nat
      <3>1. \A i \in DOMAIN tasks : tasks[i] \in Task
        BY SMT DEF TypeOK
      <3> QED
        BY <3>1, LeadType DEF TypeOK, EpochInv, Task
    <2>2. ASSUME NEW i \in DOMAIN tasks, IsEdit(tasks[i])
          PROVE  /\ tasks[i].epoch > invalidator
                 /\ \A j \in 1..(i - 1) : IsEdit(tasks[j]) => tasks[j].epoch < tasks[i].epoch
      <3>1. tasks[i].epoch > invalidator
        BY <2>1, <2>2, SMTT(30) DEF EpochInv, EditsWithin
      <3>2. \A j \in 1..(i - 1) : j \in DOMAIN tasks /\ j < i
        BY SMT DEF TypeOK
      <3> QED
        BY <2>2, <3>1, <3>2 DEF EpochInv, EditsOrdered
    <2>3. IsEdit(mainTask) => mainTask.epoch > invalidator
      BY <2>1, LeadType DEF EpochInv
    <2>4. \A i \in DOMAIN tcQueue : tcQueue[i].how = "slow" => tcQueue[i].task.epoch > processing
      <3> SUFFICES ASSUME NEW i \in DOMAIN tcQueue, tcQueue[i].how = "slow"
                   PROVE  tcQueue[i].task.epoch > processing
        OBVIOUS
      <3>1. tcQueue \in Seq(Work) /\ Len(tcQueue) <= 1
        BY DEF TypeOK, UndoInv, OneWorkAtATime
      <3>2. tcQueue # <<>>
        BY <3>1, SMT
      <3>3. tcQueue[i] = Head(tcQueue)
        BY <3>1, <3>2, SingletonQueue
      <3>4. processing < tcQueue[i].task.epoch
        BY <3>2, <3>3 DEF EpochInv, SlowNext
      <3>5. tcQueue[i].task.epoch \in Nat /\ processing \in Nat
        BY <3>2, <3>3, WorkNext DEF Task, TypeOK
      <3> QED
        BY <3>4, <3>5
    <2> QED
      BY <2>2, <2>3, <2>4 DEF EpochInv, EpochsAdvance
  <1> QED
    BY <1>1, LoopInductive, PTL

\* No client message is lost or acted on twice, however mergeFileChanges, the
\* promotion of runLSP, the cancellation of requests and of slow paths and the merge
\* of pending updates in commitEdit interleave with preemption.
THEOREM MessagesAreKept == Spec => []NoMessageLost
  <1>1. LoopInv => NoMessageLost
    BY MsgInvIsEnough DEF LoopInv, IInv
  <1> QED
    BY <1>1, LoopInductive, PTL

=============================================================================
