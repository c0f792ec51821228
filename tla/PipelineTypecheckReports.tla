---------------------- MODULE PipelineTypecheckReports ----------------------
(***************************************************************************)
(* What a report does to the ErrorReporter, for every number of files and  *)
(* every limit on the errors: the count of errors stays exact, and reports *)
(* move forward.  What recursive definitions compute is proved by induction,*)
(* as the absence of a least counterexample.  Also, that the invariant of the*)
(* typecheck runs holds at first, and what it implies.                     *)
(***************************************************************************)
EXTENDS PipelineTypecheckInvariant, FiniteSetTheorems, TLAPS

\* Most leaves are first-order: Zenon is the backend, SMT where arithmetic or
\* sequences are at work.
USE ZenonT(20)

-----------------------------------------------------------------------------
\* Numbers.

\* The numbers of the model, and how far they go.
LEMMA Numbers ==
    ASSUME IInv
    PROVE  /\ edits \in Nat /\ edits \in 0 .. MaxEdits /\ slow.epoch \in Nat /\ cancels \in Nat
           /\ flushed \in Nat /\ stratum \in Nat /\ stratum \in Strata
           /\ LastStratum + 1 \in Nat /\ 0 \in 0 .. MaxErrors
<1>1. /\ edits \in 0 .. MaxEdits /\ slow.epoch \in 0 .. MaxEdits /\ cancels \in Nat
      /\ flushed \in Nat /\ stratum \in Strata
  BY DEF IInv, Types
<1> QED BY <1>1, MaxEditsIsNat, MaxErrorsIsNat, LastStratumIsNat, SMT DEF Strata

\* What is at least as large stays so.
LEMMA AtLeast ==
    ASSUME NEW k \in Nat, NEW m \in Nat, NEW n \in Nat, k >= m, m >= n
    PROVE  k >= n
BY SMT

-----------------------------------------------------------------------------
\* Induction.

\* A nonempty set of numbers has a least one.
LEMMA LeastNumber ==
    ASSUME NEW S \in SUBSET Nat, S # {}
    PROVE  \E n \in S : \A m \in S : n <= m
<1> DEFINE R == OpToRel(<, Nat)
<1>1. IsWellFoundedOn(R, Nat)
  BY NatLessThanWellFounded
<1>2. \A x, y \in Nat : y < x => <<y, x>> \in R
  BY DEF OpToRel
<1> HIDE DEF R
<1>3. PICK x \in S : \A y \in S : ~(<<y, x>> \in R)
  BY <1>1, WFMin
<1>4. ASSUME NEW m \in S PROVE x <= m
  <2>1. x \in Nat /\ m \in Nat /\ ~(<<m, x>> \in R)
    BY <1>3
  <2>2. ~(m < x)
    BY <2>1, <1>2
  <2> QED BY <2>1, <2>2, SMT
<1> QED BY <1>4

\* A set of numbers that has 0 and the successor of each of its members.
LEMMA Induction ==
    ASSUME NEW S, 0 \in S, \A n \in Nat : n \in S => n + 1 \in S
    PROVE  \A n \in Nat : n \in S
<1> SUFFICES ASSUME Nat \ S # {} PROVE FALSE
  OBVIOUS
<1>1. PICK n \in Nat \ S : \A m \in Nat \ S : n <= m
  BY LeastNumber
<1>2. n - 1 \in Nat /\ n - 1 \notin Nat \ S
  BY <1>1, SMT
<1> QED BY <1>1, <1>2, SMT

-----------------------------------------------------------------------------
\* Sums.

\* The sums over the files up to each one, and their last.
Partial(p, count, S) ==
    p = [f \in 0 .. NumFiles |-> IF f = 0 THEN 0 ELSE p[f - 1] + IF f \in S THEN count[f] ELSE 0]

\* SumOf is what its recursive definition says.
LEMMA SumOfPartial ==
    ASSUME NEW count, NEW S
    PROVE  \E p : Partial(p, count, S) /\ SumOf(count, S) = p[NumFiles]
<1> DEFINE Adds(f) == IF f \in S THEN count[f] ELSE 0
           Sums(n) == \E p : p = [f \in 0 .. n |-> IF f = 0 THEN 0 ELSE p[f - 1] + Adds(f)]
           N == {n \in Nat : Sums(n)}
<1>1. Sums(0)
  <2> DEFINE p == [f \in 0 .. 0 |-> 0]
  <2>1. p = [f \in 0 .. 0 |-> IF f = 0 THEN 0 ELSE p[f - 1] + Adds(f)]
    BY SMT
  <2> QED BY <2>1
<1>2. ASSUME NEW n \in Nat, Sums(n) PROVE Sums(n + 1)
  <2> HIDE DEF Adds
  <2>1. PICK p : p = [f \in 0 .. n |-> IF f = 0 THEN 0 ELSE p[f - 1] + Adds(f)]
    BY <1>2
  <2> DEFINE q == [f \in 0 .. n + 1 |-> IF f <= n THEN p[f] ELSE p[n] + Adds(n + 1)]
  <2>2. \A f \in 0 .. n + 1 : q[f] = IF f = 0 THEN 0 ELSE q[f - 1] + Adds(f)
    <3> TAKE f \in 0 .. n + 1
    <3>1. CASE f <= n
      BY <2>1, <3>1, SMT
    <3>2. CASE f = n + 1
      BY <3>2, SMT
    <3> QED BY <3>1, <3>2, SMT
  <2>3. q = [f \in 0 .. n + 1 |-> IF f = 0 THEN 0 ELSE q[f - 1] + Adds(f)]
    BY <2>2
  <2> QED BY <2>3
<1>3. 0 \in N /\ \A n \in Nat : n \in N => n + 1 \in N
  <2> HIDE DEF Sums
  <2> QED BY <1>1, <1>2, SMT
<1>4. NumFiles \in N
  <2> HIDE DEF N
  <2> QED BY <1>3, Induction, NumFilesIsNat
<1> QED BY <1>4 DEF SumOf, Partial

\* The value of each sum.
LEMMA PartialAt ==
    ASSUME NEW p, NEW count, NEW S, Partial(p, count, S)
    PROVE  /\ p[0] = 0
           /\ \A f \in Files : p[f] = p[f - 1] + IF f \in S THEN count[f] ELSE 0
  BY NumFilesIsNat, SMT DEF Partial, Files

\* Induction over the files.
LEMMA FileInduction ==
    ASSUME NEW S, 0 \in S, \A f \in Files : f - 1 \in S => f \in S
    PROVE  \A f \in 0 .. NumFiles : f \in S
<1> DEFINE N == {n \in Nat : n <= NumFiles => n \in S}
<1>1. 0 \in N
  OBVIOUS
<1>2. ASSUME NEW n \in Nat, n \in N PROVE n + 1 \in N
  <2>1. CASE n + 1 <= NumFiles
    <3>1. n + 1 \in Files /\ (n + 1) - 1 = n /\ n \in S
      BY <1>2, <2>1, NumFilesIsNat, SMT DEF Files
    <3> QED BY <3>1, SMT
  <2>2. CASE ~(n + 1 <= NumFiles)
    BY <2>2, SMT
  <2> QED BY <2>1, <2>2
<1>3. \A n \in Nat : n \in N
  <2> HIDE DEF N
  <2> QED BY <1>1, <1>2, Induction
<1> QED BY <1>3, NumFilesIsNat, SMT

\* A sum of numbers is a number.
LEMMA SumType ==
    ASSUME NEW count \in [Files -> Nat], NEW S
    PROVE  SumOf(count, S) \in Nat
<1>1. PICK p : Partial(p, count, S) /\ SumOf(count, S) = p[NumFiles]
  BY SumOfPartial
<1>2. /\ p[0] = 0
      /\ \A f \in Files : p[f] = p[f - 1] + IF f \in S THEN count[f] ELSE 0
  BY <1>1, PartialAt, SMT
<1> DEFINE N == {f \in 0 .. NumFiles : p[f] \in Nat}
<1>3. 0 \in N
  BY <1>2, NumFilesIsNat, SMT
<1>4. ASSUME NEW f \in Files, f - 1 \in N PROVE f \in N
  <2>1. f \in 0 .. NumFiles /\ count[f] \in Nat
    BY NumFilesIsNat, SMT DEF Files
  <2> QED BY <1>2, <1>4, <2>1, SMT
<1>5. NumFiles \in N
  <2> HIDE DEF N
  <2>1. NumFiles \in 0 .. NumFiles
    BY NumFilesIsNat, SMT
  <2> QED BY <1>3, <1>4, <2>1, FileInduction
<1> QED BY <1>1, <1>5

\* A sum depends on the numbers of its members only.
LEMMA SumSame ==
    ASSUME NEW count, NEW other, NEW S, \A f \in Files : f \in S => count[f] = other[f]
    PROVE  SumOf(count, S) = SumOf(other, S)
<1>1. PICK p : Partial(p, count, S) /\ SumOf(count, S) = p[NumFiles]
  BY SumOfPartial
<1>2. PICK q : Partial(q, other, S) /\ SumOf(other, S) = q[NumFiles]
  BY SumOfPartial
<1>3. /\ p[0] = 0 /\ q[0] = 0
      /\ \A f \in Files : /\ p[f] = p[f - 1] + IF f \in S THEN count[f] ELSE 0
                          /\ q[f] = q[f - 1] + IF f \in S THEN count[f] ELSE 0
  BY <1>1, <1>2, PartialAt, SMT
<1> DEFINE N == {f \in 0 .. NumFiles : p[f] = q[f]}
<1>4. 0 \in N
  BY <1>3, NumFilesIsNat, SMTT(30)
<1>5. \A f \in Files : f - 1 \in N => f \in N
  BY <1>3, NumFilesIsNat, SMT DEF Files
<1>6. NumFiles \in N
  <2> HIDE DEF N
  <2>1. NumFiles \in 0 .. NumFiles
    BY NumFilesIsNat, SMT
  <2> QED BY <1>4, <1>5, <2>1, FileInduction
<1> QED BY <1>1, <1>2, <1>6

\* A sum of nothing, or of zeros.
LEMMA SumZero ==
    ASSUME NEW count, NEW S, \A f \in Files : f \in S => count[f] = 0
    PROVE  SumOf(count, S) = 0
<1>1. PICK p : Partial(p, count, S) /\ SumOf(count, S) = p[NumFiles]
  BY SumOfPartial
<1>2. /\ p[0] = 0
      /\ \A f \in Files : p[f] = p[f - 1] + 0
  BY <1>1, PartialAt, SMT
<1> DEFINE N == {f \in 0 .. NumFiles : p[f] = 0}
<1>3. 0 \in N
  BY <1>2, NumFilesIsNat, SMT
<1>4. \A f \in Files : f - 1 \in N => f \in N
  BY <1>2, NumFilesIsNat, SMT DEF Files
<1>5. NumFiles \in N
  <2> HIDE DEF N
  <2>1. NumFiles \in 0 .. NumFiles
    BY NumFilesIsNat, SMT
  <2> QED BY <1>3, <1>4, <2>1, FileInduction
<1> QED BY <1>1, <1>5

\* One member more adds its number.
LEMMA SumWith ==
    ASSUME NEW count \in [Files -> Nat], NEW S, NEW g \in Files, g \notin S
    PROVE  SumOf(count, S \cup {g}) = SumOf(count, S) + count[g]
<1>1. PICK p : Partial(p, count, S) /\ SumOf(count, S) = p[NumFiles]
  BY SumOfPartial
<1>2. PICK q : Partial(q, count, S \cup {g}) /\ SumOf(count, S \cup {g}) = q[NumFiles]
  BY SumOfPartial
<1>3. /\ p[0] = 0 /\ q[0] = 0
      /\ \A f \in Files : /\ p[f] = p[f - 1] + IF f \in S THEN count[f] ELSE 0
                          /\ q[f] = q[f - 1] + IF f \in S \cup {g} THEN count[f] ELSE 0
  BY <1>1, <1>2, PartialAt, SMT
<1>4. g \in Nat /\ 0 < g /\ g <= NumFiles /\ count[g] \in Nat
  BY NumFilesIsNat, SMT DEF Files
<1> DEFINE N == {f \in 0 .. NumFiles : p[f] \in Nat /\ q[f] = IF f < g THEN p[f] ELSE p[f] + count[g]}
<1>5. 0 \in N
  BY <1>3, <1>4, NumFilesIsNat, SMTT(30)
<1>6. ASSUME NEW f \in Files, f - 1 \in N PROVE f \in N
  <2>1. f \in Nat /\ f > 0 /\ f <= NumFiles /\ count[f] \in Nat
    BY NumFilesIsNat, SMT DEF Files
  <2>2. p[f] = p[f - 1] + (IF f \in S THEN count[f] ELSE 0) /\ p[f] \in Nat
    BY <1>3, <1>6, <2>1, SMT
  <2>3. q[f] = q[f - 1] + IF f \in S \cup {g} THEN count[f] ELSE 0
    BY <1>3
  <2>4. CASE f < g
    BY <1>4, <1>6, <2>1, <2>2, <2>3, <2>4, SMTT(30)
  <2>5. CASE f = g
    BY <1>4, <1>6, <2>1, <2>2, <2>3, <2>5, SMTT(30)
  <2>6. CASE f > g
    BY <1>4, <1>6, <2>1, <2>2, <2>3, <2>6, SMTT(30)
  <2> QED BY <1>4, <2>1, <2>4, <2>5, <2>6, SMTT(30)
<1>7. NumFiles \in N
  <2> HIDE DEF N
  <2>1. NumFiles \in 0 .. NumFiles
    BY NumFilesIsNat, SMT
  <2> QED BY <1>5, <1>6, <2>1, FileInduction
<1> QED BY <1>1, <1>2, <1>4, <1>7, SMT

-----------------------------------------------------------------------------
\* Reports.

\* The fields of a reporter.
LEMMA ReporterFields ==
    ASSUME NEW r \in Reporter
    PROVE  /\ r.last \in [Files -> Nat] /\ r.count \in [Files -> Nat]
           /\ r.size \in 0 .. NumFiles + 1 /\ r.size \in Nat
           /\ r.client \in Nat /\ r.full \in Nat
  BY NumFilesIsNat, SMT DEF Reporter

\* pushDiagnostics subtracts what clientErrorCount counts for the file.
LEMMA OtherErrorsSum ==
    ASSUME NEW r \in Reporter, SanityCheck(r), NEW f \in Files,
           NEW S, S = Counted(r) \ {f}
    PROVE  OtherErrors(r, f) = SumOf(r.count, S) /\ OtherErrors(r, f) \in Nat
<1>1. /\ r.last[f] \in Nat /\ r.full \in Nat /\ r.client \in Nat
      /\ r.count \in [Files -> Nat] /\ r.count[f] \in Nat
  BY ReporterFields
<1>2. r.client = SumOf(r.count, Counted(r))
  BY DEF SanityCheck, Counted
<1>3. SumOf(r.count, S) \in Nat
  BY <1>1, SumType
<1>4. CASE r.last[f] >= r.full
  <2>1. f \notin S /\ Counted(r) = S \cup {f}
    BY <1>4 DEF Counted
  <2>2. SumOf(r.count, S \cup {f}) = SumOf(r.count, S) + r.count[f]
    BY <1>1, <2>1, SumWith
  <2>3. r.client = SumOf(r.count, S) + r.count[f]
    BY <1>2, <2>1, <2>2
  <2>4. OtherErrors(r, f) = r.client - r.count[f]
    BY <1>4 DEF OtherErrors
  <2>5. OtherErrors(r, f) = SumOf(r.count, S)
    BY <1>1, <1>3, <2>3, <2>4, SMTT(30)
  <2> QED BY <1>3, <2>5
<1>5. CASE ~(r.last[f] >= r.full)
  <2>1. Counted(r) = S
    BY <1>5 DEF Counted
  <2> QED BY <1>1, <1>2, <1>3, <1>5, <2>1 DEF OtherErrors
<1> QED BY <1>4, <1>5

\* A number of errors is published, with and without a limit.
LEMMA ErrorsToReportType ==
    ASSUME NEW r \in Reporter, SanityCheck(r), NEW f \in Files, NEW n \in Nat
    PROVE  ErrorsToReport(r, f, n) \in Nat
<1> DEFINE k == Cap - OtherErrors(r, f)
<1>1. OtherErrors(r, f) \in Nat
  BY OtherErrorsSum
<1>2. k \in Int /\ (Cap > OtherErrors(r, f) => k \in Nat)
  BY <1>1, CapIsNat, SMT
<1> HIDE DEF k
<1>3. \E x \in {n, k} : \A y \in {n, k} : x =< y
  BY <1>2, SMT
<1>4. Min({n, k}) \in {n, k}
  BY <1>3 DEF Min
<1> QED BY <1>2, <1>4 DEF ErrorsToReport, k

\* What a report on f changes.
Reported(r, later, epoch, f) ==
    /\ later \in Reporter
    /\ later.full = r.full
    /\ later.size = IF f >= r.size THEN f + 1 ELSE r.size
    /\ later.client = OtherErrors(r, f) + later.count[f]
    /\ later.last[f] = epoch
    /\ \A g \in Files : g # f => later.last[g] = r.last[g] /\ later.count[g] = r.count[g]

\* pushDiagnostics, unless it leaves a newer report alone.
LEMMA PushedAt ==
    ASSUME NEW r \in Reporter, SanityCheck(r), NEW epoch \in Nat, NEW f \in Files,
           NEW n \in Nat, WouldReportForFile(r, epoch, f),
           NEW later, later = PushDiagnostics(r, epoch, f, n)
    PROVE  Reported(r, later, epoch, f)
<1> DEFINE shown == ErrorsToReport(r, f, n)
           size == IF f >= r.size THEN f + 1 ELSE r.size
           other == OtherErrors(r, f)
<1>1. shown \in Nat /\ other \in Nat
  BY ErrorsToReportType, OtherErrorsSum
<1>2. /\ r.last \in [Files -> Nat] /\ r.count \in [Files -> Nat]
      /\ r.size \in 0 .. NumFiles + 1
      /\ r.client \in Nat /\ r.full \in Nat
  BY ReporterFields
<1>3. size \in 0 .. NumFiles + 1
  BY <1>2, NumFilesIsNat, SMTT(30) DEF Files
<1>4. later = [r EXCEPT !.size = size, !.client = other + shown,
                          !.last = [r.last EXCEPT ![f] = epoch],
                          !.count = [r.count EXCEPT ![f] = shown]]
  BY DEF PushDiagnostics, WithEntry, Reporter
<1> HIDE DEF shown, size, other
<1>5. other + shown \in Nat
  BY <1>1, SMT
<1>6. /\ [r.last EXCEPT ![f] = epoch] \in [Files -> Nat]
      /\ [r.count EXCEPT ![f] = shown] \in [Files -> Nat]
  BY <1>1, <1>2
<1>7. /\ later \in Reporter /\ later.full = r.full /\ later.size = size
      /\ later.client = other + shown
      /\ later.last = [r.last EXCEPT ![f] = epoch]
      /\ later.count = [r.count EXCEPT ![f] = shown]
  BY <1>3, <1>4, <1>5, <1>6 DEF Reporter
<1>8. later.count[f] = shown /\ later.last[f] = epoch
  BY <1>2, <1>7
<1> QED BY <1>2, <1>7, <1>8 DEF Reported, size, other

\* A report of an epoch since the last full typecheck keeps the count exact, and
\* replaces what is shown for a file only if that is not newer.
LEMMA PushKeeps ==
    ASSUME NEW r, NEW latest \in Nat, Tracked(r, latest),
           NEW epoch \in Nat, epoch <= latest, r.full <= epoch,
           NEW f \in Files, NEW n \in Nat,
           NEW later, later = PushDiagnostics(r, epoch, f, n)
    PROVE  Tracked(later, latest) /\ Forward(r, later, epoch)
<1>1. /\ r \in Reporter /\ SanityCheck(r)
      /\ \A g \in Files : /\ r.last[g] <= latest
                          /\ g >= r.size => r.last[g] = 0 /\ r.count[g] = 0
  BY DEF Tracked
<1>2. /\ r.last \in [Files -> Nat] /\ r.count \in [Files -> Nat]
      /\ r.size \in Nat /\ r.full \in Nat
  BY <1>1, ReporterFields
<1>3. CASE ~WouldReportForFile(r, epoch, f)
  <2>1. later = r
    BY <1>3 DEF PushDiagnostics
  <2> QED BY <1>2, <2>1, SMT DEF Forward
<1>4. CASE WouldReportForFile(r, epoch, f)
  <2>1. /\ later \in Reporter
        /\ later.full = r.full
        /\ later.size = IF f >= r.size THEN f + 1 ELSE r.size
        /\ later.client = OtherErrors(r, f) + later.count[f]
        /\ later.last[f] = epoch
        /\ \A g \in Files : g # f => later.last[g] = r.last[g] /\ later.count[g] = r.count[g]
    <3>1. Reported(r, later, epoch, f)
      BY <1>1, <1>4, PushedAt
    <3> QED BY <3>1 DEF Reported
  <2>2. /\ later.last \in [Files -> Nat] /\ later.count \in [Files -> Nat]
        /\ later.size \in Nat /\ later.full \in Nat
    BY <2>1, ReporterFields
  <2>3. r.last[f] <= epoch
    BY <1>1, <1>2, <1>4, SMTT(30) DEF WouldReportForFile
  <2>4. f \in Nat
    BY SMTT(30) DEF Files
  <2>5. Forward(r, later, epoch)
    BY <1>2, <2>1, <2>2, <2>3, <2>4, SMTT(30) DEF Forward
  <2>6. \A g \in Files : /\ later.last[g] <= latest
                         /\ g >= later.size => later.last[g] = 0 /\ later.count[g] = 0
    <3> TAKE g \in Files
    <3>1. g \in Nat
      BY SMT DEF Files
    <3> QED BY <1>1, <1>2, <2>1, <2>2, <2>4, <3>1, SMTT(30)
  <2>7. SanityCheck(later)
    <3> DEFINE S == Counted(r) \ {f}
    <3>1. f \notin S /\ Counted(later) = S \cup {f}
      BY <1>2, <2>1, <2>2 DEF Counted
    <3>2. \A g \in Files : g \in S => later.count[g] = r.count[g]
      BY <2>1
    <3>3. S = Counted(r) \ {f}
      OBVIOUS
    <3> HIDE DEF S
    <3>4. OtherErrors(r, f) = SumOf(r.count, S)
      BY <1>1, <3>3, OtherErrorsSum
    <3>5. SumOf(later.count, S) = SumOf(r.count, S)
      BY <3>2, SumSame, SMT
    <3>6. SumOf(later.count, S \cup {f}) = SumOf(later.count, S) + later.count[f]
      BY <2>2, <3>1, SumWith
    <3>7. later.client = SumOf(later.count, Counted(later))
      BY <2>1, <3>1, <3>4, <3>5, <3>6
    <3> QED BY <3>7 DEF SanityCheck, Counted
  <2> QED BY <2>1, <2>5, <2>6, <2>7 DEF Tracked
<1> QED BY <1>3, <1>4

\* Reports of one epoch, one after the other.
LEMMA ForwardTransitive ==
    ASSUME NEW epoch \in Nat, NEW a, NEW b, NEW c,
           Tracked(a, epoch), Tracked(b, epoch), Tracked(c, epoch),
           Forward(a, b, epoch), Forward(b, c, epoch)
    PROVE  Forward(a, c, epoch)
<1>1. /\ a \in Reporter /\ b \in Reporter /\ c \in Reporter
      /\ \A f \in Files : c.last[f] <= epoch
  BY DEF Tracked
<1>2. \A s \in {a, b, c} : s.last \in [Files -> Nat] /\ s.size \in Nat
  BY <1>1, ReporterFields
<1>3. \A f \in Files : a.last[f] \in Nat /\ b.last[f] \in Nat /\ c.last[f] \in Nat
  BY <1>2
<1> QED BY <1>1, <1>2, <1>3, SMT DEF Forward

\* The reporters that PushAll goes through.
Reports(after, r, epoch, order, n, errors) ==
    after = [i \in 0 .. n |-> IF i = 0 THEN r
                              ELSE PushDiagnostics(after[i - 1], epoch, order[i], errors[order[i]])]

\* PushAll is what its recursive definition says.
LEMMA PushAllReports ==
    ASSUME NEW r, NEW epoch, NEW order, NEW n \in Nat, NEW errors
    PROVE  \E after : /\ Reports(after, r, epoch, order, n, errors)
                      /\ PushAll(r, epoch, order, n, errors) = after[n]
<1> DEFINE Push(s, i) == PushDiagnostics(s, epoch, order[i], errors[order[i]])
           Runs(k) == \E after : after = [i \in 0 .. k |-> IF i = 0 THEN r
                                                           ELSE Push(after[i - 1], i)]
           N == {k \in Nat : Runs(k)}
<1>1. Runs(0)
  <2> HIDE DEF Push
  <2> DEFINE p == [i \in 0 .. 0 |-> r]
  <2>1. p = [i \in 0 .. 0 |-> IF i = 0 THEN r ELSE Push(p[i - 1], i)]
    BY SMT
  <2> QED BY <2>1
<1>2. ASSUME NEW k \in Nat, Runs(k) PROVE Runs(k + 1)
  <2> HIDE DEF Push
  <2>1. PICK p : p = [i \in 0 .. k |-> IF i = 0 THEN r ELSE Push(p[i - 1], i)]
    BY <1>2
  <2> DEFINE q == [i \in 0 .. k + 1 |-> IF i <= k THEN p[i] ELSE Push(p[k], k + 1)]
  <2>2. \A i \in 0 .. k + 1 : q[i] = IF i = 0 THEN r ELSE Push(q[i - 1], i)
    <3> TAKE i \in 0 .. k + 1
    <3>1. CASE i <= k
      BY <2>1, <3>1, SMTT(30)
    <3>2. CASE i = k + 1
      BY <3>2, SMT
    <3> QED BY <3>1, <3>2, SMTT(30)
  <2>3. q = [i \in 0 .. k + 1 |-> IF i = 0 THEN r ELSE Push(q[i - 1], i)]
    BY <2>2
  <2> QED BY <2>3
<1>3. 0 \in N /\ \A k \in Nat : k \in N => k + 1 \in N
  <2> HIDE DEF Runs
  <2> QED BY <1>1, <1>2, SMT
<1>4. n \in N
  <2> HIDE DEF N
  <2> QED BY <1>3, Induction
<1> QED BY <1>4 DEF PushAll, Reports

\* Any number of reports of the newest epoch, in any order, keep the count exact
\* and move forward.
LEMMA PushAllKeeps ==
    ASSUME NEW epoch \in Nat, NEW r, Tracked(r, epoch), r.full <= epoch,
           NEW n \in Nat, NEW order \in [1 .. n -> Files], NEW errors \in [Files -> Nat],
           NEW later, later = PushAll(r, epoch, order, n, errors)
    PROVE  Tracked(later, epoch) /\ Forward(r, later, epoch)
<1>1. PICK after : Reports(after, r, epoch, order, n, errors) /\ later = after[n]
  BY PushAllReports, SMTT(30)
<1>2. /\ after[0] = r
      /\ \A i \in 1 .. n : after[i] = PushDiagnostics(after[i - 1], epoch, order[i], errors[order[i]])
  BY <1>1, SMT DEF Reports
<1> DEFINE Good(x) == Tracked(x, epoch) /\ Forward(r, x, epoch)
           N == {i \in Nat : i <= n => Good(after[i])}
<1>3. Good(r)
  <2>1. r.size \in Nat /\ r.last \in [Files -> Nat]
    BY ReporterFields DEF Tracked
  <2>2. Forward(r, r, epoch)
    BY <2>1, SMT DEF Forward
  <2> QED BY <2>2
<1>4. ASSUME NEW i \in 1 .. n, NEW x, NEW s, Good(x),
             s = PushDiagnostics(x, epoch, order[i], errors[order[i]])
      PROVE  Good(s)
  <2>1. order[i] \in Files /\ errors[order[i]] \in Nat
    OBVIOUS
  <2>2. epoch <= epoch /\ x.full <= epoch
    BY <1>4, SMT DEF Forward
  <2>3. Tracked(s, epoch) /\ Forward(x, s, epoch)
    BY <1>4, <2>1, <2>2, PushKeeps
  <2>4. Forward(r, s, epoch)
    BY <1>4, <2>3, ForwardTransitive
  <2> QED BY <2>3, <2>4
<1> HIDE DEF Good
<1>5. 0 \in N
  BY <1>2, <1>3
<1>6. ASSUME NEW i \in Nat, i \in N PROVE i + 1 \in N
  <2>1. CASE i + 1 <= n
    <3>1. i + 1 \in 1 .. n /\ (i + 1) - 1 = i /\ Good(after[i])
      BY <1>6, <2>1, SMT
    <3>2. after[i + 1] = PushDiagnostics(after[i], epoch, order[i + 1], errors[order[i + 1]])
      BY <1>2, <3>1
    <3>3. Good(after[i + 1])
      BY <1>4, <3>1, <3>2
    <3> QED BY <3>3, SMT
  <2>2. CASE ~(i + 1 <= n)
    BY <2>2, SMT
  <2> QED BY <2>1, <2>2
<1>7. n \in N
  <2> HIDE DEF N
  <2> QED BY <1>5, <1>6, Induction
<1> QED BY <1>1, <1>7, SMTT(30) DEF Good

\* A later epoch bounds the reports as well.
LEMMA TrackedLater ==
    ASSUME NEW epoch \in Nat, NEW latest \in Nat, epoch <= latest, NEW r, Tracked(r, epoch)
    PROVE  Tracked(r, latest)
<1>1. r.last \in [Files -> Nat]
  BY ReporterFields DEF Tracked
<1>2. \A f \in Files : r.last[f] <= latest
  BY <1>1, SMT DEF Tracked
<1> QED BY <1>2 DEF Tracked

\* At first nothing is reported.
LEMMA NewReporterTracked == Tracked(NewReporter, 0)
<1>1. NewReporter \in Reporter
  BY NumFilesIsNat, SMT DEF NewReporter, Reporter
<1>2. \A f \in Files : NewReporter.last[f] = 0 /\ NewReporter.count[f] = 0
  BY DEF NewReporter
<1> DEFINE S == {f \in Files : NewReporter.last[f] >= NewReporter.full}
<1>3. SumOf(NewReporter.count, S) = 0
  <2> HIDE DEF S
  <2> QED BY <1>2, SumZero
<1>4. SanityCheck(NewReporter)
  BY <1>3 DEF SanityCheck, NewReporter
<1> QED BY <1>1, <1>2, <1>4, SMTT(30) DEF Tracked

\* A full typecheck of a new epoch begins without errors that count.
LEMMA BeginEpochTracked ==
    ASSUME NEW epoch \in Nat, NEW r, Tracked(r, epoch)
    PROVE  LET later == BeginEpoch(r, epoch + 1, FALSE) IN
           /\ Tracked(later, epoch + 1)
           /\ later.full = epoch + 1 /\ later.size = r.size
           /\ later.last = r.last /\ later.count = r.count
<1> DEFINE later == BeginEpoch(r, epoch + 1, FALSE)
<1>1. r \in Reporter /\ r.last \in [Files -> Nat]
  BY ReporterFields DEF Tracked
<1>2. /\ later \in Reporter /\ later.full = epoch + 1 /\ later.client = 0
      /\ later.size = r.size /\ later.last = r.last /\ later.count = r.count
  <2>1. epoch + 1 \in Nat /\ 0 \in Nat
    BY SMT
  <2> QED BY <1>1, <2>1 DEF BeginEpoch, Reporter
<1> HIDE DEF later
<1> DEFINE S == {f \in Files : later.last[f] >= later.full}
<1>3. \A f \in Files : later.last[f] \in Nat /\ later.last[f] <= epoch
  BY <1>1, <1>2 DEF Tracked
<1>4. \A f \in Files : f \notin S
  BY <1>2, <1>3, SMT
<1>5. SumOf(later.count, S) = 0
  <2> HIDE DEF S
  <2> QED BY <1>4, SumZero
<1>6. SanityCheck(later)
  BY <1>2, <1>5 DEF SanityCheck
<1>7. \A f \in Files : later.last[f] <= epoch + 1
  BY <1>3, SMT
<1>8. Tracked(later, epoch + 1)
  BY <1>2, <1>6, <1>7 DEF Tracked
<1> QED BY <1>2, <1>8 DEF later

\* lastDiagnosticEpochForFile may grow the vector, and changes nothing else.
LEMMA WithEntryTracked ==
    ASSUME NEW epoch \in Nat, NEW r, Tracked(r, epoch), NEW f \in Files,
           NEW later, later = WithEntry(r, f)
    PROVE  /\ Tracked(later, epoch)
           /\ later.full = r.full /\ later.last = r.last /\ later.count = r.count
           /\ later.size \in Nat /\ later.size >= r.size /\ later.size > f
<1> DEFINE size == IF f >= r.size THEN f + 1 ELSE r.size
<1>1. r \in Reporter /\ r.size \in 0 .. NumFiles + 1
  BY ReporterFields DEF Tracked
<1>2. f \in Nat /\ size \in 0 .. NumFiles + 1 /\ size >= r.size /\ size > f
  BY <1>1, NumFilesIsNat, SMT DEF Files
<1>3. later = [r EXCEPT !.size = size]
  BY DEF WithEntry
<1> HIDE DEF size
<1>4. /\ later \in Reporter /\ later.full = r.full /\ later.client = r.client
      /\ later.size = size /\ later.last = r.last /\ later.count = r.count
  BY <1>1, <1>2, <1>3 DEF Reporter
<1>5. \A g \in Files : g >= later.size => later.last[g] = 0 /\ later.count[g] = 0
  <2> SUFFICES ASSUME NEW g \in Files, g >= later.size
               PROVE  later.last[g] = 0 /\ later.count[g] = 0
    OBVIOUS
  <2>1. g >= r.size
    BY <1>1, <1>2, <1>4, SMTT(30) DEF Files
  <2> QED BY <1>4, <2>1 DEF Tracked
<1>6. SanityCheck(later)
  BY <1>4 DEF Tracked, SanityCheck
<1>7. \A g \in Files : later.last[g] <= epoch
  BY <1>4 DEF Tracked
<1>8. Tracked(later, epoch)
  BY <1>4, <1>5, <1>6, <1>7 DEF Tracked
<1> QED BY <1>1, <1>2, <1>4, <1>8, SMTT(30)

\* A set of files has a largest one.
LEMMA LargestFile ==
    ASSUME NEW S \in SUBSET Files, S # {}
    PROVE  Max(S) \in S /\ \A f \in S : f <= Max(S)
<1> DEFINE U == {n \in Nat : \A f \in S : f <= n}
<1>1. S \subseteq 1 .. NumFiles
  BY DEF Files
<1>2. NumFiles \in U /\ U \in SUBSET Nat
  BY <1>1, NumFilesIsNat, SMT
<1>3. PICK n \in U : \A m \in U : n <= m
  <2> HIDE DEF U
  <2> QED BY <1>2, LeastNumber
<1>4. n \in S
  <2> SUFFICES ASSUME n \notin S PROVE FALSE
    OBVIOUS
  <2>1. \A f \in S : f \in Nat /\ f > 0 /\ f <= n /\ f # n
    BY <1>1, <1>3, NumFilesIsNat, SMTT(30)
  <2>2. n - 1 \in Nat /\ \A f \in S : f <= n - 1
    BY <1>3, <2>1, SMT
  <2>3. n - 1 \in U /\ n \in Nat
    BY <1>3, <2>2
  <2> QED BY <1>3, <2>3, SMT
<1>5. \A f \in S : n >= f
  BY <1>1, <1>3, NumFilesIsNat
<1>6. Max(S) \in S /\ \A f \in S : Max(S) >= f
  BY <1>4, <1>5 DEF Max
<1>7. \A f \in S : f \in Nat
  BY <1>1, NumFilesIsNat, SMT
<1> DEFINE m == Max(S)
<1>8. m \in S /\ \A f \in S : m >= f
  BY <1>6
<1> HIDE DEF m
<1>9. \A f \in S : f <= m
  BY <1>7, <1>8
<1> QED BY <1>8, <1>9 DEF m

\* Sets of files are finite.
LEMMA SubsetsFinite ==
    ASSUME NEW S \in SUBSET Files
    PROVE  IsFiniteSet(S) /\ Cardinality(S) \in 0 .. NumFiles
<1>1. IsFiniteSet(Files) /\ Cardinality(Files) = NumFiles
  BY FS_Interval, NumFilesIsNat, SMT DEF Files
<1>2. IsFiniteSet(S) /\ Cardinality(S) <= NumFiles
  BY <1>1, FS_Subset
<1>3. Cardinality(S) \in Nat
  BY <1>2, FS_CardinalityType
<1> QED BY <1>2, <1>3, NumFilesIsNat, SMTT(30)

\* sortParsedFiles changes no status, and gives every file it compares an entry.
HasEntries(r, later, S) ==
    /\ later.full = r.full /\ later.last = r.last /\ later.count = r.count
    /\ later.size \in Nat /\ later.size >= r.size
    /\ \A f, g \in S : f # g => f < later.size

\* sortParsedFiles reports nothing.
LEMMA SortedTracked ==
    ASSUME NEW epoch \in Nat, NEW r, Tracked(r, epoch), NEW S \in SUBSET Files,
           NEW later, later = Sorted(r, S)
    PROVE  Tracked(later, epoch) /\ HasEntries(r, later, S)
<1>1. IsFiniteSet(S) /\ Cardinality(S) \in Nat /\ r.size \in Nat
  BY SubsetsFinite, NumFilesIsNat, ReporterFields, SMTT(30) DEF Tracked
<1>2. CASE Cardinality(S) < 2
  <2>1. later = r
    BY <1>2 DEF Sorted
  <2>2. ASSUME NEW f \in S, NEW g \in S, f # g PROVE FALSE
    <3>1. Cardinality({f} \cup {g}) = 2
      <4>1. IsFiniteSet({f}) /\ Cardinality({f}) = 1 /\ g \notin {f}
        BY <2>2, FS_Singleton
      <4>2. Cardinality({f} \cup {g}) = Cardinality({f}) + 1
        BY <4>1, FS_AddElement
      <4> QED BY <4>1, <4>2, SMT
    <3>2. {f} \cup {g} \subseteq S
      OBVIOUS
    <3>3. Cardinality({f} \cup {g}) <= Cardinality(S)
      BY <1>1, <3>2, FS_Subset
    <3> QED BY <1>1, <1>2, <3>1, <3>3, SMTT(30)
  <2> QED BY <1>1, <2>1, <2>2, SMTT(30) DEF HasEntries
<1>3. CASE ~(Cardinality(S) < 2)
  <2>1. S # {}
    BY <1>3, FS_EmptySet, SMT
  <2>2. Max(S) \in S /\ \A f \in S : f <= Max(S)
    BY <2>1, LargestFile
  <2>3. later = WithEntry(r, Max(S)) /\ Max(S) \in Files
    BY <1>3, <2>2 DEF Sorted
  <2>4. /\ Tracked(later, epoch)
        /\ later.full = r.full /\ later.last = r.last /\ later.count = r.count
        /\ later.size \in Nat /\ later.size >= r.size /\ later.size > Max(S)
    BY <2>3, WithEntryTracked
  <2>5. \A f \in S : f < later.size
    <3>1. \A f \in S : f \in Nat
      BY SMT DEF Files
    <3> QED BY <2>2, <2>4, <3>1, SMTT(30)
  <2> QED BY <2>4, <2>5 DEF HasEntries
<1> QED BY <1>2, <1>3

-----------------------------------------------------------------------------
\* The reports of the steps.

\* flushErrorsForFile, and the file is one more that was flushed.
LEMMA FlushReports ==
    ASSUME IInv, Flush
    PROVE  Tracked(rep', edits) /\ Forward(rep, rep', slow.epoch)
<1>1. item \in Files /\ errq[item] \in Nat /\ rep' = PushDiagnostics(rep, slow.epoch, item, errq[item])
  BY MaxErrorsIsNat, SMTT(30) DEF IInv, Types, Apart, FilesOf, Flush, Errors
<1>2. /\ edits \in Nat /\ slow.epoch \in Nat /\ slow.epoch <= edits
      /\ Tracked(rep, edits) /\ rep.full <= slow.epoch
  BY MaxEditsIsNat, SMT DEF IInv, Types, RepInv
<1> QED BY <1>1, <1>2, PushKeeps

\* A slow path begins with the errors that are shown, and counts from zero.
LEMMA StartReports ==
    ASSUME IInv, NEW f \in Files, StartSlowPath(f)
    PROVE  /\ Tracked(rep', edits + 1) /\ rep'.full = edits + 1
           /\ rep'.last = rep.last /\ rep'.count = rep.count
<1>1. edits \in Nat /\ Tracked(rep, edits)
  BY MaxEditsIsNat, SMT DEF IInv, Types, RepInv
<1>2. rep' = BeginEpoch(rep, edits + 1, FALSE)
  BY DEF StartSlowPath
<1> QED BY <1>1, <1>2, BeginEpochTracked

\* The reports of a fast path are those of its epoch.
LEMMA FastPathReports ==
    ASSUME IInv, NEW updated \in SUBSET Files, NEW recheck \in SUBSET Files, NEW known,
           RunFastPath(updated, recheck, known)
    PROVE  Tracked(rep', edits + 1) /\ Forward(rep, rep', edits + 1)
<1>1. PICK extra \in SUBSET Files, found \in Errors :
        LET S == updated \cup extra \cup recheck
            n == Cardinality(S)
        IN  \E order \in Bijection(1 .. n, S) :
              rep' = PushAll(Sorted(rep, S), edits + 1, order, n, found)
  BY DEF RunFastPath
<1> DEFINE S == updated \cup extra \cup recheck
           n == Cardinality(S)
           sorted == Sorted(rep, S)
<1>2. PICK order \in Bijection(1 .. n, S) : rep' = PushAll(sorted, edits + 1, order, n, found)
  BY <1>1
<1>3. S \in SUBSET Files
  OBVIOUS
<1> HIDE DEF S
<1>4. n \in Nat
  BY <1>3, SubsetsFinite, SMTT(30)
<1>5. order \in [1 .. n -> Files]
  BY <1>3 DEF Bijection, Injection
<1> HIDE DEF n
<1>6. found \in [Files -> Nat]
  BY MaxErrorsIsNat, SMTT(30) DEF Errors
<1>7. edits \in Nat /\ edits + 1 \in Nat /\ edits <= edits + 1 /\ Tracked(rep, edits)
  BY MaxEditsIsNat, SMT DEF IInv, Types, RepInv
<1>8. Tracked(sorted, edits) /\ HasEntries(rep, sorted, S)
  BY <1>3, <1>7, SortedTracked
<1> HIDE DEF sorted
<1>9. Tracked(sorted, edits + 1)
  BY <1>7, <1>8, TrackedLater
<1>10. sorted.full <= edits + 1
  BY <1>7, <1>8, MaxEditsIsNat, SMTT(30) DEF IInv, Types, RepInv, HasEntries
<1>11. Tracked(rep', edits + 1) /\ Forward(sorted, rep', edits + 1)
  BY <1>2, <1>4, <1>5, <1>6, <1>7, <1>9, <1>10, PushAllKeeps
<1>12. Forward(rep, rep', edits + 1)
  <2>1. rep.size \in Nat /\ rep'.size \in Nat
    BY <1>7, <1>11, ReporterFields DEF Tracked
  <2>2. /\ sorted.full = rep.full /\ sorted.last = rep.last /\ sorted.count = rep.count
        /\ sorted.size \in Nat /\ sorted.size >= rep.size
    BY <1>8 DEF HasEntries
  <2>3. /\ rep'.full = sorted.full /\ rep'.size >= sorted.size
        /\ \A f \in Files : /\ rep'.last[f] >= sorted.last[f]
                            /\ rep'.count[f] # sorted.count[f] => rep'.last[f] = edits + 1
    BY <1>11 DEF Forward
  <2>4. rep'.size >= rep.size
    BY <2>1, <2>2, <2>3, AtLeast
  <2> QED BY <2>2, <2>3, <2>4 DEF Forward
<1> QED BY <1>11, <1>12

\* What a fast path leaves in the GlobalState.
LEMMA FastPathFiles ==
    ASSUME IInv, NEW updated \in SUBSET Files, NEW recheck, NEW known, edits < MaxEdits,
           RunFastPath(updated, recheck, known)
    PROVE  /\ truth' \in Errors /\ edits' = edits + 1
           /\ edits \in Nat /\ edits' \in 0 .. MaxEdits
           /\ fileEpoch' \in [Files -> 0..MaxEdits]
           /\ \A g \in Files : fileEpoch'[g] = IF g \in updated THEN edits + 1 ELSE fileEpoch[g]
<1>1. /\ edits' = edits + 1 /\ truth' \in Errors
      /\ fileEpoch' = [g \in Files |-> IF g \in updated THEN edits + 1 ELSE fileEpoch[g]]
  BY DEF RunFastPath
<1>2. /\ edits \in Nat /\ edits + 1 \in 0 .. MaxEdits
      /\ fileEpoch \in [Files -> 0..MaxEdits]
  BY MaxEditsIsNat, SMTT(30) DEF IInv, Types
<1> QED BY <1>1, <1>2

\* The reporter after a fast path.
LEMMA FastPathRep ==
    ASSUME IInv, NEW updated \in SUBSET Files, NEW recheck \in SUBSET Files, NEW known,
           edits < MaxEdits, RunFastPath(updated, recheck, known),
           UNCHANGED <<slow, stratum>>, tc' # "new", Indexed' => Indexed
    PROVE  RepInv'
<1>1. Tracked(rep', edits + 1) /\ Forward(rep, rep', edits + 1)
  BY FastPathReports
<1>2. edits' = edits + 1 /\ edits \in Nat
  BY FastPathFiles
<1>3. Tracked(rep, edits)'
  BY <1>1, <1>2 DEF Tracked, SanityCheck
<1>4. /\ Tracked(rep, edits) /\ rep.full = slow.epoch /\ slow.epoch <= edits
      /\ slow.epoch \in Nat /\ slow'.epoch = slow.epoch
      /\ Indexed => \A f, g \in FilesOf(stratum) : f # g => f < rep.size
  BY MaxEditsIsNat, SMTT(30) DEF IInv, Types, RepInv
<1>5. rep.size \in Nat /\ rep'.size \in Nat /\ rep'.size >= rep.size /\ rep'.full = rep.full
  BY <1>1, <1>4, ReporterFields DEF Tracked, Forward
<1>6. Indexed' => \A f, g \in FilesOf(stratum) : f # g => f < rep'.size
  <2>1. \A f \in FilesOf(stratum) : f \in Nat
    BY SMT DEF FilesOf, Files
  <2> QED BY <1>4, <1>5, <2>1, SMTT(30)
<1>7. FilesOf(stratum)' = FilesOf(stratum)
  BY DEF FilesOf
<1> QED BY <1>2, <1>3, <1>4, <1>5, <1>6, <1>7, SMTT(30) DEF RepInv

\* What the editor was told is as it was, but for reports of a newer edit or of
\* the slow path.
Onward ==
    \A f \in Files : /\ rep'.last[f] >= rep.last[f]
                     /\ rep'.count[f] # rep.count[f] =>
                          rep'.last[f] > rep.last[f] \/ rep'.last[f] = slow.epoch

\* The reports of a fast path are those of a newer edit.
LEMMA FastPathOnward ==
    ASSUME IInv, NEW updated \in SUBSET Files, NEW recheck \in SUBSET Files, NEW known,
           RunFastPath(updated, recheck, known)
    PROVE  Onward
<1>1. Forward(rep, rep', edits + 1)
  BY FastPathReports
<1>2. /\ edits \in Nat /\ \A f \in Files : rep.last[f] \in Nat /\ rep.last[f] <= edits
  BY MaxEditsIsNat, SMTT(30) DEF IInv, Types, RepInv, Tracked, Reporter
<1> QED BY <1>1, <1>2, SMTT(30) DEF Forward, Onward

\* The reports of every step move forward.
LEMMA ReportsStep ==
    ASSUME IInv, Next
    PROVE  Onward
<1>1. \A f \in Files : rep.last[f] \in Nat
  BY DEF IInv, RepInv, Tracked, Reporter
<1>2. rep'.last = rep.last /\ rep'.count = rep.count => Onward
  BY <1>1, SMTT(30) DEF Onward
<1>3. rep' = rep => Onward
  BY <1>2
<1>4. ASSUME NEW f \in Files, StartSlowPath(f) PROVE Onward
  BY <1>2, <1>4, StartReports
<1>5. ASSUME NEW f \in Files, FastEdit(f) PROVE Onward
  <2>1. RunFastPath(pend \cup {f}, FilesToRecheck, Files)
    BY <1>5 DEF FastEdit
  <2>2. pend \cup {f} \in SUBSET Files /\ FilesToRecheck \in SUBSET Files
    BY DEF IInv, Types, FilesToRecheck, FilesWithErrorsSince
  <2> QED BY <2>1, <2>2, FastPathOnward
<1>6. ASSUME NEW f \in Files, PreemptingEdit(f) PROVE Onward
  <2>1. RunFastPath({f}, {}, {g \in Files : StratumOf[g] <= stratum})
    BY <1>6 DEF PreemptingEdit
  <2>2. {f} \in SUBSET Files /\ {} \in SUBSET Files
    OBVIOUS
  <2> QED BY <2>1, <2>2, FastPathOnward
<1>7. CASE Flush
  <2>1. Forward(rep, rep', slow.epoch)
    BY <1>7, FlushReports
  <2> QED BY <2>1 DEF Forward, Onward
<1>8. CASE IndexStratum
  <2>1. rep' = rep \/ rep' = Sorted(rep, FilesOf(stratum))
    BY <1>8 DEF IndexStratum
  <2>2. CASE rep' = Sorted(rep, FilesOf(stratum))
    <3>1. edits \in Nat /\ Tracked(rep, edits) /\ FilesOf(stratum) \in SUBSET Files
      BY MaxEditsIsNat, SMTT(30) DEF IInv, Types, RepInv, FilesOf
    <3>2. HasEntries(rep, rep', FilesOf(stratum))
      BY <2>2, <3>1, SortedTracked
    <3> QED BY <1>2, <3>2 DEF HasEntries
  <2> QED BY <1>3, <2>1, <2>2
<1>9. CASE Initialize
  <2>1. rep = NewReporter /\ rep' = BeginEpoch(rep, 0, FALSE)
    BY <1>9 DEF Initialize, IInv, RepInv
  <2>2. BeginEpoch(NewReporter, 0, FALSE) = NewReporter
    BY DEF BeginEpoch, NewReporter
  <2> QED BY <1>3, <2>1, <2>2
<1>10. CASE TypecheckerStep
  BY <1>3, <1>7, <1>8, <1>9, <1>10 DEF TypecheckerStep, TryCommit, FinishSlowPath,
     EndPreemption, NoPreemption, FillQueue, LoadRetry, Dequeue, LeaveLoop, repVars
<1>11. ASSUME NEW w \in Workers, WorkerNext(w) PROVE Onward
  <2>1. rep' = rep
    BY <1>11 DEF WorkerNext, StartClosure, PopFile, NoFileLeft, LockPreemption, Decide,
       TypecheckOne, EnqueueResult, CountResult, WorkerStep, repVars
  <2> QED BY <1>3, <2>1
<1>12. CASE ClientStep
  BY <1>3, <1>4, <1>5, <1>6, <1>12 DEF ClientStep, Preempt, CancelSlowPath, repVars
<1> QED BY <1>10, <1>11, <1>12 DEF Next

-----------------------------------------------------------------------------
\* The invariant at first, and what it implies.

\* The invariant holds at first.
LEMMA InitInv ==
    ASSUME Init
    PROVE  IInv
<1>1. /\ rep = NewReporter /\ edits = 0 /\ cancels = 0 /\ flushed = 0 /\ left = 0
      /\ fileEpoch = [f \in Files |-> 0] /\ tree = [f \in Files |-> 0]
      /\ fileq = {} /\ outq = {} /\ tc = "new" /\ ret = "begin" /\ stratum = 0
      /\ truth \in Errors /\ errq = [f \in Files |-> 0] /\ pend = {} /\ item = NoFile
  BY DEF Init
<1>2. /\ slow.epoch = 0 /\ ~slow.cancelable /\ ~canceled /\ canceled \in BOOLEAN
      /\ retry \in BOOLEAN
  BY DEF Init
<1>3. ASSUME NEW w \in Workers
      PROVE  /\ worker[w] \in WorkerState /\ worker[w].pc = "idle" /\ worker[w].file = NoFile
             /\ worker[w].processed = 0 /\ worker[w].queued = 0
  <2>1. worker[w] = [pc |-> "idle", file |-> NoFile, processed |-> 0, mine |-> FALSE, queued |-> 0]
    BY DEF Init, IdleWorker
  <2>2. "idle" \in WorkerPoints /\ 0 \in Nat
    BY DEF WorkerPoints
  <2>3. NoFile \in Files \cup {NoFile} /\ FALSE \in BOOLEAN
    OBVIOUS
  <2>4. [pc |-> "idle", file |-> NoFile, processed |-> 0, mine |-> FALSE, queued |-> 0] \in WorkerState
    BY <2>2, <2>3 DEF WorkerState
  <2>5. worker[w] \in WorkerState
    BY <2>1, <2>4
  <2> QED BY <2>1, <2>5, SMTT(30)
<1>4. Types
  <2>1. 0 \in 0 .. MaxEdits /\ 0 \in 0 .. MaxErrors /\ 0 \in Strata /\ 0 \in Nat /\ 0 \in Int
    BY MaxEditsIsNat, MaxErrorsIsNat, LastStratumIsNat, SMTT(30) DEF Strata
  <2>2. worker \in [Workers -> WorkerState]
    <3>1. worker = [w \in Workers |-> worker[w]]
      BY DEF Init
    <3> QED BY <1>3, <3>1
  <2>3. slow \in [epoch : 0..MaxEdits, start : Strata, relevant : SUBSET Files, cancelable : BOOLEAN]
    BY <2>1 DEF Init
  <2>4. /\ fileEpoch \in [Files -> 0..MaxEdits] /\ tree \in [Files -> 0..MaxEdits]
        /\ errq \in Errors
    BY <1>1, <2>1 DEF Errors
  <2>5. undo \in [epoch : {NoUndo} \cup 0..MaxEdits, truth : Errors,
                  fileEpoch : [Files -> 0..MaxEdits]]
    BY <1>1, <2>4 DEF Init
  <2> QED BY <1>1, <1>2, <2>1, <2>2, <2>3, <2>4, <2>5 DEF Types, Points
<1>5. LocalInv /\ QueueInv /\ Apart
  BY <1>1, <1>3 DEF LocalInv, LocalState, QueueInv, Apart
<1>6. Cardinality({}) = 0
  BY FS_EmptySet
<1>7. Accounted
  <2> DEFINE none == [w \in Workers |-> {}]
  <2>1. \A w \in Workers : Owed(worker[w]) = 0
    BY <1>3, SMT DEF Owed
  <2>2. {} \cup UNION {none[w] : w \in Workers} = {}
    OBVIOUS
  <2>3. none \in [Workers -> SUBSET Files] /\ \A w \in Workers : none[w] = {}
    OBVIOUS
  <2> HIDE DEF none
  <2>4. Shares(none)
    BY <1>1, <1>6, <2>1, <2>2, <2>3 DEF Shares
  <2> QED BY <2>4 DEF Accounted
<1>8. FlushInv
  <2>1. Flushed({})
    BY <1>1, <1>6 DEF Flushed
  <2> QED BY <1>1, <2>1 DEF FlushInv
<1>9. TreeInv /\ CancelInv
  BY <1>1, <1>2, <1>3, SMTT(30) DEF TreeInv, CancelInv, Indexed, Calling
<1>10. RepInv
  <2>1. Tracked(rep, edits)
    BY <1>1, NewReporterTracked
  <2>2. rep.full = 0 /\ ~Indexed
    BY <1>1 DEF NewReporter, Indexed, Calling
  <2> QED BY <1>1, <1>2, <2>1, <2>2, SMTT(30) DEF RepInv
<1>11. ClosureInv
  <2>1. slow.epoch * (LastStratum + 1) = 0
    BY <1>2, LastStratumIsNat, SMTT(30)
  <2>2. Calls = 0
    BY <1>1, <2>1, SMTT(30) DEF Calls, Ahead
  <2> QED BY <1>3, <2>2, SMTT(30) DEF ClosureInv
<1> QED BY <1>4, <1>5, <1>7, <1>8, <1>9, <1>10, <1>11 DEF IInv

\* A later slow path begins more calls of pipeline::typecheck.
LEMMA MoreCalls ==
    ASSUME NEW a \in Nat, NEW b \in Nat, NEW k \in Nat, NEW s \in Nat, NEW t \in Nat,
           a < b, s < k
    PROVE  /\ a * k + s + 1 \in Int /\ b * k + t + 0 \in Int
           /\ a * k + s + 1 <= b * k + t + 0
<1> DEFINE d == b - a - 1
<1>1. d \in Nat /\ b = a + 1 + d
  BY SMT
<1> HIDE DEF d
<1>2. (a + 1 + d) * k = a * k + k + d * k
  BY <1>1, SMTT(30)
<1>3. d * k \in Nat /\ a * k \in Nat /\ b * k \in Nat
  BY <1>1, SMT
<1>4. b * k = a * k + k + d * k
  BY <1>1, <1>2
<1> QED BY <1>3, <1>4, SMTT(30)

\* The invariant bounds the counters.
LEMMA InvTypes ==
    ASSUME IInv
    PROVE  TypeOK
<1>1. Types /\ Tracked(rep, edits) /\ cancels <= edits /\ Accounted /\ FlushInv /\ ClosureInv
  BY DEF IInv, RepInv, CancelInv
<1>2. rep \in Reporter
  BY <1>1 DEF Tracked
<1>3. cancels \in 0 .. MaxEdits
  BY <1>1, MaxEditsIsNat, SMTT(30) DEF Types
<1>4. flushed \in 0 .. NumFiles
  <2>1. PICK done : Flushed(done)
    BY <1>1 DEF FlushInv
  <2> QED BY <2>1, SubsetsFinite DEF Flushed
<1>5. PICK share : Shares(share)
  BY <1>1 DEF Accounted
<1>6. left \in 0 .. NumFiles
  <2> DEFINE all == fileq \cup UNION {share[w] : w \in Workers}
  <2>1. all \in SUBSET Files
    BY <1>1, <1>5, SMTT(30) DEF Types, Shares
  <2>2. left = Cardinality(all)
    BY <1>5 DEF Shares
  <2> HIDE DEF all
  <2> QED BY <2>1, <2>2, SubsetsFinite
<1>7. ASSUME NEW w \in Workers
      PROVE  worker[w] \in [pc : WorkerPoints, file : Files \cup {NoFile},
                            processed : 0..NumFiles, mine : BOOLEAN,
                            queued : 0..((MaxEdits + 1) * (LastStratum + 1))]
  <2>1. worker[w] \in WorkerState
    BY <1>1 DEF Types
  <2>2. worker[w].processed \in Nat /\ worker[w].queued \in Nat
    BY <2>1 DEF WorkerState
  <2>3. Owed(worker[w]) \in 0 .. NumFiles
    <3>1. share[w] \in SUBSET Files /\ Cardinality(share[w]) = Owed(worker[w])
      BY <1>5 DEF Shares
    <3> QED BY <3>1, SubsetsFinite
  <2>4. worker[w].processed \in 0 .. NumFiles
    BY <2>2, <2>3, NumFilesIsNat, SMTT(30) DEF Owed
  <2>5. worker[w].queued <= Calls
    BY <1>1 DEF ClosureInv
  <2> DEFINE most == (MaxEdits + 1) * (LastStratum + 1)
  <2>6. Calls <= most /\ Calls \in Int /\ most \in Int
    <3>1. slow.epoch \in Nat /\ slow.epoch < MaxEdits + 1 /\ MaxEdits + 1 \in Nat
      BY <1>1, MaxEditsIsNat, SMTT(30) DEF Types
    <3>2. stratum \in 0 .. LastStratum /\ stratum \in Nat
      BY <1>1, LastStratumIsNat, SMTT(30) DEF Types, Strata
    <3>3. slow.epoch * (LastStratum + 1) + stratum + 1 <= most
      BY <3>1, <3>2, LastStratumIsNat, MoreCalls, SMTT(30)
    <3> QED BY <3>1, <3>2, <3>3, LastStratumIsNat, SMTT(30) DEF Calls
  <2>7. worker[w].queued \in 0 .. most
    <3> HIDE DEF most
    <3> QED BY <2>2, <2>5, <2>6, SMTT(30)
  <2> QED BY <2>1, <2>4, <2>7 DEF WorkerState
<1>8. worker \in [Workers -> [pc : WorkerPoints, file : Files \cup {NoFile},
                              processed : 0..NumFiles, mine : BOOLEAN,
                              queued : 0..((MaxEdits + 1) * (LastStratum + 1))]]
  BY <1>1, <1>7 DEF Types
<1> QED BY <1>1, <1>2, <1>3, <1>4, <1>6, <1>8 DEF Types, TypeOK

\* No worker is at work outside of the call.
LEMMA InvNoUseAfterReturn ==
    ASSUME IInv
    PROVE  NoUseAfterReturn
<1>1. LocalInv /\ QueueInv /\ FlushInv
  BY DEF IInv
<1>2. tc \notin {"fill", "load", "dequeue", "flush", "poll", "park", "drained"} => ~Calling
  BY DEF Calling
<1>3. ~Calling => /\ fileq = {} /\ outq = {}
                  /\ \A w \in Workers : worker[w].pc \in {"idle", "pop"} /\ worker[w].processed = 0
  BY <1>1 DEF LocalInv, LocalState, QueueInv
<1>4. tc = "begin" => flushed = 0
  BY <1>1 DEF FlushInv, Ahead
<1> QED BY <1>2, <1>3, <1>4 DEF NoUseAfterReturn

\* The trees that workers check are those of their files.
LEMMA InvFreshTrees ==
    ASSUME IInv
    PROVE  FreshTrees
<1> SUFFICES ASSUME NEW w \in Workers, worker[w].pc = "check"
             PROVE  tree[worker[w].file] = fileEpoch[worker[w].file]
  BY DEF FreshTrees
<1> DEFINE f == worker[w].file
<1>1. Types /\ LocalState(worker[w]) /\ Apart /\ TreeInv
  BY DEF IInv, LocalInv
<1>2. Calling /\ f # NoFile
  BY <1>1 DEF LocalState
<1>3. f \in FilesOf(stratum)
  BY <1>1, <1>2 DEF Apart
<1>4. f \in Files
  BY <1>3 DEF FilesOf
<1>5. fileEpoch[f] <= slow.epoch /\ (fileEpoch[f] > slow.epoch \/ tree[f] = fileEpoch[f])
  BY <1>1, <1>2, <1>3 DEF TreeInv, Indexed
<1>6. fileEpoch[f] \in Int /\ slow.epoch \in Int
  BY <1>1, <1>4, SMTT(30) DEF Types
<1> HIDE DEF f
<1>7. tree[f] = fileEpoch[f]
  BY <1>5, <1>6, SMTT(30)
<1> QED BY <1>7 DEF f

\* The file that is flushed has an entry, unless it is alone in its stratum.
LEMMA InvNoResize ==
    ASSUME IInv
    PROVE  NoResizeUnderReaders
<1> SUFFICES ASSUME tc = "flush", item >= rep.size, NEW w \in Workers,
                    worker[w].pc = "decide"
             PROVE  FALSE
  BY DEF NoResizeUnderReaders
<1>1. LocalState(worker[w]) /\ Apart /\ RepInv
  BY DEF IInv, LocalInv
<1>2. worker[w].file # NoFile
  BY <1>1 DEF LocalState
<1>3. worker[w].file \in FilesOf(stratum) /\ item \in FilesOf(stratum) /\ Pushed(item)
  BY <1>1, <1>2 DEF Apart
<1>4. worker[w].file # item
  BY <1>3 DEF Pushed
<1>5. item < rep.size
  BY <1>1, <1>3, <1>4 DEF RepInv, Indexed, Calling
<1>6. item \in Int /\ rep.size \in Int
  BY <1>1, <1>3, SMTT(30) DEF RepInv, Tracked, Reporter, FilesOf, Files
<1> QED BY <1>5, <1>6, SMTT(30)
=============================================================================
