----------------------------- MODULE BackupProofs -----------------------------
(* TLAPS proofs about Backup, for any number of runs and of backups kept.      *)
EXTENDS Backup, FiniteSetTheorems, TLAPS

Early == {"new", "skipped", "snapshot", "checksum", "renaming", "moving"}

\* The lock: one run at a time, and those after it have done nothing.
RunsInTurn ==
  /\ \A m, n \in Runs : pc[m] \in Busy /\ pc[n] \in Busy => m = n
  /\ \A m, n \in Runs : m < n /\ pc[m] = "new" => pc[n] = "new"
  /\ \A m, n \in Runs : m < n /\ pc[m] \in Busy => pc[n] \in {"new", "skipped"}

\* How far the files of a run are, by where it stands.
FilesFollowTheRun ==
  \A n \in Runs :
    /\ pc[n] \in Early => snapshot[n] = "absent"
    /\ pc[n] \in {"moving", "copying"} => checksum[n] = TRUE
    /\ pc[n] = "copying" => snapshot[n] = "partial"
    /\ pc[n] \in {"pruning", "orphans"} => snapshot[n] = "whole" /\ n \notin doomed
    /\ snapshot[n] # "absent" => checksum[n] = TRUE

\* A file that will not be written any more.
Settled(n) == pc[n] \notin Early \cup {"copying"} /\ snapshot[n] \in {"absent", "whole"}

\* What a drill has learnt stays true of its file while runs go on.
DrillKnows ==
  /\ drill.step \in {"checksum", "sum"} => drill.file \in Runs /\ pc[drill.file] \notin Early
  /\ drill.step = "install" => drill.file \in Runs /\ Settled(drill.file)
  /\ drill.step \in {"integrity", "passed"} => drill.copy = "whole"

IInv == TypeOK /\ RunsInTurn /\ FilesFollowTheRun /\ DrillKnows /\ NewestSurvives

LEMMA Initially == Init => IInv
<1> SUFFICES ASSUME Init PROVE IInv
  OBVIOUS
<1>1. TypeOK
  BY DEF Init, TypeOK, NoDrill, Busy
<1>2. RunsInTurn /\ FilesFollowTheRun
  BY DEF Init, RunsInTurn, FilesFollowTheRun, Busy, Early
<1>3. DrillKnows /\ NewestSurvives
  BY DEF Init, DrillKnows, NewestSurvives, NoDrill
<1> QED  BY <1>1, <1>2, <1>3 DEF IInv

-------------------------------------------------------------------------------

LEMMA TypeKept == IInv /\ [Next]_vars => TypeOK'
<1> SUFFICES ASSUME TypeOK, DrillKnows, [Next]_vars PROVE TypeOK'
  BY DEF IInv
<1> USE DEF TypeOK, Goto, Busy
<1>1. ASSUME NEW n \in Runs, Run(n) PROVE TypeOK'
  <2>1. CASE Begin(n) \/ Skip(n) \/ Snapshot(n) \/ Pruned(n) \/ End(n)
    BY <2>1 DEF Begin, Skip, Snapshot, Pruned, End
  <2>2. CASE WriteChecksum(n) \/ RenameChecksum(n) \/ Move(n)
    BY <2>2 DEF WriteChecksum, RenameChecksum, Move
  <2>3. CASE Moved(n)
    BY <2>3 DEF Moved, OldestBut, Visible
  <2>4. CASE Prune(n)
    <3>1. snapshot' \in [Runs -> {"absent", "partial", "whole"}]
      BY <2>4 DEF Prune
    <3>2. checksum' \in [Runs -> BOOLEAN] /\ doomed' \in SUBSET Runs
      BY <2>4 DEF Prune
    <3> QED  BY <2>4, <3>1, <3>2 DEF Prune
  <2>5. CASE PruneOrphan(n)
    BY <2>5 DEF PruneOrphan
  <2>6. CASE Fail(n) \/ Kill(n)
    BY <2>6 DEF Fail, Kill
  <2> QED  BY <1>1, <2>1, <2>2, <2>3, <2>4, <2>5, <2>6 DEF Run
<1>2. CASE Drill
  <2>1. CASE DrillBegins
    BY <2>1 DEF DrillBegins, Rest, Visible
  <2>2. CASE DrillReadsChecksum \/ DrillSums
    BY <2>2 DEF DrillReadsChecksum, DrillSums, DrillStep, NoDrill, Rest
  <2>3. CASE DrillInstalls
    <3>1. CASE snapshot[drill.file] = "absent"
      BY <2>3, <3>1 DEF DrillInstalls, NoDrill, Rest
    <3>2. CASE drill.file \in Runs /\ snapshot[drill.file] # "absent"
      BY <2>3, <3>2 DEF DrillInstalls, Rest
    <3> QED  BY <2>3, <3>1, <3>2 DEF DrillInstalls, DrillKnows
  <2>4. CASE DrillChecks
    BY <2>4 DEF DrillChecks, DrillStep, NoDrill, Rest
  <2> QED  BY <1>2, <2>1, <2>2, <2>3, <2>4 DEF Drill
<1>3. CASE UNCHANGED vars
  BY <1>3 DEF vars
<1> QED  BY <1>1, <1>2, <1>3 DEF Next

\* A step of a run goes on from where the run stands; only Begin takes the lock.
LEMMA TurnsKept == IInv /\ [Next]_vars => RunsInTurn'
<1> SUFFICES ASSUME TypeOK, RunsInTurn, [Next]_vars PROVE RunsInTurn'
  BY DEF IInv
<1> USE DEF TypeOK, RunsInTurn, Busy, Runs
<1>1. ASSUME NEW n \in Runs, Run(n) PROVE RunsInTurn'
  <2>1. CASE Begin(n)
    BY <2>1 DEF Begin, Next1, Goto
  <2>2. CASE Skip(n)
    BY <2>2 DEF Skip, Next1, Goto
  <2>3. CASE Prune(n) \/ PruneOrphan(n)
    BY <2>3 DEF Prune, PruneOrphan
  <2>4. CASE pc[n] \in Busy /\ \E to \in Busy \cup {"created", "failed", "killed"} :
               pc' = [pc EXCEPT ![n] = to]
    BY <2>4
  <2>5. ASSUME \/ Snapshot(n) \/ WriteChecksum(n) \/ RenameChecksum(n) \/ Move(n) \/ Moved(n)
               \/ Pruned(n) \/ End(n) \/ Fail(n) \/ Kill(n)
        PROVE  pc[n] \in Busy /\ \E to \in Busy \cup {"created", "failed", "killed"} :
                 pc' = [pc EXCEPT ![n] = to]
    BY <2>5 DEF Snapshot, WriteChecksum, RenameChecksum, Move, Moved, Pruned, End, Fail, Kill, Goto
  <2> QED  BY <1>1, <2>1, <2>2, <2>3, <2>4, <2>5 DEF Run
<1>2. CASE Drill
  BY <1>2 DEF Drill, DrillBegins, DrillReadsChecksum, DrillSums, DrillInstalls, DrillChecks, Rest
<1>3. CASE UNCHANGED vars
  BY <1>3 DEF vars
<1> QED  BY <1>1, <1>2, <1>3 DEF Next

\* prune_by_count keeps the backup of the run that calls it: it is the newest.
LEMMA NewestIsKept ==
  ASSUME IInv, NEW n \in Runs, pc[n] \in Busy
  PROVE  n \notin OldestBut(Visible)
<1>1. {m \in Visible : m > n} = {}
  BY DEF IInv, RunsInTurn, FilesFollowTheRun, Visible, Early, Runs
<1>2. Cardinality({m \in Visible : m > n}) = 0
  BY <1>1, FS_EmptySet
<1> QED  BY <1>2, BackupAssumption DEF OldestBut

LEMMA FilesKept == IInv /\ [Next]_vars => FilesFollowTheRun'
<1> SUFFICES ASSUME IInv, [Next]_vars PROVE FilesFollowTheRun'
  OBVIOUS
<1> USE DEF IInv, TypeOK, FilesFollowTheRun, Goto, Busy, Early
<1>1. ASSUME NEW n \in Runs, Run(n) PROVE FilesFollowTheRun'
  <2>1. CASE Begin(n) \/ Skip(n) \/ Snapshot(n) \/ Pruned(n) \/ End(n)
    BY <2>1 DEF Begin, Skip, Snapshot, Pruned, End
  <2>2. CASE WriteChecksum(n) \/ RenameChecksum(n) \/ Move(n)
    BY <2>2 DEF WriteChecksum, RenameChecksum, Move
  <2>3. CASE Moved(n)
    <3>1. n \notin doomed'
      BY <2>3, NewestIsKept DEF Moved
    <3>2. \A m \in Runs : m # n => pc[m] \notin Busy
      BY <2>3 DEF Moved, RunsInTurn
    <3> QED  BY <2>3, <3>1, <3>2 DEF Moved
  <2>4. CASE Prune(n)
    <3>1. \A m \in Runs : pc[m] \in Busy => m = n
      BY <2>4 DEF Prune, RunsInTurn
    <3>2. PICK m \in doomed :
            \/ snapshot' = [snapshot EXCEPT ![m] = "absent"] /\ UNCHANGED <<checksum, doomed>>
            \/ /\ snapshot[m] = "absent"
               /\ checksum' = [checksum EXCEPT ![m] = FALSE]
               /\ doomed' = doomed \ {m} /\ UNCHANGED snapshot
      BY <2>4 DEF Prune
    <3> QED  BY <2>4, <3>1, <3>2 DEF Prune
  <2>5. CASE PruneOrphan(n)
    <3>1. \A m \in Runs : pc[m] \in Busy => m = n
      BY <2>5 DEF PruneOrphan, RunsInTurn
    <3> QED  BY <2>5, <3>1 DEF PruneOrphan
  <2>6. CASE Fail(n) \/ Kill(n)
    BY <2>6 DEF Fail, Kill
  <2> QED  BY <1>1, <2>1, <2>2, <2>3, <2>4, <2>5, <2>6 DEF Run
<1>2. CASE Drill
  BY <1>2 DEF Drill, DrillBegins, DrillReadsChecksum, DrillSums, DrillInstalls, DrillChecks, Rest
<1>3. CASE UNCHANGED vars
  BY <1>3 DEF vars
<1> QED  BY <1>1, <1>2, <1>3 DEF Next

\* What a run can do to the file of a drill: nothing once it is settled but remove it.
LEMMA StaysSettled ==
  ASSUME IInv, NEW n \in Runs, Run(n), NEW file \in Runs
  PROVE  /\ pc[file] \notin Early => pc'[file] \notin Early
         /\ Settled(file) => Settled(file)'
<1> USE DEF IInv, TypeOK, Goto, Busy, Early, Settled
<1>1. CASE Begin(n) \/ Skip(n) \/ Snapshot(n) \/ Pruned(n) \/ End(n)
  BY <1>1 DEF Begin, Skip, Snapshot, Pruned, End
<1>2. CASE WriteChecksum(n) \/ RenameChecksum(n) \/ Move(n)
  BY <1>2 DEF WriteChecksum, RenameChecksum, Move
<1>3. CASE Moved(n)
  BY <1>3 DEF Moved
<1>4. CASE Prune(n)
  BY <1>4 DEF Prune
<1>5. CASE PruneOrphan(n) \/ Fail(n) \/ Kill(n)
  BY <1>5 DEF PruneOrphan, Fail, Kill
<1> QED  BY <1>1, <1>2, <1>3, <1>4, <1>5 DEF Run

LEMMA KnowledgeKept == IInv /\ [Next]_vars => DrillKnows'
<1> SUFFICES ASSUME IInv, [Next]_vars PROVE DrillKnows'
  OBVIOUS
<1>1. ASSUME NEW n \in Runs, Run(n) PROVE DrillKnows'
  <2>1. drill' = drill
    BY <1>1 DEF Run, Begin, Skip, Snapshot, WriteChecksum, RenameChecksum, Move, Moved,
                Prune, Pruned, PruneOrphan, End, Fail, Kill
  <2> QED  BY <1>1, <2>1, StaysSettled DEF IInv, DrillKnows
<1>2. CASE Drill
  <2> USE DEF IInv, TypeOK, DrillKnows, FilesFollowTheRun, Rest, Settled, Early
  <2>1. CASE DrillBegins
    BY <2>1 DEF DrillBegins, Visible
  <2>2. CASE DrillReadsChecksum
    BY <2>2 DEF DrillReadsChecksum, DrillStep
  <2>3. CASE DrillSums
    BY <2>3 DEF DrillSums, DrillStep, NoDrill
  <2>4. CASE DrillInstalls
    BY <2>4 DEF DrillInstalls, NoDrill
  <2>5. CASE DrillChecks
    BY <2>5 DEF DrillChecks, DrillStep, NoDrill
  <2> QED  BY <1>2, <2>1, <2>2, <2>3, <2>4, <2>5 DEF Drill
<1>3. CASE UNCHANGED vars
  BY <1>3 DEF vars, IInv, DrillKnows, Settled
<1> QED  BY <1>1, <1>2, <1>3 DEF Next

\* A run that prunes is itself a complete backup at least as new as any that reported
\* success before.
LEMMA SurvivalKept == IInv /\ [Next]_vars => NewestSurvives'
<1> SUFFICES ASSUME IInv, [Next]_vars, NEW n \in Runs, pc'[n] = "created"
             PROVE  \E m \in n .. MaxRuns : snapshot'[m] = "whole"
  BY DEF NewestSurvives
<1> USE DEF IInv, TypeOK, Runs, Goto, Busy
<1>1. ASSUME NEW k \in Runs, Run(k)
      PROVE  \E m \in n .. MaxRuns : snapshot'[m] = "whole"
  <2>1. CASE End(k) /\ k = n
    BY <2>1 DEF End, FilesFollowTheRun
  <2>2. CASE pc[n] = "created" /\ Prune(k)
    <3>1. ~(k < n)
      BY <2>2 DEF Prune, RunsInTurn
    <3>2. snapshot[k] = "whole" /\ k \notin doomed
      BY <2>2 DEF Prune, FilesFollowTheRun
    <3>3. snapshot'[k] = "whole"
      BY <2>2, <3>2 DEF Prune
    <3> QED  BY <3>1, <3>3
  <2>3. CASE pc[n] = "created" /\ ~Prune(k)
    <3>1. PICK m \in n .. MaxRuns : snapshot[m] = "whole"
      BY <2>3 DEF NewestSurvives
    <3>2. snapshot'[m] = "whole"
      <4>1. CASE Move(k)
        BY <4>1, <3>1 DEF Move, FilesFollowTheRun, Early
      <4>2. CASE Moved(k)
        BY <4>2, <3>1 DEF Moved
      <4>3. CASE UNCHANGED snapshot
        BY <4>3, <3>1
      <4> QED  BY <1>1, <2>3, <4>1, <4>2, <4>3 DEF Run, Begin, Skip, Snapshot, WriteChecksum,
               RenameChecksum, Pruned, PruneOrphan, End, Fail, Kill
    <3> QED  BY <3>2
  <2>4. pc[n] = "created" \/ (End(k) /\ k = n)
    BY <1>1 DEF Run, Begin, Skip, Snapshot, WriteChecksum, RenameChecksum, Move, Moved,
                Prune, Pruned, PruneOrphan, End, Fail, Kill
  <2> QED  BY <2>1, <2>2, <2>3, <2>4
<1>2. CASE Drill
  BY <1>2 DEF Drill, DrillBegins, DrillReadsChecksum, DrillSums, DrillInstalls, DrillChecks,
              Rest, NewestSurvives
<1>3. CASE UNCHANGED vars
  BY <1>3 DEF vars, NewestSurvives
<1> QED  BY <1>1, <1>2, <1>3 DEF Next

-------------------------------------------------------------------------------

LEMMA Invariance == Spec => []IInv
<1>1. IInv /\ [Next]_vars => IInv'
  BY TypeKept, TurnsKept, FilesKept, KnowledgeKept, SurvivalKept DEF IInv
<1> QED  BY <1>1, Initially, PTL DEF Spec

\* The variables keep their types.
THEOREM TypeCorrect == Spec => []TypeOK
<1>1. IInv => TypeOK
  BY DEF IInv
<1> QED  BY <1>1, Invariance, PTL

\* No backup is ever visible without its checksum, whatever runs fail or are killed.
THEOREM AlwaysWithChecksum == Spec => []NeverWithoutChecksum
<1>1. IInv => NeverWithoutChecksum
  BY DEF IInv, FilesFollowTheRun, NeverWithoutChecksum, Visible
<1> QED  BY <1>1, Invariance, PTL

\* A drill that passes has checked a complete copy.
THEOREM DrillsAreSound == Spec => []DrillPassesOnlyWhole
<1>1. IInv => DrillPassesOnlyWhole
  BY DEF IInv, DrillKnows, DrillPassesOnlyWhole
<1> QED  BY <1>1, Invariance, PTL

\* Once a run has reported success a complete backup at least as new remains.
THEOREM NewestAlwaysSurvives == Spec => []NewestSurvives
<1>1. IInv => NewestSurvives
  BY DEF IInv
<1> QED  BY <1>1, Invariance, PTL
===============================================================================
