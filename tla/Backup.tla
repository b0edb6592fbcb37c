-------------------------------- MODULE Backup --------------------------------
(***************************************************************************)
(* src/scripts/backup-bindings.sh and the restore drill that reads what it *)
(* leaves behind: a snapshot is made in /run, its checksum is renamed into *)
(* the directory of weekly backups, then the snapshot is moved there, then *)
(* old backups are pruned.  /run and /var/backups are different file       *)
(* systems (nf-query-backup.service), so the last mv copies.               *)
(*                                                                         *)
(* A run may fail at any command (set -e), and its trap removes the        *)
(* temporary files; a run that is killed leaves them.  SIGINT and SIGTERM  *)
(* need no action of their own: the trap removes the files, the script     *)
(* goes on, and the next command that needs them fails.  Losing power is   *)
(* not modelled: the script leaves it to the file system what it has       *)
(* written.                                                                *)
(***************************************************************************)
EXTENDS Integers, FiniteSets

CONSTANTS MaxRuns,  \* bound on the number of runs
          Keep      \* WEEKLY_KEEP

ASSUME BackupAssumption == MaxRuns \in Nat /\ Keep \in Nat \ {0}

VARIABLES pc,        \* where each run stands
          snapshot,  \* weekly/bindings-<n>.sqlite
          checksum,  \* weekly/bindings-<n>.sqlite.sha256
          temporary, \* weekly/.bindings-<n>.sqlite.sha256.<pid>
          doomed,    \* the files of prune_by_count that are not removed yet
          drill      \* the restore drill in progress

vars == <<pc, snapshot, checksum, temporary, doomed, drill>>

\* Runs are numbered in the order in which they get the lock: the timestamp in the
\* name is taken under the lock, and mv keeps the time at which a file was written.
Runs == 1 .. MaxRuns

Busy == {"snapshot", "checksum", "renaming", "moving", "copying", "pruning", "orphans"}
NoDrill == [step |-> "none", file |-> 0, copy |-> "absent"]

TypeOK ==
  /\ pc \in [Runs -> Busy \cup {"new", "skipped", "created", "failed", "killed"}]
  /\ snapshot \in [Runs -> {"absent", "partial", "whole"}]
  /\ checksum \in [Runs -> BOOLEAN]
  /\ temporary \in [Runs -> BOOLEAN]
  /\ doomed \in SUBSET Runs
  /\ drill \in [step : {"none", "checksum", "sum", "install", "integrity", "passed"},
                file : Runs \cup {0}, copy : {"absent", "partial", "whole"}]

Init ==
  /\ pc = [n \in Runs |-> "new"]
  /\ snapshot = [n \in Runs |-> "absent"]
  /\ checksum = [n \in Runs |-> FALSE]
  /\ temporary = [n \in Runs |-> FALSE]
  /\ doomed = {}
  /\ drill = NoDrill

\* What find -name 'bindings-*.sqlite' lists.
Visible == {n \in Runs : snapshot[n] # "absent"}

Goto(n, from, to) == pc[n] = from /\ pc' = [pc EXCEPT ![n] = to]

Next1(n) == pc[n] = "new" /\ \A m \in 1 .. n - 1 : pc[m] # "new"

-------------------------------------------------------------------------------

\* flock -n; the lock is free again when its holder is gone, however it went.
Begin(n) ==
  /\ Next1(n)
  /\ \A m \in Runs : pc[m] \notin Busy
  /\ Goto(n, "new", "snapshot")
  /\ UNCHANGED <<snapshot, checksum, temporary, doomed, drill>>

Skip(n) ==
  /\ Next1(n)
  /\ \E m \in Runs : pc[m] \in Busy
  /\ Goto(n, "new", "skipped")
  /\ UNCHANGED <<snapshot, checksum, temporary, doomed, drill>>

\* quick_check, .backup and quick_check again.
Snapshot(n) ==
  /\ Goto(n, "snapshot", "checksum")
  /\ UNCHANGED <<snapshot, checksum, temporary, doomed, drill>>

WriteChecksum(n) ==
  /\ Goto(n, "checksum", "renaming")
  /\ temporary' = [temporary EXCEPT ![n] = TRUE]
  /\ UNCHANGED <<snapshot, checksum, doomed, drill>>

\* Mutant: the snapshot is moved before its checksum is in place.
RenameChecksumLast(n) ==
  /\ Goto(n, "renaming", "moving")
  /\ temporary' = [temporary EXCEPT ![n] = FALSE]
  /\ UNCHANGED <<snapshot, checksum, doomed, drill>>

RenameChecksum(n) ==
  /\ Goto(n, "renaming", "moving")
  /\ temporary' = [temporary EXCEPT ![n] = FALSE]
  /\ checksum' = [checksum EXCEPT ![n] = TRUE]
  /\ UNCHANGED <<snapshot, doomed, drill>>

\* mv across file systems: the target appears under its final name and is filled.
Move(n) ==
  /\ Goto(n, "moving", "copying")
  /\ snapshot' = [snapshot EXCEPT ![n] = "partial"]
  /\ UNCHANGED <<checksum, temporary, doomed, drill>>

\* Mutant: sort -n, which puts the oldest first.
NewestBut(files) == {n \in files : Cardinality({m \in files : m < n}) >= Keep}

\* files[keep] and beyond, newest first.
OldestBut(files) == {n \in files : Cardinality({m \in files : m > n}) >= Keep}

\* The copy is complete; prune_by_count makes its list.
Moved(n) ==
  /\ Goto(n, "copying", "pruning")
  /\ snapshot' = [snapshot EXCEPT ![n] = "whole"]
  /\ doomed' = OldestBut(Visible)
  /\ UNCHANGED <<checksum, temporary, drill>>

\* Mutant: the checksum is removed first.
PruneChecksumFirst(n) ==
  /\ pc[n] = "pruning"
  /\ \E m \in doomed :
       /\ \A k \in doomed : k <= m
       /\ \/ /\ checksum[m]
             /\ checksum' = [checksum EXCEPT ![m] = FALSE]
             /\ UNCHANGED <<snapshot, doomed>>
          \/ /\ ~checksum[m]
             /\ snapshot' = [snapshot EXCEPT ![m] = "absent"]
             /\ doomed' = doomed \ {m}
             /\ UNCHANGED checksum
  /\ UNCHANGED <<pc, temporary, drill>>

\* rm -f file file.sha256: the snapshot goes first, then its checksum.
Prune(n) ==
  /\ pc[n] = "pruning"
  /\ \E m \in doomed :
       /\ \A k \in doomed : k <= m
       /\ \/ /\ snapshot[m] # "absent"
             /\ snapshot' = [snapshot EXCEPT ![m] = "absent"]
             /\ UNCHANGED <<checksum, doomed>>
          \/ /\ snapshot[m] = "absent"
             /\ checksum' = [checksum EXCEPT ![m] = FALSE]
             /\ doomed' = doomed \ {m}
             /\ UNCHANGED snapshot
  /\ UNCHANGED <<pc, temporary, drill>>

Pruned(n) ==
  /\ doomed = {}
  /\ Goto(n, "pruning", "orphans")
  /\ UNCHANGED <<snapshot, checksum, temporary, doomed, drill>>

\* prune_orphan_checksums, one checksum at a time.
PruneOrphan(n) ==
  /\ pc[n] = "orphans"
  /\ \E m \in Runs :
       /\ checksum[m] /\ snapshot[m] = "absent"
       /\ checksum' = [checksum EXCEPT ![m] = FALSE]
  /\ UNCHANGED <<pc, snapshot, temporary, doomed, drill>>

End(n) ==
  /\ \A m \in Runs : checksum[m] => snapshot[m] # "absent"
  /\ Goto(n, "orphans", "created")
  /\ UNCHANGED <<snapshot, checksum, temporary, doomed, drill>>

\* A command fails: set -e, and the trap.  What mv has copied stays.
Fail(n) ==
  /\ pc[n] \in Busy
  /\ pc' = [pc EXCEPT ![n] = "failed"]
  /\ temporary' = [temporary EXCEPT ![n] = FALSE]
  /\ doomed' = {}
  /\ UNCHANGED <<snapshot, checksum, drill>>

\* SIGKILL: systemd's last word after TimeoutStartSec, or the OOM killer.
Kill(n) ==
  /\ pc[n] \in Busy
  /\ pc' = [pc EXCEPT ![n] = "killed"]
  /\ doomed' = {}
  /\ UNCHANGED <<snapshot, checksum, temporary, drill>>

-------------------------------------------------------------------------------
(* restore-drill.sh on one of the visible backups, while runs go on. *)

DrillStep(from, to) == drill.step = from /\ drill' = [drill EXCEPT !.step = to]
Rest == <<pc, snapshot, checksum, temporary, doomed>>

DrillBegins ==
  /\ drill.step \in {"none", "passed"}
  /\ \E n \in Visible : drill' = [step |-> "checksum", file |-> n, copy |-> "absent"]
  /\ UNCHANGED Rest

\* A backup without a checksum file is not summed.
DrillReadsChecksum ==
  /\ \/ DrillStep("checksum", "sum") /\ checksum[drill.file]
     \/ DrillStep("checksum", "install") /\ ~checksum[drill.file]
  /\ UNCHANGED Rest

\* The checksum is that of the whole snapshot; any mismatch ends the drill.
DrillSums ==
  /\ \/ DrillStep("sum", "install") /\ snapshot[drill.file] = "whole"
     \/ drill.step = "sum" /\ snapshot[drill.file] # "whole" /\ drill' = NoDrill
  /\ UNCHANGED Rest

DrillInstalls ==
  /\ drill.step = "install"
  /\ drill' = IF snapshot[drill.file] = "absent" THEN NoDrill
              ELSE [drill EXCEPT !.step = "integrity", !.copy = snapshot[drill.file]]
  /\ UNCHANGED Rest

\* integrity_check and the schema checks; a cut-off database may still pass them.
DrillChecks ==
  /\ \/ DrillStep("integrity", "passed")
     \/ drill.step = "integrity" /\ drill.copy = "partial" /\ drill' = NoDrill
  /\ UNCHANGED Rest

Drill ==
  DrillBegins \/ DrillReadsChecksum \/ DrillSums \/ DrillInstalls \/ DrillChecks

Run(n) ==
  \/ Begin(n) \/ Skip(n) \/ Snapshot(n) \/ WriteChecksum(n) \/ RenameChecksum(n)
  \/ Move(n) \/ Moved(n) \/ Prune(n) \/ Pruned(n) \/ PruneOrphan(n) \/ End(n)
  \/ Fail(n) \/ Kill(n)

Next == (\E n \in Runs : Run(n)) \/ Drill

Spec == Init /\ [][Next]_vars

-------------------------------------------------------------------------------

\* "A reader that enumerates *.sqlite can therefore never observe a missing
\* checksum", whatever runs are killed, and while old backups are removed.
NeverWithoutChecksum == \A n \in Visible : checksum[n]

\* A drill passes only on a complete copy, though it reads checksum and snapshot at
\* different times, some snapshots are partial, and others are being pruned.
DrillPassesOnlyWhole == drill.step = "passed" => drill.copy = "whole"

\* Once a run has reported success there is always a complete backup at least as new:
\* runs that fail or are killed later neither replace it nor push it out.
NewestSurvives ==
  \A n \in Runs : pc[n] = "created" => \E m \in n .. MaxRuns : snapshot[m] = "whole"

\* docs/operations.md: the snapshot is placed atomically, the *.sqlite becomes
\* visible by a rename at the end.  (It does not hold: mv copies from /run.)
PlacedAtomically == \A n \in Visible : snapshot[n] = "whole"
===============================================================================
