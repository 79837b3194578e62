------------------------------- MODULE Backups -------------------------------
(***************************************************************************)
(* One backup folder: the workbooks written into it, the copy of the       *)
(* photographs beside them, and what a run may remove (backup_run.py,      *)
(* media_backup.py).  The database goes on changing while a run reads it,  *)
(* a statement at a time, and a run can die between any two of its steps.  *)
(* A photograph is its rendition's id: a better copy of one has a new id.  *)
(***************************************************************************)
EXTENDS Integers, FiniteSets

CONSTANTS
    Keeps,          \* the values of --keep runs are started with
    ComeAndGo,      \* a photograph comes and goes in one run, or goes right before the prune
    MaxPhoto,       \* bound: the photograph ids ever given
    MaxEdit,        \* bound: the edits of anything else
    MaxRun          \* bound: the runs started

ASSUME BackupAssumption ==
    /\ Keeps \subseteq Nat \ {0} /\ ComeAndGo \in BOOLEAN
    /\ {MaxPhoto, MaxEdit, MaxRun} \subseteq Nat

VARIABLES
    live,        \* what the database holds: the photographs' rows, and the rest
    given,       \* the photograph ids given so far
    folder,      \* the workbooks in the folder
    copied,      \* the photographs whose files are in the copy
    run,         \* the run under way
    runs,        \* how many were started
    everProved   \* whether a run was ever proved

backupVars == <<live, given, folder, copied, run, runs, everProved>>

NoRun == [at |-> "none"]

Highest(S) == IF S = {} THEN 0 ELSE CHOOSE n \in S : \A k \in S : k <= n

\* _image_rows: how many rows there are, and the highest id.
ImageRows == <<Cardinality(live.photos), Highest(live.photos)>>

BackupsInit ==
    /\ live = [photos |-> {}, edit |-> 0]
    /\ given = 0
    /\ folder = {}
    /\ copied = {}
    /\ run = NoRun
    /\ runs = 0
    /\ everProved = FALSE

\* A photograph is added, deleted, or replaced by a better copy of itself.
PhotosChange(dropped, added) ==
    /\ (run # NoRun /\ ~ComeAndGo) =>
           run.at # "prune" /\ \A n \in dropped : n <= run.before
    /\ dropped \subseteq live.photos /\ dropped \cup added # {}
    /\ given + Cardinality(added) <= MaxPhoto
    /\ given' = given + Cardinality(added)
    /\ live' = [live EXCEPT !.photos = (@ \ dropped) \cup {given + n : n \in added}]
    /\ UNCHANGED <<folder, copied, run, runs, everProved>>

Edited ==
    /\ live.edit < MaxEdit
    /\ live' = [live EXCEPT !.edit = @ + 1]
    /\ UNCHANGED <<given, folder, copied, run, runs, everProved>>

StartRun(keep) ==
    /\ run = NoRun /\ runs < MaxRun
    /\ runs' = runs + 1
    /\ run' = [at |-> "export", keep |-> keep, rows |-> ImageRows, before |-> given, listed |-> {}, problems |-> FALSE]
    /\ UNCHANGED <<live, given, folder, copied, everProved>>

Proceeds(from, to) == run.at = from /\ run' = [run EXCEPT !.at = to]

\* One snapshot, written to a workbook of the run's own name.
Export ==
    /\ Proceeds("export", "list")
    /\ folder' = folder \cup {[stamp |-> runs, holds |-> live, proved |-> FALSE]}
    /\ UNCHANGED <<live, given, copied, runs, everProved>>

List ==
    /\ run.at = "list"
    /\ run' = [run EXCEPT !.at = "copy", !.listed = live.photos]
    /\ UNCHANGED <<live, given, folder, copied, runs, everProved>>

\* A photograph deleted since has no file to copy.
CopyMedia ==
    /\ run.at = "copy"
    /\ copied' = copied \cup (run.listed \cap live.photos)
    /\ run' = [run EXCEPT !.at = "prove", !.problems = ~(run.listed \subseteq copied')]
    /\ UNCHANGED <<live, given, folder, runs, everProved>>

Ours == CHOOSE w \in folder : w.stamp = runs
Restores(w) == w.holds = live

\* The workbook is loaded into a database of its own and compared with live.
Prove ==
    /\ run.at = "prove"
    /\ run' = [run EXCEPT !.at = "check", !.problems = @ \/ ~Restores(Ours)]
    /\ UNCHANGED <<live, given, folder, copied, runs, everProved>>

\* Mutant: a run that was not proved tidies all the same.
TidiesAnyway(problems) == TRUE

Tidies(problems) == ~problems

CheckMedia ==
    /\ run.at = "check"
    /\ LET problems == run.problems \/ ~(live.photos \subseteq copied) IN
       /\ run' = IF Tidies(problems) THEN [run EXCEPT !.at = "decide"] ELSE NoRun
       /\ everProved' = (everProved \/ ~problems)
       /\ folder' = IF problems THEN folder ELSE (folder \ {Ours}) \cup {[Ours EXCEPT !.proved = TRUE]}
    /\ UNCHANGED <<live, given, copied, runs>>

\* Mutant: the photographs are not looked at again.
RowsBelieved == TRUE

RowsUnchanged == ImageRows = run.rows

Decide ==
    /\ Proceeds("decide", IF run.keep = 1 /\ RowsUnchanged THEN "prune" ELSE "tidy")
    /\ UNCHANGED <<live, given, folder, copied, runs, everProved>>

\* Nothing is judged obsolete beside no photographs, or in a copy that lacks one.
Prune ==
    /\ Proceeds("prune", "tidy")
    /\ copied' = IF live.photos = {} \/ ~(live.photos \subseteq copied) THEN copied ELSE live.photos
    /\ UNCHANGED <<live, given, folder, runs, everProved>>

\* The older workbooks that are not among the newest kept, the newest first.
Surplus ==
    {w \in folder : w.stamp # runs /\
        Cardinality({v \in folder : v.stamp > w.stamp /\ v.stamp # runs}) >= run.keep - 1}

RemoveOlder ==
    /\ run.at = "tidy"
    /\ \/ Surplus = {} /\ run' = NoRun /\ UNCHANGED folder
       \/ /\ \E w \in Surplus :
                /\ \A v \in Surplus : v.stamp <= w.stamp
                /\ folder' = folder \ {w}
          /\ UNCHANGED run
    /\ UNCHANGED <<live, given, copied, runs, everProved>>

\* The command dies; what it wrote and removed so far stays.
RunDies ==
    /\ run # NoRun
    /\ run' = NoRun
    /\ UNCHANGED <<live, given, folder, copied, runs, everProved>>

BackupsNext ==
    \/ \E dropped \in SUBSET live.photos, added \in {{}, {1}} :
           Cardinality(dropped) <= 1 /\ PhotosChange(dropped, added)
    \/ Edited
    \/ \E keep \in Keeps : StartRun(keep)
    \/ Export \/ List \/ CopyMedia \/ Prove \/ CheckMedia
    \/ Decide \/ Prune \/ RemoveOlder \/ RunDies

BackupsSpec == BackupsInit /\ [][BackupsNext]_backupVars

-----------------------------------------------------------------------------
\* However runs fail, die and overlap edits, the folder holds a workbook that
\* was proved from the first one on (backup_run.py: "So the folder always
\* holds at least one workbook that was proved").
ProvedStays == everProved => \E w \in folder : w.proved

Proved == {w \in folder : w.proved}

\* The newest workbook proved restores whole: every photograph its rows name
\* is in the copy, whatever became of them in the database since.
NewestRestoresWhole ==
    \A w \in Proved : (\A v \in Proved : v.stamp <= w.stamp) => w.holds.photos \subseteq copied

\* There is always a workbook to restore from once there was one, and it
\* restores with its photographs.
BackupsHold == ProvedStays /\ NewestRestoresWhole

-----------------------------------------------------------------------------
(* The inductive invariant behind BackupsHold.                             *)

Unproved == {"list", "copy", "prove", "check"}
ProvedOnce == {"decide", "prune", "tidy"}

BackupTypeOK ==
    /\ given \in Nat /\ runs \in Nat /\ everProved \in BOOLEAN
    /\ live = [photos |-> live.photos, edit |-> live.edit] /\ live.photos \subseteq 1..given
    /\ run # NoRun =>
        /\ run = [at |-> run.at, keep |-> run.keep, rows |-> run.rows, before |-> run.before,
                  listed |-> run.listed, problems |-> run.problems]
        /\ run.at \in {"export"} \cup Unproved \cup ProvedOnce
        /\ run.before \in 0..given /\ run.problems \in BOOLEAN /\ runs >= 1
    /\ \A w \in folder :
        /\ w = [stamp |-> w.stamp, holds |-> w.holds, proved |-> w.proved]
        /\ w.stamp \in 1..runs /\ w.proved \in BOOLEAN
        /\ w.holds.photos \subseteq 1..given

\* A run writes one workbook, which is not proved before the run is.
OneWorkbook ==
    /\ \A v, w \in folder : v.stamp = w.stamp => v = w
    /\ run.at = "export" => \A w \in folder : w.stamp < runs
    /\ run.at \in Unproved => \E w \in folder : w.stamp = runs /\ ~w.proved
    /\ run.at \in ProvedOnce => \E w \in folder : w.stamp = runs /\ w.proved

\* What the run's workbook holds, as far as the run got with copying it.
CopyGetsThere ==
    \A w \in folder : w.stamp = runs =>
        /\ run.at = "copy" => w.holds.photos \cap live.photos \subseteq run.listed
        /\ run.at = "prove" /\ ~run.problems => w.holds.photos \cap live.photos \subseteq copied
        /\ run.at = "check" /\ ~run.problems => w.holds.photos \subseteq copied

\* The rows there were at the start tell whether any has come or gone since.
RowsTell ==
    /\ run # NoRun => \E before \in SUBSET (1..run.before) :
        /\ run.rows = <<Cardinality(before), Highest(before)>>
        /\ live.photos \cap (1..run.before) \subseteq before
        /\ given > run.before => given \in live.photos
        /\ \A w \in folder : w.stamp = runs =>
                w.holds.photos \cap (1..run.before) \subseteq before
    /\ run.at = "prune" =>
        \A w \in folder : w.stamp = runs => w.holds.photos \subseteq live.photos

BackupInv ==
    /\ BackupTypeOK /\ OneWorkbook /\ CopyGetsThere /\ ProvedStays
    /\ ~ComeAndGo => RowsTell /\ NewestRestoresWhole
=============================================================================
