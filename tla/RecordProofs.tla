------------------------------ MODULE RecordProofs ------------------------------
(*****************************************************************************)
(* The nightly backups, proved for any number of runs and photographs: a     *)
(* backup once proved is never lost, and a proved backup is whole.           *)
(* And the photographs filed on items, proved for any number of requests:    *)
(* one primary each, places apart, and no primary taken unasked.             *)
(* And the records of what was bought, proved for any number of clerks:      *)
(* names that differ, numbers that differ, and a merge that collides with    *)
(* nothing.                                                                  *)
(* And the records of an item, proved for any number of requests and a lot   *)
(* of any cost split in any number of pieces: histories that lead to where   *)
(* the row is, and pieces that carry their lot to the cent.                  *)
(* And the databases copied and the workbooks loaded back, proved for any    *)
(* tables in foreign-key order: links that hold, and what was there.         *)
(*****************************************************************************)
EXTENDS Backups, PhotoLinks, Purchases, ItemRecords, Restores, FiniteSetTheorems,
        FunctionTheorems, SequenceTheorems, WellFoundedInduction, TLAPS

-----------------------------------------------------------------------------
(* Numbers.                                                                  *)

\* A finite set of numbers has a least one and a greatest one.
LEMMA LeastOf ==
    ASSUME NEW T \in SUBSET Int, IsFiniteSet(T), T # {}
    PROVE  \E m \in T : \A n \in T : m <= n
<1> DEFINE Below(m) == {n \in T : n < m}
           F == {Below(m) : m \in T}
<1>1. F \subseteq FiniteSubsetsOf(T) /\ F # {}
  <2>1. \A m \in T : IsFiniteSet(Below(m)) /\ Below(m) \subseteq T
    BY FS_Subset
  <2> QED BY <2>1 DEF FiniteSubsetsOf
<1>2. PICK x \in F : \A y \in F : ~(<<y, x>> \in StrictSubsetOrdering(T))
  BY <1>1, FS_StrictSubsetOrderingWellFounded, WFMin
<1>3. PICK m \in T : x = Below(m)
  OBVIOUS
<1>4. ASSUME NEW n \in T, ~(m <= n)
      PROVE  FALSE
  <2>1. n < m /\ m \in Int /\ n \in Int
    BY <1>4
  <2>2. \A k \in T : k \in Int /\ (k < n => k < m)
    BY <2>1
  <2>3. Below(n) \subseteq Below(m)
    BY <2>2
  <2>4. n \in Below(m) /\ n \notin Below(n)
    BY <2>1
  <2>5. <<Below(n), Below(m)>> \in StrictSubsetOrdering(T)
    BY <2>3, <2>4 DEF StrictSubsetOrdering
  <2> QED BY <1>2, <1>3, <2>5
<1> QED BY <1>3, <1>4

LEMMA GreatestOf ==
    ASSUME NEW T \in SUBSET Int, IsFiniteSet(T), T # {}
    PROVE  \E m \in T : \A n \in T : n <= m
<1> DEFINE Above(m) == {n \in T : m < n}
           F == {Above(m) : m \in T}
<1>1. F \subseteq FiniteSubsetsOf(T) /\ F # {}
  <2>1. \A m \in T : IsFiniteSet(Above(m)) /\ Above(m) \subseteq T
    BY FS_Subset
  <2> QED BY <2>1 DEF FiniteSubsetsOf
<1>2. PICK x \in F : \A y \in F : ~(<<y, x>> \in StrictSubsetOrdering(T))
  BY <1>1, FS_StrictSubsetOrderingWellFounded, WFMin
<1>3. PICK m \in T : x = Above(m)
  OBVIOUS
<1>4. ASSUME NEW n \in T, ~(n <= m)
      PROVE  FALSE
  <2>1. m < n /\ m \in Int /\ n \in Int
    BY <1>4
  <2>2. \A k \in T : k \in Int /\ (n < k => m < k)
    BY <2>1
  <2>3. Above(n) \subseteq Above(m)
    BY <2>2
  <2>4. n \in Above(m) /\ n \notin Above(n)
    BY <2>1
  <2>5. <<Above(n), Above(m)>> \in StrictSubsetOrdering(T)
    BY <2>3, <2>4 DEF StrictSubsetOrdering
  <2> QED BY <1>2, <1>3, <2>5
<1> QED BY <1>3, <1>4

-----------------------------------------------------------------------------
(* Backups: what two numbers tell of the photographs' rows.                *)

LEMMA HighestIs ==
    ASSUME NEW g \in Nat, NEW P \in SUBSET (1..g)
    PROVE  /\ IsFiniteSet(P) /\ Highest(P) \in Nat /\ Highest(P) <= g
           /\ \A n \in P : n <= Highest(P)
<1>1. IsFiniteSet(1..g)
  BY FS_Interval
<1>2. IsFiniteSet(P)
  BY <1>1, FS_Subset
<1>3. CASE P = {}
  BY <1>2, <1>3 DEF Highest
<1>4. CASE P # {}
  <2>1. P \in SUBSET Nat
    OBVIOUS
  <2>2. \E n \in P : \A k \in P : k <= n
    BY <1>2, <1>4, <2>1, GreatestOf
  <2>3. Highest(P) \in P /\ \A k \in P : k <= Highest(P)
    BY <1>4, <2>2 DEF Highest
  <2>4. Highest(P) \in 1..g
    BY <2>3
  <2> QED BY <1>2, <2>3, <2>4
<1> QED BY <1>3, <1>4

\* Ids are not given twice, so a count and a highest id that did not change
\* tell that no photograph has come or gone, if those that came are still there.
LEMMA RowsToldAre ==
    ASSUME NEW g \in Nat, NEW b \in 0..g, NEW P \in SUBSET (1..g), NEW Q \in SUBSET (1..b),
           <<Cardinality(P), Highest(P)>> = <<Cardinality(Q), Highest(Q)>>,
           P \cap (1..b) \subseteq Q, g > b => g \in P
    PROVE  P = Q /\ g = b
<1>1. Cardinality(P) = Cardinality(Q) /\ Highest(P) = Highest(Q)
  OBVIOUS
<1>2. b \in Nat /\ Highest(Q) <= b /\ Highest(Q) \in Nat /\ IsFiniteSet(Q)
  BY HighestIs
<1>3. \A n \in P : n <= Highest(P)
  BY HighestIs
<1>4. g = b
  BY <1>1, <1>2, <1>3
<1>5. P \in SUBSET Q
  BY <1>4
<1> QED BY <1>1, <1>2, <1>4, <1>5, FS_Subset

-----------------------------------------------------------------------------
(* The workbook of the run, and what a step leaves as it was.              *)

LEMMA RunIs ==
    ASSUME BackupTypeOK
    PROVE  /\ run # NoRun <=> run.at \in {"export"} \cup Unproved \cup ProvedOnce
           /\ run = NoRun => run.at = "none"
BY DEF BackupTypeOK, NoRun, Unproved, ProvedOnce

LEMMA OursIs ==
    ASSUME BackupTypeOK, OneWorkbook, run.at \in Unproved \cup ProvedOnce
    PROVE  /\ Ours \in folder /\ Ours.stamp = runs
           /\ \A w \in folder : w.stamp = runs => w = Ours
           /\ run.at \in Unproved => ~Ours.proved
           /\ run.at \in ProvedOnce => Ours.proved
<1>1. \E w \in folder : w.stamp = runs
  BY DEF OneWorkbook
<1>2. Ours \in folder /\ Ours.stamp = runs
  BY <1>1 DEF Ours
<1>3. \A w \in folder : w.stamp = runs => w = Ours
  BY <1>2 DEF OneWorkbook
<1> QED BY <1>2, <1>3 DEF OneWorkbook

LEMMA BackupsStart ==
    ASSUME BackupsInit
    PROVE  BackupInv
<1>1. BackupTypeOK
  BY DEF BackupsInit, BackupTypeOK, NoRun
<1>2. OneWorkbook /\ CopyGetsThere /\ ProvedStays
  BY DEF BackupsInit, OneWorkbook, CopyGetsThere, ProvedStays, NoRun, Unproved, ProvedOnce
<1>3. RowsTell /\ NewestRestoresWhole
  BY DEF BackupsInit, RowsTell, NewestRestoresWhole, Proved, NoRun
<1> QED BY <1>1, <1>2, <1>3 DEF BackupInv

-----------------------------------------------------------------------------
(* One lemma per action.                                                   *)

LEMMA PhotosChangeKeeps ==
    ASSUME BackupInv, NEW dropped \in SUBSET live.photos, NEW added \in {{}, {1}},
           PhotosChange(dropped, added)
    PROVE  BackupInv'
<1> DEFINE new == {given + n : n \in added}
<1>1. /\ BackupTypeOK /\ OneWorkbook /\ CopyGetsThere /\ ProvedStays
      /\ folder' = folder /\ copied' = copied /\ run' = run /\ runs' = runs
      /\ everProved' = everProved
  BY DEF BackupInv, PhotosChange
<1>2. Cardinality(added) = IF added = {} THEN 0 ELSE 1
  BY FS_EmptySet, FS_Singleton
<1>3. given \in Nat /\ given' \in Nat /\ given <= given'
      /\ \/ added = {} /\ given' = given /\ new = {}
         \/ added = {1} /\ given' = given + 1 /\ new = {given'}
  BY <1>1, <1>2 DEF PhotosChange, BackupTypeOK
<1>4. /\ live'.photos = (live.photos \ dropped) \cup new
      /\ live' = [photos |-> live'.photos, edit |-> live'.edit]
  BY <1>1 DEF PhotosChange, BackupTypeOK
<1>5. live.photos \subseteq 1..given /\ live'.photos \subseteq 1..given'
  BY <1>1, <1>3, <1>4 DEF BackupTypeOK
<1> HIDE DEF new
<1>6. \A n : n \in 1..given => n \in 1..given' /\ n \notin new
  BY <1>3
<1>7. BackupTypeOK'
  <2>1. run' # NoRun' =>
        /\ run' = [at |-> run'.at, keep |-> run'.keep, rows |-> run'.rows, before |-> run'.before,
                  listed |-> run'.listed, problems |-> run'.problems]
        /\ run'.at \in {"export"} \cup Unproved \cup ProvedOnce
        /\ run'.before \in 0..given' /\ run'.problems \in BOOLEAN /\ runs' >= 1
    BY <1>1, <1>3 DEF BackupTypeOK, NoRun
  <2>2. \A w \in folder' :
        /\ w = [stamp |-> w.stamp, holds |-> w.holds, proved |-> w.proved]
        /\ w.stamp \in 1..runs' /\ w.proved \in BOOLEAN
        /\ w.holds.photos \subseteq 1..given'
    BY <1>1, <1>6 DEF BackupTypeOK
  <2>3. runs' \in Nat /\ everProved' \in BOOLEAN
    BY <1>1 DEF BackupTypeOK
  <2> QED BY <1>3, <1>4, <1>5, <2>1, <2>2, <2>3 DEF BackupTypeOK
<1>8. OneWorkbook'
  BY <1>1 DEF OneWorkbook
<1>9. \A w \in folder : w.holds.photos \cap live'.photos \subseteq w.holds.photos \cap live.photos
  BY <1>1, <1>4, <1>6 DEF BackupTypeOK
<1>10. CopyGetsThere'
  BY <1>1, <1>9 DEF CopyGetsThere
<1>11. ProvedStays'
  BY <1>1 DEF ProvedStays
<1>12. ASSUME ~ComeAndGo
       PROVE  RowsTell' /\ NewestRestoresWhole'
  <2>1. RowsTell /\ NewestRestoresWhole
    BY <1>12 DEF BackupInv
  <2>2. NewestRestoresWhole'
    BY <1>1, <2>1 DEF NewestRestoresWhole, Proved
  <2>3. ASSUME run # NoRun
        PROVE  /\ run.at # "prune"
               /\ \E before \in SUBSET (1..run.before) :
                    /\ run.rows = <<Cardinality(before), Highest(before)>>
                    /\ live'.photos \cap (1..run.before) \subseteq before
                    /\ given' > run.before => given' \in live'.photos
                    /\ \A w \in folder : w.stamp = runs =>
                            w.holds.photos \cap (1..run.before) \subseteq before
    <3>1. run.at # "prune" /\ \A n \in dropped : n <= run.before
      BY <1>12, <2>3 DEF PhotosChange
    <3>2. PICK before \in SUBSET (1..run.before) :
            /\ run.rows = <<Cardinality(before), Highest(before)>>
            /\ live.photos \cap (1..run.before) \subseteq before
            /\ given > run.before => given \in live.photos
            /\ \A w \in folder : w.stamp = runs =>
                    w.holds.photos \cap (1..run.before) \subseteq before
      BY <2>1, <2>3 DEF RowsTell
    <3>3. run.before \in 0..given /\ \A n \in 1..run.before : n \in 1..given
      BY <1>1, <1>3, <2>3 DEF BackupTypeOK
    <3>4. live'.photos \cap (1..run.before) \subseteq before
      BY <1>4, <1>6, <3>2, <3>3
    <3>5. given' > run.before => given' \in live'.photos
      <4>1. CASE added = {1}
        BY <1>3, <1>4, <4>1
      <4>2. CASE added = {}
        <5>1. given' = given /\ (given > run.before => given \notin dropped)
          BY <1>3, <3>1, <3>3, <4>2
        <5> QED BY <1>4, <3>2, <5>1
      <4> QED BY <4>1, <4>2
    <3> QED BY <3>1, <3>2, <3>4, <3>5
  <2>4. RowsTell'
    <3>1. NoRun' = NoRun /\ (run = NoRun => run.at # "prune")
      BY DEF NoRun
    <3> QED BY <1>1, <2>3, <3>1 DEF RowsTell
  <2> QED BY <2>2, <2>4
<1> QED BY <1>7, <1>8, <1>10, <1>11, <1>12 DEF BackupInv

\* A run that moves on keeps what it knows.
LEMMA RunMoves ==
    ASSUME BackupTypeOK, run # NoRun, NEW to \in Unproved \cup ProvedOnce, NEW r,
           r = [run EXCEPT !.at = to]
    PROVE  /\ r = [at |-> r.at, keep |-> r.keep, rows |-> r.rows, before |-> r.before,
                   listed |-> r.listed, problems |-> r.problems]
           /\ r.at = to /\ r.rows = run.rows /\ r.before = run.before
           /\ r.before \in 0..given /\ r.problems \in BOOLEAN /\ r # NoRun
           /\ r.problems = run.problems
<1>1. /\ run = [at |-> run.at, keep |-> run.keep, rows |-> run.rows, before |-> run.before,
                  listed |-> run.listed, problems |-> run.problems]
      /\ run.before \in 0..given /\ run.problems \in BOOLEAN
  BY DEF BackupTypeOK
<1>2. r = [at |-> to, keep |-> run.keep, rows |-> run.rows, before |-> run.before,
           listed |-> run.listed, problems |-> run.problems]
  BY <1>1
<1>3. r # NoRun
  <2>1. NoRun.at = "none" /\ to # "none"
    BY DEF NoRun, Unproved, ProvedOnce
  <2> QED BY <1>2, <2>1
<1> QED BY <1>1, <1>2, <1>3

LEMMA EditedKeeps ==
    ASSUME BackupInv, Edited
    PROVE  BackupInv'
<1>1. /\ BackupTypeOK /\ folder' = folder /\ copied' = copied /\ run' = run /\ runs' = runs
      /\ everProved' = everProved /\ given' = given
      /\ live' = [live EXCEPT !.edit = @ + 1]
  BY DEF BackupInv, Edited
<1>2. live'.photos = live.photos /\ live' = [photos |-> live'.photos, edit |-> live'.edit]
  BY <1>1 DEF BackupTypeOK
<1>3. BackupTypeOK'
  BY <1>1, <1>2 DEF BackupTypeOK, NoRun
<1>4. OneWorkbook' /\ ProvedStays'
  BY <1>1 DEF BackupInv, OneWorkbook, ProvedStays
<1>5. CopyGetsThere'
  BY <1>1, <1>2 DEF BackupInv, CopyGetsThere
<1>6. ~ComeAndGo => RowsTell' /\ NewestRestoresWhole'
  BY <1>1, <1>2 DEF BackupInv, RowsTell, NewestRestoresWhole, Proved, NoRun
<1> QED BY <1>3, <1>4, <1>5, <1>6 DEF BackupInv

LEMMA StartRunKeeps ==
    ASSUME BackupInv, NEW keep \in Keeps, StartRun(keep)
    PROVE  BackupInv'
<1>1. /\ BackupTypeOK /\ OneWorkbook /\ folder' = folder /\ copied' = copied /\ live' = live
      /\ runs' = runs + 1 /\ everProved' = everProved /\ given' = given
      /\ run' = [at |-> "export", keep |-> keep, rows |-> ImageRows, before |-> given,
                 listed |-> {}, problems |-> FALSE]
  BY DEF BackupInv, StartRun
<1>2. /\ run'.at = "export" /\ run'.before = given /\ run'.rows = ImageRows
      /\ run'.listed = {} /\ run'.problems = FALSE /\ run'.keep = keep /\ run' # NoRun'
  BY <1>1 DEF NoRun
<1>3. runs \in Nat /\ \A w \in folder : w.stamp \in 1..runs /\ w.stamp \in 1..runs' /\ w.stamp < runs'
      /\ w.stamp # runs'
  BY <1>1 DEF BackupTypeOK
<1>4. BackupTypeOK'
  BY <1>1, <1>2, <1>3 DEF BackupTypeOK
<1>5. OneWorkbook'
  BY <1>1, <1>2, <1>3 DEF OneWorkbook, Unproved, ProvedOnce
<1>6. CopyGetsThere' /\ ProvedStays'
  BY <1>1, <1>3 DEF BackupInv, CopyGetsThere, ProvedStays
<1>7. RowsTell'
  <2>1. live.photos \in SUBSET (1..given) /\ ~(given > given)
    BY <1>1 DEF BackupTypeOK
  <2> QED BY <1>1, <1>2, <1>3, <2>1 DEF RowsTell, ImageRows
<1>8. ~ComeAndGo => NewestRestoresWhole'
  BY <1>1 DEF BackupInv, NewestRestoresWhole, Proved
<1> QED BY <1>4, <1>5, <1>6, <1>7, <1>8 DEF BackupInv

LEMMA ExportKeeps ==
    ASSUME BackupInv, Export
    PROVE  BackupInv'
<1> DEFINE new == [stamp |-> runs, holds |-> live, proved |-> FALSE]
<1>1. /\ BackupTypeOK /\ OneWorkbook /\ folder' = folder \cup {new} /\ copied' = copied
      /\ live' = live /\ runs' = runs /\ everProved' = everProved /\ given' = given
      /\ run.at = "export" /\ run' = [run EXCEPT !.at = "list"]
  BY DEF BackupInv, Export, Proceeds
<1>2. run # NoRun /\ \A w \in folder : w.stamp < runs /\ w.stamp # runs /\ w.stamp \in 1..runs
  BY <1>1, RunIs DEF OneWorkbook, BackupTypeOK
<1>3. /\ run' = [at |-> run'.at, keep |-> run'.keep, rows |-> run'.rows, before |-> run'.before,
                  listed |-> run'.listed, problems |-> run'.problems]
      /\ run'.at = "list" /\ run'.rows = run.rows /\ run'.before = run.before
      /\ run'.before \in 0..given /\ run'.problems \in BOOLEAN /\ run' # NoRun
  BY <1>1, <1>2, RunMoves DEF Unproved
<1>4. /\ new.stamp = runs /\ new.holds = live /\ ~new.proved /\ new.proved \in BOOLEAN
      /\ new = [stamp |-> new.stamp, holds |-> new.holds, proved |-> new.proved]
  OBVIOUS
<1> HIDE DEF new
<1>5. runs \in Nat /\ runs \in 1..runs
  BY <1>1, <1>2 DEF BackupTypeOK
<1>6. BackupTypeOK'
  BY <1>1, <1>3, <1>4, <1>5 DEF BackupTypeOK, Unproved, NoRun
<1>7. OneWorkbook'
  BY <1>1, <1>2, <1>3, <1>4 DEF OneWorkbook, Unproved, ProvedOnce
<1>8. CopyGetsThere' /\ ProvedStays'
  BY <1>1, <1>3 DEF BackupInv, CopyGetsThere, ProvedStays
<1>9. ~ComeAndGo => RowsTell'
  BY <1>1, <1>2, <1>3, <1>4 DEF BackupInv, RowsTell
<1>10. ~ComeAndGo => NewestRestoresWhole'
  BY <1>1, <1>4 DEF BackupInv, NewestRestoresWhole, Proved
<1> QED BY <1>6, <1>7, <1>8, <1>9, <1>10 DEF BackupInv

LEMMA ListKeeps ==
    ASSUME BackupInv, List
    PROVE  BackupInv'
<1>1. /\ BackupTypeOK /\ OneWorkbook /\ folder' = folder /\ copied' = copied
      /\ live' = live /\ runs' = runs /\ everProved' = everProved /\ given' = given
      /\ run.at = "list" /\ run' = [run EXCEPT !.at = "copy", !.listed = live.photos]
  BY DEF BackupInv, List
<1>2. run # NoRun
  BY <1>1, RunIs DEF Unproved
<1>3. /\ run' = [at |-> run'.at, keep |-> run'.keep, rows |-> run'.rows, before |-> run'.before,
                  listed |-> run'.listed, problems |-> run'.problems]
      /\ run'.at = "copy" /\ run'.rows = run.rows /\ run'.before = run.before
      /\ run'.before \in 0..given /\ run'.problems \in BOOLEAN /\ run' # NoRun
  <2>1. /\ run = [at |-> run.at, keep |-> run.keep, rows |-> run.rows, before |-> run.before,
                   listed |-> run.listed, problems |-> run.problems]
        /\ run.before \in 0..given /\ run.problems \in BOOLEAN
    BY <1>1, <1>2 DEF BackupTypeOK
  <2>2. run' = [at |-> "copy", keep |-> run.keep, rows |-> run.rows, before |-> run.before,
                listed |-> live.photos, problems |-> run.problems]
    BY <1>1, <2>1
  <2>3. run' # NoRun
    BY <2>2 DEF NoRun
  <2> QED BY <2>1, <2>2, <2>3
<1>4. run'.listed = live.photos
  BY <1>1, <1>2 DEF BackupTypeOK
<1>5. BackupTypeOK'
  BY <1>1, <1>2, <1>3 DEF BackupTypeOK, Unproved, NoRun
<1>6. OneWorkbook'
  BY <1>1, <1>3 DEF OneWorkbook, Unproved, ProvedOnce
<1>7. CopyGetsThere' /\ ProvedStays'
  BY <1>1, <1>3, <1>4 DEF BackupInv, CopyGetsThere, ProvedStays
<1>8. ~ComeAndGo => RowsTell'
  BY <1>1, <1>2, <1>3 DEF BackupInv, RowsTell
<1>9. ~ComeAndGo => NewestRestoresWhole'
  BY <1>1 DEF BackupInv, NewestRestoresWhole, Proved
<1> QED BY <1>5, <1>6, <1>7, <1>8, <1>9 DEF BackupInv

LEMMA CopyMediaKeeps ==
    ASSUME BackupInv, CopyMedia
    PROVE  BackupInv'
<1> DEFINE bad == ~(run.listed \subseteq copied')
<1>1. /\ BackupTypeOK /\ OneWorkbook /\ folder' = folder
      /\ copied' = copied \cup (run.listed \cap live.photos)
      /\ live' = live /\ runs' = runs /\ everProved' = everProved /\ given' = given
      /\ run.at = "copy" /\ run' = [run EXCEPT !.at = "prove", !.problems = bad]
  BY DEF BackupInv, CopyMedia
<1>2. run # NoRun /\ bad \in BOOLEAN
  BY <1>1, RunIs DEF Unproved
<1>3. /\ run' = [at |-> run'.at, keep |-> run'.keep, rows |-> run'.rows, before |-> run'.before,
                  listed |-> run'.listed, problems |-> run'.problems]
      /\ run'.at = "prove" /\ run'.rows = run.rows /\ run'.before = run.before
      /\ run'.before \in 0..given /\ run'.problems \in BOOLEAN /\ run' # NoRun
  <2> HIDE DEF bad
  <2>1. /\ run = [at |-> run.at, keep |-> run.keep, rows |-> run.rows, before |-> run.before,
                   listed |-> run.listed, problems |-> run.problems]
        /\ run.before \in 0..given
    BY <1>1, <1>2 DEF BackupTypeOK
  <2>2. PICK p \in BOOLEAN : p = bad
    BY <1>2
  <2>3. run' = [at |-> "prove", keep |-> run.keep, rows |-> run.rows, before |-> run.before,
                listed |-> run.listed, problems |-> p]
    BY <1>1, <2>1, <2>2
  <2>4. run' # NoRun
    BY <2>3 DEF NoRun
  <2> QED BY <2>1, <2>2, <2>3, <2>4
<1>4. run'.problems = bad
  BY <1>1, <1>2 DEF BackupTypeOK
<1>5. BackupTypeOK'
  BY <1>1, <1>2, <1>3 DEF BackupTypeOK, Unproved, NoRun
<1>6. OneWorkbook'
  BY <1>1, <1>3 DEF OneWorkbook, Unproved, ProvedOnce
<1>7. CopyGetsThere'
  BY <1>1, <1>3, <1>4 DEF BackupInv, CopyGetsThere
<1>8. ProvedStays'
  BY <1>1 DEF BackupInv, ProvedStays
<1>9. ~ComeAndGo => RowsTell'
  BY <1>1, <1>2, <1>3 DEF BackupInv, RowsTell
<1>10. ~ComeAndGo => NewestRestoresWhole'
  BY <1>1 DEF BackupInv, NewestRestoresWhole, Proved
<1> QED BY <1>5, <1>6, <1>7, <1>8, <1>9, <1>10 DEF BackupInv

\* What is compared equal now is what the workbook holds.
LEMMA ProveKeeps ==
    ASSUME BackupInv, Prove
    PROVE  BackupInv'
<1> DEFINE bad == run.problems \/ ~Restores(Ours)
<1>1. /\ BackupTypeOK /\ OneWorkbook /\ folder' = folder /\ copied' = copied
      /\ live' = live /\ runs' = runs /\ everProved' = everProved /\ given' = given
      /\ run.at = "prove" /\ run' = [run EXCEPT !.at = "check", !.problems = bad]
  BY DEF BackupInv, Prove
<1>2. run # NoRun /\ run.problems \in BOOLEAN
  BY <1>1, RunIs DEF Unproved, BackupTypeOK
<1>20. bad \in BOOLEAN
  BY <1>2
<1>3. /\ run' = [at |-> run'.at, keep |-> run'.keep, rows |-> run'.rows, before |-> run'.before,
                  listed |-> run'.listed, problems |-> run'.problems]
      /\ run'.at = "check" /\ run'.rows = run.rows /\ run'.before = run.before
      /\ run'.before \in 0..given /\ run'.problems \in BOOLEAN /\ run' # NoRun
  <2>1. "check" \in Unproved /\ \E p \in BOOLEAN : run' = [run EXCEPT !.at = "check", !.problems = p]
    <3> HIDE DEF bad
    <3> QED BY <1>1, <1>20 DEF Unproved
  <2>2. BackupTypeOK /\ run # NoRun
    BY <1>1, <1>2
  <2>3. PICK p \in BOOLEAN : run' = [run EXCEPT !.at = "check", !.problems = p]
    BY <2>1
  <2> HIDE DEF bad
  <2>4. /\ run = [at |-> run.at, keep |-> run.keep, rows |-> run.rows, before |-> run.before,
                   listed |-> run.listed, problems |-> run.problems]
        /\ run.before \in 0..given
    BY <2>2 DEF BackupTypeOK
  <2>5. run' = [at |-> "check", keep |-> run.keep, rows |-> run.rows, before |-> run.before,
                listed |-> run.listed, problems |-> p]
    BY <2>3, <2>4
  <2>6. run' # NoRun
    BY <2>5 DEF NoRun
  <2> QED BY <2>3, <2>4, <2>5, <2>6
<1>4. run'.problems = bad
  <2> HIDE DEF bad
  <2> QED BY <1>1, <1>2 DEF BackupTypeOK
<1>5. BackupTypeOK'
  BY <1>1, <1>2, <1>3 DEF BackupTypeOK, Unproved, NoRun
<1>6. OneWorkbook'
  BY <1>1, <1>3 DEF OneWorkbook, Unproved, ProvedOnce
<1>7. CopyGetsThere'
  <2>1. \A w \in folder : w.stamp = runs => w = Ours
    BY <1>1, OursIs DEF Unproved
  <2>2. ASSUME NEW w \in folder, w.stamp = runs, ~bad
        PROVE  w.holds.photos \subseteq copied
    <3>1. w.holds = live /\ ~run.problems
      BY <2>1, <2>2 DEF Restores
    <3>2. w.holds.photos \cap live.photos \subseteq copied
      BY <1>1, <2>2, <3>1 DEF BackupInv, CopyGetsThere
    <3> QED BY <3>1, <3>2
  <2> HIDE DEF bad
  <2> QED BY <1>1, <1>3, <1>4, <2>2 DEF CopyGetsThere
<1>8. ProvedStays'
  BY <1>1 DEF BackupInv, ProvedStays
<1>9. ~ComeAndGo => RowsTell'
  BY <1>1, <1>2, <1>3 DEF BackupInv, RowsTell
<1>10. ~ComeAndGo => NewestRestoresWhole'
  BY <1>1 DEF BackupInv, NewestRestoresWhole, Proved
<1> QED BY <1>5, <1>6, <1>7, <1>8, <1>9, <1>10 DEF BackupInv

LEMMA MarkedIs ==
    ASSUME NEW w, NEW v, w = [stamp |-> w.stamp, holds |-> w.holds, proved |-> w.proved]
    PROVE  [w EXCEPT !.proved = v] = [stamp |-> w.stamp, holds |-> w.holds, proved |-> v]
OBVIOUS

\* A run that was proved marks its workbook, the newest there is.
LEMMA CheckMediaKeeps ==
    ASSUME BackupInv, CheckMedia
    PROVE  BackupInv'
<1> DEFINE bad == run.problems \/ ~(live.photos \subseteq copied)
           marked == [Ours EXCEPT !.proved = TRUE]
<1>1. /\ BackupTypeOK /\ OneWorkbook /\ copied' = copied /\ run.at = "check"
      /\ live' = live /\ runs' = runs /\ given' = given
      /\ run' = IF ~bad THEN [run EXCEPT !.at = "decide"] ELSE NoRun
      /\ everProved' = (everProved \/ ~bad)
      /\ folder' = IF bad THEN folder ELSE (folder \ {Ours}) \cup {marked}
  BY DEF BackupInv, CheckMedia, Tidies
<1>2. run # NoRun /\ run.problems \in BOOLEAN
  BY <1>1, RunIs DEF Unproved, BackupTypeOK
<1>3. /\ Ours \in folder /\ Ours.stamp = runs /\ ~Ours.proved
      /\ \A w \in folder : w.stamp = runs => w = Ours
  BY <1>1, OursIs DEF Unproved
<1>4. Ours = [stamp |-> Ours.stamp, holds |-> Ours.holds, proved |-> Ours.proved]
      /\ Ours.holds.photos \subseteq 1..given /\ Ours.stamp \in 1..runs
  BY <1>1, <1>3 DEF BackupTypeOK
<1>5. /\ marked.stamp = runs /\ marked.holds = Ours.holds /\ marked.proved = TRUE
      /\ marked = [stamp |-> marked.stamp, holds |-> marked.holds, proved |-> marked.proved]
  <2>1. marked = [stamp |-> Ours.stamp, holds |-> Ours.holds, proved |-> TRUE]
    BY <1>4, MarkedIs, Zenon DEF marked
  <2> HIDE DEF marked
  <2> QED BY <1>3, <2>1
<1>6. ~bad => Ours.holds.photos \subseteq copied
  BY <1>1, <1>3 DEF BackupInv, CopyGetsThere
<1> HIDE DEF marked, bad
<1>7. CASE bad
  <2>1. run' = NoRun /\ folder' = folder /\ everProved' = everProved /\ run'.at = "none"
    <3>1. everProved \in BOOLEAN
      BY <1>1 DEF BackupTypeOK
    <3> QED BY <1>1, <1>7, <3>1 DEF NoRun
  <2>2. BackupTypeOK' /\ OneWorkbook' /\ CopyGetsThere' /\ ProvedStays'
    BY <1>1, <2>1 DEF BackupInv, BackupTypeOK, OneWorkbook, CopyGetsThere, ProvedStays, NoRun,
                      Unproved, ProvedOnce
  <2>3. ~ComeAndGo => RowsTell' /\ NewestRestoresWhole'
    BY <1>1, <2>1 DEF BackupInv, RowsTell, NewestRestoresWhole, Proved, NoRun
  <2> QED BY <2>2, <2>3 DEF BackupInv
<1>8. CASE ~bad
  <2>1. run' = [run EXCEPT !.at = "decide"] /\ everProved' = TRUE
        /\ folder' = (folder \ {Ours}) \cup {marked}
    BY <1>1, <1>8
  <2>2. /\ run' = [at |-> run'.at, keep |-> run'.keep, rows |-> run'.rows, before |-> run'.before,
                  listed |-> run'.listed, problems |-> run'.problems]
        /\ run'.at = "decide" /\ run'.rows = run.rows /\ run'.before = run.before
        /\ run'.before \in 0..given /\ run'.problems \in BOOLEAN /\ run' # NoRun
    <3>1. BackupTypeOK /\ run # NoRun /\ "decide" \in ProvedOnce
      BY <1>1, <1>2 DEF ProvedOnce
    <3> QED BY <2>1, <3>1, RunMoves
  <2>3. BackupTypeOK'
    BY <1>1, <1>2, <1>4, <1>5, <2>1, <2>2, <1>3 DEF BackupTypeOK, ProvedOnce, NoRun
  <2>4. \A w \in folder' : w = marked \/ (w \in folder /\ w.stamp # runs)
    BY <1>3, <2>1
  <2>5. OneWorkbook'
    BY <1>1, <1>5, <2>1, <2>2, <2>4 DEF OneWorkbook, Unproved, ProvedOnce
  <2>6. CopyGetsThere' /\ ProvedStays'
    BY <1>5, <2>1, <2>2 DEF CopyGetsThere, ProvedStays
  <2>7. ~ComeAndGo => RowsTell'
    BY <1>1, <1>2, <1>3, <1>5, <2>2, <2>4 DEF BackupInv, RowsTell
  <2>8. NewestRestoresWhole'
    <3>1. marked \in folder' /\ marked.stamp = runs /\ marked.proved
      BY <1>5, <2>1
    <3>2. ASSUME NEW w \in Proved', \A v \in Proved' : v.stamp <= w.stamp
          PROVE  w = marked
      <4>1. w \in folder' /\ marked \in Proved'
        BY <3>1 DEF Proved
      <4>2. runs <= w.stamp /\ w.stamp \in 1..runs' /\ runs' = runs /\ runs \in Nat
        BY <1>1, <2>3, <3>1, <3>2, <4>1 DEF BackupTypeOK
      <4> QED BY <2>4, <4>1, <4>2
    <3> QED BY <1>1, <1>5, <1>6, <1>8, <3>2 DEF NewestRestoresWhole
  <2> QED BY <2>3, <2>5, <2>6, <2>7, <2>8 DEF BackupInv
<1> QED BY <1>7, <1>8

\* The rows say nothing has changed only where nothing has.
LEMMA DecideKeeps ==
    ASSUME BackupInv, Decide
    PROVE  BackupInv'
<1> DEFINE to == IF run.keep = 1 /\ RowsUnchanged THEN "prune" ELSE "tidy"
<1>1. /\ BackupTypeOK /\ OneWorkbook /\ folder' = folder /\ copied' = copied
      /\ live' = live /\ runs' = runs /\ everProved' = everProved /\ given' = given
      /\ run.at = "decide" /\ run' = [run EXCEPT !.at = to]
  BY DEF BackupInv, Decide, Proceeds
<1>2. run # NoRun /\ to \in {"prune", "tidy"} /\ to \in ProvedOnce
  BY <1>1, RunIs DEF ProvedOnce
<1>3. to = "prune" => RowsUnchanged
  OBVIOUS
<1> HIDE DEF to
<1>4. /\ run' = [at |-> run'.at, keep |-> run'.keep, rows |-> run'.rows, before |-> run'.before,
                  listed |-> run'.listed, problems |-> run'.problems]
      /\ run'.at = to /\ run'.rows = run.rows /\ run'.before = run.before
      /\ run'.before \in 0..given /\ run'.problems \in BOOLEAN /\ run' # NoRun
  BY <1>1, <1>2, RunMoves
<1>5. BackupTypeOK'
  BY <1>1, <1>2, <1>4 DEF BackupTypeOK, NoRun
<1>6. OneWorkbook'
  BY <1>1, <1>2, <1>4 DEF OneWorkbook, Unproved, ProvedOnce
<1>7. CopyGetsThere' /\ ProvedStays'
  BY <1>1, <1>2, <1>4 DEF BackupInv, CopyGetsThere, ProvedStays
<1>8. ASSUME ~ComeAndGo
      PROVE  RowsTell'
  <2>1. PICK before \in SUBSET (1..run.before) :
            /\ run.rows = <<Cardinality(before), Highest(before)>>
            /\ live.photos \cap (1..run.before) \subseteq before
            /\ given > run.before => given \in live.photos
            /\ \A w \in folder : w.stamp = runs =>
                    w.holds.photos \cap (1..run.before) \subseteq before
    BY <1>2, <1>8 DEF BackupInv, RowsTell
  <2>2. ASSUME to = "prune"
        PROVE  \A w \in folder : w.stamp = runs => w.holds.photos \subseteq live.photos
    <3>1. <<Cardinality(live.photos), Highest(live.photos)>> =
             <<Cardinality(before), Highest(before)>>
      BY <1>3, <2>1, <2>2 DEF RowsUnchanged, ImageRows
    <3>2. given \in Nat /\ run.before \in 0..given /\ live.photos \in SUBSET (1..given)
      BY <1>1, <1>2 DEF BackupTypeOK
    <3>3. live.photos = before /\ given = run.before
      BY <2>1, <3>1, <3>2, RowsToldAre
    <3>4. \A w \in folder : w.holds.photos \subseteq 1..given
      BY <1>1 DEF BackupTypeOK
    <3> QED BY <2>1, <3>3, <3>4
  <2> QED BY <1>1, <1>4, <2>1, <2>2 DEF RowsTell
<1>9. ~ComeAndGo => NewestRestoresWhole'
  BY <1>1 DEF BackupInv, NewestRestoresWhole, Proved
<1> QED BY <1>5, <1>6, <1>7, <1>8, <1>9 DEF BackupInv

\* The copy loses only what the newest workbook proved does not name.
LEMMA PruneKeeps ==
    ASSUME BackupInv, Prune
    PROVE  BackupInv'
<1>1. /\ BackupTypeOK /\ OneWorkbook /\ folder' = folder
      /\ copied' = IF live.photos = {} \/ ~(live.photos \subseteq copied) THEN copied ELSE live.photos
      /\ live' = live /\ runs' = runs /\ everProved' = everProved /\ given' = given
      /\ run.at = "prune" /\ run' = [run EXCEPT !.at = "tidy"]
  BY DEF BackupInv, Prune, Proceeds
<1>2. run # NoRun /\ "tidy" \in ProvedOnce
  BY <1>1, RunIs DEF ProvedOnce
<1>3. /\ run' = [at |-> run'.at, keep |-> run'.keep, rows |-> run'.rows, before |-> run'.before,
                  listed |-> run'.listed, problems |-> run'.problems]
      /\ run'.at = "tidy" /\ run'.rows = run.rows /\ run'.before = run.before
      /\ run'.before \in 0..given /\ run'.problems \in BOOLEAN /\ run' # NoRun
  BY <1>1, <1>2, RunMoves
<1>4. BackupTypeOK'
  BY <1>1, <1>2, <1>3 DEF BackupTypeOK, NoRun
<1>5. OneWorkbook'
  BY <1>1, <1>2, <1>3 DEF OneWorkbook, Unproved, ProvedOnce
<1>6. CopyGetsThere' /\ ProvedStays'
  BY <1>1, <1>3 DEF BackupInv, CopyGetsThere, ProvedStays
<1>7. ~ComeAndGo => RowsTell'
  BY <1>1, <1>2, <1>3 DEF BackupInv, RowsTell
<1>8. ASSUME ~ComeAndGo
      PROVE  NewestRestoresWhole'
  <2>1. NewestRestoresWhole /\ \A w \in folder : w.stamp = runs => w.holds.photos \subseteq live.photos
    BY <1>1, <1>8 DEF BackupInv, RowsTell
  <2>2. Ours \in Proved /\ Ours.stamp = runs
    BY <1>1, OursIs DEF ProvedOnce, Proved
  <2>3. ASSUME NEW w \in Proved, \A v \in Proved : v.stamp <= w.stamp
        PROVE  w.stamp = runs
    <3>1. w.stamp \in 1..runs /\ runs \in Nat /\ runs <= w.stamp
      BY <1>1, <2>2, <2>3 DEF BackupTypeOK, Proved
    <3> QED BY <3>1
  <2>4. Proved' = Proved
    BY <1>1 DEF Proved
  <2>5. ASSUME NEW w \in Proved, \A v \in Proved : v.stamp <= w.stamp
        PROVE  w.holds.photos \subseteq copied'
    <3>1. w.holds.photos \subseteq copied /\ w.holds.photos \subseteq live.photos
      BY <2>1, <2>3, <2>5 DEF NewestRestoresWhole, Proved
    <3> QED BY <1>1, <3>1
  <2> QED BY <2>4, <2>5 DEF NewestRestoresWhole
<1> QED BY <1>4, <1>5, <1>6, <1>7, <1>8 DEF BackupInv

\* An older workbook goes, never the one just proved.
LEMMA RemoveOlderKeeps ==
    ASSUME BackupInv, RemoveOlder
    PROVE  BackupInv'
<1>1. /\ BackupTypeOK /\ OneWorkbook /\ copied' = copied
      /\ live' = live /\ runs' = runs /\ everProved' = everProved /\ given' = given
      /\ run.at = "tidy"
      /\ \/ run' = NoRun /\ folder' = folder
         \/ run' = run /\ \E w \in folder : w.stamp # runs /\ folder' = folder \ {w}
  BY DEF BackupInv, RemoveOlder, Surplus
<1>2. run # NoRun /\ "tidy" \in ProvedOnce
  BY <1>1, RunIs DEF ProvedOnce
<1>3. Ours \in folder /\ Ours.stamp = runs /\ Ours.proved
  BY <1>1, <1>2, OursIs DEF ProvedOnce
<1>4. Ours \in folder' /\ folder' \subseteq folder
  BY <1>1, <1>3
<1>5. run'.at = "tidy" \/ run'.at = "none"
  BY <1>1 DEF NoRun
<1>6. BackupTypeOK'
  BY <1>1, <1>4 DEF BackupTypeOK, NoRun
<1>7. OneWorkbook'
  BY <1>1, <1>3, <1>4, <1>5 DEF OneWorkbook, Unproved, ProvedOnce
<1>8. CopyGetsThere' /\ ProvedStays'
  BY <1>3, <1>4, <1>5 DEF CopyGetsThere, ProvedStays
<1>9. ~ComeAndGo => RowsTell'
  BY <1>1, <1>2, <1>4, <1>5 DEF BackupInv, RowsTell, NoRun
<1>10. ASSUME ~ComeAndGo
       PROVE  NewestRestoresWhole'
  <2>1. Ours \in Proved /\ Ours \in Proved' /\ Proved' \subseteq Proved
    BY <1>3, <1>4 DEF Proved
  <2>2. \A v \in Proved : v.stamp \in 1..runs /\ runs \in Nat
    BY <1>1 DEF BackupTypeOK, Proved
  <2>3. ASSUME NEW w \in Proved', \A v \in Proved' : v.stamp <= w.stamp
        PROVE  w \in Proved /\ \A v \in Proved : v.stamp <= w.stamp
    <3>1. runs <= w.stamp
      BY <1>3, <2>1, <2>3
    <3> QED BY <2>1, <2>2, <2>3, <3>1
  <2> QED BY <1>1, <1>10, <2>3 DEF BackupInv, NewestRestoresWhole
<1> QED BY <1>6, <1>7, <1>8, <1>9, <1>10 DEF BackupInv

LEMMA RunDiesKeeps ==
    ASSUME BackupInv, RunDies
    PROVE  BackupInv'
<1>1. /\ BackupTypeOK /\ OneWorkbook /\ copied' = copied /\ folder' = folder
      /\ live' = live /\ runs' = runs /\ everProved' = everProved /\ given' = given
      /\ run' = NoRun /\ run'.at = "none"
  BY DEF BackupInv, RunDies, NoRun
<1>2. BackupTypeOK' /\ OneWorkbook' /\ CopyGetsThere' /\ ProvedStays'
  BY <1>1 DEF BackupInv, BackupTypeOK, OneWorkbook, CopyGetsThere, ProvedStays, NoRun,
              Unproved, ProvedOnce
<1>3. ~ComeAndGo => RowsTell' /\ NewestRestoresWhole'
  BY <1>1 DEF BackupInv, RowsTell, NewestRestoresWhole, Proved, NoRun
<1> QED BY <1>2, <1>3 DEF BackupInv

LEMMA BackupsStep ==
    ASSUME BackupInv, [BackupsNext]_backupVars
    PROVE  BackupInv'
<1>1. CASE UNCHANGED backupVars
  BY <1>1 DEF backupVars, BackupInv, BackupTypeOK, OneWorkbook, CopyGetsThere, ProvedStays,
              RowsTell, NewestRestoresWhole, Proved, NoRun
<1>2. CASE BackupsNext
  BY <1>2, PhotosChangeKeeps, EditedKeeps, StartRunKeeps, ExportKeeps, ListKeeps,
     CopyMediaKeeps, ProveKeeps, CheckMediaKeeps, DecideKeeps, PruneKeeps, RemoveOlderKeeps,
     RunDiesKeeps DEF BackupsNext
<1> QED BY <1>1, <1>2

\* However runs fail, die and overlap edits, and whatever photographs come and
\* go, there is a workbook that was proved from the first one on
\* (backup_run.py).
THEOREM ProvedStaysHolds == BackupsSpec => []ProvedStays
<1>1. BackupsInit => BackupInv
  BY BackupsStart
<1>2. BackupInv /\ [BackupsNext]_backupVars => BackupInv'
  BY BackupsStep
<1>3. BackupInv => ProvedStays
  BY DEF BackupInv
<1> QED BY <1>1, <1>2, <1>3, PTL DEF BackupsSpec

\* As long as no photograph comes and goes within a run, or goes right before
\* its prune, the newest workbook proved restores with its photographs, however
\* many runs and photographs there are (backup_run.py, media_backup.py).
THEOREM BackupsHoldHolds ==
    ASSUME ~ComeAndGo
    PROVE  BackupsSpec => []BackupsHold
<1>1. BackupsInit => BackupInv
  BY BackupsStart
<1>2. BackupInv /\ [BackupsNext]_backupVars => BackupInv'
  BY BackupsStep
<1>3. BackupInv => BackupsHold
  BY DEF BackupInv, BackupsHold
<1> QED BY <1>1, <1>2, <1>3, PTL DEF BackupsSpec

-----------------------------------------------------------------------------
(* The photographs filed on items (PhotoLinks).                            *)

\* Rows are finitely many, for their ids are.
LEMMA RowsAreFinite ==
    ASSUME NEW n \in Nat, NEW ls, Sound(ls, n)
    PROVE  IsFiniteSet(ls)
<1> DEFINE id == [l \in ls |-> l.id]
<1>1. id \in Injection(ls, 1..n)
  BY DEF Sound, Injection, IsInjective
<1> QED BY <1>1, FS_Interval, FS_Injection

LEMMA PlacesOn ==
    ASSUME NEW n \in Nat, NEW ls, Sound(ls, n), NEW i, On(i, ls) # {}
    PROVE  /\ {l.place : l \in On(i, ls)} \in SUBSET Int
           /\ {l.place : l \in On(i, ls)} # {}
           /\ IsFiniteSet({l.place : l \in On(i, ls)})
<1> DEFINE T == {l.place : l \in On(i, ls)}
           place == [l \in On(i, ls) |-> l.place]
<1>1. IsFiniteSet(On(i, ls))
  BY RowsAreFinite, FS_Subset DEF On
<1>2. place \in Surjection(On(i, ls), T)
  BY DEF Surjection
<1>3. IsFiniteSet(T)
  BY <1>1, <1>2, FS_Surjection
<1> QED BY <1>3 DEF On, Sound

\* The first of an item's photographs is one of them.
LEMMA FirstOnIs ==
    ASSUME NEW n \in Nat, NEW ls, Sound(ls, n), NEW i, On(i, ls) # {}
    PROVE  FirstOn(ls, i) \in On(i, ls)
<1>1. PICK p \in {l.place : l \in On(i, ls)} : \A q \in {l.place : l \in On(i, ls)} : p <= q
  BY PlacesOn, LeastOf
<1> DEFINE U == {l.id : l \in {k \in On(i, ls) : k.place = p}}
<1>2. U \in SUBSET (1..n) /\ U # {} /\ p \in Int
  <2>1. PICK l \in On(i, ls) : l.place = p
    BY <1>1
  <2>2. \A k \in On(i, ls) : k.id \in 1..n /\ k.place \in Int
    BY DEF On, Sound
  <2>3. l.id \in U
    BY <2>1
  <2> QED BY <2>1, <2>2, <2>3
<1>3. IsFiniteSet(U) /\ U \in SUBSET Int
  <2>1. IsFiniteSet(1..n)
    <3>1. 1 \in Int /\ n \in Int
      OBVIOUS
    <3> QED BY <3>1, FS_Interval, Zenon
  <2>2. IsFiniteSet(U)
    BY <1>2, <2>1, FS_Subset
  <2> QED BY <1>2, <2>2
<1>4. PICK m \in U : \A k \in U : m <= k
  BY <1>2, <1>3, LeastOf
<1>5. PICK l \in On(i, ls) : l.place = p /\ l.id = m
  BY <1>4
<1>6. ASSUME NEW k \in On(i, ls)
      PROVE  l.place < k.place \/ (l.place = k.place /\ l.id <= k.id)
  <2>1. k.place \in Int /\ l.place \in Int /\ l.place <= k.place
    BY <1>1, <1>2, <1>5 DEF On, Sound
  <2>2. k.place = p => k.id \in U
    BY <1>6
  <2> QED BY <1>4, <1>5, <2>1, <2>2
<1> QED BY <1>5, <1>6 DEF FirstOn

\* The next place is behind all there are.
LEMMA NextPlaceIs ==
    ASSUME NEW n \in Nat, NEW ls, Sound(ls, n), NEW i
    PROVE  /\ NextPlace(ls, i) \in Int
           /\ \A l \in On(i, ls) : l.place < NextPlace(ls, i)
<1>1. CASE On(i, ls) = {}
  BY <1>1 DEF NextPlace
<1>2. CASE On(i, ls) # {}
  <2> DEFINE T == {l.place : l \in On(i, ls)}
             m == CHOOSE p \in T : \A l \in On(i, ls) : l.place <= p
  <2>1. T \in SUBSET Int /\ \E p \in T : \A q \in T : q <= p
    BY <1>2, PlacesOn, GreatestOf
  <2>2. \E p \in T : \A l \in On(i, ls) : l.place <= p
    BY <2>1
  <2>3. m \in T /\ \A l \in On(i, ls) : l.place <= m
    BY <2>2
  <2>4. NextPlace(ls, i) = 1 + m
    BY <1>2 DEF NextPlace
  <2>5. m \in Int /\ \A l \in On(i, ls) : l.place \in Int
    BY <2>1, <2>3
  <2> HIDE DEF m
  <2> QED BY <2>3, <2>4, <2>5
<1> QED BY <1>1, <1>2

-----------------------------------------------------------------------------
(* Writing which photographs are primary.                                  *)

Same(k, l) == k.id = l.id /\ k.image = l.image /\ k.piece = l.piece /\ k.place = l.place

Remarked(ls, mark) == {[l EXCEPT !.primary = mark[l]] : l \in ls}

LEMMA RemarkedRow ==
    ASSUME NEW l, NEW v, l = [id |-> l.id, image |-> l.image, piece |-> l.piece,
                              primary |-> l.primary, place |-> l.place]
    PROVE  [l EXCEPT !.primary = v] = [id |-> l.id, image |-> l.image, piece |-> l.piece,
                                       primary |-> v, place |-> l.place]
OBVIOUS

LEMMA RemarkedIs ==
    ASSUME NEW n \in Nat, NEW ls, Sound(ls, n), NEW mark \in [ls -> BOOLEAN],
           NEW L, L = Remarked(ls, mark)
    PROVE  /\ Sound(L, n)
           /\ \A k \in L : \E l \in ls : Same(k, l) /\ k.primary = mark[l]
           /\ \A l \in ls : \E k \in L : Same(k, l) /\ k.primary = mark[l]
<1> DEFINE new(l) == [id |-> l.id, image |-> l.image, piece |-> l.piece,
                      primary |-> mark[l], place |-> l.place]
<1>1. \A l \in ls : [l EXCEPT !.primary = mark[l]] = new(l)
  <2> SUFFICES ASSUME NEW l \in ls
               PROVE  [l EXCEPT !.primary = mark[l]] = new(l)
    OBVIOUS
  <2>1. l = [id |-> l.id, image |-> l.image, piece |-> l.piece,
             primary |-> l.primary, place |-> l.place]
    BY DEF Sound
  <2> QED BY <2>1, RemarkedRow
<1>3. \A l \in ls : /\ new(l).id = l.id /\ new(l).image = l.image /\ new(l).piece = l.piece
                     /\ new(l).place = l.place /\ new(l).primary = mark[l]
                     /\ new(l) = [id |-> new(l).id, image |-> new(l).image,
                                  piece |-> new(l).piece, primary |-> new(l).primary,
                                  place |-> new(l).place]
  OBVIOUS
<1> HIDE DEF new
<1>4. \A l \in ls : Same(new(l), l)
  BY <1>3 DEF Same
<1>5. ASSUME NEW k \in L
      PROVE  \E l \in ls : k = new(l)
  <2>1. PICK l \in ls : k = [l EXCEPT !.primary = mark[l]]
    BY DEF Remarked
  <2> QED BY <1>1, <2>1
<1>6. ASSUME NEW l \in ls
      PROVE  new(l) \in L
  <2>1. [l EXCEPT !.primary = mark[l]] \in L
    BY DEF Remarked
  <2> QED BY <1>1, <2>1
<1>7. Sound(L, n)
  <2>1. ASSUME NEW k \in L
        PROVE  /\ k = [id |-> k.id, image |-> k.image, piece |-> k.piece,
                       primary |-> k.primary, place |-> k.place]
               /\ k.id \in 1..n /\ k.piece \in Piece /\ k.primary \in BOOLEAN
               /\ k.place \in Int
    <3>1. PICK l \in ls : k = new(l)
      BY <1>5
    <3>2. l.id \in 1..n /\ l.piece \in Piece /\ l.place \in Int /\ mark[l] \in BOOLEAN
      BY DEF Sound
    <3> QED BY <1>3, <3>1, <3>2
  <2>2. ASSUME NEW j \in L, NEW k \in L, j.id = k.id
        PROVE  j = k
    <3>1. PICK l \in ls : j = new(l)
      BY <1>5
    <3>2. PICK m \in ls : k = new(m)
      BY <1>5
    <3>3. l = m
      BY <1>3, <2>2, <3>1, <3>2 DEF Sound
    <3> QED BY <3>1, <3>2, <3>3
  <2> QED BY <2>1, <2>2 DEF Sound
<1>8. \A k \in L : \E l \in ls : Same(k, l) /\ k.primary = mark[l]
  BY <1>3, <1>4, <1>5
<1>9. \A l \in ls : \E k \in L : Same(k, l) /\ k.primary = mark[l]
  BY <1>3, <1>4, <1>6
<1> QED BY <1>7, <1>8, <1>9

LEMMA RemarkedAtMostOne ==
    ASSUME NEW n \in Nat, NEW ls, Sound(ls, n), NEW mark \in [ls -> BOOLEAN],
           NEW L, L = Remarked(ls, mark),
           \A k, l \in ls : mark[k] /\ mark[l] /\ k.piece = l.piece => k = l
    PROVE  AtMostOne(L)
<1>1. Sound(L, n) /\ \A k \in L : \E l \in ls : Same(k, l) /\ k.primary = mark[l]
  BY RemarkedIs
<1>2. ASSUME NEW j \in L, NEW k \in L, j.piece = k.piece, j.primary, k.primary
      PROVE  j = k
  <2>1. PICK l \in ls : Same(j, l) /\ j.primary = mark[l]
    BY <1>1
  <2>2. PICK h \in ls : Same(k, h) /\ k.primary = mark[h]
    BY <1>1
  <2>3. l = h
    BY <1>2, <2>1, <2>2 DEF Same
  <2> QED BY <1>1, <2>1, <2>2, <2>3 DEF Same, Sound
<1> QED BY <1>2 DEF AtMostOne

LEMMA RemarkedOn ==
    ASSUME NEW n \in Nat, NEW ls, Sound(ls, n), NEW mark \in [ls -> BOOLEAN],
           NEW L, L = Remarked(ls, mark), NEW i
    PROVE  /\ (\A l \in On(i, ls) : mark[l] = l.primary) => On(i, L) = On(i, ls)
           /\ (\E l \in On(i, ls) : mark[l]) => Primaries(i, L) # {}
<1>1. /\ Sound(L, n)
      /\ \A k \in L : \E l \in ls : Same(k, l) /\ k.primary = mark[l]
      /\ \A l \in ls : \E k \in L : Same(k, l) /\ k.primary = mark[l]
  BY RemarkedIs
<1>2. ASSUME \A l \in On(i, ls) : mark[l] = l.primary
      PROVE  On(i, L) = On(i, ls)
  <2>1. \A k \in L, l \in ls : Same(k, l) /\ k.primary = l.primary => k = l
    BY <1>1 DEF Same, Sound
  <2>2. \A k \in On(i, L) : k \in On(i, ls)
    BY <1>1, <1>2, <2>1 DEF On, Same
  <2>3. \A l \in On(i, ls) : l \in On(i, L)
    BY <1>1, <1>2, <2>1 DEF On, Same
  <2> QED BY <2>2, <2>3
<1>3. ASSUME NEW l \in On(i, ls), mark[l]
      PROVE  Primaries(i, L) # {}
  BY <1>1, <1>3 DEF On, Primaries, Same
<1> QED BY <1>2, <1>3

\* Filling a place again marks the first of what remains, where none is.
LEMMA VacancyIs ==
    ASSUME NEW n \in Nat, NEW ls, Sound(ls, n), AtMostOne(ls), NEW freed
    PROVE  \E mark \in [ls -> BOOLEAN] :
              /\ VacancyFilled(ls, freed) = Remarked(ls, mark)
              /\ \A l \in ls : l.primary => mark[l]
              /\ \A k, l \in ls : mark[k] /\ mark[l] /\ k.piece = l.piece => k = l
              /\ \A l \in ls : l.piece \notin freed => mark[l] = l.primary
              /\ \A i \in freed : On(i, ls) # {} => \E l \in On(i, ls) : mark[l]
<1> DEFINE vacant == {i \in freed : On(i, ls) # {} /\ Primaries(i, ls) = {}}
           heirs == {FirstOn(ls, i) : i \in vacant}
           mark == [l \in ls |-> l.primary \/ l \in heirs]
<1>1. \A i \in vacant : FirstOn(ls, i) \in ls /\ FirstOn(ls, i).piece = i
  <2>1. \A i \in vacant : FirstOn(ls, i) \in On(i, ls)
    BY FirstOnIs
  <2> QED BY <2>1 DEF On
<1>2. \A h \in heirs : h \in ls /\ h.piece \in vacant /\ h = FirstOn(ls, h.piece)
  BY <1>1
<1>3. \A l \in ls : l.primary \in BOOLEAN
  BY DEF Sound
<1>4. VacancyFilled(ls, freed) = (ls \ heirs) \cup {[l EXCEPT !.primary = TRUE] : l \in heirs}
  BY DEF VacancyFilled
<1>5. \A i \in vacant : FirstOn(ls, i) \in heirs
  OBVIOUS
<1>6. \A i \in freed : i \in vacant <=> On(i, ls) # {} /\ Primaries(i, ls) = {}
  OBVIOUS
<1>7. vacant \subseteq freed
  OBVIOUS
<1> HIDE DEF vacant, heirs
<1>8. mark \in [ls -> BOOLEAN] /\ \A l \in ls : mark[l] = (l.primary \/ l \in heirs)
  BY <1>3
<1> HIDE DEF mark
<1>9. VacancyFilled(ls, freed) = Remarked(ls, mark)
  <2>1. ASSUME NEW l \in ls \ heirs
        PROVE  l = [l EXCEPT !.primary = mark[l]]
    <3>1. mark[l] = l.primary
      BY <1>3, <1>8, <2>1
    <3>2. l = [id |-> l.id, image |-> l.image, piece |-> l.piece,
               primary |-> l.primary, place |-> l.place]
      BY DEF Sound
    <3>3. [l EXCEPT !.primary = l.primary] = [id |-> l.id, image |-> l.image, piece |-> l.piece,
                                              primary |-> l.primary, place |-> l.place]
      BY <3>2, RemarkedRow
    <3> QED BY <3>1, <3>2, <3>3
  <2>2. ASSUME NEW l \in heirs
        PROVE  [l EXCEPT !.primary = TRUE] = [l EXCEPT !.primary = mark[l]]
    <3>1. mark[l] = TRUE
      BY <1>2, <1>8, <2>2
    <3> QED BY <3>1
  <2>3. ASSUME NEW k \in VacancyFilled(ls, freed)
        PROVE  k \in Remarked(ls, mark)
    <3>1. CASE k \in ls \ heirs
      BY <2>1, <3>1 DEF Remarked
    <3>2. CASE k \notin ls \ heirs
      <4>1. PICK l \in heirs : k = [l EXCEPT !.primary = TRUE]
        BY <1>4, <2>3, <3>2
      <4>2. k = [l EXCEPT !.primary = mark[l]] /\ l \in ls
        BY <1>2, <2>2, <4>1
      <4> QED BY <4>2 DEF Remarked
    <3> QED BY <3>1, <3>2
  <2>4. ASSUME NEW k \in Remarked(ls, mark)
        PROVE  k \in VacancyFilled(ls, freed)
    <3>1. PICK l \in ls : k = [l EXCEPT !.primary = mark[l]]
      BY <2>4 DEF Remarked
    <3>2. CASE l \in heirs
      <4>1. k = [l EXCEPT !.primary = TRUE]
        BY <2>2, <3>1, <3>2
      <4> QED BY <1>4, <3>2, <4>1
    <3>3. CASE l \notin heirs
      <4>1. k = l
        BY <2>1, <3>1, <3>3
      <4> QED BY <1>4, <3>3, <4>1
    <3> QED BY <3>2, <3>3
  <2> QED BY <2>3, <2>4
<1>10. \A l \in ls : l.primary => mark[l]
  BY <1>8
<1>11. ASSUME NEW k \in ls, NEW l \in ls, mark[k], mark[l], k.piece = l.piece
       PROVE  k = l
  <2>1. \A j \in ls : j.primary => j.piece \notin vacant
    <3>1. \A j \in ls : j.primary => j \in Primaries(j.piece, ls)
      BY DEF Primaries, On
    <3> QED BY <1>6, <1>7, <3>1
  <2>2. CASE k \in heirs
    <3>1. l \in heirs
      BY <1>2, <1>8, <1>11, <2>1, <2>2
    <3> QED BY <1>2, <1>11, <2>2, <3>1
  <2>3. CASE k \notin heirs
    <3>1. k.primary /\ l \notin heirs
      BY <1>2, <1>8, <1>11, <2>1, <2>3
    <3>2. l.primary
      BY <1>8, <1>11, <3>1
    <3> QED BY <1>11, <3>1, <3>2 DEF AtMostOne
  <2> QED BY <2>2, <2>3
<1>12. \A l \in ls : l.piece \notin freed => mark[l] = l.primary
  BY <1>2, <1>3, <1>7, <1>8
<1>13. ASSUME NEW i \in freed, On(i, ls) # {}
       PROVE  \E l \in On(i, ls) : mark[l]
  <2>1. CASE Primaries(i, ls) = {}
    <3>1. i \in vacant
      BY <1>6, <1>13, <2>1
    <3>2. FirstOn(ls, i) \in On(i, ls) /\ FirstOn(ls, i) \in ls
      BY <1>1, <3>1 DEF On
    <3> QED BY <1>5, <1>8, <3>1, <3>2
  <2>2. CASE Primaries(i, ls) # {}
    <3>1. PICK l \in On(i, ls) : l.primary
      BY <2>2 DEF Primaries
    <3> QED BY <1>10, <3>1 DEF On
  <2> QED BY <2>1, <2>2
<1> QED BY <1>8, <1>9, <1>10, <1>11, <1>12, <1>13

-----------------------------------------------------------------------------
(* What a request may write under its holds.                               *)

Writes(g, L, n) ==
    /\ n \in Nat /\ n >= numbered /\ Sound(L, n) /\ AtMostOne(L)
    /\ \A i \in Piece : pieceOf[i] # g => On(i, L) \subseteq On(i, links)
    /\ ~DeleteOverlaps =>
         /\ SomePrimary(L)
         /\ \A i \in Piece : pieceOf[i] # g => On(i, links) \subseteq On(i, L)
    /\ \A k \in L :
         \/ k.id > numbered /\ k.image = filing[g].image
         \/ \E l \in links : l.id = k.id /\ l.image = k.image
                              /\ (l.piece = k.piece \/ k.image = filing[g].image)

\* Only a request that files a photograph looks around for it.
LEMMA LookedFiles ==
    ASSUME LinksTypeOK, NEW f \in Filing, filing[f] # Nothing, Looked(f)
    PROVE  filing[f].to \in Piece
<1>1. AFiling(filing[f])
  BY DEF LinksTypeOK
<1>2. Unseen.looked = FALSE
  BY DEF Unseen
<1>3. filing[f].saw # Unseen
  BY <1>2 DEF Looked
<1>4. filing[f].does \in Files
  BY <1>1, <1>3 DEF AFiling
<1>5. filing[f].does # "delete"
  BY <1>4 DEF Files
<1> QED BY <1>1, <1>5 DEF AFiling

LEMMA WriteKeeps ==
    ASSUME LinksInv, NEW g \in Filing, filing[g] # Nothing, Answers(g),
           Writes(g, links', numbered')
    PROVE  LinksInv'
<1>1. /\ filing' = [filing EXCEPT ![g] = Nothing]
      /\ pieceOf' = [i \in Piece |-> IF pieceOf[i] = g THEN Free ELSE pieceOf[i]]
      /\ LinksTypeOK
  BY DEF Answers, LinksInv
<1>2. \A f \in Filing : filing'[f] # Nothing => f # g /\ filing'[f] = filing[f] /\ filing[f] # Nothing
  BY <1>1 DEF LinksTypeOK
<1>3. \A i \in Piece, f \in Filing : f # g /\ pieceOf[i] = f => pieceOf'[i] = f
  BY <1>1
<1>4. LinksTypeOK'
  <2>1. numbered' \in Nat /\ Sound(links, numbered)'
    BY DEF Writes, Sound
  <2>2. pieceOf' \in [Piece -> Filing \cup {Free}]
    BY <1>1 DEF LinksTypeOK
  <2>3. filing' = [f \in Filing |-> filing'[f]]
    BY <1>1 DEF LinksTypeOK
  <2>4. ASSUME NEW f \in Filing, filing'[f] # Nothing
        PROVE  AFiling(filing'[f]) /\ filing'[f].link \in 0..numbered'
    <3>1. filing'[f] = filing[f] /\ AFiling(filing[f]) /\ filing[f].link \in 0..numbered
      BY <1>1, <1>2, <2>4 DEF LinksTypeOK
    <3>2. numbered \in Nat /\ numbered' \in Nat /\ numbered' >= numbered
      BY <1>1 DEF LinksTypeOK, Writes
    <3> QED BY <3>1, <3>2
  <2> QED BY <2>1, <2>2, <2>3, <2>4 DEF LinksTypeOK
<1>5. LinkKeepsImage'
  <2> SUFFICES ASSUME NEW f \in Filing, NEW k \in links',
                      filing'[f] # Nothing, k.id = filing'[f].link
               PROVE  k.image = filing'[f].image
    BY DEF LinkKeepsImage
  <2>1. filing'[f] = filing[f] /\ filing[f] # Nothing /\ filing[f].link \in 0..numbered
    BY <1>1, <1>2 DEF LinksTypeOK
  <2>2. PICK l \in links : l.id = k.id /\ l.image = k.image
    BY <1>1, <2>1 DEF Writes, LinksTypeOK
  <2> QED BY <2>1, <2>2 DEF LinksInv, LinkKeepsImage
<1>6. AtMostOne(links)'
  BY DEF Writes, AtMostOne
<1>7. SeenIsTrue'
  <2> SUFFICES ASSUME NEW f \in Filing, filing'[f] # Nothing, filing'[f].saw.looked
               PROVE  /\ pieceOf'[filing'[f].to] = f
                      /\ filing'[f].saw.place \in Int
                      /\ filing'[f].at = AnyPlace =>
                             \A l \in On(filing'[f].to, links') : l.place < filing'[f].saw.place
                      /\ filing'[f].saw.first \in BOOLEAN
                      /\ filing'[f].saw.first => Primaries(filing'[f].to, links') = {}
                      /\ ~DeleteOverlaps /\ Primaries(filing'[f].to, links') = {} =>
                             filing'[f].saw.first
    BY DEF SeenIsTrue, Looked
  <2>1. f # g /\ filing'[f] = filing[f] /\ filing[f] # Nothing /\ Looked(f)
    BY <1>2 DEF Looked
  <2> DEFINE i == filing[f].to
  <2>2. i \in Piece
    BY <1>1, <2>1, LookedFiles
  <2>3. /\ pieceOf[i] = f
        /\ filing[f].saw.place \in Int
        /\ filing[f].at = AnyPlace => \A l \in On(i, links) : l.place < filing[f].saw.place
        /\ filing[f].saw.first \in BOOLEAN
        /\ filing[f].saw.first => Primaries(i, links) = {}
        /\ ~DeleteOverlaps /\ Primaries(i, links) = {} => filing[f].saw.first
    BY <2>1 DEF LinksInv, SeenIsTrue
  <2>4. On(i, links') \subseteq On(i, links)
    BY <2>1, <2>2, <2>3 DEF Writes
  <2>5. ~DeleteOverlaps => On(i, links') = On(i, links)
    BY <2>1, <2>2, <2>3, <2>4 DEF Writes
  <2>6. /\ Primaries(i, links') \subseteq Primaries(i, links)
        /\ ~DeleteOverlaps => Primaries(i, links') = Primaries(i, links)
    BY <2>4, <2>5 DEF Primaries
  <2>7. pieceOf'[i] = f
    BY <1>3, <2>1, <2>2, <2>3
  <2> HIDE DEF i
  <2>8. filing'[f].to = i
    BY <2>1 DEF i
  <2> QED BY <2>1, <2>3, <2>4, <2>6, <2>7, <2>8
<1>8. ASSUME ~DeleteOverlaps
      PROVE  SomePrimary(links)' /\ DeletesAlone' /\ DeletedIsHeld'
  <2>1. SomePrimary(links)'
    BY <1>8 DEF Writes, SomePrimary
  <2>2. DeletesAlone'
    BY <1>2, <1>8 DEF LinksInv, DeletesAlone
  <2>3. DeletedIsHeld'
    <3> SUFFICES ASSUME NEW f \in Filing, NEW k \in links', filing'[f] # Nothing,
                        filing'[f].does = "delete", k.image = filing'[f].image
                 PROVE  k.piece \in filing'[f].holds
      BY DEF DeletedIsHeld
    <3>1. f # g /\ filing'[f] = filing[f] /\ filing[f] # Nothing
      BY <1>2
    <3>2. k.image # filing[g].image
      BY <1>8, <3>1 DEF LinksInv, DeletesAlone
    <3>3. PICK l \in links : l.image = k.image /\ l.piece = k.piece
      BY <3>2 DEF Writes
    <3> QED BY <1>8, <3>1, <3>3 DEF LinksInv, DeletedIsHeld
  <2> QED BY <2>1, <2>2, <2>3
<1> QED BY <1>4, <1>5, <1>6, <1>7, <1>8 DEF LinksInv

-----------------------------------------------------------------------------
(* Beginning, holding, looking.                                            *)

\* A new request has seen nothing yet.
LEMMA BeginningKeeps ==
    ASSUME LinksInv, NEW f \in Filing, filing[f] = Nothing, NEW r,
           AFiling(r), r.link \in 0..numbered, r.saw = Unseen, Overlaps(r.does, r.image),
           r.does = "delete" => \A l \in links : l.image = r.image => l.piece \in r.holds,
           \A l \in links : l.id = r.link => l.image = r.image,
           filing' = [filing EXCEPT ![f] = r],
           UNCHANGED <<shelf, links, numbered, pieceOf>>
    PROVE  LinksInv'
<1>1. /\ links' = links /\ numbered' = numbered /\ pieceOf' = pieceOf /\ LinksTypeOK
      /\ r.does \in Doings
  BY DEF LinksInv, AFiling
<1>2. filing'[f] = r /\ \A g \in Filing : g # f => filing'[g] = filing[g]
  BY <1>1 DEF LinksTypeOK
<1>3. r # Nothing
  <2>1. Nothing.does = "nothing" /\ r.does # "nothing"
    BY <1>1 DEF Nothing, Doings, Files
  <2> QED BY <2>1
<1>4. LinksTypeOK'
  <2>1. ASSUME NEW g \in Filing, filing'[g] # Nothing
        PROVE  AFiling(filing'[g]) /\ filing'[g].link \in 0..numbered
    BY <1>1, <1>2, <2>1 DEF LinksTypeOK
  <2>2. filing' = [g \in Filing |-> filing'[g]]
    BY <1>1 DEF LinksTypeOK
  <2> QED BY <1>1, <2>1, <2>2 DEF LinksTypeOK, Sound
<1>5. LinkKeepsImage'
  BY <1>1, <1>2 DEF LinksInv, LinkKeepsImage
<1>6. AtMostOne(links)'
  BY <1>1 DEF LinksInv, AtMostOne
<1>7. SeenIsTrue'
  <2>1. ASSUME NEW g \in Filing, filing'[g] # Nothing, filing'[g].saw.looked
        PROVE  filing'[g] = filing[g] /\ filing[g] # Nothing /\ Looked(g)
    BY <1>2, <2>1 DEF Looked, Unseen
  <2> QED BY <1>1, <2>1 DEF LinksInv, SeenIsTrue, Looked, On, Primaries
<1>8. ASSUME ~DeleteOverlaps
      PROVE  SomePrimary(links)' /\ DeletesAlone' /\ DeletedIsHeld'
  <2>1. SomePrimary(links)'
    BY <1>1, <1>8 DEF LinksInv, SomePrimary, On, Primaries
  <2>2. ASSUME NEW g \in Filing, filing[g] # Nothing,
               r.does = "delete" \/ filing[g].does = "delete"
        PROVE  filing[g].image # r.image
    <3>1. filing[g].does \in Doings /\ filing[g].image \in About(g)
      BY <1>1, <2>2 DEF LinksTypeOK, AFiling, About
    <3>2. ~(r.image \in About(g) /\ filing[g].does = "delete")
      BY <1>1, <1>8 DEF Overlaps, DoesTo
    <3>3. r.does = "delete" /\ r.image \in About(g) => filing[g].does = "delete"
      BY <1>1, <1>8, <3>1 DEF Overlaps, DoesTo, Doings, Files
    <3> QED BY <2>2, <3>1, <3>2, <3>3
  <2>3. ASSUME NEW g \in Filing, NEW h \in Filing, g # h, filing'[g] # Nothing,
               filing'[h] # Nothing, filing'[g].does = "delete"
        PROVE  filing'[g].image # filing'[h].image
    <3>1. CASE g = f
      BY <1>2, <2>2, <2>3, <3>1
    <3>2. CASE h = f
      BY <1>2, <2>2, <2>3, <3>2
    <3>3. CASE g # f /\ h # f
      BY <1>2, <1>8, <2>3, <3>3 DEF LinksInv, DeletesAlone
    <3> QED BY <3>1, <3>2, <3>3
  <2>4. DeletedIsHeld'
    BY <1>1, <1>2, <1>8 DEF LinksInv, DeletedIsHeld
  <2> QED BY <2>1, <2>3, <2>4 DEF DeletesAlone
<1> QED BY <1>4, <1>5, <1>6, <1>7, <1>8 DEF LinksInv

LEMMA FilingBeginsKeeps ==
    ASSUME LinksInv, NEW f \in Filing, filing[f] = Nothing, FilingBegins(f)
    PROVE  LinksInv'
<1>1. /\ numbered \in Nat
      /\ \A l \in links : l.id \in 1..numbered /\ l.piece \in Piece
      /\ \A k, l \in links : k.id = l.id => k = l
  BY DEF LinksInv, LinksTypeOK, Sound
<1>2. 0 \in 0..numbered /\ \A l \in links : l.id \in 0..numbered /\ l.id # 0
  BY <1>1
<1>3. ASSUME NEW does \in {"upload", "attach"}, NEW p \in Photograph, NEW i \in Piece,
             NEW asked \in BOOLEAN, NEW at \in {AnyPlace} \cup {{n} : n \in Position},
             BeginFile(f, does, p, i, asked, at)
      PROVE  LinksInv'
  <2> DEFINE r == [does |-> does, image |-> p, link |-> 0, from |-> i, to |-> i,
                   holds |-> {i}, asked |-> asked, at |-> at, saw |-> Unseen]
  <2>1. /\ filing' = [filing EXCEPT ![f] = r] /\ Overlaps(r.does, r.image)
        /\ UNCHANGED <<shelf, links, numbered, pieceOf>>
    BY <1>3 DEF BeginFile, Begins
  <2>2. AFiling(r)
    BY <1>3 DEF AFiling, Doings, Files, AnyPlace, BeginFile
  <2>3. /\ r.saw = Unseen /\ r.link \in 0..numbered
        /\ \A l \in links : l.id = r.link => l.image = r.image
        /\ r.does = "delete" => \A l \in links : l.image = r.image => l.piece \in r.holds
    BY <1>1, <1>2
  <2> HIDE DEF r
  <2> QED BY <2>1, <2>2, <2>3, BeginningKeeps
<1>4. ASSUME NEW k \in links, BeginDetach(f, k)
      PROVE  LinksInv'
  <2> DEFINE r == [does |-> "detach", image |-> k.image, link |-> k.id, from |-> k.piece, to |-> k.piece,
                   holds |-> {k.piece}, asked |-> FALSE, at |-> AnyPlace, saw |-> Unseen]
  <2>1. /\ filing' = [filing EXCEPT ![f] = r] /\ Overlaps(r.does, r.image)
        /\ UNCHANGED <<shelf, links, numbered, pieceOf>>
    BY <1>4 DEF BeginDetach, Begins
  <2>2. AFiling(r)
    BY <1>1 DEF AFiling, Doings, Files, AnyPlace
  <2>3. /\ r.saw = Unseen /\ r.link \in 0..numbered
        /\ \A l \in links : l.id = r.link => l.image = r.image
        /\ r.does = "delete" => \A l \in links : l.image = r.image => l.piece \in r.holds
    BY <1>1, <1>2
  <2> HIDE DEF r
  <2> QED BY <2>1, <2>2, <2>3, BeginningKeeps
<1>5. ASSUME NEW k \in links, BeginShowFirst(f, k)
      PROVE  LinksInv'
  <2> DEFINE r == [does |-> "show first", image |-> k.image, link |-> k.id, from |-> k.piece, to |-> k.piece,
                   holds |-> {k.piece}, asked |-> TRUE, at |-> AnyPlace, saw |-> Unseen]
  <2>1. /\ filing' = [filing EXCEPT ![f] = r] /\ Overlaps(r.does, r.image)
        /\ UNCHANGED <<shelf, links, numbered, pieceOf>>
    BY <1>5 DEF BeginShowFirst, Begins
  <2>2. AFiling(r)
    BY <1>1 DEF AFiling, Doings, Files, AnyPlace
  <2>3. /\ r.saw = Unseen /\ r.link \in 0..numbered
        /\ \A l \in links : l.id = r.link => l.image = r.image
        /\ r.does = "delete" => \A l \in links : l.image = r.image => l.piece \in r.holds
    BY <1>1, <1>2
  <2> HIDE DEF r
  <2> QED BY <2>1, <2>2, <2>3, BeginningKeeps
<1>6. ASSUME NEW k \in links, NEW i \in Piece, BeginMove(f, k, i)
      PROVE  LinksInv'
  <2> DEFINE r == [does |-> "move", image |-> k.image, link |-> k.id, from |-> k.piece, to |-> i,
                   holds |-> {k.piece, i}, asked |-> FALSE, at |-> AnyPlace, saw |-> Unseen]
  <2>1. /\ filing' = [filing EXCEPT ![f] = r] /\ Overlaps(r.does, r.image)
        /\ UNCHANGED <<shelf, links, numbered, pieceOf>>
    BY <1>6 DEF BeginMove, Begins
  <2>2. AFiling(r)
    BY <1>1 DEF AFiling, Doings, Files, AnyPlace
  <2>3. /\ r.saw = Unseen /\ r.link \in 0..numbered
        /\ \A l \in links : l.id = r.link => l.image = r.image
        /\ r.does = "delete" => \A l \in links : l.image = r.image => l.piece \in r.holds
    BY <1>1, <1>2
  <2> HIDE DEF r
  <2> QED BY <2>1, <2>2, <2>3, BeginningKeeps
<1>7. ASSUME NEW p \in Photograph, BeginDelete(f, p)
      PROVE  LinksInv'
  <2> DEFINE r == [does |-> "delete", image |-> p, link |-> 0, from |-> 0, to |-> 0,
                   holds |-> {l.piece : l \in {k \in links : k.image = p}}, asked |-> FALSE, at |-> AnyPlace, saw |-> Unseen]
  <2>1. /\ filing' = [filing EXCEPT ![f] = r] /\ Overlaps(r.does, r.image)
        /\ UNCHANGED <<shelf, links, numbered, pieceOf>>
    BY <1>7 DEF BeginDelete, Begins
  <2>2. AFiling(r)
    BY <1>1 DEF AFiling, Doings, Files, AnyPlace
  <2>3. /\ r.saw = Unseen /\ r.link \in 0..numbered
        /\ \A l \in links : l.id = r.link => l.image = r.image
        /\ r.does = "delete" => \A l \in links : l.image = r.image => l.piece \in r.holds
    BY <1>1, <1>2
  <2> HIDE DEF r
  <2> QED BY <2>1, <2>2, <2>3, BeginningKeeps
<1>8. ASSUME NEW p \in Photograph, NEW i \in Piece, NEW n \in Position, BeginImport(f, p, i, n)
      PROVE  LinksInv'
  <2> DEFINE r == [does |-> "import", image |-> p, link |-> 0, from |-> i, to |-> i,
                   holds |-> {i}, asked |-> (n = 1 /\ Primaries(i, links) = {}),
                   at |-> {n}, saw |-> Unseen]
  <2>1. /\ filing' = [filing EXCEPT ![f] = r] /\ Overlaps(r.does, r.image)
        /\ UNCHANGED <<shelf, links, numbered, pieceOf>>
    BY <1>8 DEF BeginImport, Begins
  <2>2. AFiling(r)
    BY <1>1 DEF AFiling, Doings, Files
  <2>3. /\ r.saw = Unseen /\ r.link \in 0..numbered
        /\ \A l \in links : l.id = r.link => l.image = r.image
        /\ r.does = "delete" => \A l \in links : l.image = r.image => l.piece \in r.holds
    BY <1>1, <1>2
  <2> HIDE DEF r
  <2> QED BY <2>1, <2>2, <2>3, BeginningKeeps
<1> QED BY <1>3, <1>4, <1>5, <1>6, <1>7, <1>8 DEF FilingBegins

LEMMA HoldPieceKeeps ==
    ASSUME LinksInv, NEW f \in Filing, HoldPiece(f)
    PROVE  LinksInv'
<1> DEFINE i == FirstWanted(f)
<1>1. /\ pieceOf[i] = Free /\ pieceOf' = [pieceOf EXCEPT ![i] = f]
      /\ UNCHANGED <<shelf, links, numbered, filing>> /\ LinksTypeOK
  BY DEF HoldPiece, LinksInv
<1> HIDE DEF i
<1>2. \A g \in Filing, j \in Piece : pieceOf[j] = g => pieceOf'[j] = g
  <2>1. Free \notin Filing
    BY LinksAssumption DEF Free
  <2> QED BY <1>1, <2>1 DEF LinksTypeOK
<1>3. LinksTypeOK'
  BY <1>1 DEF LinksTypeOK, Sound
<1>4. LinkKeepsImage' /\ AtMostOne(links)'
  BY <1>1 DEF LinksInv, LinkKeepsImage, AtMostOne
<1>5. SeenIsTrue'
  <2>1. \A g \in Filing : filing[g] # Nothing /\ Looked(g) => filing[g].to \in Piece
    BY <1>1, LookedFiles
  <2> QED BY <1>1, <1>2, <2>1 DEF LinksInv, SeenIsTrue, Looked, On, Primaries
<1>6. ~DeleteOverlaps => SomePrimary(links)' /\ DeletesAlone' /\ DeletedIsHeld'
  BY <1>1 DEF LinksInv, SomePrimary, DeletesAlone, DeletedIsHeld, On, Primaries
<1> QED BY <1>3, <1>4, <1>5, <1>6 DEF LinksInv

LEMMA LookAroundKeeps ==
    ASSUME LinksInv, NEW f \in Filing, filing[f] # Nothing, LookAround(f)
    PROVE  LinksInv'
<1> DEFINE i == filing[f].to
           saw == [looked |-> TRUE, first |-> Primaries(i, links) = {}, place |-> PlaceFor(f)]
<1>1. /\ \E does \in Files : filing[f].does = does /\ HoldsAll(f)
      /\ filing' = [filing EXCEPT ![f].saw = saw]
      /\ UNCHANGED <<shelf, links, numbered, pieceOf>> /\ LinksTypeOK
  BY DEF LookAround, Ready, LinksInv, Files
<1>2. AFiling(filing[f]) /\ filing[f].link \in 0..numbered /\ filing[f].does \in Files /\ filing[f].does # "delete"
  BY <1>1 DEF LinksTypeOK, Files
<1>3. i \in filing[f].holds /\ i \in Piece /\ pieceOf[i] = f
  BY <1>1, <1>2 DEF AFiling, HoldsAll, Wanted
<1>4. /\ saw.place \in Int
      /\ filing[f].at = AnyPlace => \A l \in On(i, links) : l.place < saw.place
      /\ saw.first \in BOOLEAN /\ (saw.first <=> Primaries(i, links) = {})
  <2>1. CASE filing[f].at = AnyPlace
    BY <1>1, <2>1, NextPlaceIs DEF LinksTypeOK, PlaceFor
  <2>2. CASE filing[f].at # AnyPlace
    <3>1. PlaceFor(f) \in Int
      BY <1>2, <2>2, LinksAssumption DEF AFiling, PlaceFor, AnyPlace
    <3> QED BY <2>2, <3>1
  <2> QED BY <2>1, <2>2
<1> HIDE DEF saw
<1>5. /\ filing'[f] = [does |-> filing[f].does, image |-> filing[f].image,
                       link |-> filing[f].link, from |-> filing[f].from, to |-> filing[f].to,
                       holds |-> filing[f].holds, asked |-> filing[f].asked,
                       at |-> filing[f].at, saw |-> saw]
      /\ \A g \in Filing : g # f => filing'[g] = filing[g]
  BY <1>1, <1>2 DEF LinksTypeOK, AFiling
<1>6. /\ filing'[f].does = filing[f].does /\ filing'[f].image = filing[f].image
      /\ filing'[f].link = filing[f].link /\ filing'[f].from = filing[f].from
      /\ filing'[f].to = filing[f].to /\ filing'[f].holds = filing[f].holds
      /\ filing'[f].asked = filing[f].asked /\ filing'[f].at = filing[f].at
      /\ filing'[f].saw = saw
  BY <1>5
<1>7. LinksTypeOK'
  <2>1. ASSUME NEW g \in Filing, filing'[g] # Nothing
        PROVE  AFiling(filing'[g]) /\ filing'[g].link \in 0..numbered
    <3>1. CASE g = f
      <4>1. /\ filing'[f].does \in Doings /\ filing'[f].asked \in BOOLEAN
            /\ filing'[f].at \subseteq Position
            /\ filing'[f].does \in {"upload", "move"} => filing'[f].at = AnyPlace
            /\ filing'[f].does # "delete" =>
                  /\ {filing'[f].from, filing'[f].to} \subseteq Piece
                  /\ filing'[f].holds = {filing'[f].from, filing'[f].to}
            /\ filing'[f].does = "show first" => filing'[f].asked
            /\ filing'[f].does \in Files /\ filing'[f].link \in 0..numbered
        BY <1>2, <1>6 DEF AFiling
      <4>2. filing'[f] = [does |-> filing'[f].does, image |-> filing'[f].image,
                          link |-> filing'[f].link, from |-> filing'[f].from,
                          to |-> filing'[f].to, holds |-> filing'[f].holds,
                          asked |-> filing'[f].asked,
                          at |-> filing'[f].at, saw |-> filing'[f].saw]
        BY <1>5, <1>6
      <4> QED BY <3>1, <4>1, <4>2 DEF AFiling
    <3>2. CASE g # f
      BY <1>1, <1>5, <2>1, <3>2 DEF LinksTypeOK
    <3> QED BY <3>1, <3>2
  <2>2. filing' = [g \in Filing |-> filing'[g]]
    BY <1>1 DEF LinksTypeOK
  <2> QED BY <1>1, <2>1, <2>2 DEF LinksTypeOK, Sound
<1>8. LinkKeepsImage' /\ AtMostOne(links)'
  BY <1>1, <1>5, <1>6 DEF LinksInv, LinkKeepsImage, AtMostOne
<1>9. SeenIsTrue'
  <2> SUFFICES ASSUME NEW g \in Filing, filing'[g] # Nothing, filing'[g].saw.looked
               PROVE  /\ pieceOf[filing'[g].to] = g
                      /\ filing'[g].saw.place \in Int
                      /\ filing'[g].at = AnyPlace =>
                             \A l \in On(filing'[g].to, links) : l.place < filing'[g].saw.place
                      /\ filing'[g].saw.first \in BOOLEAN
                      /\ filing'[g].saw.first => Primaries(filing'[g].to, links) = {}
                      /\ ~DeleteOverlaps /\ Primaries(filing'[g].to, links) = {} =>
                             filing'[g].saw.first
    BY <1>1 DEF SeenIsTrue, Looked, On, Primaries
  <2>1. CASE g = f
    BY <1>3, <1>4, <1>6, <2>1
  <2>2. CASE g # f
    BY <1>5, <2>2 DEF LinksInv, SeenIsTrue, Looked
  <2> QED BY <2>1, <2>2
<1>10. ASSUME ~DeleteOverlaps
       PROVE  SomePrimary(links)' /\ DeletesAlone' /\ DeletedIsHeld'
  <2>1. SomePrimary(links)'
    BY <1>1, <1>10 DEF LinksInv, SomePrimary, On, Primaries
  <2>2. DeletesAlone'
    BY <1>5, <1>6, <1>10 DEF LinksInv, DeletesAlone
  <2>3. DeletedIsHeld'
    BY <1>1, <1>5, <1>6, <1>10 DEF LinksInv, DeletedIsHeld
  <2> QED BY <2>1, <2>2, <2>3
<1> QED BY <1>7, <1>8, <1>9, <1>10 DEF LinksInv

-----------------------------------------------------------------------------
(* Writing.                                                                *)

\* What a request is about, once it holds all it wants.
LEMMA ReadyIs ==
    ASSUME LinksInv, NEW f \in Filing, filing[f] # Nothing, NEW does, Ready(f, does)
    PROVE  filing[f].does = does /\ \A i \in filing[f].holds : pieceOf[i] = f
BY DEF Ready, HoldsAll, Wanted

LEMMA HeldEnds ==
    ASSUME LinksInv, NEW f \in Filing, filing[f] # Nothing, HoldsAll(f),
           filing[f].does # "delete"
    PROVE  /\ filing[f].from \in Piece /\ filing[f].to \in Piece
           /\ pieceOf[filing[f].from] = f /\ pieceOf[filing[f].to] = f
<1>1. AFiling(filing[f])
  BY DEF LinksInv, LinksTypeOK
<1>2. {filing[f].from, filing[f].to} \subseteq Piece /\ filing[f].holds = {filing[f].from, filing[f].to}
  BY <1>1 DEF AFiling
<1> QED BY <1>2 DEF HoldsAll, Wanted

LEMMA AskedIs ==
    ASSUME LinksInv, NEW f \in Filing, filing[f] # Nothing
    PROVE  filing[f].asked \in BOOLEAN /\ (filing[f].does = "show first" => filing[f].asked)
BY DEF LinksInv, LinksTypeOK, AFiling

LEMMA NowIs ==
    ASSUME LinksInv
    PROVE  /\ numbered \in Nat /\ Sound(links, numbered) /\ AtMostOne(links)
           /\ ~DeleteOverlaps => SomePrimary(links)
BY DEF LinksInv, LinksTypeOK

\* Fewer rows are still sound.
LEMMA FewerRows ==
    ASSUME LinksInv, NEW ls \in SUBSET links
    PROVE  Sound(ls, numbered) /\ AtMostOne(ls)
BY DEF LinksInv, LinksTypeOK, Sound, AtMostOne

\* Taking rows away and filling the places again, of items that are held.
LEMMA FillingWrites ==
    ASSUME LinksInv, NEW g \in Filing, NEW ls, NEW freed, Sound(ls, numbered),
           AtMostOne(ls),
           \A i \in freed \cap Piece : pieceOf[i] = g,
           \A i \in Piece : pieceOf[i] # g => On(i, ls) \subseteq On(i, links),
           ~DeleteOverlaps => \A i \in Piece \ freed : Primaries(i, ls) # {} \/ On(i, ls) = {},
           ~DeleteOverlaps =>
               \A i \in Piece : pieceOf[i] # g => On(i, links) \subseteq On(i, ls),
           \A k \in ls : \E l \in links : l.id = k.id /\ l.image = k.image
                              /\ (l.piece = k.piece \/ k.image = filing[g].image)
    PROVE  /\ Writes(g, VacancyFilled(ls, freed), numbered)
           /\ \A k \in VacancyFilled(ls, freed) :
                 \E l \in ls : Same(k, l) /\ (l.primary => k.primary)
<1> DEFINE L == VacancyFilled(ls, freed)
<1>1. numbered \in Nat /\ numbered >= numbered
  BY NowIs
<1>2. PICK mark \in [ls -> BOOLEAN] :
              /\ L = Remarked(ls, mark)
              /\ \A l \in ls : l.primary => mark[l]
              /\ \A k, l \in ls : mark[k] /\ mark[l] /\ k.piece = l.piece => k = l
              /\ \A l \in ls : l.piece \notin freed => mark[l] = l.primary
              /\ \A i \in freed : On(i, ls) # {} => \E l \in On(i, ls) : mark[l]
  BY <1>1, VacancyIs
<1> HIDE DEF L
<1>3. /\ Sound(L, numbered)
      /\ \A k \in L : \E l \in ls : Same(k, l) /\ k.primary = mark[l]
  BY <1>1, <1>2, RemarkedIs
<1>4. AtMostOne(L)
  BY <1>1, <1>2, RemarkedAtMostOne
<1>5. \A i \in Piece \ freed : On(i, L) = On(i, ls)
  <2> SUFFICES ASSUME NEW i \in Piece \ freed
               PROVE  On(i, L) = On(i, ls)
    OBVIOUS
  <2>1. \A l \in On(i, ls) : mark[l] = l.primary
    BY <1>2 DEF On
  <2> QED BY <1>1, <1>2, <2>1, RemarkedOn
<1>6. \A i \in Piece : pieceOf[i] # g => i \notin freed
  OBVIOUS
<1>7. \A i \in Piece : pieceOf[i] # g => On(i, L) \subseteq On(i, links)
  BY <1>5, <1>6
<1>8. ASSUME ~DeleteOverlaps
      PROVE  /\ SomePrimary(L)
             /\ \A i \in Piece : pieceOf[i] # g => On(i, links) \subseteq On(i, L)
  <2>1. \A i \in Piece : pieceOf[i] # g => On(i, links) \subseteq On(i, L)
    BY <1>5, <1>6, <1>8
  <2>2. ASSUME NEW k \in L
        PROVE  Primaries(k.piece, L) # {}
    <3>1. PICK l \in ls : Same(k, l)
      BY <1>3
    <3>2. k.piece \in Piece /\ l \in On(k.piece, ls)
      BY <1>3, <3>1 DEF Sound, Same, On
    <3>3. CASE k.piece \in freed
      <4>1. \E m \in On(k.piece, ls) : mark[m]
        BY <1>2, <3>2, <3>3
      <4> QED BY <1>1, <1>2, <4>1, RemarkedOn
    <3>4. CASE k.piece \notin freed
      <4>1. Primaries(k.piece, ls) # {} /\ On(k.piece, L) = On(k.piece, ls)
        BY <1>5, <1>8, <3>2, <3>4
      <4> QED BY <4>1 DEF Primaries
    <3> QED BY <3>3, <3>4
  <2> QED BY <2>1, <2>2 DEF SomePrimary
<1>9. \A k \in L : \E l \in links : l.id = k.id /\ l.image = k.image
                              /\ (l.piece = k.piece \/ k.image = filing[g].image)
  <2> SUFFICES ASSUME NEW k \in L
               PROVE  \E l \in links : l.id = k.id /\ l.image = k.image
                              /\ (l.piece = k.piece \/ k.image = filing[g].image)
    OBVIOUS
  <2>1. PICK m \in ls : Same(k, m)
    BY <1>3
  <2> QED BY <2>1 DEF Same
<1>10. Writes(g, L, numbered)
  BY <1>1, <1>3, <1>4, <1>7, <1>8, <1>9 DEF Writes
<1>11. \A k \in L : \E l \in ls : Same(k, l) /\ (l.primary => k.primary)
  BY <1>2, <1>3
<1> QED BY <1>10, <1>11 DEF L

\* A primary that is one no more was to make room.
Kept(g, L) ==
    \A l \in links, k \in L :
        l.primary /\ k.id = l.id /\ k.piece = l.piece /\ ~k.primary => filing[g].asked

\* A row new on its item is behind the others, unless its place was named.
New(k) == \A l \in links : l.id = k.id => l.piece # k.piece

Arrives(g, L) ==
    \A k \in L : filing[g].at = AnyPlace /\ New(k) =>
        \A l \in On(k.piece, L) \ {k} : l.place < k.place

\* Marking rows brings none.
LEMMA MarkedArrive ==
    ASSUME NEW g \in Filing, NEW L, \A k \in L : \E l \in links : Same(k, l)
    PROVE  Arrives(g, L)
BY DEF Arrives, New, Same

\* What a row that is written says of its fellows survives the marking of rows.
LEMMA MarkedStayBehind ==
    ASSUME NEW g \in Filing, NEW n \in Nat, NEW ls, Arrives(g, ls), NEW L, Sound(L, n),
           \A k \in L : \E l \in ls : Same(k, l)
    PROVE  Arrives(g, L)
<1> SUFFICES ASSUME NEW k \in L, filing[g].at = AnyPlace, New(k),
                    NEW l \in On(k.piece, L) \ {k}
             PROVE  l.place < k.place
  BY DEF Arrives
<1>1. PICK k1 \in ls : Same(k, k1)
  OBVIOUS
<1>2. PICK l1 \in ls : Same(l, l1)
  BY DEF On
<1>3. New(k1)
  BY <1>1 DEF New, Same
<1>4. k.id # l.id
  BY DEF Sound, On
<1>5. l1 \in On(k1.piece, ls) \ {k1}
  BY <1>1, <1>2, <1>4 DEF Same, On
<1>6. l1.place < k1.place
  BY <1>3, <1>5 DEF Arrives
<1> QED BY <1>1, <1>2, <1>6 DEF Same

LEMMA NothingWritten ==
    ASSUME LinksInv, NEW g \in Filing
    PROVE  Writes(g, links, numbered) /\ Kept(g, links) /\ Arrives(g, links)
<1>1. numbered >= numbered
  BY NowIs
<1>2. Kept(g, links)
  BY NowIs DEF Kept, Sound
<1>3. Arrives(g, links)
  BY MarkedArrive DEF Same
<1> QED BY <1>1, <1>2, <1>3, NowIs DEF Writes

LEMMA RemovingWrites ==
    ASSUME LinksInv, NEW g \in Filing, NEW ls \in SUBSET links, NEW freed,
           \A i \in freed \cap Piece : pieceOf[i] = g,
           ~DeleteOverlaps => \A l \in links \ ls : l.piece \in freed
    PROVE  /\ Writes(g, VacancyFilled(ls, freed), numbered)
           /\ Kept(g, VacancyFilled(ls, freed))
           /\ Arrives(g, VacancyFilled(ls, freed))
<1>1. Sound(ls, numbered) /\ AtMostOne(ls)
  BY FewerRows
<1>2. \A i : On(i, ls) \subseteq On(i, links)
  BY DEF On
<1>3. ASSUME ~DeleteOverlaps, NEW i \in Piece, i \notin freed
      PROVE  On(i, ls) = On(i, links) /\ (Primaries(i, ls) # {} \/ On(i, ls) = {})
  <2>1. On(i, ls) = On(i, links)
    BY <1>3 DEF On
  <2>2. On(i, links) # {} => Primaries(i, links) # {}
    BY <1>3, NowIs DEF SomePrimary, On
  <2> QED BY <2>1, <2>2 DEF Primaries
<1>4. \A i \in Piece : pieceOf[i] # g => i \notin freed
  OBVIOUS
<1>5. \A k \in ls : \E l \in links : l.id = k.id /\ l.image = k.image
                              /\ (l.piece = k.piece \/ k.image = filing[g].image)
  OBVIOUS
<1>6. ~DeleteOverlaps => \A i \in Piece \ freed : Primaries(i, ls) # {} \/ On(i, ls) = {}
  BY <1>3
<1>7. ~DeleteOverlaps => \A i \in Piece : pieceOf[i] # g => On(i, links) \subseteq On(i, ls)
  BY <1>3, <1>4
<1>8. /\ Writes(g, VacancyFilled(ls, freed), numbered)
      /\ \A k \in VacancyFilled(ls, freed) :
            \E l \in ls : Same(k, l) /\ (l.primary => k.primary)
  BY <1>1, <1>2, <1>5, <1>6, <1>7, FillingWrites
<1>9. \A m, l \in links : m.id = l.id => m = l
  BY NowIs DEF Sound
<1>10. Kept(g, VacancyFilled(ls, freed))
  BY <1>8, <1>9 DEF Kept, Same
<1>11. Arrives(g, VacancyFilled(ls, freed))
  BY <1>8, MarkedArrive
<1> QED BY <1>8, <1>10, <1>11

LEMMA DetachWrites ==
    ASSUME LinksInv, NEW g \in Filing, filing[g] # Nothing, Detach(g)
    PROVE  Writes(g, links', numbered') /\ Kept(g, links') /\ Arrives(g, links') /\ Answers(g)
<1>1. PICK l \in StillOn(g) : links' = VacancyFilled(links \ {l}, {l.piece})
  BY DEF Detach
<1>2. numbered' = numbered /\ Answers(g) /\ pieceOf[l.piece] = g
  <2>1. /\ numbered' = numbered /\ Answers(g) /\ HoldsAll(g)
        /\ filing[g].does # "delete"
    BY DEF Detach, Ready
  <2>2. pieceOf[filing[g].from] = g
    BY <2>1, HeldEnds
  <2> QED BY <1>1, <2>1, <2>2 DEF StillOn
<1>3. links \ {l} \in SUBSET links /\ \A k \in links \ (links \ {l}) : k.piece \in {l.piece}
  OBVIOUS
<1> QED BY <1>1, <1>2, <1>3, RemovingWrites

LEMMA DeleteWrites ==
    ASSUME LinksInv, NEW g \in Filing, filing[g] # Nothing, Delete(g)
    PROVE  Writes(g, links', numbered') /\ Kept(g, links') /\ Arrives(g, links') /\ Answers(g)
<1> DEFINE ls == {l \in links : l.image # filing[g].image}
<1>1. /\ links' = VacancyFilled(ls, filing[g].holds) /\ numbered' = numbered /\ Answers(g)
      /\ filing[g].does = "delete" /\ \A i \in filing[g].holds : pieceOf[i] = g
  BY ReadyIs DEF Delete
<1>2. ~DeleteOverlaps => \A l \in links \ ls : l.piece \in filing[g].holds
  BY <1>1 DEF LinksInv, DeletedIsHeld
<1>3. ls \in SUBSET links
  OBVIOUS
<1> HIDE DEF ls
<1> QED BY <1>1, <1>2, <1>3, RemovingWrites

\* What a request that looked around knows of its item.
LEMMA SawIs ==
    ASSUME LinksInv, NEW g \in Filing, filing[g] # Nothing, Looked(g)
    PROVE  /\ filing[g].saw.place \in Int /\ filing[g].saw.first \in BOOLEAN
           /\ filing[g].at = AnyPlace =>
                 \A l \in links : l.piece = filing[g].to => l.place < filing[g].saw.place
           /\ \A l \in links : l.piece = filing[g].to /\ l.primary => ~filing[g].saw.first
           /\ ~DeleteOverlaps /\ ~filing[g].saw.first => Primaries(filing[g].to, links) # {}
BY DEF LinksInv, SeenIsTrue, On, Primaries

LEMMA MoveWrites ==
    ASSUME LinksInv, NEW g \in Filing, filing[g] # Nothing, Move(g)
    PROVE  Writes(g, links', numbered') /\ Kept(g, links') /\ Arrives(g, links') /\ Answers(g)
<1> DEFINE to == filing[g].to
           saw == filing[g].saw
<1>1. PICK l \in StillOn(g) :
          /\ l.piece # to /\ Filed(l.image, to) = {}
          /\ links' = VacancyFilled((links \ {l}) \cup
                 {[id |-> l.id, image |-> l.image, piece |-> to,
                   primary |-> saw.first, place |-> saw.place]}, {l.piece})
  BY DEF Move
<1>2. /\ numbered' = numbered /\ Answers(g) /\ pieceOf[l.piece] = g /\ pieceOf[to] = g
      /\ to \in Piece /\ l \in links /\ l.id = filing[g].link
  <2>1. /\ numbered' = numbered /\ Answers(g) /\ HoldsAll(g)
        /\ filing[g].does # "delete"
    BY DEF Move, Ready
  <2>2. pieceOf[filing[g].from] = g /\ pieceOf[to] = g /\ to \in Piece
    BY <2>1, HeldEnds
  <2> QED BY <1>1, <2>1, <2>2 DEF StillOn
<1>3. l.image = filing[g].image
  BY <1>2 DEF LinksInv, LinkKeepsImage
<1>4. /\ saw.place \in Int /\ saw.first \in BOOLEAN
      /\ filing[g].at = AnyPlace => \A k \in links : k.piece = to => k.place < saw.place
      /\ \A k \in links : k.piece = to /\ k.primary => ~saw.first
      /\ ~DeleteOverlaps /\ ~saw.first => Primaries(to, links) # {}
  BY SawIs DEF Move
<1> DEFINE r == [id |-> l.id, image |-> l.image, piece |-> to, primary |-> saw.first,
                 place |-> saw.place]
           ls == (links \ {l}) \cup {r}
<1>5. /\ l = [id |-> l.id, image |-> l.image, piece |-> l.piece,
              primary |-> l.primary, place |-> l.place]
      /\ l.id \in 1..numbered /\ \A k, m \in links : k.id = m.id => k = m
  BY <1>2, NowIs DEF Sound
<1>7. links' = VacancyFilled(ls, {l.piece})
  BY <1>1
<1>8. /\ r.id = l.id /\ r.image = l.image /\ r.piece = to /\ r.place = saw.place
      /\ r = [id |-> r.id, image |-> r.image, piece |-> r.piece,
              primary |-> r.primary, place |-> r.place]
  OBVIOUS
<1>9. r.primary = saw.first
  OBVIOUS
<1> HIDE DEF r, to, saw
<1>10. \A k \in ls : (k \in links /\ k # l) \/ k = r
  OBVIOUS
<1>11. r \in ls /\ \A k \in links : k # l => k \in ls
  OBVIOUS
<1> HIDE DEF ls
<1>12. Sound(ls, numbered)
  <2>1. \A k \in links : /\ k = [id |-> k.id, image |-> k.image, piece |-> k.piece,
                                  primary |-> k.primary, place |-> k.place]
                          /\ k.id \in 1..numbered /\ k.piece \in Piece
                          /\ k.primary \in BOOLEAN /\ k.place \in Int
    BY NowIs DEF Sound
  <2>2. /\ r.id \in 1..numbered /\ r.piece \in Piece /\ r.primary \in BOOLEAN
        /\ r.place \in Int
    BY <1>2, <1>4, <1>5, <1>8, <1>9
  <2>3. \A k, m \in ls : k.id = m.id => k = m
    BY <1>2, <1>5, <1>8, <1>10
  <2> QED BY <1>8, <1>10, <2>1, <2>2, <2>3 DEF Sound
<1>13. AtMostOne(ls)
  BY <1>4, <1>8, <1>9, <1>10, NowIs DEF AtMostOne
<1>15. \A i \in Piece : pieceOf[i] # g => On(i, ls) = On(i, links)
  <2> SUFFICES ASSUME NEW i \in Piece, pieceOf[i] # g
               PROVE  On(i, ls) = On(i, links)
    OBVIOUS
  <2>1. i # to /\ i # l.piece
    BY <1>2
  <2> QED BY <1>8, <1>10, <1>11, <2>1 DEF On
<1>16. ASSUME ~DeleteOverlaps, NEW i \in Piece \ {l.piece}
       PROVE  Primaries(i, ls) # {} \/ On(i, ls) = {}
  <2>1. CASE i = to
    <3>1. CASE saw.first
      BY <1>8, <1>9, <1>11, <2>1, <3>1 DEF Primaries, On
    <3>2. CASE ~saw.first
      <4>1. PICK k \in links : k.piece = to /\ k.primary
        BY <1>4, <1>16, <3>2 DEF Primaries, On
      <4>2. k # l
        BY <1>1, <4>1
      <4> QED BY <1>11, <2>1, <4>1, <4>2 DEF Primaries, On
    <3> QED BY <1>4, <3>1, <3>2
  <2>2. CASE i # to
    <3>1. On(i, ls) = On(i, links)
      BY <1>8, <1>10, <1>11, <1>16, <2>2 DEF On
    <3>2. On(i, links) # {} => Primaries(i, links) # {}
      BY <1>16, NowIs DEF SomePrimary, On
    <3> QED BY <3>1, <3>2 DEF Primaries
  <2> QED BY <2>1, <2>2
<1>17. \A k \in ls : \E m \in links : m.id = k.id /\ m.image = k.image
                              /\ (m.piece = k.piece \/ k.image = filing[g].image)
  BY <1>2, <1>3, <1>8, <1>10
<1>18. /\ Writes(g, VacancyFilled(ls, {l.piece}), numbered)
       /\ \A k \in VacancyFilled(ls, {l.piece}) :
             \E m \in ls : Same(k, m) /\ (m.primary => k.primary)
  <2>1. \A i \in {l.piece} \cap Piece : pieceOf[i] = g
    BY <1>2
  <2>2. \A i \in Piece : pieceOf[i] # g => On(i, ls) \subseteq On(i, links)
    BY <1>15
  <2>3. ~DeleteOverlaps => \A i \in Piece : pieceOf[i] # g => On(i, links) \subseteq On(i, ls)
    BY <1>15
  <2>4. ~DeleteOverlaps => \A i \in Piece \ {l.piece} : Primaries(i, ls) # {} \/ On(i, ls) = {}
    BY <1>16
  <2> QED BY <1>12, <1>13, <1>17, <2>1, <2>2, <2>3, <2>4, FillingWrites
<1>19. Kept(g, links')
  <2> SUFFICES ASSUME NEW j \in links, NEW k \in links', j.primary, k.id = j.id,
                      k.piece = j.piece
               PROVE  k.primary
    BY DEF Kept
  <2>1. PICK m \in ls : Same(k, m) /\ (m.primary => k.primary)
    BY <1>7, <1>18
  <2>2. m # r
    <3>1. r.id = j.id => j = l
      BY <1>2, <1>5, <1>8
    <3> QED BY <1>1, <1>8, <2>1, <3>1 DEF Same
  <2>3. m = j
    BY <1>5, <1>10, <2>1, <2>2 DEF Same
  <2> QED BY <2>1, <2>3
<1>20. Arrives(g, ls)
  <2>1. \A k \in links : ~New(k)
    BY DEF New
  <2>2. filing[g].at = AnyPlace => \A k \in On(to, ls) \ {r} : k.place < r.place
    BY <1>4, <1>8, <1>10 DEF On
  <2> QED BY <1>8, <1>10, <2>1, <2>2 DEF Arrives
<1>21. Arrives(g, links')
  <2>1. Sound(links', numbered) /\ numbered \in Nat
    BY <1>7, <1>18 DEF Writes
  <2> QED BY <1>7, <1>18, <1>20, <2>1, MarkedStayBehind
<1> QED BY <1>2, <1>7, <1>18, <1>19, <1>21

\* Room is made by taking the mark off every photograph of the item.
LEMMA DemotedIs ==
    ASSUME LinksInv, NEW i, NEW L, L = Demoted(links, i)
    PROVE  /\ Sound(L, numbered) /\ AtMostOne(L)
           /\ \A k \in L : \E l \in links : Same(k, l)
           /\ \A k \in L : k.piece = i => ~k.primary
           /\ \A j : j # i => On(j, L) = On(j, links)
<1> DEFINE mark == [l \in links |-> l.primary /\ l.piece # i]
<1>1. \A l \in links : l.primary \in BOOLEAN
  BY NowIs DEF Sound
<1>2. mark \in [links -> BOOLEAN] /\ \A l \in links : mark[l] = (l.primary /\ l.piece # i)
  BY <1>1
<1>3. L = Remarked(links, mark)
  BY DEF Demoted, Remarked
<1> HIDE DEF mark
<1>4. /\ Sound(L, numbered)
      /\ \A k \in L : \E l \in links : Same(k, l) /\ k.primary = mark[l]
  BY <1>2, <1>3, NowIs, RemarkedIs
<1>5. \A k, l \in links : mark[k] /\ mark[l] /\ k.piece = l.piece => k = l
  BY <1>2, NowIs DEF AtMostOne
<1>6. AtMostOne(L)
  BY <1>2, <1>3, <1>5, NowIs, RemarkedAtMostOne
<1>7. \A k \in L : k.piece = i => ~k.primary
  BY <1>2, <1>4 DEF Same
<1>8. ASSUME NEW j, j # i
      PROVE  On(j, L) = On(j, links)
  <2>1. \A l \in On(j, links) : mark[l] = l.primary
    BY <1>1, <1>2, <1>8 DEF On
  <2> QED BY <1>2, <1>3, <2>1, NowIs, RemarkedOn
<1> QED BY <1>4, <1>6, <1>7, <1>8

\* A new row, where room was made for it or none was needed.
LEMMA NewRowWrites ==
    ASSUME LinksInv, NEW g \in Filing, NEW i \in Piece, pieceOf[i] = g,
           NEW R, Sound(R, numbered), AtMostOne(R),
           \A k \in R : \E l \in links : Same(k, l),
           \A j : j # i => On(j, R) = On(j, links),
           NEW r, r = [id |-> r.id, image |-> r.image, piece |-> r.piece,
                       primary |-> r.primary, place |-> r.place],
           r.id = numbered + 1, r.piece = i, r.image = filing[g].image,
           r.place \in Int, r.primary \in BOOLEAN,
           filing[g].at = AnyPlace => \A l \in links : l.piece = i => l.place < r.place,
           r.primary => \A k \in R : k.piece = i => ~k.primary,
           ~DeleteOverlaps /\ ~r.primary => Primaries(i, R) # {}
    PROVE  Writes(g, R \cup {r}, numbered + 1) /\ Arrives(g, R \cup {r})
<1> DEFINE L == R \cup {r}
<1>1. numbered \in Nat /\ Sound(links, numbered)
  BY NowIs
<1>2. (\A k \in L : k \in R \/ k = r) /\ r \in L /\ R \subseteq L
  OBVIOUS
<1>3. \A k \in R : /\ k = [id |-> k.id, image |-> k.image, piece |-> k.piece,
                           primary |-> k.primary, place |-> k.place]
                   /\ k.id \in 1..numbered /\ k.piece \in Piece
                   /\ k.primary \in BOOLEAN /\ k.place \in Int
  BY DEF Sound
<1> HIDE DEF L
<1>4. Sound(L, numbered + 1)
  <2>1. \A k \in R : k.id \in 1..(numbered + 1) /\ k.id # r.id
    BY <1>1, <1>3
  <2>2. r.id \in 1..(numbered + 1)
    BY <1>1
  <2>3. \A k, m \in L : k.id = m.id => k = m
    BY <1>2, <2>1 DEF Sound
  <2> QED BY <1>2, <1>3, <2>1, <2>2, <2>3 DEF Sound
<1>5. AtMostOne(L)
  BY <1>2 DEF AtMostOne
<1>6. Arrives(g, L)
  <2>1. \A k \in R : ~New(k)
    BY DEF New, Same
  <2>2. filing[g].at = AnyPlace => \A k \in On(i, L) \ {r} : k.place < r.place
    BY <1>2 DEF On, Same
  <2> QED BY <1>2, <2>1, <2>2 DEF Arrives
<1>8. ASSUME NEW j, j # i
      PROVE  On(j, L) = On(j, links)
  <2>1. On(j, L) = On(j, R)
    BY <1>2, <1>8 DEF On
  <2> QED BY <1>8, <2>1
<1>9. \A j \in Piece : pieceOf[j] # g => On(j, L) = On(j, links)
  BY <1>8
<1>10. ASSUME ~DeleteOverlaps, NEW k \in L
       PROVE  Primaries(k.piece, L) # {}
  <2>1. CASE k.piece = i
    <3>1. CASE r.primary
      BY <1>2, <2>1, <3>1 DEF Primaries, On
    <3>2. CASE ~r.primary
      BY <1>2, <1>10, <2>1, <3>2 DEF Primaries, On
    <3> QED BY <3>1, <3>2
  <2>2. CASE k.piece # i
    <3>1. k \in On(k.piece, L) /\ On(k.piece, L) = On(k.piece, links)
      BY <1>8, <2>2 DEF On
    <3>2. Primaries(k.piece, links) # {}
      BY <1>10, <3>1, NowIs DEF SomePrimary, On
    <3> QED BY <3>1, <3>2 DEF Primaries
  <2> QED BY <2>1, <2>2
<1>11. \A k \in L :
         \/ k.id > numbered /\ k.image = filing[g].image
         \/ \E l \in links : l.id = k.id /\ l.image = k.image /\ l.piece = k.piece
  <2>1. r.id > numbered
    BY <1>1
  <2> QED BY <1>2, <2>1 DEF Same
<1>12. numbered + 1 \in Nat /\ numbered + 1 >= numbered
  BY <1>1
<1>13. Writes(g, L, numbered + 1)
  BY <1>4, <1>5, <1>9, <1>10, <1>11, <1>12 DEF Writes, SomePrimary
<1> QED BY <1>6, <1>13 DEF L

LEMMA FileWrites ==
    ASSUME LinksInv, NEW g \in Filing, filing[g] # Nothing,
           NEW does \in {"upload", "attach", "import"}, FileIt(g, does)
    PROVE  Writes(g, links', numbered') /\ Kept(g, links') /\ Arrives(g, links') /\ Answers(g)
<1> DEFINE i == filing[g].to
           saw == filing[g].saw
           asked == filing[g].asked
           R == RoomMade(links, i, asked)
           r == [id |-> numbered + 1, image |-> filing[g].image, piece |-> i,
                 primary |-> (asked \/ saw.first), place |-> saw.place]
<1>1. /\ links' = R \cup {r} /\ numbered' = numbered + 1
      /\ Answers(g) /\ HoldsAll(g) /\ Looked(g) /\ filing[g].does # "delete"
  BY DEF FileIt, Ready
<1>2. i \in Piece /\ pieceOf[i] = g
  BY <1>1, HeldEnds
<1>3. /\ saw.place \in Int /\ saw.first \in BOOLEAN /\ asked \in BOOLEAN
      /\ filing[g].at = AnyPlace => \A k \in links : k.piece = i => k.place < saw.place
      /\ \A k \in links : k.piece = i /\ k.primary => ~saw.first
      /\ ~DeleteOverlaps /\ ~saw.first => Primaries(i, links) # {}
  BY <1>1, SawIs, AskedIs
<1>4. /\ r.id = numbered + 1 /\ r.image = filing[g].image /\ r.piece = i
      /\ r.place = saw.place
      /\ r = [id |-> r.id, image |-> r.image, piece |-> r.piece,
              primary |-> r.primary, place |-> r.place]
  OBVIOUS
<1>5. r.primary = (asked \/ saw.first)
  OBVIOUS
<1>6. (asked => R = Demoted(links, i)) /\ (~asked => R = links)
  BY DEF RoomMade
<1> HIDE DEF r, R, asked, saw, i
<1>7. r.primary \in BOOLEAN /\ (r.primary <=> asked \/ saw.first)
  BY <1>3, <1>5
<1>8. /\ Sound(R, numbered) /\ AtMostOne(R)
      /\ \A k \in R : \E l \in links : Same(k, l)
      /\ \A j : j # i => On(j, R) = On(j, links)
      /\ asked => \A k \in R : k.piece = i => ~k.primary
  <2>1. CASE asked
    <3>1. R = Demoted(links, i)
      BY <1>6, <2>1
    <3> QED BY <3>1, DemotedIs
  <2>2. CASE ~asked
    <3>1. R = links
      BY <1>6, <2>2
    <3>2. \A k \in links : Same(k, k)
      BY DEF Same
    <3> QED BY <2>2, <3>1, <3>2, NowIs
  <2> QED BY <1>3, <2>1, <2>2
<1>9. r.primary => \A k \in R : k.piece = i => ~k.primary
  <2>1. CASE asked
    BY <1>8, <2>1
  <2>2. CASE ~asked
    BY <1>3, <1>6, <1>7, <2>2
  <2> QED BY <1>3, <2>1, <2>2
<1>10. ~DeleteOverlaps /\ ~r.primary => Primaries(i, R) # {}
  BY <1>3, <1>6, <1>7
<1>11. filing[g].at = AnyPlace => \A l \in links : l.piece = i => l.place < r.place
  BY <1>3, <1>4
<1>12. Writes(g, R \cup {r}, numbered + 1) /\ Arrives(g, R \cup {r})
  BY <1>2, <1>3, <1>4, <1>7, <1>8, <1>9, <1>10, <1>11, NewRowWrites
<1>13. Kept(g, links')
  <2> SUFFICES ASSUME NEW l \in links, NEW k \in links', l.primary, k.id = l.id,
                      k.piece = l.piece, ~k.primary, ~asked
               PROVE  FALSE
    BY <1>3 DEF Kept, asked
  <2>1. R = links
    BY <1>6
  <2>2. k # r
    <3>1. l.id \in 1..numbered /\ numbered \in Nat
      BY NowIs DEF Sound
    <3> QED BY <1>4, <3>1
  <2>3. k \in links
    BY <1>1, <2>1, <2>2
  <2> QED BY <2>3, NowIs DEF Sound
<1> QED BY <1>1, <1>12, <1>13

\* Showing a photograph first takes the mark off the others of its item.
LEMMA ShownWrites ==
    ASSUME LinksInv, NEW g \in Filing, NEW l \in links, pieceOf[l.piece] = g
    PROVE  Writes(g, ShownFirst(l), numbered) /\ Arrives(g, ShownFirst(l))
<1> DEFINE mark == [k \in links |-> k.id = l.id \/ (k.primary /\ k.piece # l.piece)]
           L == ShownFirst(l)
<1>1. /\ numbered \in Nat /\ numbered >= numbered
      /\ \A k \in links : k.primary \in BOOLEAN /\ (k.id = l.id <=> k = l)
  BY NowIs DEF Sound
<1>2. /\ mark \in [links -> BOOLEAN]
      /\ \A k \in links : mark[k] = (k = l \/ (k.primary /\ k.piece # l.piece))
  BY <1>1
<1>3. L = Remarked(links, mark)
  BY DEF ShownFirst, Remarked
<1> HIDE DEF mark, L
<1>4. /\ Sound(L, numbered)
      /\ \A k \in L : \E m \in links : Same(k, m) /\ k.primary = mark[m]
  BY <1>2, <1>3, NowIs, RemarkedIs
<1>5. \A k, m \in links : mark[k] /\ mark[m] /\ k.piece = m.piece => k = m
  BY <1>2, NowIs DEF AtMostOne
<1>6. AtMostOne(L)
  BY <1>2, <1>3, <1>5, NowIs, RemarkedAtMostOne
<1>7. ASSUME NEW j, j # l.piece
      PROVE  On(j, L) = On(j, links)
  <2>1. \A k \in On(j, links) : mark[k] = k.primary
    BY <1>1, <1>2, <1>7 DEF On
  <2> QED BY <1>2, <1>3, <2>1, NowIs, RemarkedOn
<1>8. Primaries(l.piece, L) # {}
  <2>1. l \in On(l.piece, links) /\ mark[l]
    BY <1>2 DEF On
  <2> QED BY <1>2, <1>3, <2>1, NowIs, RemarkedOn
<1>9. ASSUME ~DeleteOverlaps, NEW k \in L
      PROVE  Primaries(k.piece, L) # {}
  <2>1. CASE k.piece = l.piece
    BY <1>8, <2>1
  <2>2. CASE k.piece # l.piece
    <3>1. k \in On(k.piece, L) /\ On(k.piece, L) = On(k.piece, links)
      BY <1>7, <2>2 DEF On
    <3>2. Primaries(k.piece, links) # {}
      BY <1>9, <3>1, NowIs DEF SomePrimary, On
    <3> QED BY <3>1, <3>2 DEF Primaries
  <2> QED BY <2>1, <2>2
<1>10. \A k \in L : \E m \in links : m.id = k.id /\ m.image = k.image /\ m.piece = k.piece
  BY <1>4 DEF Same
<1>11. \A j \in Piece : pieceOf[j] # g => On(j, L) = On(j, links)
  BY <1>7
<1>12. Writes(g, L, numbered)
  BY <1>1, <1>4, <1>6, <1>9, <1>10, <1>11 DEF Writes, SomePrimary
<1>13. Arrives(g, L)
  BY <1>4, MarkedArrive
<1> QED BY <1>12, <1>13 DEF L

LEMMA ShowFirstWrites ==
    ASSUME LinksInv, NEW g \in Filing, filing[g] # Nothing, ShowFirst(g)
    PROVE  Writes(g, links', numbered') /\ Kept(g, links') /\ Arrives(g, links') /\ Answers(g)
<1>1. PICK l \in StillOn(g) : links' = ShownFirst(l)
  BY DEF ShowFirst
<1>2. /\ numbered' = numbered /\ Answers(g) /\ HoldsAll(g)
      /\ filing[g].does = "show first"
  BY DEF ShowFirst, Ready
<1>3. l \in links /\ pieceOf[l.piece] = g
  BY <1>1, <1>2, HeldEnds DEF StillOn
<1>4. filing[g].asked
  BY <1>2, AskedIs
<1>5. Kept(g, links')
  BY <1>4 DEF Kept
<1> QED BY <1>1, <1>2, <1>3, <1>5, ShownWrites

LEMMA UploadAgainWrites ==
    ASSUME LinksInv, NEW g \in Filing, filing[g] # Nothing, UploadAgain(g)
    PROVE  Writes(g, links', numbered') /\ Kept(g, links') /\ Arrives(g, links') /\ Answers(g)
<1>1. PICK l \in Filed(filing[g].image, filing[g].to) :
          links' = IF filing[g].asked THEN ShownFirst(l) ELSE links
  BY DEF UploadAgain
<1>2. /\ numbered' = numbered /\ Answers(g) /\ HoldsAll(g) /\ filing[g].does # "delete"
  BY DEF UploadAgain, Ready
<1>3. l \in links /\ pieceOf[l.piece] = g
  BY <1>1, <1>2, HeldEnds DEF Filed
<1>4. CASE filing[g].asked
  <2>1. links' = ShownFirst(l)
    BY <1>1, <1>4
  <2>2. Kept(g, links')
    BY <1>4 DEF Kept
  <2> QED BY <1>2, <1>3, <2>1, <2>2, ShownWrites
<1>5. CASE ~filing[g].asked
  <2>1. links' = links
    BY <1>1, <1>5
  <2> QED BY <1>2, <2>1, NothingWritten
<1> QED BY <1>4, <1>5, AskedIs

-----------------------------------------------------------------------------
(* Every step.                                                             *)

\* A step of a request writes nothing and stays, or writes and answers.
LEMMA StepIs ==
    ASSUME LinksInv, NEW f \in Filing, filing[f] # Nothing, FilingStep(f)
    PROVE  \/ HoldPiece(f) \/ LookAround(f)
           \/ Writes(f, links', numbered') /\ Kept(f, links') /\ Arrives(f, links') /\ Answers(f)
<1>1. ASSUME Refuse(f)
      PROVE  Writes(f, links', numbered') /\ Kept(f, links') /\ Arrives(f, links') /\ Answers(f)
  <2>1. links' = links /\ numbered' = numbered /\ Answers(f)
    BY <1>1 DEF Refuse
  <2> QED BY <2>1, NothingWritten
<1>2. ASSUME NEW does \in {"upload", "attach", "import"}, FileIt(f, does)
      PROVE  Writes(f, links', numbered') /\ Kept(f, links') /\ Arrives(f, links') /\ Answers(f)
  BY <1>2, FileWrites
<1>3. ASSUME UploadAgain(f)
      PROVE  Writes(f, links', numbered') /\ Kept(f, links') /\ Arrives(f, links') /\ Answers(f)
  BY <1>3, UploadAgainWrites
<1>4. ASSUME Move(f)
      PROVE  Writes(f, links', numbered') /\ Kept(f, links') /\ Arrives(f, links') /\ Answers(f)
  BY <1>4, MoveWrites
<1>5. ASSUME ShowFirst(f)
      PROVE  Writes(f, links', numbered') /\ Kept(f, links') /\ Arrives(f, links') /\ Answers(f)
  BY <1>5, ShowFirstWrites
<1>6. ASSUME Detach(f)
      PROVE  Writes(f, links', numbered') /\ Kept(f, links') /\ Arrives(f, links') /\ Answers(f)
  BY <1>6, DetachWrites
<1>7. ASSUME Delete(f)
      PROVE  Writes(f, links', numbered') /\ Kept(f, links') /\ Arrives(f, links') /\ Answers(f)
  BY <1>7, DeleteWrites
<1> QED BY <1>1, <1>2, <1>3, <1>4, <1>5, <1>6, <1>7 DEF FilingStep

LEMMA LinksStart ==
    ASSUME LinksInit
    PROVE  LinksInv
<1>1. /\ links = {} /\ numbered = 0 /\ pieceOf = [i \in Piece |-> Free]
      /\ filing = [f \in Filing |-> Nothing]
  BY DEF LinksInit
<1>2. LinksTypeOK
  BY <1>1 DEF LinksTypeOK, Sound
<1> QED BY <1>1, <1>2 DEF LinksInv, LinkKeepsImage, AtMostOne, SeenIsTrue,
                          SomePrimary, DeletesAlone, DeletedIsHeld

LEMMA LinksStep ==
    ASSUME LinksInv, [LinksNext]_linkVars
    PROVE  LinksInv'
<1>1. CASE UNCHANGED linkVars
  <2>1. /\ links' = links /\ numbered' = numbered /\ filing' = filing /\ pieceOf' = pieceOf
    BY <1>1 DEF linkVars
  <2> QED BY <2>1 DEF LinksInv, LinksTypeOK, Sound, LinkKeepsImage, AtMostOne,
                      SeenIsTrue, Looked, On, Primaries, SomePrimary, DeletesAlone, DeletedIsHeld
<1>2. ASSUME NEW f \in Filing, filing[f] = Nothing, FilingBegins(f)
      PROVE  LinksInv'
  BY <1>2, FilingBeginsKeeps
<1>3. ASSUME NEW f \in Filing, filing[f] # Nothing, FilingStep(f)
      PROVE  LinksInv'
  BY <1>3, StepIs, HoldPieceKeeps, LookAroundKeeps, WriteKeeps
<1> QED BY <1>1, <1>2, <1>3 DEF LinksNext

\* A step that takes a primary's mark off answers one that asked, and what it
\* files with no place named goes last.
PrimaryGoesAsAsked ==
    \A l \in links, k \in links' :
        (l.primary /\ k.id = l.id /\ k.piece = l.piece /\ ~k.primary)
            => \E f \in Filing : Finishes(f) /\ filing[f].asked = TRUE

ArrivalsGoLast ==
    \A f \in Filing, k \in links' :
        (Finishes(f) /\ filing[f].at = AnyPlace
           /\ \A l \in links : l.id = k.id => l.piece # k.piece)
           => \A l \in On(k.piece, links') \ {k} : l.place < k.place

LEMMA OrderStep ==
    ASSUME LinksInv, [LinksNext]_linkVars
    PROVE  PrimaryGoesAsAsked /\ ArrivalsGoLast
<1>1. ASSUME links' = links
      PROVE  PrimaryGoesAsAsked /\ ArrivalsGoLast
  BY <1>1, NowIs DEF PrimaryGoesAsAsked, ArrivalsGoLast, Sound
<1>2. CASE UNCHANGED linkVars
  BY <1>1, <1>2 DEF linkVars
<1>3. ASSUME NEW f \in Filing, FilingBegins(f)
      PROVE  links' = links
  BY <1>3 DEF FilingBegins, BeginFile, BeginImport, BeginMove, BeginDetach, BeginShowFirst,
              BeginDelete, Begins
<1>4. ASSUME NEW f \in Filing, filing[f] # Nothing, FilingStep(f)
      PROVE  PrimaryGoesAsAsked /\ ArrivalsGoLast
  <2>1. CASE HoldPiece(f) \/ LookAround(f)
    BY <1>1, <2>1 DEF HoldPiece, LookAround
  <2>2. CASE Kept(f, links') /\ Arrives(f, links') /\ Answers(f)
    <3>1. \A g \in Filing : Finishes(g) <=> g = f
      BY <1>4, <2>2 DEF Finishes, Answers, LinksInv, LinksTypeOK
    <3>2. filing[f].asked => filing[f].asked = TRUE
      BY <1>4, AskedIs
    <3>3. PrimaryGoesAsAsked
      BY <2>2, <3>1, <3>2 DEF Kept, PrimaryGoesAsAsked
    <3>4. ArrivalsGoLast
      BY <2>2, <3>1 DEF Arrives, New, ArrivalsGoLast
    <3> QED BY <3>3, <3>4
  <2> QED BY <1>4, <2>1, <2>2, StepIs
<1> QED BY <1>1, <1>2, <1>3, <1>4 DEF LinksNext

LEMMA OnePrimaryNow ==
    ASSUME LinksInv, ~DeleteOverlaps
    PROVE  OnePrimaryEach
<1>1. ASSUME NEW i \in Piece, On(i, links) # {}
      PROVE  Cardinality(Primaries(i, links)) = 1
  <2>1. Primaries(i, links) # {}
    BY <1>1, NowIs DEF SomePrimary, On
  <2>2. PICK l : l \in Primaries(i, links)
    BY <2>1
  <2>3. Primaries(i, links) = {l}
    BY <2>2, NowIs DEF AtMostOne, Primaries, On
  <2> QED BY <2>3, FS_Singleton
<1> QED BY <1>1 DEF OnePrimaryEach

\* Whatever filings, imports, moves and deletions overlap, an item never has two
\* primaries, one loses its mark only to one that was to be it, and a photograph
\* filed with no place named goes behind all its item has.
THEOREM ArrivalsInOrder ==
    LinksSpec => []AtMostOne(links) /\ ArrivesLast /\ PrimaryIsNotTaken
<1>1. LinksInit => LinksInv
  BY LinksStart
<1>2. LinksInv /\ [LinksNext]_linkVars => LinksInv'
  BY LinksStep
<1>3. LinksInv => AtMostOne(links)
  BY NowIs
<1>4. LinksInv /\ [LinksNext]_linkVars => PrimaryGoesAsAsked /\ ArrivalsGoLast
  BY OrderStep
<1> QED BY <1>1, <1>2, <1>3, <1>4, PTL DEF LinksSpec, PrimaryIsNotTaken, PrimaryGoesAsAsked,
                                            ArrivesLast, ArrivalsGoLast

\* Where no image is deleted while it is being filed, moved or shown first, an
\* item with photographs has exactly one primary too.
THEOREM PhotographsInOrderHolds ==
    ASSUME ~DeleteOverlaps
    PROVE  LinksSpec => PhotographsInOrder
<1>1. LinksInit => LinksInv
  BY LinksStart
<1>2. LinksInv /\ [LinksNext]_linkVars => LinksInv'
  BY LinksStep
<1>3. LinksInv => OnePrimaryEach
  BY OnePrimaryNow
<1>4. LinksInv /\ [LinksNext]_linkVars => PrimaryGoesAsAsked /\ ArrivalsGoLast
  BY OrderStep
<1> QED BY <1>1, <1>2, <1>3, <1>4, PTL DEF LinksSpec, PhotographsInOrder, PrimaryIsNotTaken,
                                            PrimaryGoesAsAsked, ArrivesLast, ArrivalsGoLast

-----------------------------------------------------------------------------
(* The records of what was bought.                                         *)

\* What a row of the list holds: a record that is missing names entry 0.
RowHolds(row) ==
  row = Missing
    \/ row \in [of : Entry, number : 0..MaxNumber, issued : BOOLEAN]

\* What a clerk may have asked.
AskHolds(a) ==
  /\ a.op \in {"add", "rename"} => a.label \in Label
  /\ a.op # "idle" => a.entry \in Entry
  /\ a.op \in {"file", "renumber"} => a.record \in RecordId
  /\ a.op \notin {"file", "renumber"} => a.record = 0 /\ ~a.given.issued
  /\ a.given.number \in 0..MaxNumber
  /\ a.given.issued \in BOOLEAN

PurchaseTypes ==
  /\ entry \in [Entry -> Label \cup {Gone}]
  /\ DOMAIN record = RecordId /\ \A r \in RecordId : RowHolds(record[r])
  /\ DOMAIN ask = Clerk /\ \A c \in Clerk : AskHolds(ask[c])
  /\ numbering \subseteq Clerk

\* A number issued and not yet written is its clerk's alone, above every
\* issued number written by then.
IssuedAlone ==
  /\ \A c, d \in numbering : c = d
  /\ \A c \in Clerk : ask[c].given.issued =>
       /\ c \in numbering
       /\ \A s \in Held : record[s].issued => record[s].number < ask[c].given.number

\* A row being filed is nobody else's, and one being renumbered is there.
RowsReserved ==
  \A c \in Clerk :
    /\ ask[c].op = "file" =>
         /\ ask[c].record \notin Held
         /\ \A d \in Clerk \ {c} : ask[d].record # ask[c].record
    /\ ask[c].op = "renumber" => ask[c].record \in Held

\* What a merge is moving is the merged vendor's still, under numbers the
\* other vendor has not been given.
MergeSound ==
  /\ pass.moving \subseteq Held
  /\ pass # NoPass => pass.from \in Entry /\ pass.into \in Entry /\ pass.from # pass.into
  /\ \A r \in pass.moving :
       /\ record[r].of = pass.from /\ record[r].number # Unnumbered
       /\ \A s \in Held : record[s].of = pass.into => record[s].number # record[r].number

PurchasesInvariant ==
  /\ PurchaseTypes /\ IssuedAlone /\ RowsReserved /\ MergeSound
  /\ NamesDiffer /\ NamedIsListed /\ NumbersDiffer

\* The parts of a row, and a row made of its parts.
LEMMA RowParts ==
    ASSUME NEW row \in [of : Entry, number : 0..MaxNumber, issued : BOOLEAN]
    PROVE  /\ row.of \in Entry /\ row.number \in 0..MaxNumber
           /\ row.issued \in BOOLEAN
OBVIOUS

LEMMA RowMade ==
    ASSUME NEW v \in Entry, NEW n \in 0..MaxNumber, NEW i \in BOOLEAN
    PROVE  RowHolds([of |-> v, number |-> n, issued |-> i])
<1>1. [of |-> v, number |-> n, issued |-> i]
        \in [of : Entry, number : 0..MaxNumber, issued : BOOLEAN]
  OBVIOUS
<1> QED BY <1>1, Zenon DEF RowHolds

\* A record is there when it names an entry.
LEMMA HeldIs ==
    ASSUME PurchaseTypes, NEW r \in RecordId
    PROVE  /\ r \in Held <=> record[r].of \in Entry
           /\ r \in Held => /\ record[r].number \in 0..MaxNumber
                            /\ record[r].issued \in BOOLEAN
<1>1. 0 \notin Entry /\ Missing.of = 0
  BY PurchasesAssumption DEF PurchasesAssumption, Entry, Missing
<1>2. RowHolds(record[r])
  BY DEF PurchaseTypes
<1>3. CASE record[r] = Missing
  <2>1. record[r].of = 0
    BY <1>1, <1>3, Zenon
  <2> QED BY <1>1, <1>3, <2>1, Zenon DEF Held
<1>4. CASE record[r] # Missing
  <2>1. record[r] \in [of : Entry, number : 0..MaxNumber, issued : BOOLEAN]
    BY <1>2, <1>4, Zenon DEF RowHolds
  <2> QED BY <1>4, <2>1, RowParts, Zenon DEF Held
<1> QED BY <1>3, <1>4

\* The next number is above every number held.
LEMMA NextNumberIs ==
    ASSUME PurchaseTypes, NEW v
    PROVE  /\ NextNumber(v) \in Nat /\ NextNumber(v) # 0
           /\ \A r \in Held : record[r].number < NextNumber(v)
<1> DEFINE T == {record[r].number : r \in Held} \cup {0}
<1>1. \A r \in Held : r \in RecordId /\ record[r].number \in 0..MaxNumber
  BY HeldIs DEF Held
<1>2. T \in SUBSET (0..MaxNumber) /\ T # {}
  BY <1>1, PurchasesAssumption DEF PurchasesAssumption
<1>3. IsFiniteSet(T) /\ T \in SUBSET Int
  <2>1. IsFiniteSet(0..MaxNumber)
    BY PurchasesAssumption, FS_Interval DEF PurchasesAssumption
  <2> QED BY <1>2, <2>1, FS_Subset, PurchasesAssumption DEF PurchasesAssumption
<1>4. PICK m \in T : \A n \in T : n <= m
  BY <1>2, <1>3, GreatestOf
<1>5. /\ m + 1 \in 1..(MaxNumber + 1)
      /\ \A r \in Held : record[r].number < m + 1
      /\ m + 1 = 1 \/ \E r \in Held : record[r].number = (m + 1) - 1
  <2>1. m \in 0..MaxNumber
    BY <1>2, <1>4
  <2>2. \A r \in Held : record[r].number <= m
    BY <1>4
  <2>3. m = 0 \/ \E r \in Held : record[r].number = m
    BY <1>4
  <2> QED BY <1>1, <2>1, <2>2, <2>3, PurchasesAssumption DEF PurchasesAssumption
<1> DEFINE Fit(n) == /\ \A r \in Held : record[r].number < n
                     /\ n = 1 \/ \E r \in Held : record[r].number = n - 1
<1>6. \E n \in 1..(MaxNumber + 1) : Fit(n)
  BY <1>5
<1>7. NextNumber(v) = CHOOSE n \in 1..(MaxNumber + 1) : Fit(n)
  BY DEF NextNumber
<1> HIDE DEF Fit
<1>8. NextNumber(v) \in 1..(MaxNumber + 1) /\ Fit(NextNumber(v))
  BY <1>6, <1>7
<1> QED BY <1>8, PurchasesAssumption DEF PurchasesAssumption, Fit

\* What a number given is.
LEMMA NumberGivenIs ==
    ASSUME PurchaseTypes, NEW v, NEW typed \in Typed,
           NumberGiven(v, typed).number <= MaxNumber
    PROVE  LET got == NumberGiven(v, typed)
           IN  /\ got.number \in 0..MaxNumber /\ got.number # Unnumbered
               /\ got.issued \in BOOLEAN
               /\ got.issued <=> typed = Unnumbered
               /\ got.issued => \A s \in Held : record[s].number < got.number
<1> DEFINE n == IF typed = Unnumbered THEN NextNumber(v) ELSE typed
           i == typed = Unnumbered
           got == NumberGiven(v, typed)
<1>1. got.number = n /\ got.issued = i
  <2>1. \A x, y : [number |-> x, issued |-> y].number = x
                    /\ [number |-> x, issued |-> y].issued = y
    OBVIOUS
  <2>2. got = [number |-> n, issued |-> i]
    BY Zenon DEF NumberGiven
  <2> HIDE DEF n, i, got
  <2> QED BY <2>1, <2>2, Zenon
<1>2. n \in Nat /\ n # 0
  BY NextNumberIs, PurchasesAssumption DEF PurchasesAssumption, Unnumbered
<1>3. i \in BOOLEAN
  OBVIOUS
<1>4. i => \A s \in Held : record[s].number < n
  BY NextNumberIs
<1>5. n <= MaxNumber
  BY <1>1
<1> HIDE DEF n, got
<1>6. got.number \in 0..MaxNumber /\ got.number # Unnumbered
  BY <1>1, <1>2, <1>5, PurchasesAssumption DEF PurchasesAssumption, Unnumbered
<1>7. got.issued \in BOOLEAN /\ (got.issued <=> typed = Unnumbered)
  BY <1>1, <1>3, Zenon
<1>8. got.issued => \A s \in Held : record[s].number < got.number
  BY <1>1, <1>4, Zenon
<1> QED BY <1>6, <1>7, <1>8 DEF got

\* The parts of what is asked.
LEMMA AskingIs ==
    ASSUME NEW op, NEW e, NEW l, NEW r, NEW got, NEW a,
           a = Asking(op, e, l, r, got)
    PROVE  /\ a.op = op /\ a.entry = e /\ a.label = l /\ a.record = r
           /\ a.given = got
BY DEF Asking

LEMMA NoNumberIs ==
    NoNumber.number = 0 /\ NoNumber.issued = FALSE
<1>1. \A x, y : [number |-> x, issued |-> y].number = x
                  /\ [number |-> x, issued |-> y].issued = y
  OBVIOUS
<1> QED BY <1>1, Zenon DEF NoNumber, Unnumbered

\* What may be asked next: about rows nobody else has asked about, and under
\* a number that is above those held, if it is an issued one.
MayAsk(c, a) ==
  /\ AskHolds(a)
  /\ a.op = "file" => a.record \in FreeRecords
  /\ a.op = "renumber" => a.record \in Held
  /\ IF a.given.issued
     THEN /\ numbering = {} /\ numbering' = {c}
          /\ \A s \in Held : record[s].issued => record[s].number < a.given.number
     ELSE numbering' = numbering

\* A request that only asks keeps everything.
LEMMA AskKeeps ==
    ASSUME PurchasesInvariant, NEW c \in Clerk, NEW a, MayAsk(c, a), Asks(c, a),
           UNCHANGED <<list, entry, record, pass>>
    PROVE  PurchasesInvariant'
<1> USE DEF PurchasesInvariant
<1>1. Held' = Held /\ Listed' = Listed
  BY DEF Held, Listed
<1>2. /\ DOMAIN ask' = Clerk /\ ask'[c] = a
      /\ \A d \in Clerk \ {c} : ask'[d] = ask[d]
  BY Zenon DEF Asks, PurchaseTypes
<1>3. PurchaseTypes'
  <2>1. \A d \in Clerk : AskHolds(ask'[d])
    BY <1>2, Zenon DEF PurchaseTypes, MayAsk
  <2>2. numbering' \subseteq Clerk
    BY DEF PurchaseTypes, MayAsk
  <2>3. \A r \in RecordId : RowHolds(record'[r])
    BY DEF PurchaseTypes
  <2> QED BY <1>2, <2>1, <2>2, <2>3 DEF PurchaseTypes
<1>4. IssuedAlone'
  <2>1. \A x, y \in numbering' : x = y
    BY DEF MayAsk, IssuedAlone
  <2>2. ASSUME NEW d \in Clerk, ask'[d].given.issued
        PROVE  /\ d \in numbering'
               /\ \A s \in Held : record[s].issued =>
                    record[s].number < ask'[d].given.number
    <3>1. CASE d = c
      <4>1. a.given.issued
        BY <1>2, <2>2, <3>1, Zenon
      <4> QED BY <1>2, <3>1, <4>1, Zenon DEF MayAsk
    <3>2. CASE d # c
      <4>1. ask'[d] = ask[d] /\ ask[d].given.issued
        BY <1>2, <2>2, <3>2, Zenon
      <4>2. d \in numbering
        BY <4>1, Zenon DEF IssuedAlone
      <4>3. numbering' = numbering
        BY <4>2, Zenon DEF MayAsk
      <4> QED BY <4>1, <4>2, <4>3, Zenon DEF IssuedAlone
    <3> QED BY <3>1, <3>2
  <2> QED BY <1>1, <2>1, <2>2, Zenon DEF IssuedAlone
<1>5. RowsReserved'
  <2>1. ASSUME NEW d \in Clerk, ask'[d].op = "file"
        PROVE  /\ ask'[d].record \notin Held
               /\ \A x \in Clerk \ {d} : ask'[x].record # ask'[d].record
    <3>1. CASE d = c
      <4>1. a.record \in FreeRecords /\ ask'[d] = a
        BY <1>2, <2>1, <3>1 DEF MayAsk
      <4>2. a.record \notin Held /\ \A x \in Clerk : ask[x].record # a.record
        BY <4>1 DEF FreeRecords, Held
      <4> QED BY <1>2, <3>1, <4>1, <4>2
    <3>2. CASE d # c
      <4>1. ask'[d] = ask[d]
        BY <1>2, <3>2
      <4>2. /\ ask[d].record \notin Held /\ ask[d].record \in RecordId
            /\ \A x \in Clerk \ {d} : ask[x].record # ask[d].record
        BY <2>1, <4>1 DEF RowsReserved, PurchaseTypes, AskHolds
      <4>3. a.record # ask[d].record
        <5>1. CASE a.op = "file"
          BY <5>1 DEF MayAsk, FreeRecords
        <5>2. CASE a.op = "renumber"
          BY <4>2, <5>2 DEF MayAsk
        <5>3. CASE a.op \notin {"file", "renumber"}
          BY <4>2, <5>3 DEF MayAsk, AskHolds, RecordId
        <5> QED BY <5>1, <5>2, <5>3
      <4> QED BY <1>2, <4>1, <4>2, <4>3
    <3> QED BY <3>1, <3>2
  <2>2. ASSUME NEW d \in Clerk, ask'[d].op = "renumber"
        PROVE  ask'[d].record \in Held
    BY <1>2, <2>2, Zenon DEF RowsReserved, MayAsk
  <2> QED BY <1>1, <2>1, <2>2 DEF RowsReserved
<1>6. MergeSound'
  BY <1>1 DEF MergeSound
<1>7. NamesDiffer' /\ NamedIsListed'
  BY <1>1 DEF NamesDiffer, NamedIsListed
<1>8. NumbersDiffer'
  BY <1>1, Zenon DEF NumbersDiffer
<1> QED BY <1>3, <1>4, <1>5, <1>6, <1>7, <1>8

\* What is asked without a number of its own may be asked.
LEMMA PlainAsk ==
    ASSUME PurchasesInvariant, NEW c \in Clerk, NEW op, NEW e \in Entry, NEW l,
           NEW r, op \in {"add", "rename", "delete", "file"},
           op \in {"add", "rename"} => l \in Label,
           IF op = "file" THEN r \in FreeRecords ELSE r = 0,
           Asks(c, Asking(op, e, l, r, NoNumber)),
           UNCHANGED <<list, entry, record, numbering, pass>>
    PROVE  PurchasesInvariant'
<1> DEFINE a == Asking(op, e, l, r, NoNumber)
<1>1. /\ a.op = op /\ a.entry = e /\ a.label = l /\ a.record = r
      /\ a.given = NoNumber
  BY AskingIs
<1> HIDE DEF a
<1>2. a.given.number = 0 /\ ~a.given.issued
  BY <1>1, NoNumberIs, Zenon
<1>3. a.given.number \in 0..MaxNumber
  BY <1>2, PurchasesAssumption DEF PurchasesAssumption
<1>4. a.given.issued \in BOOLEAN
  BY <1>1, NoNumberIs, Zenon
<1>5. AskHolds(a)
  <2>1. /\ a.op \in {"add", "rename"} => a.label \in Label
        /\ a.op # "idle" => a.entry \in Entry
        /\ a.op \in {"file", "renumber"} => a.record \in RecordId
        /\ a.op \notin {"file", "renumber"} => a.record = 0
    BY <1>1 DEF FreeRecords
  <2> QED BY <1>2, <1>3, <1>4, <2>1, Zenon DEF AskHolds
<1>6. MayAsk(c, a)
  <2>1. (a.op = "file" => a.record \in FreeRecords) /\ a.op # "renumber"
    BY <1>1
  <2> QED BY <1>2, <1>5, <2>1, Zenon DEF MayAsk
<1> QED BY <1>6, AskKeeps DEF a

\* What is asked under a number given may be asked.
LEMMA NumberedAsk ==
    ASSUME PurchasesInvariant, NEW c \in Clerk, NEW op, NEW e \in Entry, NEW r,
           NEW v, NEW typed \in Typed,
           \/ op = "file" /\ r \in FreeRecords
           \/ op = "renumber" /\ r \in Held,
           NumberGiven(v, typed).number <= MaxNumber, Numbers(c, typed),
           Asks(c, Asking(op, e, Gone, r, NumberGiven(v, typed))),
           UNCHANGED <<list, entry, record, pass>>
    PROVE  PurchasesInvariant'
<1> DEFINE got == NumberGiven(v, typed)
           a == Asking(op, e, Gone, r, got)
<1>1. /\ a.op = op /\ a.entry = e /\ a.record = r /\ a.given = got
  BY AskingIs
<1>2. /\ got.number \in 0..MaxNumber /\ got.number # Unnumbered
      /\ got.issued \in BOOLEAN
      /\ got.issued <=> typed = Unnumbered
      /\ got.issued => \A s \in Held : record[s].number < got.number
  BY NumberGivenIs DEF PurchasesInvariant
<1> HIDE DEF a, got
<1>3. AskHolds(a)
  <2>1. /\ a.op \notin {"add", "rename"} /\ a.op \in {"file", "renumber"}
        /\ a.entry \in Entry /\ a.record \in RecordId
    BY <1>1 DEF FreeRecords, Held
  <2> QED BY <1>1, <1>2, <2>1, Zenon DEF AskHolds
<1>4. MayAsk(c, a)
  <2>1. (a.op = "file" => a.record \in FreeRecords)
          /\ (a.op = "renumber" => a.record \in Held)
    BY <1>1
  <2>2. CASE typed = Unnumbered
    <3>1. numbering = {} /\ numbering' = {c}
      BY <2>2 DEF Numbers, NumberingFree
    <3> QED BY <1>1, <1>2, <1>3, <2>1, <2>2, <3>1, Zenon DEF MayAsk
  <2>3. CASE typed # Unnumbered
    <3>1. numbering' = numbering
      BY <2>3 DEF Numbers
    <3> QED BY <1>1, <1>2, <1>3, <2>1, <2>3, <3>1, Zenon DEF MayAsk
  <2> QED BY <2>2, <2>3
<1> QED BY <1>4, AskKeeps DEF a, got

\* What a request leaves when it is answered.
LEMMA AnsweredLeaves ==
    ASSUME PurchaseTypes, NEW c \in Clerk, Answered(c)
    PROVE  /\ DOMAIN ask' = Clerk /\ \A d \in Clerk : AskHolds(ask'[d])
           /\ ask'[c].op = "idle" /\ ask'[c].record = 0 /\ ~ask'[c].given.issued
           /\ \A d \in Clerk \ {c} : ask'[d] = ask[d]
           /\ numbering' = numbering \ {c} /\ numbering' \subseteq Clerk
<1>1. /\ DOMAIN ask' = Clerk /\ ask'[c] = NoAsking
      /\ \A d \in Clerk \ {c} : ask'[d] = ask[d]
      /\ numbering' = numbering \ {c}
  BY Zenon DEF Answered, PurchaseTypes
<1>2. /\ NoAsking.op = "idle" /\ NoAsking.record = 0
      /\ NoAsking.given = NoNumber
  BY AskingIs DEF NoAsking
<1>3. ~NoAsking.given.issued /\ NoAsking.given.issued \in BOOLEAN
        /\ NoAsking.given.number = 0
  BY <1>2, NoNumberIs, Zenon
<1>4. NoAsking.given.number \in 0..MaxNumber
  BY <1>3, PurchasesAssumption DEF PurchasesAssumption
<1>5. AskHolds(NoAsking)
  <2>1. NoAsking.op \notin {"add", "rename", "file", "renumber"}
    BY <1>2
  <2> QED BY <1>2, <1>3, <1>4, <2>1, Zenon DEF AskHolds
<1>6. \A d \in Clerk : AskHolds(ask'[d])
  BY <1>1, <1>5, Zenon DEF PurchaseTypes
<1>7. numbering' \subseteq Clerk
  BY <1>1 DEF PurchaseTypes
<1> QED BY <1>1, <1>2, <1>3, <1>6, <1>7, Zenon

\* The rows that are asked about, once a request is answered: as they were,
\* whatever that request did to the row it had asked about.
LEMMA AnsweredReserves ==
    ASSUME PurchasesInvariant, NEW c \in Clerk, Answered(c),
           Held \subseteq Held',
           \A r \in Held' \ Held : r = ask[c].record /\ ask[c].op = "file"
    PROVE  RowsReserved'
<1>1. /\ ask'[c].op = "idle" /\ ask'[c].record = 0
      /\ \A d \in Clerk \ {c} : ask'[d] = ask[d]
  BY AnsweredLeaves DEF PurchasesInvariant
<1>2. ASSUME NEW d \in Clerk, ask'[d].op = "file"
      PROVE  /\ ask'[d].record \notin Held'
             /\ \A x \in Clerk \ {d} : ask'[x].record # ask'[d].record
  <2>1. d # c /\ ask'[d] = ask[d]
    BY <1>1, <1>2
  <2>2. /\ ask[d].record \notin Held /\ ask[d].record \in RecordId
        /\ \A x \in Clerk \ {d} : ask[x].record # ask[d].record
    BY <1>2, <2>1 DEF PurchasesInvariant, RowsReserved, PurchaseTypes, AskHolds
  <2>3. ask[c].record # ask[d].record
    BY <2>1, <2>2
  <2>4. ask[d].record # 0
    BY <2>2 DEF RecordId
  <2> QED BY <1>1, <2>1, <2>2, <2>3, <2>4
<1>3. ASSUME NEW d \in Clerk, ask'[d].op = "renumber"
      PROVE  ask'[d].record \in Held'
  BY <1>1, <1>3 DEF PurchasesInvariant, RowsReserved
<1> QED BY <1>2, <1>3 DEF RowsReserved

\* The numbers issued, once a request is answered that wrote at most the row
\* and the number it had asked about.
LEMMA AnsweredIssues ==
    ASSUME PurchasesInvariant, NEW c \in Clerk, Answered(c),
           \A s \in Held' : \/ s \in Held /\ record'[s].issued = record[s].issued
                                          /\ record'[s].number = record[s].number
                            \/ record'[s].issued = ask[c].given.issued
    PROVE  IssuedAlone'
<1>1. /\ ~ask'[c].given.issued
      /\ \A d \in Clerk \ {c} : ask'[d] = ask[d]
      /\ numbering' = numbering \ {c}
  BY AnsweredLeaves DEF PurchasesInvariant
<1>2. \A x, y \in numbering' : x = y
  BY <1>1 DEF PurchasesInvariant, IssuedAlone
<1>3. ASSUME NEW d \in Clerk, ask'[d].given.issued
      PROVE  /\ d \in numbering'
             /\ \A s \in Held' : record'[s].issued =>
                  record'[s].number < ask'[d].given.number
  <2>1. d # c /\ ask'[d] = ask[d]
    BY <1>1, <1>3, Zenon
  <2>2. /\ d \in numbering
        /\ \A s \in Held : record[s].issued => record[s].number < ask[d].given.number
    BY <1>3, <2>1, Zenon DEF PurchasesInvariant, IssuedAlone
  <2>3. ~ask[c].given.issued
    BY <2>1, <2>2, Zenon DEF PurchasesInvariant, IssuedAlone
  <2>4. \A s \in Held' : record'[s].issued =>
          record'[s].number < ask'[d].given.number
    BY <2>1, <2>2, <2>3, Zenon
  <2>5. d \in numbering'
    BY <1>1, <2>1, <2>2
  <2> QED BY <2>4, <2>5
<1> QED BY <1>2, <1>3, Zenon DEF IssuedAlone

\* A request that is answered, having written nothing, keeps everything.
LEMMA RolledBackKeeps ==
    ASSUME PurchasesInvariant, NEW c \in Clerk, Answered(c),
           UNCHANGED <<entry, record, pass>>
    PROVE  PurchasesInvariant'
<1> USE DEF PurchasesInvariant
<1>1. Held' = Held /\ Listed' = Listed
  BY DEF Held, Listed
<1>2. PurchaseTypes'
  <2>1. \A r \in RecordId : RowHolds(record'[r])
    BY DEF PurchaseTypes
  <2> QED BY <2>1, AnsweredLeaves DEF PurchaseTypes
<1>3. IssuedAlone'
  <2>1. \A s \in Held' : s \in Held /\ record'[s].issued = record[s].issued
                                    /\ record'[s].number = record[s].number
    BY <1>1, Zenon
  <2> QED BY <2>1, AnsweredIssues, Zenon
<1>4. RowsReserved'
  BY <1>1, AnsweredReserves
<1>5. MergeSound'
  BY <1>1 DEF MergeSound
<1>6. NamesDiffer' /\ NamedIsListed'
  BY <1>1 DEF NamesDiffer, NamedIsListed
<1>7. NumbersDiffer'
  BY <1>1, Zenon DEF NumbersDiffer
<1> QED BY <1>2, <1>3, <1>4, <1>5, <1>6, <1>7

\* A row of the list added, renamed or removed.
LEMMA ListCommitKeeps ==
    ASSUME PurchasesInvariant, NEW c \in Clerk, Answered(c), IndexAllows(ask[c]),
           KeysAllow(ask[c]), ask[c].op \in {"add", "rename", "delete"}, NEW l,
           l = IF ask[c].op = "delete" THEN Gone ELSE ask[c].label,
           entry' = [entry EXCEPT ![ask[c].entry] = l],
           UNCHANGED <<record, pass>>
    PROVE  PurchasesInvariant'
<1> USE DEF PurchasesInvariant
<1> DEFINE a == ask[c]
           e == a.entry
<1>1. /\ e \in Entry /\ Gone \notin Label
      /\ a.op # "delete" => l = a.label /\ a.label \in Label
      /\ a.op = "delete" => l = Gone
  BY PurchasesAssumption DEF PurchaseTypes, AskHolds, PurchasesAssumption, Gone
<1>2. /\ entry' \in [Entry -> Label \cup {Gone}]
      /\ entry'[e] = l /\ \A d \in Entry \ {e} : entry'[d] = entry[d]
  BY <1>1 DEF PurchaseTypes
<1>3. Held' = Held
  BY DEF Held
<1>4. PurchaseTypes'
  <2>1. \A r \in RecordId : RowHolds(record'[r])
    BY DEF PurchaseTypes
  <2> QED BY <1>2, <2>1, AnsweredLeaves DEF PurchaseTypes
<1>5. IssuedAlone'
  <2>1. \A s \in Held' : s \in Held /\ record'[s].issued = record[s].issued
                                    /\ record'[s].number = record[s].number
    BY <1>3, Zenon
  <2> QED BY <2>1, AnsweredIssues, Zenon
<1>6. RowsReserved'
  BY <1>3, AnsweredReserves
<1>7. MergeSound'
  BY <1>3 DEF MergeSound
<1>8. NamesDiffer'
  <2>1. CASE a.op = "delete"
    <3>1. Listed' = Listed \ {e}
      BY <1>1, <1>2, <2>1 DEF Listed
    <3> QED BY <1>2, <3>1 DEF NamesDiffer, Listed
  <2>2. CASE a.op # "delete"
    <3>1. \A d \in (Entry \ {e}) \cap Listed : Folded[entry[d]] # Folded[l]
      BY <1>1, <2>2 DEF IndexAllows, Taken
    <3>2. \A d \in Listed' : d \in Entry /\ (d # e => d \in Listed)
      BY <1>2 DEF Listed
    <3> QED BY <1>2, <3>1, <3>2 DEF NamesDiffer
  <2> QED BY <2>1, <2>2
<1>9. NamedIsListed'
  <2>1. ASSUME NEW r \in Held
        PROVE  record[r].of \in Listed'
    <3>1. record[r].of \in Listed
      BY <2>1 DEF NamedIsListed
    <3>2. a.op = "delete" => record[r].of # e
      BY <2>1 DEF KeysAllow, Naming
    <3> QED BY <1>1, <1>2, <3>1, <3>2 DEF Listed
  <2> QED BY <1>3, <2>1 DEF NamedIsListed
<1>10. NumbersDiffer'
  BY <1>3, Zenon DEF NumbersDiffer
<1> QED BY <1>4, <1>5, <1>6, <1>7, <1>8, <1>9, <1>10

\* A record written in its place.
LEMMA RecordWritten ==
    ASSUME NEW f, NEW x \in DOMAIN f, NEW v, NEW n, NEW i, NEW g,
           g = [f EXCEPT ![x] = [of |-> v, number |-> n, issued |-> i]]
    PROVE  /\ DOMAIN g = DOMAIN f
           /\ g[x] = [of |-> v, number |-> n, issued |-> i]
           /\ g[x].of = v /\ g[x].number = n /\ g[x].issued = i
           /\ \A y \in DOMAIN f \ {x} : g[y] = f[y]
OBVIOUS

\* A record filed, or renumbered.
LEMMA RecordCommitKeeps ==
    ASSUME PurchasesInvariant, NEW c \in Clerk, Answered(c), ~Waits(ask[c]),
           IndexAllows(ask[c]), KeysAllow(ask[c]),
           ask[c].op \in {"file", "renumber"}, NEW v,
           v = IF ask[c].op = "file" THEN ask[c].entry
               ELSE record[ask[c].record].of,
           record' = [record EXCEPT ![ask[c].record] =
                        [of |-> v, number |-> ask[c].given.number,
                         issued |-> ask[c].given.issued]],
           UNCHANGED <<entry, pass>>
    PROVE  /\ PurchasesInvariant'
           /\ \A r \in Held : r \in Held' /\ record'[r].of = record[r].of
<1> USE DEF PurchasesInvariant
<1> DEFINE a == ask[c]
           x == a.record
           n == a.given.number
           i == a.given.issued
<1>1. /\ x \in RecordId /\ n \in 0..MaxNumber
      /\ a.op = "file" => a.entry \in Entry /\ x \notin Held
      /\ a.op = "renumber" => x \in Held
  <2>1. AskHolds(a)
    BY DEF PurchaseTypes
  <2>2. x \in RecordId /\ n \in 0..MaxNumber /\ (a.op = "file" => a.entry \in Entry)
    BY <2>1 DEF AskHolds
  <2> QED BY <2>2 DEF RowsReserved
<1>2. i \in BOOLEAN
  BY Zenon DEF PurchaseTypes, AskHolds
<1>3. /\ DOMAIN record' = RecordId
      /\ record'[x].of = v /\ record'[x].number = n /\ record'[x].issued = i
      /\ record'[x] = [of |-> v, number |-> n, issued |-> i]
      /\ \A r \in RecordId \ {x} : record'[r] = record[r]
  <2>1. DOMAIN record = RecordId
    BY DEF PurchaseTypes
  <2> QED BY <1>1, <2>1, RecordWritten
<1>4. v \in Listed /\ v \in Entry
  <2>1. CASE a.op = "file"
    BY <1>1, <2>1 DEF KeysAllow, Listed
  <2>2. CASE a.op = "renumber"
    BY <1>1, <2>2 DEF NamedIsListed, Listed
  <2> QED BY <2>1, <2>2
<1>5. PurchaseTypes'
  <2>1. ASSUME NEW r \in RecordId
        PROVE  RowHolds(record'[r])
    <3>1. CASE r = x
      BY <1>1, <1>2, <1>3, <1>4, <3>1, RowMade, Zenon
    <3>2. CASE r # x
      BY <1>3, <3>2, Zenon DEF PurchaseTypes
    <3> QED BY <3>1, <3>2
  <2>2. entry' \in [Entry -> Label \cup {Gone}]
    BY DEF PurchaseTypes
  <2> QED BY <1>3, <2>1, <2>2, AnsweredLeaves DEF PurchaseTypes
<1>6. Held' = Held \cup {x}
  <2>1. record'[x] # Missing
    <3>1. Missing.of = 0 /\ 0 \notin Entry
      BY DEF Missing, Entry
    <3> QED BY <1>3, <1>4, <3>1, Zenon
  <2>2. \A r \in RecordId \ {x} : r \in Held' <=> r \in Held
    BY <1>3, Zenon DEF Held
  <2>3. Held \subseteq RecordId /\ Held' \subseteq RecordId /\ x \in Held'
    BY <1>1, <2>1, Zenon DEF Held
  <2> QED BY <1>1, <2>2, <2>3
<1>7. Listed' = Listed
  BY DEF Listed
<1> HIDE DEF a, n, i, x
<1>8. IssuedAlone'
  <2>1. ASSUME NEW s \in Held'
        PROVE  \/ s \in Held /\ record'[s].issued = record[s].issued
                             /\ record'[s].number = record[s].number
               \/ record'[s].issued = ask[c].given.issued
    <3>1. CASE s = x
      BY <1>3, <3>1, Zenon DEF i, a
    <3>2. CASE s # x
      <4>1. s \in Held /\ s \in RecordId
        BY <1>6, <3>2 DEF Held
      <4> QED BY <1>3, <3>2, <4>1, Zenon
    <3> QED BY <3>1, <3>2
  <2> QED BY <2>1, AnsweredIssues
<1>9. RowsReserved'
  <2>1. \A r \in Held' \ Held : r = ask[c].record /\ ask[c].op = "file"
    BY <1>1, <1>6 DEF x, a
  <2> QED BY <1>6, <2>1, AnsweredReserves
<1>10. x \notin pass.moving
  BY <1>1 DEF Waits, MergeSound, x, a
<1>11. \A r \in Held : r \in RecordId
  BY DEF Held
<1>12. MergeSound'
  <2>1. ASSUME NEW r \in pass.moving, v = pass.into
        PROVE  n # record[r].number
    BY <2>1 DEF Waits, n, x, a
  <2>2. ASSUME NEW r \in pass.moving
        PROVE  /\ record'[r].of = pass.from /\ record'[r].number # Unnumbered
               /\ \A s \in Held' : record'[s].of = pass.into =>
                     record'[s].number # record'[r].number
    <3>1. r \in Held /\ r # x /\ record'[r] = record[r]
      BY <1>3, <1>10, <1>11, <2>2 DEF MergeSound
    <3>2. ASSUME NEW s \in Held', record'[s].of = pass.into
          PROVE  record'[s].number # record[r].number
      <4>1. CASE s = x
        BY <1>3, <2>1, <3>2, <4>1
      <4>2. CASE s # x
        <5>1. s \in Held /\ record'[s] = record[s]
          BY <1>3, <1>6, <1>11, <4>2
        <5> QED BY <2>2, <3>2, <5>1 DEF MergeSound
      <4> QED BY <4>1, <4>2
    <3> QED BY <2>2, <3>1, <3>2 DEF MergeSound
  <2>3. pass.moving \subseteq Held'
    BY <1>6 DEF MergeSound
  <2> QED BY <2>2, <2>3 DEF MergeSound
<1>13. NamesDiffer'
  BY <1>7 DEF NamesDiffer
<1>14. NamedIsListed'
  BY <1>3, <1>4, <1>6, <1>7, <1>11 DEF NamedIsListed
<1>15. ASSUME NEW s \in Held \ {x}, n # Unnumbered, n = record[s].number
       PROVE  /\ record[s].of # v
              /\ ~(record[s].issued /\ i)
  <2>1. record[s].of # v
    <3>1. CASE a.op = "file"
      BY <1>11, <1>15, <3>1 DEF IndexAllows, Duplicate, Naming, n, x, a
    <3>2. CASE a.op = "renumber"
      BY <1>11, <1>15, <3>2 DEF IndexAllows, Duplicate, Naming, n, x, a
    <3> QED BY <3>1, <3>2 DEF a
  <2>2. ASSUME record[s].issued, i
        PROVE  FALSE
    <3>1. record[s].number < n
      BY <2>2, <1>15, Zenon DEF IssuedAlone, n, i, a
    <3> QED BY <1>1, <1>15, <3>1
  <2> QED BY <2>1, <2>2
<1>16. NumbersDiffer'
  <2>1. ASSUME NEW r \in Held', NEW s \in Held', r # s,
               record'[r].number # Unnumbered,
               record'[r].number = record'[s].number
        PROVE  /\ record'[r].of # record'[s].of
               /\ ~(record'[r].issued /\ record'[s].issued)
    <3>1. \A t \in Held' : t = x \/ (t \in Held \ {x} /\ record'[t] = record[t])
      BY <1>3, <1>6, <1>11
    <3>2. CASE r = x
      <4>1. s \in Held \ {x} /\ record'[s] = record[s]
        BY <2>1, <3>1, <3>2
      <4>2. n # Unnumbered /\ n = record[s].number
        BY <1>3, <2>1, <3>2, <4>1
      <4>3. record[s].of # v /\ ~(record[s].issued /\ i)
        BY <1>15, <4>1, <4>2
      <4> QED BY <1>3, <3>2, <4>1, <4>3, Zenon
    <3>3. CASE s = x
      <4>1. r \in Held \ {x} /\ record'[r] = record[r]
        BY <2>1, <3>1, <3>3
      <4>2. n # Unnumbered /\ n = record[r].number
        BY <1>3, <2>1, <3>3, <4>1
      <4>3. record[r].of # v /\ ~(record[r].issued /\ i)
        BY <1>15, <4>1, <4>2
      <4> QED BY <1>3, <3>3, <4>1, <4>3, Zenon
    <3>4. CASE r # x /\ s # x
      <4>1. /\ r \in Held /\ s \in Held
            /\ record'[r] = record[r] /\ record'[s] = record[s]
        BY <3>1, <3>4
      <4> QED BY <2>1, <4>1, Zenon DEF NumbersDiffer
    <3> QED BY <3>2, <3>3, <3>4
  <2> QED BY <2>1, Zenon DEF NumbersDiffer
<1>17. ASSUME NEW r \in Held
       PROVE  r \in Held' /\ record'[r].of = record[r].of
  <2>1. CASE r = x
    BY <1>1, <1>3, <1>6, <2>1 DEF x, a
  <2>2. CASE r # x
    BY <1>3, <1>6, <1>11, <2>2
  <2> QED BY <2>1, <2>2
<1> QED BY <1>5, <1>8, <1>9, <1>12, <1>13, <1>14, <1>16, <1>17

\* What is asked is written, or refused.
LEMMA CommitKeeps ==
    ASSUME PurchasesInvariant, NEW c \in Clerk, Commit(c)
    PROVE  /\ PurchasesInvariant'
           /\ \A r \in Held : r \in Held' /\ record'[r].of = record[r].of
<1> DEFINE a == ask[c]
<1>1. ~Waits(a) /\ IndexAllows(a) /\ KeysAllow(a) /\ Answered(c) /\ pass' = pass
  BY DEF Commit
<1>2. CASE a.op \in {"add", "rename", "delete"}
  <2>1. record' = record
    BY <1>2 DEF Commit
  <2>2. entry' = [entry EXCEPT ![a.entry] = IF a.op = "delete" THEN Gone ELSE a.label]
    <3>1. CASE a.op = "delete"
      BY <3>1 DEF Commit
    <3>2. CASE a.op # "delete"
      BY <1>2, <3>2 DEF Commit
    <3> QED BY <3>1, <3>2
  <2>3. PurchasesInvariant'
    BY <1>1, <1>2, <2>1, <2>2, ListCommitKeeps
  <2> QED BY <2>1, <2>3 DEF Held
<1>3. CASE a.op \in {"file", "renumber"}
  <2> DEFINE v == IF a.op = "file" THEN a.entry ELSE record[a.record].of
  <2>1. entry' = entry
    BY <1>3 DEF Commit
  <2>2. record' = [record EXCEPT ![a.record] =
                     [of |-> v, number |-> a.given.number,
                      issued |-> a.given.issued]]
    <3>1. record' = IF a.op \notin {"file", "renumber"} THEN record
                    ELSE [record EXCEPT ![a.record] =
                            [of |-> v, number |-> a.given.number,
                             issued |-> a.given.issued]]
      BY Zenon DEF Commit
    <3> HIDE DEF v
    <3> QED BY <1>3, <3>1, Zenon
  <2> HIDE DEF v
  <2> QED BY <1>1, <1>3, <2>1, <2>2, RecordCommitKeeps DEF v
<1>4. CASE a.op \notin {"add", "rename", "delete", "file", "renumber"}
  <2>1. entry' = entry /\ record' = record
    BY <1>4 DEF Commit
  <2> QED BY <1>1, <2>1, RolledBackKeeps DEF Held
<1> QED BY <1>2, <1>3, <1>4

\* A merge that has begun has written nothing yet that others read.
LEMMA MergeKeeps ==
    ASSUME PurchasesInvariant, NEW from \in Entry, NEW into \in Entry,
           Merge(from, into)
    PROVE  PurchasesInvariant'
<1> USE DEF PurchasesInvariant
<1>1. UNCHANGED <<entry, record, ask, numbering>>
  BY DEF Merge
<1>2. Held' = Held /\ Listed' = Listed
  BY <1>1 DEF Held, Listed
<1>3. PurchaseTypes'
  BY <1>1, Zenon DEF PurchaseTypes
<1>4. IssuedAlone'
  BY <1>1, <1>2, Zenon DEF IssuedAlone
<1>5. RowsReserved'
  BY <1>1, <1>2, Zenon DEF RowsReserved
<1>6. MergeSound'
  <2>1. /\ pass'.from = from /\ pass'.into = into /\ pass'.moving = Numbered(from)
        /\ from # into
        /\ \A r \in Numbered(from) : ~Duplicate(into, record[r].number, RecordId)
    BY DEF Merge
  <2>2. ASSUME NEW r \in Numbered(from)
        PROVE  /\ r \in Held /\ record[r].of = from
               /\ record[r].number # Unnumbered
               /\ \A s \in Held : record[s].of = into =>
                     record[s].number # record[r].number
    <3>1. r \in Held /\ record[r].of = from /\ record[r].number # Unnumbered
      BY DEF Numbered, Naming
    <3>2. ASSUME NEW s \in Held, record[s].of = into,
                 record[s].number = record[r].number
          PROVE  FALSE
      BY <2>1, <3>1, <3>2 DEF Duplicate, Naming, Held
    <3> QED BY <3>1, <3>2
  <2> QED BY <1>1, <1>2, <2>1, <2>2 DEF MergeSound
<1>7. NamesDiffer' /\ NamedIsListed'
  BY <1>1, <1>2 DEF NamesDiffer, NamedIsListed
<1>8. NumbersDiffer'
  BY <1>1, <1>2, Zenon DEF NumbersDiffer
<1> QED BY <1>3, <1>4, <1>5, <1>6, <1>7, <1>8

LEMMA NoPassMoves == NoPass.moving = {}
BY DEF NoPass

\* A merge rolled back leaves everything.
LEMMA EndRolledBackKeeps ==
    ASSUME PurchasesInvariant, EndRolledBack
    PROVE  PurchasesInvariant'
<1> USE DEF PurchasesInvariant
<1>1. UNCHANGED <<entry, record, ask, numbering>> /\ pass' = NoPass
  BY DEF EndRolledBack
<1>2. Held' = Held /\ Listed' = Listed
  BY <1>1 DEF Held, Listed
<1>3. PurchaseTypes'
  BY <1>1, Zenon DEF PurchaseTypes
<1>4. IssuedAlone'
  BY <1>1, <1>2, Zenon DEF IssuedAlone
<1>5. RowsReserved'
  BY <1>1, <1>2, Zenon DEF RowsReserved
<1>6. MergeSound'
  BY <1>1, NoPassMoves DEF MergeSound
<1>7. NamesDiffer' /\ NamedIsListed'
  BY <1>1, <1>2 DEF NamesDiffer, NamedIsListed
<1>8. NumbersDiffer'
  BY <1>1, <1>2, Zenon DEF NumbersDiffer
<1> QED BY <1>3, <1>4, <1>5, <1>6, <1>7, <1>8

\* A record is what its parts are, and so is a changed one.
LEMMA RowChanged ==
    ASSUME NEW row, NEW o, NEW n, NEW i, NEW v,
           row = [of |-> o, number |-> n, issued |-> i]
    PROVE  [row EXCEPT !.of = v] = [of |-> v, number |-> n, issued |-> i]
OBVIOUS

\* A record moved keeps its number.
LEMMA RecordMoved ==
    ASSUME NEW row \in [of : Entry, number : 0..MaxNumber, issued : BOOLEAN],
           NEW v
    PROVE  LET g == [row EXCEPT !.of = v]
           IN  /\ g.of = v /\ g.number = row.number /\ g.issued = row.issued
               /\ g = [of |-> v, number |-> row.number, issued |-> row.issued]
<1>1. PICK o, n, i : row = [of |-> o, number |-> n, issued |-> i]
  BY Zenon
<1>2. \A x, y, z : /\ [of |-> x, number |-> y, issued |-> z].of = x
                   /\ [of |-> x, number |-> y, issued |-> z].number = y
                   /\ [of |-> x, number |-> y, issued |-> z].issued = z
                   /\ [[of |-> x, number |-> y, issued |-> z] EXCEPT !.of = v]
                        = [of |-> v, number |-> y, issued |-> z]
  OBVIOUS
<1>3. row.number = n /\ row.issued = i
  BY <1>1, <1>2, Zenon
<1>4. [row EXCEPT !.of = v] = [of |-> v, number |-> n, issued |-> i]
  BY ONLY <1>1, RowChanged
<1> DEFINE g == [row EXCEPT !.of = v]
<1>5. g.of = v /\ g.number = n /\ g.issued = i
  BY <1>2, <1>4, Zenon
<1>6. g = [of |-> v, number |-> row.number, issued |-> row.issued]
  BY <1>3, <1>4, Zenon
<1>7. g.number = row.number /\ g.issued = row.issued
  BY <1>3, <1>5, Zenon
<1> QED BY <1>5, <1>6, <1>7, Zenon

\* The end of a merge: what was moved is the other vendor's, and the merged
\* one is gone.
LEMMA EndKeeps ==
    ASSUME PurchasesInvariant, NEW l \in Label \cup {Gone}, End(l)
    PROVE  /\ PurchasesInvariant'
           /\ \A r \in Held : /\ r \in Held'
                              /\ record'[r].of # record[r].of =>
                                   /\ record'[r].number = record[r].number
                                   /\ entry'[record[r].of] = Gone
<1> USE DEF PurchasesInvariant
<1>1. /\ pass # NoPass /\ CanEnd(l) /\ pass' = NoPass
      /\ UNCHANGED <<ask, numbering>>
  BY DEF End
<1>2. /\ pass.from \in Entry /\ pass.into \in Entry /\ pass.from # pass.into
      /\ pass.moving \subseteq Held /\ Held \subseteq RecordId
      /\ Gone \notin Label
  BY <1>1, PurchasesAssumption DEF MergeSound, Held, Gone, PurchasesAssumption
<1>3. /\ DOMAIN entry' = Entry
      /\ \A e \in Entry : entry'[e] = IF e = pass.from THEN Gone
                                      ELSE IF e = pass.into /\ l # Gone THEN l
                                      ELSE entry[e]
      /\ entry' \in [Entry -> Label \cup {Gone}]
  <2>1. DOMAIN entry' = Entry /\ entry' = [e \in Entry |-> entry'[e]]
    BY DEF End
  <2>2. \A e \in Entry : entry'[e] = IF e = pass.from THEN Gone
                                     ELSE IF e = pass.into /\ l # Gone THEN l
                                     ELSE entry[e]
    BY <1>2 DEF End
  <2>3. \A e \in Entry : entry'[e] \in Label \cup {Gone}
    BY <2>2 DEF PurchaseTypes
  <2> QED BY <2>1, <2>2, <2>3
<1>4. /\ DOMAIN record' = RecordId
      /\ \A r \in RecordId : record'[r] = IF r \in pass.moving
                                          THEN [record[r] EXCEPT !.of = pass.into]
                                          ELSE record[r]
  BY Zenon DEF End
<1>5. \A r \in Held : record[r] \in [of : Entry, number : 0..MaxNumber, issued : BOOLEAN]
  BY Zenon DEF PurchaseTypes, RowHolds, Held
<1>6. ASSUME NEW r \in pass.moving
      PROVE  /\ record'[r].of = pass.into /\ record'[r].number = record[r].number
             /\ record'[r].issued = record[r].issued
             /\ RowHolds(record'[r])
             /\ record[r].of = pass.from
  <2> DEFINE g == [record[r] EXCEPT !.of = pass.into]
  <2>1. record'[r] = g
    BY <1>2, <1>4, Zenon
  <2>2. r \in Held
    BY <1>2
  <2>3. /\ g.of = pass.into /\ g.number = record[r].number
        /\ g.issued = record[r].issued
        /\ g = [of |-> pass.into, number |-> record[r].number,
                issued |-> record[r].issued]
    BY <1>5, <2>2, RecordMoved, Zenon
  <2>4. RowHolds(g)
    <3>1. record[r].number \in 0..MaxNumber /\ record[r].issued \in BOOLEAN
      BY <1>5, <2>2, RowParts
    <3>2. RowHolds([of |-> pass.into, number |-> record[r].number,
                    issued |-> record[r].issued])
      BY <1>2, <3>1, RowMade
    <3> HIDE DEF g
    <3> QED BY <2>3, <3>2, Zenon
  <2>5. record[r].of = pass.from
    BY DEF MergeSound
  <2> HIDE DEF g
  <2> QED BY <2>1, <2>3, <2>4, <2>5, Zenon
<1>7. \A r \in RecordId \ pass.moving : record'[r] = record[r]
  BY <1>4, Zenon
<1>8. Held' = Held
  <2>1. Missing.of = 0 /\ 0 \notin Entry
    BY DEF Missing, Entry
  <2>2. \A r \in pass.moving : r \in Held /\ record'[r] # Missing
    BY <1>2, <1>6, <2>1, Zenon
  <2>3. \A r \in RecordId : r \in Held' <=> r \in Held
    BY <1>7, <2>2, Zenon DEF Held
  <2> QED BY <2>3 DEF Held
<1>9. PurchaseTypes'
  <2>1. \A r \in RecordId : RowHolds(record'[r])
    BY <1>6, <1>7, Zenon DEF PurchaseTypes
  <2> QED BY <1>1, <1>3, <1>4, <2>1, Zenon DEF PurchaseTypes
<1>10. \A r \in Held : /\ record'[r].number = record[r].number
                       /\ record'[r].issued = record[r].issued
                       /\ record'[r].of = IF r \in pass.moving THEN pass.into
                                          ELSE record[r].of
  BY <1>2, <1>6, <1>7, Zenon
<1>11. IssuedAlone'
  <2>1. ASSUME NEW d \in Clerk, ask[d].given.issued, NEW s \in Held,
               record'[s].issued
        PROVE  record'[s].number < ask[d].given.number
    BY <1>10, <2>1, Zenon DEF IssuedAlone
  <2> QED BY <1>1, <1>8, <2>1, Zenon DEF IssuedAlone
<1>12. RowsReserved'
  BY <1>1, <1>8, Zenon DEF RowsReserved
<1>13. MergeSound'
  BY <1>1, NoPassMoves DEF MergeSound
<1>14. \A e \in Listed' : /\ e \in Entry /\ e # pass.from
                          /\ entry'[e] = IF e = pass.into /\ l # Gone THEN l
                                         ELSE entry[e]
                          /\ e # pass.into \/ l = Gone => e \in Listed
  BY <1>3 DEF Listed
<1>15. NamesDiffer'
  <2>1. l # Gone => \A d \in (Entry \ {pass.from, pass.into}) \cap Listed :
                       Folded[entry[d]] # Folded[l]
    BY <1>1 DEF CanEnd, Taken
  <2>2. ASSUME NEW e \in Listed', NEW d \in Listed', e # d
        PROVE  Folded[entry'[e]] # Folded[entry'[d]]
    <3>1. CASE l # Gone /\ e = pass.into
      <4>1. d \in (Entry \ {pass.from, pass.into}) \cap Listed
        BY <1>14, <2>2, <3>1
      <4> QED BY <1>14, <2>1, <3>1, <4>1
    <3>2. CASE l # Gone /\ d = pass.into
      <4>1. e \in (Entry \ {pass.from, pass.into}) \cap Listed
        BY <1>14, <2>2, <3>2
      <4> QED BY <1>14, <2>1, <3>2, <4>1
    <3>3. CASE l = Gone \/ (e # pass.into /\ d # pass.into)
      BY <1>14, <2>2, <3>3 DEF NamesDiffer
    <3> QED BY <3>1, <3>2, <3>3
  <2> QED BY <2>2 DEF NamesDiffer
<1>16. NamedIsListed'
  <2>1. ASSUME NEW r \in Held
        PROVE  record'[r].of \in Listed'
    <3>1. record[r].of \in Listed
      BY <2>1 DEF NamedIsListed
    <3>2. CASE r \in pass.moving
      <4>1. entry[pass.into] # Gone
        BY <1>1, <3>2 DEF CanEnd
      <4>2. entry'[pass.into] # Gone
        BY <1>2, <1>3, <4>1
      <4> QED BY <1>2, <1>10, <3>2, <4>2, Zenon DEF Listed
    <3>3. CASE r \notin pass.moving
      <4>1. record[r].of # pass.from
        BY <1>1, <3>3, <2>1 DEF CanEnd, Naming
      <4>2. record[r].of \in Entry /\ entry[record[r].of] # Gone
        BY <3>1 DEF Listed
      <4>3. entry'[record[r].of] # Gone
        BY <1>3, <4>1, <4>2
      <4> QED BY <1>10, <3>3, <4>2, <4>3, Zenon DEF Listed
    <3> QED BY <3>2, <3>3
  <2> QED BY <1>8, <2>1 DEF NamedIsListed
<1>17. NumbersDiffer'
  <2>1. ASSUME NEW r \in Held, NEW s \in Held, r # s,
               record'[r].number # Unnumbered,
               record'[r].number = record'[s].number
        PROVE  /\ record'[r].of # record'[s].of
               /\ ~(record'[r].issued /\ record'[s].issued)
    <3>1. /\ record[r].number # Unnumbered /\ record[r].number = record[s].number
          /\ record[r].of # record[s].of
          /\ ~(record[r].issued /\ record[s].issued)
      <4>1. record[r].number # Unnumbered /\ record[r].number = record[s].number
        BY <1>10, <2>1
      <4> QED BY <2>1, <4>1, Zenon DEF NumbersDiffer
    <3>2. ~(record'[r].issued /\ record'[s].issued)
      BY <1>10, <3>1, Zenon
    <3>3. record'[r].of # record'[s].of
      <4>1. CASE r \in pass.moving /\ s \in pass.moving
        BY <1>6, <3>1, <4>1
      <4>2. CASE r \in pass.moving /\ s \notin pass.moving
        BY <1>10, <3>1, <4>2 DEF MergeSound
      <4>3. CASE r \notin pass.moving /\ s \in pass.moving
        BY <1>10, <3>1, <4>3 DEF MergeSound
      <4>4. CASE r \notin pass.moving /\ s \notin pass.moving
        BY <1>10, <3>1, <4>4
      <4> QED BY <4>1, <4>2, <4>3, <4>4
    <3> QED BY <3>2, <3>3
  <2> QED BY <1>8, <2>1, Zenon DEF NumbersDiffer
<1>18. ASSUME NEW r \in Held
       PROVE  /\ r \in Held'
              /\ record'[r].of # record[r].of =>
                   /\ record'[r].number = record[r].number
                   /\ entry'[record[r].of] = Gone
  <2>1. record'[r].of # record[r].of => r \in pass.moving /\ record[r].of = pass.from
    BY <1>6, <1>10, Zenon
  <2>2. entry'[pass.from] = Gone
    BY <1>2, <1>3
  <2> QED BY <1>8, <1>10, <2>1, <2>2, Zenon
<1> QED BY <1>9, <1>11, <1>12, <1>13, <1>15, <1>16, <1>17, <1>18

-----------------------------------------------------------------------------
(* The invariant, request by request.                                      *)

LEMMA PurchasesInvariantInit == PurchasesInit => PurchasesInvariant
<1> SUFFICES ASSUME PurchasesInit
             PROVE  PurchasesInvariant
  OBVIOUS
<1>1. /\ entry = [e \in Entry |-> Gone] /\ numbering = {} /\ pass = NoPass
  BY DEF PurchasesInit
<1>2. /\ DOMAIN record = RecordId /\ DOMAIN ask = Clerk
      /\ \A r \in RecordId : record[r] = Missing
      /\ \A c \in Clerk : ask[c] = NoAsking
  BY Zenon DEF PurchasesInit
<1>3. Held = {} /\ Listed = {}
  BY <1>1, <1>2, Zenon DEF Held, Listed
<1>4. /\ NoAsking.op = "idle" /\ NoAsking.record = 0 /\ NoAsking.given = NoNumber
  BY AskingIs DEF NoAsking
<1>5. ~NoAsking.given.issued /\ NoAsking.given.issued \in BOOLEAN
        /\ NoAsking.given.number = 0
  BY <1>4, NoNumberIs, Zenon
<1>6. AskHolds(NoAsking)
  <2>1. NoAsking.op \notin {"add", "rename", "file", "renumber"}
    BY <1>4
  <2>2. 0 \in 0..MaxNumber
    BY PurchasesAssumption DEF PurchasesAssumption
  <2> QED BY <1>4, <1>5, <2>1, <2>2, Zenon DEF AskHolds
<1>7. PurchaseTypes
  <2>1. entry \in [Entry -> Label \cup {Gone}] /\ numbering \subseteq Clerk
    BY <1>1
  <2> QED BY <1>2, <1>6, <2>1, Zenon DEF PurchaseTypes, RowHolds
<1>8. IssuedAlone
  BY <1>1, <1>2, <1>5, Zenon DEF IssuedAlone
<1>9. RowsReserved
  <2>1. NoAsking.op # "file" /\ NoAsking.op # "renumber"
    BY <1>4
  <2> QED BY <1>2, <2>1, Zenon DEF RowsReserved
<1>10. MergeSound
  BY <1>1, NoPassMoves DEF MergeSound
<1>11. NamesDiffer /\ NamedIsListed /\ NumbersDiffer
  BY <1>3, Zenon DEF NamesDiffer, NamedIsListed, NumbersDiffer
<1> QED BY <1>7, <1>8, <1>9, <1>10, <1>11 DEF PurchasesInvariant

\* What a step keeps of every record.
ListKept ==
  \A r \in Held :
    /\ r \in Held'
    /\ record'[r].of # record[r].of =>
         /\ record'[r].number = record[r].number
         /\ entry'[record[r].of] = Gone

LEMMA PurchasesInvariantNext ==
    ASSUME PurchasesInvariant, [PurchasesNext]_purchaseVars
    PROVE  PurchasesInvariant' /\ ListKept
<1>1. ASSUME record' = record
      PROVE  ListKept
  BY <1>1, Zenon DEF ListKept, Held
<1>2. ASSUME NEW c \in Clerk, NEW e \in Entry, NEW l \in Label,
             \/ CreateVendor(c, e, l) \/ UpdateVendor(c, e, l)
             \/ CreateSeller(c, e, l) \/ UpdateSeller(c, e, l)
             \/ CreateLocation(c, e, l) \/ UpdateLocation(c, e, l)
      PROVE  PurchasesInvariant' /\ ListKept
  <2>1. Add(c, e, l) \/ Rename(c, e, l)
    BY <1>2 DEF CreateVendor, UpdateVendor, CreateSeller, UpdateSeller,
       CreateLocation, UpdateLocation
  <2>2. CASE Add(c, e, l)
    <3>1. /\ Asks(c, Asking("add", e, l, 0, NoNumber))
          /\ UNCHANGED <<list, entry, record, numbering, pass>>
      BY <2>2 DEF Add
    <3> QED BY <1>1, <3>1, PlainAsk
  <2>3. CASE Rename(c, e, l)
    <3>1. /\ Asks(c, Asking("rename", e, l, 0, NoNumber))
          /\ UNCHANGED <<list, entry, record, numbering, pass>>
      BY <2>3 DEF Rename
    <3> QED BY <1>1, <3>1, PlainAsk
  <2> QED BY <2>1, <2>2, <2>3
<1>3. ASSUME NEW c \in Clerk, NEW e \in Entry,
             DeleteVendor(c, e) \/ DeleteSeller(c, e) \/ DeleteLocation(c, e)
      PROVE  PurchasesInvariant' /\ ListKept
  <2>1. /\ Asks(c, Asking("delete", e, Gone, 0, NoNumber))
        /\ UNCHANGED <<list, entry, record, numbering, pass>>
    BY <1>3 DEF DeleteVendor, DeleteSeller, DeleteLocation, Remove
  <2> QED BY <1>1, <2>1, PlainAsk
<1>4. ASSUME NEW c \in Clerk, NEW e \in Entry, NEW r \in RecordId,
             NameEntry(c, r, e)
      PROVE  PurchasesInvariant' /\ ListKept
  <2>1. /\ Asks(c, Asking("file", e, Gone, r, NoNumber)) /\ r \in FreeRecords
        /\ UNCHANGED <<list, entry, record, numbering, pass>>
    BY <1>4 DEF NameEntry, First
  <2> QED BY <1>1, <2>1, PlainAsk
<1>5. ASSUME NEW c \in Clerk, NEW e \in Entry, NEW r \in RecordId,
             NEW typed \in Typed, CreatePurchaseOrder(c, r, e, typed)
      PROVE  PurchasesInvariant' /\ ListKept
  <2>1. /\ r \in FreeRecords /\ NumberGiven(e, typed).number <= MaxNumber
        /\ Numbers(c, typed)
        /\ Asks(c, Asking("file", e, Gone, r, NumberGiven(e, typed)))
        /\ UNCHANGED <<list, entry, record, pass>>
    BY <1>5 DEF CreatePurchaseOrder, First
  <2> QED BY <1>1, <2>1, NumberedAsk
<1>6. ASSUME NEW c \in Clerk, NEW r \in RecordId, NEW typed \in Typed,
             UpdatePurchaseOrder(c, r, typed)
      PROVE  PurchasesInvariant' /\ ListKept
  <2> DEFINE v == record[r].of
  <2>1. /\ r \in Held /\ NumberGiven(v, typed).number <= MaxNumber
        /\ Numbers(c, typed)
        /\ Asks(c, Asking("renumber", v, Gone, r, NumberGiven(v, typed)))
        /\ UNCHANGED <<list, entry, record, pass>>
    BY <1>6 DEF UpdatePurchaseOrder
  <2>2. v \in Entry
    BY <2>1, HeldIs DEF PurchasesInvariant
  <2> HIDE DEF v
  <2> QED BY <1>1, <2>1, <2>2, NumberedAsk
<1>7. ASSUME NEW c \in Clerk, Commit(c)
      PROVE  PurchasesInvariant' /\ ListKept
  BY <1>7, CommitKeeps, Zenon DEF ListKept
<1>8. ASSUME NEW c \in Clerk, RolledBack(c)
      PROVE  PurchasesInvariant' /\ ListKept
  BY <1>1, <1>8, RolledBackKeeps DEF RolledBack
<1>9. ASSUME NEW from \in Entry, NEW into \in Entry, Merge(from, into)
      PROVE  PurchasesInvariant' /\ ListKept
  BY <1>1, <1>9, MergeKeeps DEF Merge
<1>10. ASSUME NEW l \in Label \cup {Gone}, End(l)
       PROVE  PurchasesInvariant' /\ ListKept
  BY <1>10, EndKeeps, Zenon DEF ListKept
<1>11. ASSUME EndRolledBack
       PROVE  PurchasesInvariant' /\ ListKept
  BY <1>1, <1>11, EndRolledBackKeeps DEF EndRolledBack
<1>12. ASSUME UNCHANGED purchaseVars
       PROVE  PurchasesInvariant' /\ ListKept
  <2>1. /\ list' = list /\ entry' = entry /\ record' = record /\ ask' = ask
        /\ numbering' = numbering /\ pass' = pass
    BY <1>12 DEF purchaseVars
  <2>2. Held' = Held /\ Listed' = Listed
    BY <2>1 DEF Held, Listed
  <2>3. PurchaseTypes' /\ IssuedAlone' /\ RowsReserved'
    BY <2>1, <2>2, Zenon DEF PurchasesInvariant, PurchaseTypes, IssuedAlone,
       RowsReserved
  <2>4. MergeSound' /\ NamesDiffer' /\ NamedIsListed'
    BY <2>1, <2>2 DEF PurchasesInvariant, MergeSound, NamesDiffer, NamedIsListed
  <2>5. NumbersDiffer'
    BY <2>1, <2>2, Zenon DEF PurchasesInvariant, NumbersDiffer
  <2>6. PurchasesInvariant'
    BY <2>3, <2>4, <2>5 DEF PurchasesInvariant
  <2> QED BY <1>1, <2>1, <2>6
<1>13. AtLeisure \subseteq Clerk
  BY DEF AtLeisure
<1>14. CASE PurchasesNext
  <2>1. CASE \E c \in AtLeisure, e \in Entry :
       \/ \E l \in Label :
            \/ CreateVendor(c, e, l) \/ UpdateVendor(c, e, l)
            \/ CreateSeller(c, e, l) \/ UpdateSeller(c, e, l)
            \/ CreateLocation(c, e, l) \/ UpdateLocation(c, e, l)
       \/ DeleteVendor(c, e) \/ DeleteSeller(c, e) \/ DeleteLocation(c, e)
       \/ \E r \in RecordId :
            \/ NameEntry(c, r, e)
            \/ \E n \in Typed : CreatePurchaseOrder(c, r, e, n)
    BY <1>2, <1>3, <1>4, <1>5, <1>13, <2>1, Zenon
  <2>2. CASE \E c \in AtLeisure, r \in RecordId, n \in Typed :
               UpdatePurchaseOrder(c, r, n)
    BY <1>6, <1>13, <2>2
  <2>3. CASE \E c \in Clerk \ AtLeisure : Commit(c) \/ RolledBack(c)
    BY <1>7, <1>8, <2>3
  <2>4. CASE \E from, into \in Entry : Merge(from, into)
    BY <1>9, <2>4
  <2>5. CASE \E l \in Label \cup {Gone} : End(l)
    BY <1>10, <2>5
  <2>6. CASE EndRolledBack
    BY <1>11, <2>6
  <2> QED BY <1>14, <2>1, <2>2, <2>3, <2>4, <2>5, <2>6 DEF PurchasesNext
<1> QED BY <1>12, <1>14

-----------------------------------------------------------------------------

\* The lists and the purchases hold together, whoever works on them beside a
\* clean-up: no two entries of one name, no record of an entry that is gone,
\* no number given twice to a vendor or issued twice to anyone; and what is
\* recorded stays, changing its vendor only in a merge.
THEOREM PurchasesStandHolds == PurchasesSpec => PurchasesStand
<1>1. PurchasesInvariant => NamesDiffer /\ NamedIsListed /\ NumbersDiffer
  BY DEF PurchasesInvariant
<1>2. PurchasesInvariant /\ [PurchasesNext]_purchaseVars =>
        PurchasesInvariant' /\ ListKept
  BY PurchasesInvariantNext
<1>3. ListKept =>
        [\A r \in Held :
           /\ r \in Held'
           /\ record'[r].of # record[r].of =>
                /\ record'[r].number = record[r].number
                /\ entry'[record[r].of] = Gone]_purchaseVars
  BY Zenon DEF ListKept
<1> QED BY <1>1, <1>2, <1>3, PurchasesInvariantInit, PTL
        DEF PurchasesSpec, PurchasesStand, PurchasesKeep

-----------------------------------------------------------------------------
(* The shares of a split: sums, though nothing here is by induction on a   *)
(* number or a set; where the sum fails to be what it should be there      *)
(* would be a least set on which it fails.                                 *)

\* What holds of each subset of a finite set of which it holds of the smaller
\* ones, holds of all.
LEMMA SubsetsOf ==
    ASSUME NEW S, IsFiniteSet(S), NEW Good \in SUBSET (SUBSET S),
           \A s \in SUBSET S : (\A t \in SUBSET s : t # s => t \in Good) => s \in Good
    PROVE  Good = SUBSET S
<1> SUFFICES ASSUME Good # SUBSET S PROVE FALSE
  OBVIOUS
<1> DEFINE Bad == (SUBSET S) \ Good
<1>1. Bad \subseteq FiniteSubsetsOf(S) /\ Bad # {}
  BY FS_Subset DEF FiniteSubsetsOf
<1> HIDE DEF Bad
<1>2. PICK s \in Bad : \A t \in Bad : ~(<<t, s>> \in StrictSubsetOrdering(S))
  BY <1>1, FS_StrictSubsetOrderingWellFounded, WFMin
<1>3. \A t \in SUBSET s : t # s => t \in Good
  <2> SUFFICES ASSUME NEW t \in SUBSET s, t # s, t \notin Good PROVE FALSE
    OBVIOUS
  <2>1. s \in SUBSET S
    BY <1>2 DEF Bad
  <2>3. t \in Bad
    BY <2>1 DEF Bad
  <2>2. <<t, s>> \in StrictSubsetOrdering(S)
    BY <2>1 DEF StrictSubsetOrdering
  <2> QED BY <1>2, <2>2, <2>3
<1> QED BY <1>2, <1>3 DEF Bad

-----------------------------------------------------------------------------
(* Sums.  The fold of the library chooses a function on the subsets; there *)
(* is one, by the size of the subsets.                                     *)

AnyOf(s) == CHOOSE x \in s : TRUE
SumStep(w, S, g) ==
  [s \in SUBSET S |-> IF s = {} THEN 0 ELSE w[AnyOf(s)] + g[s \ {AnyOf(s)}]]
Sum(w) == CHOOSE g : g = SumStep(w, DOMAIN w, g)

LEMMA TotalIs ==
    ASSUME NEW w
    PROVE  Total(w) = Sum(w)[DOMAIN w]
BY DEF Total, MapThenSumSet, MapThenFoldSet, Sum, SumStep, AnyOf

UpTo(S, n) == {s \in SUBSET S : Cardinality(s) <= n}
SumsUpTo(w, S, n) ==
  {g \in [UpTo(S, n) -> Int] :
     \A s \in UpTo(S, n) :
       g[s] = IF s = {} THEN 0 ELSE w[AnyOf(s)] + g[s \ {AnyOf(s)}]}

LEMMA Less ==
    ASSUME NEW S, IsFiniteSet(S), NEW s \in SUBSET S, s # {}
    PROVE  /\ AnyOf(s) \in s /\ s \ {AnyOf(s)} \in SUBSET S /\ s \ {AnyOf(s)} # s
           /\ Cardinality(s) \in Nat
           /\ Cardinality(s \ {AnyOf(s)}) = Cardinality(s) - 1
<1>1. AnyOf(s) \in s
  BY DEF AnyOf
<1>2. IsFiniteSet(s) /\ Cardinality(s) \in Nat
  BY FS_Subset, FS_CardinalityType
<1> QED BY <1>1, <1>2, FS_RemoveElement

LEMMA SumsGrow ==
    ASSUME NEW S, IsFiniteSet(S), NEW w \in [S -> Int], NEW n \in Nat,
           SumsUpTo(w, S, n) # {}
    PROVE  SumsUpTo(w, S, n + 1) # {}
<1>1. PICK g \in SumsUpTo(w, S, n) : TRUE
  OBVIOUS
<1> DEFINE h == [s \in UpTo(S, n + 1) |->
                   IF s = {} THEN 0 ELSE w[AnyOf(s)] + g[s \ {AnyOf(s)}]]
<1>2. ASSUME NEW s \in UpTo(S, n + 1), s # {}
      PROVE  /\ AnyOf(s) \in S /\ s \ {AnyOf(s)} \in UpTo(S, n)
             /\ g[s \ {AnyOf(s)}] \in Int /\ w[AnyOf(s)] \in Int
  BY <1>1, <1>2, Less DEF UpTo, SumsUpTo
<1>3. ASSUME NEW s \in UpTo(S, n) PROVE s \in UpTo(S, n + 1) /\ h[s] = g[s]
  <2>1. Cardinality(s) \in Nat
    BY FS_Subset, FS_CardinalityType DEF UpTo
  <2>2. s \in UpTo(S, n + 1)
    BY <2>1 DEF UpTo
  <2>3. g[s] = IF s = {} THEN 0 ELSE w[AnyOf(s)] + g[s \ {AnyOf(s)}]
    BY <1>1 DEF SumsUpTo
  <2> QED BY <2>2, <2>3
<1>4. h \in [UpTo(S, n + 1) -> Int]
  <2>1. ASSUME NEW s \in UpTo(S, n + 1) PROVE h[s] \in Int
    <3>1. CASE s = {}
      BY <3>1
    <3>2. CASE s # {}
      <4>1. w[AnyOf(s)] \in Int /\ g[s \ {AnyOf(s)}] \in Int
        BY <1>2, <3>2
      <4>2. h[s] = w[AnyOf(s)] + g[s \ {AnyOf(s)}]
        BY <3>2
      <4> QED BY <4>1, <4>2
    <3> QED BY <3>1, <3>2
  <2> QED BY <2>1
<1>5. ASSUME NEW s \in UpTo(S, n + 1)
      PROVE  h[s] = IF s = {} THEN 0 ELSE w[AnyOf(s)] + h[s \ {AnyOf(s)}]
  BY <1>2, <1>3
<1>6. h \in SumsUpTo(w, S, n + 1)
  BY <1>4, <1>5 DEF SumsUpTo
<1> QED BY <1>6

LEMMA SumsExist ==
    ASSUME NEW S, IsFiniteSet(S), NEW w \in [S -> Int]
    PROVE  \A n \in Nat : SumsUpTo(w, S, n) # {}
<1>1. SumsUpTo(w, S, 0) # {}
  <2> DEFINE g == [s \in UpTo(S, 0) |-> 0]
  <2>1. \A s \in UpTo(S, 0) : s = {}
    BY FS_Subset, FS_CardinalityType, FS_EmptySet DEF UpTo
  <2>2. g \in SumsUpTo(w, S, 0)
    BY <2>1 DEF SumsUpTo
  <2> QED BY <2>2
<1>2. \A n \in Nat : SumsUpTo(w, S, n) # {} => SumsUpTo(w, S, n + 1) # {}
  BY SumsGrow
<1> DEFINE Bad == {n \in Nat : SumsUpTo(w, S, n) = {}}
<1> SUFFICES Bad = {}
  OBVIOUS
<1>3. SUFFICES ASSUME Bad # {} PROVE FALSE
  OBVIOUS
<1>4. PICK n \in Bad : \A m \in Bad : ~(<<m, n>> \in OpToRel(<, Nat))
  BY <1>3, NatLessThanWellFounded, WFMin
<1>5. n # 0
  BY <1>1
<1>6. n - 1 \in Nat /\ n - 1 < n
  BY <1>5
<1>7. n - 1 \notin Bad
  BY <1>4, <1>6 DEF OpToRel
<1> QED BY <1>2, <1>6, <1>7

\* What a sum over a part of a finite set is.
LEMMA SumIs ==
    ASSUME NEW w, IsFiniteSet(DOMAIN w), w \in [DOMAIN w -> Int]
    PROVE  /\ Sum(w) \in [SUBSET (DOMAIN w) -> Int]
           /\ Sum(w)[{}] = 0
           /\ \A s \in SUBSET (DOMAIN w) :
              s # {} => Sum(w)[s] = w[AnyOf(s)] + Sum(w)[s \ {AnyOf(s)}]
<1> DEFINE S == DOMAIN w
           n == Cardinality(S)
<1>1. n \in Nat
  BY FS_CardinalityType
<1>2. UpTo(S, n) = SUBSET S
  BY FS_Subset DEF UpTo
<1>3. PICK g : g \in SumsUpTo(w, S, n)
  BY <1>1, SumsExist
<1>4. g = SumStep(w, S, g)
  <2>1. g \in [SUBSET S -> Int]
    BY <1>2, <1>3 DEF SumsUpTo
  <2>2. \A s \in SUBSET S :
          g[s] = IF s = {} THEN 0 ELSE w[AnyOf(s)] + g[s \ {AnyOf(s)}]
    BY <1>2, <1>3 DEF SumsUpTo
  <2> QED BY <2>1, <2>2 DEF SumStep
<1>5. Sum(w) = SumStep(w, S, Sum(w))
  BY <1>4 DEF Sum
<1> DEFINE f == Sum(w)
<1> HIDE DEF f
<1>6. f = [s \in SUBSET S |-> IF s = {} THEN 0 ELSE w[AnyOf(s)] + f[s \ {AnyOf(s)}]]
  BY <1>5 DEF SumStep, f
<1>7. f[{}] = 0
  BY <1>6
<1>8. \A s \in SUBSET S : s # {} => f[s] = w[AnyOf(s)] + f[s \ {AnyOf(s)}]
  BY <1>6
<1> DEFINE Good == {s \in SUBSET S : f[s] \in Int}
<1>9. ASSUME NEW s \in SUBSET S, \A t \in SUBSET s : t # s => t \in Good
      PROVE  s \in Good
  <2>1. CASE s = {}
    BY <1>7, <2>1
  <2>2. CASE s # {}
    <3>1. s \ {AnyOf(s)} \in Good /\ AnyOf(s) \in S
      BY <1>9, <2>2, Less
    <3>2. w[AnyOf(s)] \in Int /\ f[s \ {AnyOf(s)}] \in Int
      BY <3>1
    <3>3. f[s] = w[AnyOf(s)] + f[s \ {AnyOf(s)}]
      BY <1>8, <2>2
    <3> QED BY <3>2, <3>3
  <2> QED BY <2>1, <2>2
<1> HIDE DEF S
<1>10. Good = SUBSET S
  <2>1. IsFiniteSet(S) /\ Good \in SUBSET (SUBSET S)
    BY DEF S
  <2>2. \A s \in SUBSET S : (\A t \in SUBSET s : t # s => t \in Good) => s \in Good
    BY <1>9
  <2> HIDE DEF Good
  <2> QED BY <2>1, <2>2, SubsetsOf
<1>11. f \in [SUBSET S -> Int]
  BY <1>6, <1>10
<1> QED BY <1>7, <1>8, <1>11 DEF f, S

-----------------------------------------------------------------------------
(* Sums of functions on one set.                                           *)

\* A function that is one or two others, so many times each.
Combines(S, c, k, a, l, b) ==
  /\ IsFiniteSet(S) /\ a \in [S -> Int] /\ b \in [S -> Int] /\ c \in [S -> Int]
  /\ k \in Int /\ l \in Int
  /\ \A i \in S : c[i] = k * a[i] + l * b[i]
Times(S, c, k, a) ==
  /\ IsFiniteSet(S) /\ a \in [S -> Int] /\ c \in [S -> Int] /\ k \in Int
  /\ \A i \in S : c[i] = k * a[i]

LEMMA TotalOfCombination ==
    ASSUME NEW S, NEW a, NEW b, NEW c, NEW k, NEW l, Combines(S, c, k, a, l, b)
    PROVE  Total(c) = k * Total(a) + l * Total(b)
<1>0. /\ IsFiniteSet(S) /\ a \in [S -> Int] /\ b \in [S -> Int] /\ c \in [S -> Int]
      /\ k \in Int /\ l \in Int
      /\ \A i \in S : c[i] = k * a[i] + l * b[i]
  BY DEF Combines
<1> DEFINE A == Sum(a)
           B == Sum(b)
           C == Sum(c)
           Good == {s \in SUBSET S : C[s] = k * A[s] + l * B[s]}
<1>1. /\ A \in [SUBSET S -> Int] /\ A[{}] = 0
      /\ \A s \in SUBSET S : s # {} => A[s] = a[AnyOf(s)] + A[s \ {AnyOf(s)}]
  BY <1>0, SumIs
<1>2. /\ B \in [SUBSET S -> Int] /\ B[{}] = 0
      /\ \A s \in SUBSET S : s # {} => B[s] = b[AnyOf(s)] + B[s \ {AnyOf(s)}]
  BY <1>0, SumIs
<1>3. /\ C \in [SUBSET S -> Int] /\ C[{}] = 0
      /\ \A s \in SUBSET S : s # {} => C[s] = c[AnyOf(s)] + C[s \ {AnyOf(s)}]
  BY <1>0, SumIs
<1> HIDE DEF A, B, C
<1>4. ASSUME NEW s \in SUBSET S, \A t \in SUBSET s : t # s => t \in Good
      PROVE  s \in Good
  <2>1. CASE s = {}
    BY <1>0, <1>1, <1>2, <1>3, <2>1
  <2>2. CASE s # {}
    <3> DEFINE x == AnyOf(s)
               t == s \ {AnyOf(s)}
    <3>1. t \in Good /\ x \in S
      BY <1>0, <1>4, <2>2, Less
    <3>2. A[t] \in Int /\ B[t] \in Int /\ a[x] \in Int /\ b[x] \in Int
      BY <1>0, <1>1, <1>2, <3>1
    <3>3. A[s] = a[x] + A[t] /\ B[s] = b[x] + B[t] /\ C[s] = c[x] + C[t]
      BY <1>1, <1>2, <1>3, <2>2
    <3>4. c[x] = k * a[x] + l * b[x] /\ C[t] = k * A[t] + l * B[t]
      BY <1>0, <3>1
    <3> HIDE DEF x, t
    <3>5. k * (a[x] + A[t]) = k * a[x] + k * A[t] /\ l * (b[x] + B[t]) = l * b[x] + l * B[t]
      BY <1>0, <3>2
    <3>6. k * a[x] \in Int /\ k * A[t] \in Int /\ l * b[x] \in Int /\ l * B[t] \in Int
      BY <1>0, <3>2
    <3>7. C[s] = k * A[s] + l * B[s]
      BY <3>3, <3>4, <3>5, <3>6
    <3> QED BY <3>7
  <2> QED BY <2>1, <2>2
<1>5. Good = SUBSET S
  <2>1. \A s \in SUBSET S : (\A t \in SUBSET s : t # s => t \in Good) => s \in Good
    BY <1>4
  <2>2. Good \in SUBSET (SUBSET S)
    OBVIOUS
  <2> HIDE DEF Good
  <2> QED BY <1>0, <2>1, <2>2, SubsetsOf
<1>6. C[S] = k * A[S] + l * B[S]
  BY <1>5
<1>7. Total(a) = A[S] /\ Total(b) = B[S] /\ Total(c) = C[S]
  BY <1>0, TotalIs DEF A, B, C
<1> QED BY <1>6, <1>7

LEMMA SumAtMost ==
    ASSUME NEW S, IsFiniteSet(S), NEW a \in [S -> Int], NEW b \in [S -> Int],
           \A i \in S : a[i] <= b[i]
    PROVE  Total(a) <= Total(b)
<1> DEFINE A == Sum(a)
           B == Sum(b)
           Good == {s \in SUBSET S : A[s] <= B[s]}
<1>1. /\ A \in [SUBSET S -> Int] /\ A[{}] = 0
      /\ \A s \in SUBSET S : s # {} => A[s] = a[AnyOf(s)] + A[s \ {AnyOf(s)}]
  BY SumIs
<1>2. /\ B \in [SUBSET S -> Int] /\ B[{}] = 0
      /\ \A s \in SUBSET S : s # {} => B[s] = b[AnyOf(s)] + B[s \ {AnyOf(s)}]
  BY SumIs
<1> HIDE DEF A, B
<1>4. ASSUME NEW s \in SUBSET S, \A t \in SUBSET s : t # s => t \in Good
      PROVE  s \in Good
  <2>1. CASE s = {}
    BY <1>1, <1>2, <2>1
  <2>2. CASE s # {}
    <3> DEFINE x == AnyOf(s)
               t == s \ {AnyOf(s)}
    <3>1. t \in Good /\ x \in S
      BY <1>4, <2>2, Less
    <3>2. A[t] \in Int /\ B[t] \in Int /\ a[x] \in Int /\ b[x] \in Int
      BY <1>1, <1>2, <3>1
    <3>3. A[s] = a[x] + A[t] /\ B[s] = b[x] + B[t]
      BY <1>1, <1>2, <2>2
    <3>4. a[x] <= b[x] /\ A[t] <= B[t]
      BY <3>1
    <3> HIDE DEF x, t
    <3>7. A[s] <= B[s]
      BY <3>2, <3>3, <3>4
    <3> QED BY <3>7
  <2> QED BY <2>1, <2>2
<1>5. Good = SUBSET S
  <2>1. \A s \in SUBSET S : (\A t \in SUBSET s : t # s => t \in Good) => s \in Good
    BY <1>4
  <2>2. Good \in SUBSET (SUBSET S)
    OBVIOUS
  <2> HIDE DEF Good
  <2> QED BY <2>1, <2>2, SubsetsOf
<1>6. A[S] <= B[S]
  BY <1>5
<1>7. Total(a) = A[S] /\ Total(b) = B[S]
  BY TotalIs DEF A, B
<1> QED BY <1>6, <1>7

\* Counting is summing.
LEMMA SumOfOnes ==
    ASSUME NEW S, IsFiniteSet(S), NEW T \in SUBSET S
    PROVE  Total([i \in S |-> IF i \in T THEN 1 ELSE 0]) = Cardinality(T)
<1> DEFINE a == [i \in S |-> IF i \in T THEN 1 ELSE 0]
           A == Sum(a)
           Good == {s \in SUBSET S : A[s] = Cardinality(s \cap T)}
<1>0. DOMAIN a = S /\ a \in [S -> Int]
  OBVIOUS
<1>1. /\ A \in [SUBSET S -> Int] /\ A[{}] = 0
      /\ \A s \in SUBSET S : s # {} => A[s] = a[AnyOf(s)] + A[s \ {AnyOf(s)}]
  BY <1>0, SumIs
<1> HIDE DEF A
<1>4. ASSUME NEW s \in SUBSET S, \A t \in SUBSET s : t # s => t \in Good
      PROVE  s \in Good
  <2>1. CASE s = {}
    <3>1. s \cap T = {}
      BY <2>1
    <3> QED BY <1>1, <2>1, <3>1, FS_EmptySet
  <2>2. CASE s # {}
    <3> DEFINE x == AnyOf(s)
               t == s \ {AnyOf(s)}
    <3>1. t \in Good /\ x \in S /\ x \in s
      BY <1>4, <2>2, Less
    <3>2. IsFiniteSet(s \cap T) /\ IsFiniteSet(t \cap T)
      BY FS_Subset
    <3>3. A[s] = a[x] + A[t]
      BY <1>1, <2>2
    <3>4. A[t] = Cardinality(t \cap T)
      BY <3>1
    <3>5. Cardinality(t \cap T) \in Nat /\ Cardinality(s \cap T) \in Nat
      BY <3>2, FS_CardinalityType
    <3>6. CASE x \in T
      <4>1. t \cap T = (s \cap T) \ {x}
        OBVIOUS
      <4>2. Cardinality(t \cap T) = Cardinality(s \cap T) - 1
        BY <3>1, <3>2, <3>6, <4>1, FS_RemoveElement
      <4>3. a[x] = 1
        BY <3>1, <3>6
      <4> QED BY <3>3, <3>4, <3>5, <4>2, <4>3
    <3>7. CASE x \notin T
      <4>1. t \cap T = s \cap T
        BY <3>7
      <4>2. a[x] = 0
        BY <3>1, <3>7
      <4>3. Cardinality(t \cap T) = Cardinality(s \cap T)
        BY <4>1
      <4> HIDE DEF x, t
      <4>4. A[s] = Cardinality(s \cap T)
        BY <3>3, <3>4, <3>5, <4>2, <4>3
      <4> QED BY <4>4
    <3> QED BY <3>6, <3>7
  <2> QED BY <2>1, <2>2
<1>5. Good = SUBSET S
  <2>1. \A s \in SUBSET S : (\A t \in SUBSET s : t # s => t \in Good) => s \in Good
    BY <1>4
  <2>2. Good \in SUBSET (SUBSET S)
    OBVIOUS
  <2> HIDE DEF Good
  <2> QED BY <2>1, <2>2, SubsetsOf
<1>6. A[S] = Cardinality(S \cap T)
  BY <1>5
<1>7. S \cap T = T
  OBVIOUS
<1>8. Total(a) = A[S]
  BY <1>0, TotalIs DEF A
<1> QED BY <1>6, <1>7, <1>8

\* A sum of numbers is one.
LEMMA TotalIsNumber ==
    ASSUME NEW S, IsFiniteSet(S), NEW w \in [S -> Int]
    PROVE  Total(w) \in Int
<1>1. DOMAIN w = S
  OBVIOUS
<1>2. Sum(w) \in [SUBSET S -> Int]
  BY <1>1, SumIs
<1> QED BY <1>1, <1>2, TotalIs

\* A sum of multiples is the multiple of the sum.
LEMMA TotalOfMultiples ==
    ASSUME NEW S, NEW a, NEW c, NEW k, Times(S, c, k, a)
    PROVE  Total(c) = k * Total(a)
<1>1. k * Total(a) + 0 * Total(a) = k * Total(a)
  <2>1. Total(a) \in Int /\ k \in Int
    BY TotalIsNumber DEF Times
  <2> QED BY <2>1
<1>2. Combines(S, c, k, a, 0, a)
  <2>1. \A i \in S : c[i] = k * a[i] + 0 * a[i]
    BY DEF Times
  <2> QED BY <2>1 DEF Times, Combines
<1> QED BY <1>1, <1>2, TotalOfCombination

\* Nothing is less than a sum of numbers.
LEMMA TotalIsNatural ==
    ASSUME NEW S, IsFiniteSet(S), NEW w \in [S -> Nat]
    PROVE  Total(w) \in Nat
<1> DEFINE none == [i \in S |-> 0]
<1>1. /\ none \in [S -> Int] /\ w \in [S -> Int] /\ 0 \in Int
      /\ \A i \in S : none[i] = 0 * none[i]
      /\ \A i \in S : none[i] <= w[i]
  OBVIOUS
<1> HIDE DEF none
<1>2. Total(none) = 0 * Total(none)
  <2>1. Times(S, none, 0, none)
    BY <1>1 DEF Times
  <2> QED BY <2>1, TotalOfMultiples
<1>3. Total(none) <= Total(w)
  BY <1>1, SumAtMost, Zenon
<1>4. Total(none) \in Int /\ Total(w) \in Int
  BY <1>1, TotalIsNumber, Zenon
<1> QED BY <1>2, <1>3, <1>4

-----------------------------------------------------------------------------
(* The order in which the cents left over are given out.                   *)

LEMMA AheadIs ==
    ASSUME NEW S \in SUBSET Int, IsFiniteSet(S), NEW left \in [S -> Int], NEW i \in S
    PROVE  /\ Ahead(left, i) \in SUBSET S /\ IsFiniteSet(Ahead(left, i))
           /\ Cardinality(Ahead(left, i)) \in 0..Cardinality(S) - 1
<1>1. Ahead(left, i) \in SUBSET S /\ i \notin Ahead(left, i)
  BY DEF Ahead
<1>2. IsFiniteSet(Ahead(left, i)) /\ Cardinality(Ahead(left, i)) <= Cardinality(S)
  BY <1>1, FS_Subset
<1>3. Cardinality(Ahead(left, i)) # Cardinality(S)
  BY <1>1, FS_Subset
<1>4. Cardinality(Ahead(left, i)) \in Nat /\ Cardinality(S) \in Nat
  BY <1>2, FS_CardinalityType
<1> QED BY <1>1, <1>2, <1>3, <1>4

LEMMA AheadOrders ==
    ASSUME NEW S \in SUBSET Int, IsFiniteSet(S), NEW left \in [S -> Int],
           NEW i \in S, NEW j \in S, i # j
    PROVE  Cardinality(Ahead(left, i)) # Cardinality(Ahead(left, j))
<1>1. ASSUME NEW a \in S, NEW b \in S, a \in Ahead(left, b)
      PROVE  Cardinality(Ahead(left, a)) # Cardinality(Ahead(left, b))
  <2>0. DOMAIN left = S /\ \A x \in S : x \in Int /\ left[x] \in Int
    OBVIOUS
  <2>1. Ahead(left, a) \subseteq Ahead(left, b) /\ a \notin Ahead(left, a)
    <3>1. left[a] > left[b] \/ (left[a] = left[b] /\ a < b)
      BY <1>1 DEF Ahead
    <3>2. ASSUME NEW x \in S, left[x] > left[a] \/ (left[x] = left[a] /\ x < a)
          PROVE  left[x] > left[b] \/ (left[x] = left[b] /\ x < b)
      <4>1. /\ left[x] \in Int /\ left[a] \in Int /\ left[b] \in Int
            /\ x \in Int /\ a \in Int /\ b \in Int
        BY <2>0
      <4> QED BY ONLY <3>1, <3>2, <4>1
    <3>3. a \notin Ahead(left, a)
      BY <2>0 DEF Ahead
    <3> QED BY <2>0, <3>2, <3>3 DEF Ahead
  <2>2. IsFiniteSet(Ahead(left, b))
    BY AheadIs
  <2>3. Ahead(left, a) # Ahead(left, b)
    BY <1>1, <2>1
  <2> QED BY <2>1, <2>2, <2>3, FS_Subset
<1>2. i \in Ahead(left, j) \/ j \in Ahead(left, i)
  <2>1. DOMAIN left = S /\ left[i] \in Int /\ left[j] \in Int /\ i \in Int /\ j \in Int
    OBVIOUS
  <2> QED BY <2>1 DEF Ahead
<1> QED BY <1>1, <1>2

\* Of the first c there are c.
LEMMA FirstOnes ==
    ASSUME NEW S \in SUBSET Int, IsFiniteSet(S), NEW left \in [S -> Int],
           NEW c \in Nat, c <= Cardinality(S)
    PROVE  Cardinality({i \in S : Cardinality(Ahead(left, i)) < c}) = c
<1> DEFINE n == Cardinality(S)
           rank == [i \in S |-> Cardinality(Ahead(left, i))]
           T == {i \in S : Cardinality(Ahead(left, i)) < c}
           top == [i \in T |-> rank[i]]
<1>1. n \in Nat
  BY FS_CardinalityType
<1>2. rank \in [S -> 0..n - 1]
  BY AheadIs
<1>3. \A i, j \in S : rank[i] = rank[j] => i = j
  BY AheadOrders
<1>4. rank \in Injection(S, 0..n - 1)
  BY <1>2, <1>3 DEF Injection, IsInjective
<1>5. IsFiniteSet(0..n - 1) /\ Cardinality(0..n - 1) = n 
  <2>1. 0 \in Int /\ n - 1 \in Int
    BY <1>1
  <2>2. Cardinality(0..n - 1) = IF 0 > n - 1 THEN 0 ELSE (n - 1) - 0 + 1
    BY <2>1, FS_Interval
  <2> QED BY <1>1, <2>1, <2>2, FS_Interval
<1>6. rank \in Surjection(S, 0..n - 1)
  BY <1>4, <1>5, FS_Injection
<1>7. \A k \in 0..n - 1 : \E i \in S : rank[i] = k
  BY <1>6 DEF Surjection
<1>8. IsFiniteSet(T)
  BY FS_Subset
<1>9. top \in [T -> 0..c - 1]
  <2>1. ASSUME NEW i \in T PROVE top[i] \in 0..c - 1
    <3>1. rank[i] \in 0..n - 1 /\ rank[i] < c
      BY <1>2
    <3> QED BY <3>1
  <2> QED BY <2>1
<1>10. \A k \in 0..c - 1 : \E i \in T : top[i] = k
  <2> SUFFICES ASSUME NEW k \in 0..c - 1 PROVE \E i \in T : top[i] = k
    OBVIOUS
  <2>1. k \in 0..n - 1
    BY <1>1
  <2>2. PICK i \in S : rank[i] = k
    BY <1>7, <2>1
  <2>3. i \in T /\ top[i] = k
    BY <2>2
  <2> QED BY <2>3
<1>11. top \in Surjection(T, 0..c - 1)
  BY <1>9, <1>10 DEF Surjection
<1>12. top \in Injection(T, 0..c - 1)
  <2>1. \A i, j \in T : top[i] = top[j] => i = j
    BY <1>3
  <2> QED BY <1>9, <2>1 DEF Injection, IsInjective
<1>13. Cardinality(0..c - 1) = Cardinality(T)
  BY <1>8, <1>11, <1>12, FS_Surjection
<1>14. Cardinality(0..c - 1) = c
  BY FS_Interval
<1> QED BY <1>13, <1>14

-----------------------------------------------------------------------------
LEMMA Divides ==
    ASSUME NEW a \in Nat, NEW b \in Nat \ {0}
    PROVE  /\ a \div b \in Nat /\ a % b \in Nat /\ a % b < b
           /\ a = b * (a \div b) + (a % b)
OBVIOUS

LEMMA Between ==
    ASSUME NEW W \in Nat \ {0}, NEW c \in Int, NEW z \in Nat, 0 <= W * c, W * c <= W * z
    PROVE  c \in Nat /\ c <= z
OBVIOUS

-----------------------------------------------------------------------------
(* allocate(): what is left over goes to those it was cut from.            *)

\* The shares rounded down, and what is left over of them.
Floors(S, w, total, W, floor, left) ==
  /\ IsFiniteSet(S) /\ w \in [S -> Nat] /\ total \in Nat
  /\ W \in Nat \ {0} /\ W = Total(w)
  /\ floor = [i \in S |-> (total * w[i]) \div W]
  /\ left = [i \in S |-> (total * w[i]) % W]

\* What is left over of the shares rounded down.
LEMMA LeftOver ==
    ASSUME NEW S, NEW w, NEW total, NEW W, NEW floor, NEW left,
           Floors(S, w, total, W, floor, left)
    PROVE  /\ floor \in [S -> Nat] /\ left \in [S -> 0..W - 1]
           /\ \A i \in S : total * w[i] = W * floor[i] + left[i]
           /\ total - Total(floor) \in Nat
           /\ total - Total(floor) <= Cardinality({i \in S : left[i] > 0})
<1>0. /\ IsFiniteSet(S) /\ w \in [S -> Nat] /\ total \in Nat
      /\ W \in Nat \ {0} /\ W = Total(w)
  BY DEF Floors
<1>1. ASSUME NEW i \in S
      PROVE  /\ floor[i] \in Nat /\ left[i] \in 0..W - 1
             /\ total * w[i] = W * floor[i] + left[i]
  <2>1. w[i] \in Nat
    BY <1>0
  <2>2. total * w[i] \in Nat
    BY <1>0, <2>1
  <2>3. floor[i] = (total * w[i]) \div W /\ left[i] = (total * w[i]) % W
    BY DEF Floors
  <2>4. \A a \in Nat : /\ a \div W \in Nat /\ a % W \in Nat /\ a % W < W
                       /\ a = W * (a \div W) + (a % W)
    BY <1>0, Divides
  <2>5. floor[i] \in Nat /\ left[i] \in Nat /\ left[i] < W
        /\ total * w[i] = W * floor[i] + left[i]
    BY <1>0, <2>2, <2>3, <2>4
  <2> QED BY <1>0, <2>5
<1>2. floor \in [S -> Nat] /\ left \in [S -> 0..W - 1]
  BY <1>0, <1>1 DEF Floors
<1> DEFINE Z == {i \in S : left[i] > 0}
           whole == [i \in S |-> total * w[i]]
           ones == [i \in S |-> IF i \in Z THEN 1 ELSE 0]
           most == [i \in S |-> W * ones[i]]
           F == Total(floor)
           L == Total(left)
<1>3. /\ floor \in [S -> Int] /\ left \in [S -> Int] /\ left \in [S -> Nat]
      /\ w \in [S -> Int] /\ ones \in [S -> Int]
      /\ total \in Int /\ W \in Int /\ 1 \in Int
  BY <1>0, <1>2
<1>4. whole \in [S -> Int] /\ most \in [S -> Int]
  BY <1>0, <1>3
<1>5. /\ \A i \in S : whole[i] = total * w[i]
      /\ \A i \in S : whole[i] = W * floor[i] + 1 * left[i]
      /\ \A i \in S : most[i] = W * ones[i]
      /\ \A i \in S : left[i] <= most[i]
  <2>1. ASSUME NEW i \in S
        PROVE  whole[i] = W * floor[i] + 1 * left[i]
    BY <1>0, <1>1
  <2>2. ASSUME NEW i \in S
        PROVE  left[i] <= most[i]
    <3>1. CASE left[i] > 0
      <4>1. most[i] = W
        BY <1>0, <3>1
      <4> QED BY <1>0, <1>1, <4>1
    <3>2. CASE ~(left[i] > 0)
      <4>1. left[i] = 0 /\ most[i] = 0
        BY <1>0, <1>1, <3>2
      <4> QED BY <4>1
    <3> QED BY <3>1, <3>2
  <2> QED BY <2>1, <2>2
<1>6. Total(ones) = Cardinality(Z) /\ Z \in SUBSET S
  BY <1>0, SumOfOnes
<1> HIDE DEF Z, whole, ones, most
<1>7. F \in Int /\ L \in Nat
  BY <1>0, <1>3, TotalIsNumber, TotalIsNatural, Zenon
<1>8. Total(whole) = total * W
  <2>1. Times(S, whole, total, w)
    BY <1>0, <1>3, <1>4, <1>5 DEF Times
  <2> QED BY <1>0, <2>1, TotalOfMultiples
<1>9. Total(whole) = W * F + 1 * L
  <2>1. Combines(S, whole, W, floor, 1, left)
    BY <1>0, <1>3, <1>4, <1>5 DEF Combines
  <2> QED BY <2>1, TotalOfCombination DEF F, L
<1>13. L <= W * Cardinality(Z)
  <2>1. Total(most) = W * Total(ones)
    <3>1. Times(S, most, W, ones)
      BY <1>0, <1>3, <1>4, <1>5 DEF Times
    <3> QED BY <3>1, TotalOfMultiples
  <2>2. L <= Total(most)
    BY <1>0, <1>3, <1>4, <1>5, SumAtMost, Zenon
  <2> QED BY <1>0, <1>6, <2>1, <2>2
<1>10. Cardinality(Z) \in Nat
  BY <1>0, <1>6, FS_Subset, FS_CardinalityType
<1> HIDE DEF F, L
<1>11. W * (total - F) = L
  <2>1. total * W = W * F + L
    BY <1>0, <1>7, <1>8, <1>9
  <2>2. W * (total - F) = total * W - W * F
    BY <1>0, <1>7
  <2> QED BY <1>0, <1>7, <2>1, <2>2
<1>12. total - F \in Nat /\ total - F <= Cardinality(Z)
  <2>1. total - F \in Int /\ 0 <= W * (total - F) /\ W * (total - F) <= W * Cardinality(Z)
    BY <1>0, <1>7, <1>11, <1>13
  <2> QED BY <1>0, <1>10, <2>1, Between
<1> QED BY <1>0, <1>1, <1>2, <1>12 DEF F, Z

\* Who is given one of the cents left over had something left over.
LEMMA NoCentForNothing ==
    ASSUME NEW S \in SUBSET Int, IsFiniteSet(S), NEW left \in [S -> Nat],
           NEW cents \in Nat, cents <= Cardinality({i \in S : left[i] > 0}),
           NEW i \in S, Cardinality(Ahead(left, i)) < cents
    PROVE  left[i] > 0
<1> SUFFICES ASSUME left[i] = 0
             PROVE  FALSE
  OBVIOUS
<1>1. {j \in S : left[j] > 0} \subseteq Ahead(left, i)
  BY DEF Ahead
<1>2. /\ IsFiniteSet(Ahead(left, i)) /\ Cardinality(Ahead(left, i)) \in Nat
      /\ Cardinality({j \in S : left[j] > 0}) \in Nat
  BY AheadIs, FS_Subset, FS_CardinalityType
<1>3. Cardinality({j \in S : left[j] > 0}) <= Cardinality(Ahead(left, i))
  BY <1>1, <1>2, FS_Subset
<1> QED BY <1>2, <1>3

LEMMA OffByLessThanAll ==
    ASSUME NEW W \in Nat \ {0}, NEW f \in Nat, NEW l \in 0..W - 1,
           NEW b \in {0, 1}, NEW m \in Nat,
           m = W * f + l, b = 1 => l > 0
    PROVE  /\ (f + b) * W - m < W
           /\ -((f + b) * W - m) < W
<1>1. W * f \in Nat
  OBVIOUS
<1>2. (f + b) * W = W * f + b * W
  OBVIOUS
<1>3. b * W = 0 \/ (b * W = W /\ l > 0)
  OBVIOUS
<1> QED BY <1>1, <1>2, <1>3

\* allocate() (allocation.py): the shares add up to the cent, and each is
\* within a cent of its proportion.
LEMMA SharesAddUp ==
    ASSUME NEW S \in SUBSET Int, IsFiniteSet(S), NEW w \in [S -> Nat], NEW total \in Nat,
           Total(w) # 0
    PROVE  /\ Allocate(total, w) \in [S -> Nat]
           /\ Total(Allocate(total, w)) = total
           /\ Proportional(Allocate(total, w), total, w)
<1> DEFINE W == Total(w)
           floor == [i \in S |-> (total * w[i]) \div W]
           left == [i \in S |-> (total * w[i]) % W]
           cents == total - Total(floor)
           T == {i \in S : Cardinality(Ahead(left, i)) < cents}
           bumps == [i \in S |-> IF i \in T THEN 1 ELSE 0]
           shares == Allocate(total, w)
<1>1. W \in Nat \ {0}
  BY TotalIsNatural
<1>2. shares = [i \in S |-> floor[i] + bumps[i]]
  BY DEF Allocate
<1> HIDE DEF W, shares
<1>3. /\ floor \in [S -> Nat] /\ left \in [S -> 0..W - 1]
      /\ \A i \in S : total * w[i] = W * floor[i] + left[i]
      /\ cents \in Nat
      /\ cents <= Cardinality({i \in S : left[i] > 0})
  <2>1. W = Total(w)
    BY DEF W
  <2>2. Floors(S, w, total, W, floor, left)
    BY <1>1, <2>1 DEF Floors
  <2> HIDE DEF floor, left
  <2> QED BY <2>2, LeftOver, Zenon
<1> HIDE DEF floor, left, cents
<1>4. left \in [S -> Nat] /\ left \in [S -> Int]
  BY <1>1, <1>3
<1>5. cents <= Cardinality(S)
  BY <1>3, FS_Subset, FS_CardinalityType
<1>6. Cardinality(T) = cents
  BY <1>3, <1>4, <1>5, FirstOnes
<1>7. Total(bumps) = cents
  BY <1>6, SumOfOnes
<1>8. shares \in [S -> Nat]
  BY <1>2, <1>3
<1>9. Total(shares) = total
  <2>1. /\ floor \in [S -> Int] /\ bumps \in [S -> Int] /\ shares \in [S -> Int]
        /\ 1 \in Int
    BY <1>3, <1>8
  <2>2. \A i \in S : shares[i] = 1 * floor[i] + 1 * bumps[i]
    BY <1>2, <2>1
  <2> HIDE DEF bumps
  <2>3. Total(shares) = 1 * Total(floor) + 1 * Total(bumps)
    
    <3>1. Combines(S, shares, 1, floor, 1, bumps)
      BY <2>1, <2>2 DEF Combines
    <3> QED BY <3>1, TotalOfCombination
  <2>4. Total(floor) \in Int
    BY <2>1, TotalIsNumber
  <2> QED BY <1>3, <1>7, <2>3, <2>4 DEF cents
<1>10. Proportional(shares, total, w)
  <2> SUFFICES ASSUME NEW i \in S
               PROVE  /\ shares[i] * W - total * w[i] < W
                      /\ -(shares[i] * W - total * w[i]) < W
    BY DEF Proportional, W
  <2>1. bumps[i] = 1 => left[i] > 0
    BY <1>3, <1>4, NoCentForNothing
  <2>2. /\ floor[i] \in Nat /\ left[i] \in 0..W - 1 /\ bumps[i] \in {0, 1}
        /\ total * w[i] \in Nat /\ total * w[i] = W * floor[i] + left[i]
        /\ shares[i] = floor[i] + bumps[i]
    BY <1>2, <1>3
  <2> QED BY <1>1, <2>1, <2>2, OffByLessThanAll
<1> QED BY <1>8, <1>9, <1>10 DEF shares

-----------------------------------------------------------------------------
(* The histories: what a row of one adds.                                  *)

Recorded == Receipt \cup {"ordered", "received"}     \* what an item's status may be
StatusRow == [from : Recorded \cup {NoStatus}, to : Recorded]

\* A move recorded leads on from where the ones before it led.
LEMMA LeadsOn ==
    ASSUME NEW T, NEW moves \in Seq(T), NEW start, NEW was, NEW s,
           Leads(moves, start, was),
           NEW added, added = [from |-> was, to |-> s], added \in T, s # was
    PROVE  /\ moves \o <<added>> \in Seq(T)
           /\ Leads(moves \o <<added>>, start, s)
<1> DEFINE L == Len(moves)
           longer == moves \o <<added>>
<1>1. /\ L \in Nat /\ longer \in Seq(T) /\ Len(longer) = L + 1
      /\ DOMAIN moves = 1..L /\ DOMAIN longer = 1..L + 1
      /\ longer[L + 1] = added
      /\ \A n \in 1..L : longer[n] = moves[n]
  OBVIOUS
<1> DEFINE at(n) == IF n = 0 THEN start ELSE moves[n].to
           then(n) == IF n = 0 THEN start ELSE longer[n].to
<1>2. /\ \A n \in 1..L : moves[n].from = at(n - 1) /\ moves[n].to # at(n - 1)
      /\ at(L) = was
  BY <1>1 DEF Leads
<1> HIDE DEF longer, L
<1>3. \A n \in 0..L : then(n) = at(n)
  BY <1>1
<1> HIDE DEF at
<1>4. ASSUME NEW n \in 1..L + 1
      PROVE  longer[n].from = then(n - 1) /\ longer[n].to # then(n - 1)
  <2>1. CASE n = L + 1
    <3>1. longer[n].from = was /\ longer[n].to = s
      BY <1>1, <2>1
    <3>2. n - 1 = L /\ L \in 0..L
      BY <1>1, <2>1
    <3>3. then(n - 1) = was
      BY <1>2, <1>3, <3>2
    <3> QED BY <3>1, <3>3
  <2>2. CASE n # L + 1
    <3>1. n \in 1..L /\ n - 1 \in 0..L
      BY <1>1, <2>2
    <3> QED BY <1>1, <1>2, <1>3, <3>1
  <2> QED BY <2>1, <2>2
<1>5. then(L + 1) = s
  <2>1. L + 1 # 0
    BY <1>1
  <2> QED BY <1>1, <2>1
<1>6. Leads(longer, start, s)
  BY <1>1, <1>4, <1>5 DEF Leads
<1> QED BY <1>1, <1>6 DEF longer

LEMMA StatusMoveLeads ==
    ASSUME NEW moves \in Seq(StatusRow), NEW was \in Recorded, NEW s \in Recorded,
           Leads(moves, NoStatus, was)
    PROVE  /\ moves \o StatusMove(was, s) \in Seq(StatusRow)
           /\ Leads(moves \o StatusMove(was, s), NoStatus, s)
<1>1. CASE s = was
  <2>1. StatusMove(was, s) = <<>> /\ moves \o <<>> = moves
    BY <1>1 DEF StatusMove
  <2> QED BY <1>1, <2>1
<1>2. CASE s # was
  <2> DEFINE added == [from |-> was, to |-> s]
  <2>1. added \in StatusRow
    BY DEF StatusRow
  <2>2. StatusMove(was, s) = <<added>>
    BY <1>2 DEF StatusMove
  <2> HIDE DEF added
  <2>3. added = [from |-> was, to |-> s]
    BY DEF added
  <2> QED BY <1>2, <2>1, <2>2, <2>3, LeadsOn
<1> QED BY <1>1, <1>2

\* The rows of the places lead on as their events do.
LEMMA PlaceMoveLeads ==
    ASSUME NEW rows \in Seq(Place), NEW was \in Place, NEW p \in Place,
           Leads(PlaceEvents(rows), NoPlace, was)
    PROVE  /\ rows \o PlaceMove(was, p) \in Seq(Place)
           /\ Leads(PlaceEvents(rows \o PlaceMove(was, p)), NoPlace, p)
<1>1. CASE p = was
  <2>1. PlaceMove(was, p) = <<>> /\ rows \o <<>> = rows
    BY <1>1 DEF PlaceMove
  <2> QED BY <1>1, <2>1
<1>2. CASE p # was
  <2> DEFINE L == Len(rows)
             longer == rows \o <<p>>
             moves == PlaceEvents(rows)
             added == [from |-> was, to |-> p]
             PlaceRow == [from : Place, to : Place]
  <2>1. PlaceMove(was, p) = <<p>>
    BY <1>2 DEF PlaceMove
  <2>2. /\ L \in Nat /\ DOMAIN rows = 1..L /\ DOMAIN longer = 1..L + 1 /\ longer \in Seq(Place)
        /\ longer[L + 1] = p /\ \A n \in 1..L : longer[n] = rows[n] /\ rows[n] \in Place
    OBVIOUS
  <2>3. NoPlace \in Place
    BY DEF Place
  <2>4. /\ moves = [n \in 1..L |-> [from |-> IF n = 1 THEN NoPlace ELSE rows[n - 1],
                                    to |-> rows[n]]]
        /\ PlaceEvents(longer) =
             [n \in 1..L + 1 |-> [from |-> IF n = 1 THEN NoPlace ELSE longer[n - 1],
                                  to |-> longer[n]]]
    BY <2>2 DEF PlaceEvents
  <2> HIDE DEF L, longer, moves
  <2>5. moves \in Seq(PlaceRow) /\ Len(moves) = L
    <3>1. ASSUME NEW n \in 1..L
          PROVE  /\ (IF n = 1 THEN NoPlace ELSE rows[n - 1]) \in Place /\ rows[n] \in Place
      <4>1. n # 1 => n - 1 \in 1..L
        BY <2>2
      <4> QED BY <2>2, <2>3, <4>1
    <3>2. moves \in [1..L -> PlaceRow]
      BY <2>4, <3>1
    <3> HIDE DEF PlaceRow
    <3>3. moves \in Seq(PlaceRow)
      BY <2>2, <3>2, SeqDef
    <3>4. Len(moves) = L
      BY <2>2, <3>2, LenProperties, <3>3
    <3> QED BY <3>3, <3>4
  <2>6. (IF L = 0 THEN NoPlace ELSE rows[L]) = was
    <3>1. (IF Len(moves) = 0 THEN NoPlace ELSE moves[Len(moves)].to) = was
      BY DEF Leads, moves
    <3>2. L # 0 => L \in 1..L
      BY <2>2
    <3>3. L # 0 => moves[L].to = rows[L]
      BY <2>4, <3>2
    <3> QED BY <2>5, <3>1, <3>3
  <2>7. added \in PlaceRow
    OBVIOUS
  <2>8. PlaceEvents(longer) = moves \o <<added>>
    <3> DEFINE both == moves \o <<added>>
               events == PlaceEvents(longer)
    <3>1. /\ both \in Seq(PlaceRow) /\ Len(both) = L + 1 /\ both[L + 1] = added
          /\ \A n \in 1..L : both[n] = moves[n]
      BY <2>2, <2>5, <2>7
    <3>2. both = [n \in 1..L + 1 |-> both[n]]
      BY <2>2, <3>1
    <3> HIDE DEF both, events
    <3>3. events = [n \in 1..L + 1 |-> [from |-> IF n = 1 THEN NoPlace ELSE longer[n - 1],
                                  to |-> longer[n]]]
      BY <2>4 DEF events
    <3>4. ASSUME NEW n \in 1..L + 1
          PROVE  events[n] = both[n]
      <4>1. CASE n = L + 1
        <5>1. longer[n] = p
          BY <2>2, <4>1
        <5>2. (IF n = 1 THEN NoPlace ELSE longer[n - 1]) = was
          <6>1. CASE L = 0
            BY <2>2, <2>6, <4>1, <6>1
          <6>2. CASE L # 0
            <7>1. n # 1 /\ n - 1 = L /\ L \in 1..L
              BY <2>2, <4>1, <6>2
            <7> QED BY <2>2, <2>6, <6>2, <7>1
          <6> QED BY <6>1, <6>2
        <5> QED BY <3>1, <3>3, <4>1, <5>1, <5>2
      <4>2. CASE n # L + 1
        <5>1. n \in 1..L
          BY <2>2, <4>2
        <5>2. longer[n] = rows[n]
          BY <2>2, <5>1
        <5>3. n # 1 => n - 1 \in 1..L
          BY <2>2, <5>1
        <5>4. n # 1 => longer[n - 1] = rows[n - 1]
          BY <2>2, <5>3
        <5>5. moves[n] = [from |-> IF n = 1 THEN NoPlace ELSE rows[n - 1], to |-> rows[n]]
          BY <2>4, <5>1
        <5> QED BY <3>1, <3>3, <5>1, <5>2, <5>4, <5>5
      <4> QED BY <4>1, <4>2
    <3>5. events = both
      BY <3>2, <3>3, <3>4
    <3> QED BY <3>5 DEF both, events
  <2>9. Leads(moves, NoPlace, was)
    BY DEF moves
  <2>10. Leads(moves \o <<added>>, NoPlace, p)
    <3> HIDE DEF added, PlaceRow
    <3>1. added = [from |-> was, to |-> p]
      BY DEF added
    <3> QED BY <1>2, <2>5, <2>7, <2>9, <3>1, LeadsOn
  <2> QED BY <2>1, <2>2, <2>8, <2>10 DEF longer
<1> QED BY <1>1, <1>2

\* Histories as they are opened.
LEMMA OpeningLeads ==
    ASSUME NEW s \in Recorded, NoStatus \notin Recorded
    PROVE  Opening(s) \in Seq(StatusRow) /\ Leads(Opening(s), NoStatus, s)
<1> DEFINE added == [from |-> NoStatus, to |-> s]
<1>1. added \in StatusRow
  BY DEF StatusRow
<1>2. <<>> \in Seq(StatusRow) /\ Leads(<<>>, NoStatus, NoStatus)
  BY DEF Leads
<1>3. added = [from |-> NoStatus, to |-> s] /\ s # NoStatus
  OBVIOUS
<1>4. Opening(s) = <<added>>
  BY DEF Opening
<1>5. <<>> \o <<added>> = <<added>>
  BY <1>1
<1> HIDE DEF added
<1>6. /\ <<>> \o <<added>> \in Seq(StatusRow)
      /\ Leads(<<>> \o <<added>>, NoStatus, s)
  BY <1>1, <1>2, <1>3, LeadsOn, ZenonT(60)
<1> QED BY <1>4, <1>5, <1>6

LEMMA FirstPlaceLeads ==
    ASSUME NEW p \in Place
    PROVE  /\ PlaceMove(NoPlace, p) \in Seq(Place)
           /\ Leads(PlaceEvents(PlaceMove(NoPlace, p)), NoPlace, p)
<1>1. NoPlace \in Place /\ <<>> \in Seq(Place) /\ PlaceMove(NoPlace, p) \in Seq(Place)
  <2>1. NoPlace \in Place
    BY DEF Place
  <2>2. PlaceMove(NoPlace, p) = <<>> \/ PlaceMove(NoPlace, p) = <<p>>
    BY DEF PlaceMove
  <2>3. <<>> \in Seq(Place) /\ <<p>> \in Seq(Place)
    OBVIOUS
  <2> QED BY <2>1, <2>2, <2>3
<1>2. Leads(PlaceEvents(<<>>), NoPlace, NoPlace)
  <2> DEFINE none == PlaceEvents(<<>>)
  <2>1. DOMAIN <<>> = {} /\ 1..0 = {}
    OBVIOUS
  <2>2. none \in [1..0 -> Place] /\ DOMAIN none = {}
    BY <2>1 DEF PlaceEvents
  <2> HIDE DEF none
  <2>3. none \in Seq(Place)
    BY <2>2, SeqDef
  <2>4. Len(none) \in Nat /\ DOMAIN none = 1..Len(none)
    BY <2>3, LenProperties
  <2>5. Len(none) = 0
    <3>1. Len(none) # 0 => 1 \in DOMAIN none
      BY <2>4
    <3> QED BY <2>2, <3>1
  <2>6. Leads(none, NoPlace, NoPlace)
    BY <2>2, <2>5 DEF Leads
  <2> QED BY <2>6 DEF none
<1>3. <<>> \o PlaceMove(NoPlace, p) = PlaceMove(NoPlace, p)
  BY <1>1
<1> QED BY <1>1, <1>2, <1>3, PlaceMoveLeads

-----------------------------------------------------------------------------

\* A row of the item, and what was read of it when it was no newer.
ItemRow ==
  [status : Recorded, place : Place, cost : Nat, postage : Nat, version : Nat,
   split : BOOLEAN]
ReadOf(r, row) ==
  r \in ItemRow /\ r.version <= row.version /\ (r.version = row.version => r = row)

\* What a request may ask.
CouldAsk(a) ==
  /\ a.status \in Recorded \cup {Unsent} /\ a.place \in Place \cup {Unsent}
  /\ a.cost \in Nat \cup {UnsentPrice}
  /\ a.op = "split" =>
       /\ a.status = Unsent /\ a.place = Unsent /\ a.cost = UnsentPrice
       /\ a.token = "none" /\ a.division \in Division

\* A request at work, as far as it got: what it read is no newer than the row;
\* about to write, an edit stands on what its caller saw, and a split on a lot
\* that was whole.
AtWork(g, row) ==
  /\ g = [asked |-> g.asked, step |-> g.step, base |-> g.base, read |-> g.read]
  /\ g.step \in {"lock", "write"}
  /\ CouldAsk(g.asked) /\ ReadOf(g.read, row)
  /\ g.asked.token # "none" =>
       /\ ReadOf(g.base, row)
       /\ g.step = "write" => ~Differs(g.asked, g.base, g.read)
  /\ g.step = "write" /\ g.asked.op = "split" => ~g.read.split

PieceHeld(q) ==
  /\ q.statuses \in Seq(StatusRow) /\ q.places \in Seq(Place)
  /\ Leads(q.statuses, NoStatus, q.status)
  /\ Leads(PlaceEvents(q.places), NoPlace, q.place)

HistoriesInvariant ==
  /\ holding \in ItemRow
  /\ statusMoves \in Seq(StatusRow) /\ placeMoves \in Seq(Place)
  /\ StatusesTell /\ PlacesTell
  /\ \A n \in DOMAIN pieces : PieceHeld(pieces[n])
  /\ ~holding.split => pieces = <<>>
  /\ DOMAIN handling = Handler
  /\ \A h \in Handler : handling[h] = Resting \/ AtWork(handling[h], holding)

-----------------------------------------------------------------------------
(* The pieces of a split.                                                  *)

LEMMA NoStatusIsNone == NoStatus \notin Recorded
BY ItemRecordsAssumption DEF NoStatus, Recorded

\* The weights of a split are numbers, one a piece, and not all nothing.
LEMMA WeightsAre ==
    ASSUME NEW d \in Division
    PROVE  /\ Len(d.parts) \in Nat /\ Len(d.parts) >= 2
           /\ Weights(d) \in [1..Len(d.parts) -> Nat]
           /\ Total(Weights(d)) # 0
<1> DEFINE n == Len(d.parts)
           S == 1..n
           worth == [i \in DOMAIN d.parts |->
                       d.parts[i].count * (IF d.mode = "relative" THEN d.parts[i].value ELSE 1)]
           ones == [i \in S |-> 1]
<1>1. d.parts \in Seq([count : Nat, value : Nat]) /\ n >= 2
  BY ItemRecordsAssumption
<1>2. n \in Nat /\ DOMAIN d.parts = S
  BY <1>1
<1>3. worth \in [S -> Nat]
  <2>1. ASSUME NEW i \in S
        PROVE  worth[i] \in Nat
    <3>1. d.parts[i] \in [count : Nat, value : Nat]
      BY <1>1, ElementOfSeq
    <3>2. d.parts[i].count \in Nat /\ d.parts[i].value \in Nat
      BY <3>1
    <3>3. worth[i] = d.parts[i].count * (IF d.mode = "relative" THEN d.parts[i].value ELSE 1)
      BY <1>2
    <3>4. CASE d.mode = "relative"
      <4>1. worth[i] = d.parts[i].count * d.parts[i].value
        BY <3>3, <3>4
      <4> QED BY <3>2, <4>1
    <3>5. CASE d.mode # "relative"
      <4>1. worth[i] = d.parts[i].count * 1
        BY <3>3, <3>5
      <4> QED BY <3>2, <4>1
    <3> QED BY <3>4, <3>5
  <2> QED BY <1>2, <2>1
<1>4. Weights(d) = IF Total(worth) = 0 THEN ones ELSE worth
  BY <1>2 DEF Weights
<1>5. IsFiniteSet(S) /\ Cardinality(S) = n
  <2>1. 1 \in Int /\ n \in Int
    BY <1>2
  <2>2. Cardinality(1..n) = IF 1 > n THEN 0 ELSE n - 1 + 1
    BY <2>1, FS_Interval
  <2>3. IsFiniteSet(1..n)
    BY <2>1, FS_Interval
  <2>4. ~(1 > n) /\ n - 1 + 1 = n
    BY <1>1, <1>2
  <2> QED BY <2>2, <2>3, <2>4
<1>6. Total(ones) = n
  <2>1. ones = [i \in S |-> IF i \in S THEN 1 ELSE 0]
    OBVIOUS
  <2>2. Total([i \in S |-> IF i \in S THEN 1 ELSE 0]) = Cardinality(S)
    BY <1>5, SumOfOnes
  <2> HIDE DEF ones, S, n
  <2>3. Total(ones) = Cardinality(S)
    BY <2>1, <2>2
  <2> QED BY <1>5, <2>3
<1>7. ones \in [S -> Nat]
  OBVIOUS
<1> HIDE DEF worth, ones, S, n
<1>8. CASE Total(worth) = 0
  BY <1>1, <1>2, <1>4, <1>6, <1>7, <1>8 DEF n, S
<1>9. CASE Total(worth) # 0
  BY <1>1, <1>2, <1>3, <1>4, <1>9 DEF n, S
<1> QED BY <1>8, <1>9

\* The pieces are where their lot is and carry what it costs.
CarryTheLot(q, lot, d) ==
  /\ DOMAIN q = DOMAIN Weights(d)
  /\ Total([n \in DOMAIN q |-> q[n].cost]) = lot.cost
  /\ Total([n \in DOMAIN q |-> q[n].postage]) = lot.postage
  /\ \A n \in DOMAIN q : q[n].status = lot.status /\ q[n].place = lot.place
  /\ Proportional([n \in DOMAIN q |-> q[n].cost], lot.cost, Weights(d))

LEMMA PiecesCarry ==
    ASSUME NEW lot \in ItemRow, NEW d \in Division
    PROVE  /\ <<>> \o PiecesOf(lot, d) = PiecesOf(lot, d)
           /\ \A n \in DOMAIN PiecesOf(lot, d) : PieceHeld(PiecesOf(lot, d)[n])
           /\ CarryTheLot(PiecesOf(lot, d), lot, d)
<1> DEFINE w == Weights(d)
           S == 1..Len(d.parts)
           costs == Allocate(lot.cost, w)
           postages == Allocate(lot.postage, w)
           q == PiecesOf(lot, d)
<1>1. Len(d.parts) \in Nat /\ w \in [S -> Nat] /\ Total(w) # 0
  BY WeightsAre
<1>2. /\ lot.cost \in Nat /\ lot.postage \in Nat
      /\ lot.status \in Recorded /\ lot.place \in Place
  BY DEF ItemRow
<1>3. S \in SUBSET Int /\ IsFiniteSet(S)
  BY <1>1, FS_Interval
<1> HIDE DEF w
<1>4. /\ costs \in [S -> Nat] /\ Total(costs) = lot.cost /\ Proportional(costs, lot.cost, w)
      /\ postages \in [S -> Nat] /\ Total(postages) = lot.postage
  BY <1>1, <1>2, <1>3, SharesAddUp
<1>5. q = [i \in S |-> PieceRow(lot, costs[i], postages[i])]
  BY <1>1 DEF PiecesOf, w
<1> HIDE DEF costs, postages, q
<1>6. ASSUME NEW i \in S
      PROVE  /\ q[i].status = lot.status /\ q[i].place = lot.place
             /\ q[i].cost = costs[i] /\ q[i].postage = postages[i]
             /\ PieceHeld(q[i])
  <2>1. q[i] = [status |-> lot.status, place |-> lot.place, cost |-> costs[i],
                postage |-> postages[i], statuses |-> Opening(lot.status),
                places |-> PlaceMove(NoPlace, lot.place)]
    BY <1>5 DEF PieceRow
  <2>2. /\ q[i].status = lot.status /\ q[i].place = lot.place
        /\ q[i].cost = costs[i] /\ q[i].postage = postages[i]
        /\ q[i].statuses = Opening(lot.status)
        /\ q[i].places = PlaceMove(NoPlace, lot.place)
    BY <2>1
  <2>3. Opening(lot.status) \in Seq(StatusRow) /\ Leads(Opening(lot.status), NoStatus, lot.status)
    BY <1>2, NoStatusIsNone, OpeningLeads
  <2>4. /\ PlaceMove(NoPlace, lot.place) \in Seq(Place)
        /\ Leads(PlaceEvents(PlaceMove(NoPlace, lot.place)), NoPlace, lot.place)
    BY <1>2, FirstPlaceLeads
  <2> QED BY <2>2, <2>3, <2>4 DEF PieceHeld
<1>7. DOMAIN q = S /\ DOMAIN w = S
  BY <1>1, <1>5
<1>8. /\ [n \in DOMAIN q |-> q[n].cost] = costs
      /\ [n \in DOMAIN q |-> q[n].postage] = postages
  BY <1>4, <1>6, <1>7
<1>9. CarryTheLot(q, lot, d)
  BY <1>4, <1>6, <1>7, <1>8 DEF CarryTheLot, w
<1>10. <<>> \o q = q
  <2> DEFINE T == {q[i] : i \in S}
  <2>1. q \in [S -> T]
    BY <1>5
  <2> HIDE DEF T
  <2>2. q \in Seq(T)
    BY <1>1, <2>1, SeqDef
  <2> QED BY <2>2, ConcatEmptySeq
<1> QED BY <1>6, <1>7, <1>9, <1>10 DEF q

-----------------------------------------------------------------------------
(* Rows, and what was read of them.                                        *)

IsItemRow(r) ==
  r = [status |-> r.status, place |-> r.place, cost |-> r.cost, postage |-> r.postage,
       version |-> r.version, split |-> r.split]

LEMMA ItemRowIs ==
    ASSUME NEW r \in ItemRow
    PROVE  /\ IsItemRow(r) /\ r.status \in Recorded /\ r.place \in Place
           /\ r.cost \in Nat /\ r.postage \in Nat /\ r.version \in Nat /\ r.split \in BOOLEAN
BY DEF ItemRow, IsItemRow

LEMMA ItemRowMade ==
    ASSUME NEW s, NEW p, NEW c, NEW g, NEW v, NEW u, NEW w,
           w = [status |-> s, place |-> p, cost |-> c, postage |-> g, version |-> v,
                split |-> u]
    PROVE  /\ w.status = s /\ w.place = p /\ w.cost = c /\ w.postage = g
           /\ w.version = v /\ w.split = u
           /\ s \in Recorded /\ p \in Place /\ c \in Nat /\ g \in Nat /\ v \in Nat
              /\ u \in BOOLEAN => w \in ItemRow
BY DEF ItemRow

LEMMA VersionMoved ==
    ASSUME NEW r \in ItemRow, NEW v \in Nat, NEW q, q = [r EXCEPT !.version = v]
    PROVE  /\ q \in ItemRow /\ q.version = v
           /\ q.status = r.status /\ q.place = r.place /\ q.cost = r.cost
           /\ q.postage = r.postage /\ q.split = r.split
           /\ v = r.version => q = r
<1>1. q = [status |-> r.status, place |-> r.place, cost |-> r.cost, postage |-> r.postage,
           version |-> v, split |-> r.split]
  BY ItemRowIs DEF IsItemRow
<1>2. /\ r.status \in Recorded /\ r.place \in Place
      /\ r.cost \in Nat /\ r.postage \in Nat /\ r.split \in BOOLEAN /\ IsItemRow(r)
  BY ItemRowIs
<1>3. q \in ItemRow
  BY DEF ItemRow
<1>4. /\ q.version = v
      /\ q.status = r.status /\ q.place = r.place /\ q.cost = r.cost
      /\ q.postage = r.postage
  BY <1>1, ItemRowMade
<1>5. q.split = r.split
  BY <1>1, ItemRowMade
<1>6. v = r.version => q = r
  BY <1>1, <1>2, Zenon DEF IsItemRow
<1> QED BY <1>3, <1>4, <1>5, <1>6, Zenon

\* The row as a request writes it.
LEMMA WithIs ==
    ASSUME NEW row \in ItemRow, NEW a, CouldAsk(a), NEW w, w = With(row, a)
    PROVE  /\ w \in ItemRow /\ w.version = row.version /\ w.postage = row.postage
           /\ a.op = "split" => w.split
           /\ row.split => w.split
           /\ w.split => row.split \/ a.op = "split"
<1> DEFINE x == IF a.status = Unsent THEN row.status ELSE a.status
           y == IF a.place = Unsent THEN row.place ELSE a.place
           z == IF a.cost = UnsentPrice THEN row.cost ELSE a.cost
           u == row.split \/ a.op = "split"
<1>1. /\ IsItemRow(row) /\ row.status \in Recorded /\ row.place \in Place
      /\ row.cost \in Nat /\ row.postage \in Nat /\ row.version \in Nat
  BY ItemRowIs
<1>2. /\ a.status \in Recorded \cup {Unsent} /\ a.place \in Place \cup {Unsent}
      /\ a.cost \in Nat \cup {UnsentPrice}
  BY DEF CouldAsk
<1>3. x \in Recorded /\ y \in Place /\ z \in Nat
  BY <1>1, <1>2
<1>4. u \in BOOLEAN
  OBVIOUS
<1>5. w = [row EXCEPT !.status = x, !.place = y, !.cost = z, !.split = u]
  BY DEF With
<1> HIDE DEF x, y, z
<1>6. w = [status |-> x, place |-> y, cost |-> z, postage |-> row.postage,
           version |-> row.version, split |-> u]
  <2> HIDE DEF u
  <2>1. PICK q : q = [row EXCEPT !.status = x]
    OBVIOUS
  <2>2. q = [status |-> x, place |-> row.place, cost |-> row.cost, postage |-> row.postage,
             version |-> row.version, split |-> row.split]
    BY <1>1, <2>1 DEF IsItemRow
  <2>3. PICK t : t = [q EXCEPT !.place = y]
    OBVIOUS
  <2>4. t = [status |-> x, place |-> y, cost |-> row.cost, postage |-> row.postage,
             version |-> row.version, split |-> row.split]
    BY <2>2, <2>3
  <2>5. PICK v : v = [t EXCEPT !.cost = z]
    OBVIOUS
  <2>6. v = [status |-> x, place |-> y, cost |-> z, postage |-> row.postage,
             version |-> row.version, split |-> row.split]
    BY <2>4, <2>5
  <2>7. [v EXCEPT !.split = u]
          = [status |-> x, place |-> y, cost |-> z, postage |-> row.postage,
             version |-> row.version, split |-> u]
    BY <2>6
  <2>8. [row EXCEPT !.status = x, !.place = y, !.cost = z, !.split = u]
          = [[[[row EXCEPT !.status = x] EXCEPT !.place = y] EXCEPT !.cost = z] EXCEPT !.split = u]
    OBVIOUS
  <2> QED BY <1>5, <2>1, <2>3, <2>5, <2>7, <2>8, Zenon
<1>7. w.split = u
  <2> HIDE DEF u
  <2> QED BY <1>6, ItemRowMade
<1>8. w \in ItemRow /\ w.version = row.version /\ w.postage = row.postage
  <2> HIDE DEF u
  <2>1. w \in ItemRow
    BY <1>1, <1>3, <1>4, <1>6, ItemRowMade
  <2> QED BY <1>6, <2>1, ItemRowMade
<1> QED BY <1>7, <1>8, Zenon

LEMMA WithChanges ==
    ASSUME NEW row \in ItemRow, NEW a, CouldAsk(a), a.op = "split", ~row.split
    PROVE  With(row, a) # row
BY WithIs, Zenon

\* What was read stays no newer than a row that moves on.
LEMMA ReadOfNewer ==
    ASSUME NEW r, NEW row \in ItemRow, ReadOf(r, row),
           NEW new \in ItemRow, new.version > row.version
    PROVE  ReadOf(r, new)
<1>1. /\ r \in ItemRow /\ r.version \in Nat /\ row.version \in Nat /\ new.version \in Nat
      /\ r.version <= row.version
  BY ItemRowIs DEF ReadOf
<1>2. r.version <= new.version /\ r.version # new.version
  BY <1>1
<1> QED BY <1>1, <1>2 DEF ReadOf

LEMMA AtWorkNewer ==
    ASSUME NEW g, NEW row \in ItemRow, AtWork(g, row),
           NEW new \in ItemRow, new.version > row.version
    PROVE  AtWork(g, new)
BY ReadOfNewer, Zenon DEF AtWork

LEMMA ReadNow ==
    ASSUME NEW row \in ItemRow
    PROVE  ReadOf(row, row)
BY ItemRowIs DEF ReadOf

-----------------------------------------------------------------------------
(* A step of one request.                                                  *)

\* The row stands, or has moved on.
MovesOn ==
  \/ holding' = holding
  \/ holding' \in ItemRow /\ holding'.version > holding.version

LEMMA OneMoves ==
    ASSUME HistoriesInvariant, MovesOn, DOMAIN handling' = DOMAIN handling, NEW h \in Handler,
           handling'[h] = Resting \/ AtWork(handling'[h], holding'),
           \A k \in Handler : k # h => handling'[k] = handling[k]
    PROVE  /\ DOMAIN handling' = Handler
           /\ \A k \in Handler : handling'[k] = Resting \/ AtWork(handling'[k], holding')
<1>1. DOMAIN handling' = Handler /\ holding \in ItemRow
  BY DEF HistoriesInvariant
<1>2. ASSUME NEW k \in Handler, k # h
      PROVE  handling'[k] = Resting \/ AtWork(handling'[k], holding')
  <2>1. handling'[k] = handling[k] /\ (handling[k] = Resting \/ AtWork(handling[k], holding))
    BY <1>2 DEF HistoriesInvariant
  <2> QED BY <1>1, <2>1, AtWorkNewer, Zenon DEF MovesOn
<1> QED BY <1>1, <1>2, Zenon

LEMMA NobodyMoves ==
    ASSUME HistoriesInvariant, MovesOn, handling' = handling
    PROVE  /\ DOMAIN handling' = Handler
           /\ \A k \in Handler : handling'[k] = Resting \/ AtWork(handling'[k], holding')
<1>1. DOMAIN handling = Handler /\ holding \in ItemRow
  BY DEF HistoriesInvariant
<1>2. ASSUME NEW k \in Handler
      PROVE  handling[k] = Resting \/ AtWork(handling[k], holding')
  <2>1. handling[k] = Resting \/ AtWork(handling[k], holding)
    BY <1>2 DEF HistoriesInvariant
  <2> QED BY <1>1, <2>1, AtWorkNewer, Zenon DEF MovesOn
<1> QED BY <1>1, <1>2, Zenon

LEMMA RecordsStand ==
    ASSUME HistoriesInvariant, UNCHANGED <<holding, statusMoves, placeMoves, pieces>>,
           DOMAIN handling' = Handler,
           \A k \in Handler : handling'[k] = Resting \/ AtWork(handling'[k], holding')
    PROVE  HistoriesInvariant'
BY Zenon DEF HistoriesInvariant, StatusesTell, PlacesTell

\* What is asked.
LEMMA SendsIs ==
    ASSUME NEW op, NEW s, NEW p, NEW c, NEW token, NEW a, a = Sends(op, s, p, c, token)
    PROVE  /\ a.op = op /\ a.status = s /\ a.place = p /\ a.cost = c /\ a.token = token
           /\ a = [op |-> a.op, status |-> a.status, place |-> a.place, cost |-> a.cost,
                   token |-> a.token, division |-> a.division]
BY DEF Sends

LEMMA SendsAsks ==
    ASSUME NEW op, op # "split", NEW s \in Recorded \cup {Unsent},
           NEW p \in Place \cup {Unsent}, NEW c \in Nat \cup {UnsentPrice}, NEW token
    PROVE  CouldAsk(Sends(op, s, p, c, token))
<1> DEFINE a == Sends(op, s, p, c, token)
<1>1. a.op = op /\ a.status = s /\ a.place = p /\ a.cost = c
  BY SendsIs
<1> HIDE DEF a
<1>2. CouldAsk(a)
  BY <1>1 DEF CouldAsk
<1> QED BY <1>2 DEF a

\* A request begins: what it reads is the row.
LEMMA BeginKeeps ==
    ASSUME HistoriesInvariant, NEW h \in Handler, NEW a, CouldAsk(a), NEW step \in {"lock", "write"},
           a.token # "none" => step = "lock", a.op = "split" => step = "lock",
           Begin(h, a, step)
    PROVE  HistoriesInvariant'
<1> DEFINE g == [asked |-> a, step |-> step, read |-> holding,
                 base |-> IF a.token = "none" THEN <<>> ELSE holding]
<1>1. /\ handling' = [handling EXCEPT ![h] = g]
      /\ UNCHANGED <<holding, statusMoves, placeMoves, pieces>>
  BY DEF Begin
<1>2. DOMAIN handling = Handler /\ holding \in ItemRow /\ MovesOn
  BY <1>1 DEF HistoriesInvariant, MovesOn
<1>3. /\ g.asked = a /\ g.step = step /\ g.read = holding
      /\ a.token # "none" => g.base = holding
      /\ g = [asked |-> g.asked, step |-> g.step, base |-> g.base, read |-> g.read]
  OBVIOUS
<1> HIDE DEF g
<1>4. AtWork(g, holding)
  <2>1. ReadOf(holding, holding)
    BY <1>2, ReadNow
  <2> QED BY <1>3, <2>1, Zenon DEF AtWork
<1>5. /\ DOMAIN handling' = Handler /\ handling'[h] = g
      /\ \A k \in Handler : k # h => handling'[k] = handling[k]
  BY <1>1, <1>2
<1>6. \A k \in Handler : handling'[k] = Resting \/ AtWork(handling'[k], holding')
  <2>1. AtWork(handling'[h], holding')
    BY <1>1, <1>4, <1>5, Zenon
  <2> QED BY <1>2, <1>5, <2>1, OneMoves, Zenon
<1> QED BY <1>1, <1>5, <1>6, RecordsStand, Zenon

\* A request ends.
LEMMA HandledIs ==
    ASSUME HistoriesInvariant, NEW h \in Handler, Handled(h), MovesOn
    PROVE  /\ DOMAIN handling' = Handler /\ handling'[h] = Resting
           /\ \A k \in Handler : k # h => handling'[k] = handling[k]
           /\ \A k \in Handler : handling'[k] = Resting \/ AtWork(handling'[k], holding')
<1>1. handling' = [handling EXCEPT ![h] = Resting] /\ DOMAIN handling = Handler
  BY DEF Handled, HistoriesInvariant
<1>2. /\ DOMAIN handling' = Handler /\ handling'[h] = Resting
      /\ \A k \in Handler : k # h => handling'[k] = handling[k]
  BY <1>1
<1> QED BY <1>1, <1>2, OneMoves, Zenon

\* Under the lock the row is read again, and what is held to its token is
\* what was read.
LEMMA StillMeantIs ==
    ASSUME NEW a, NEW b, NEW row \in ItemRow, a.token # "none", ReadOf(b, row),
           StillMeant(a, b, row)
    PROVE  ~Differs(a, b, row)
<1>1. CASE row.version = b.version
  <2>1. b = row
    BY <1>1 DEF ReadOf
  <2> QED BY <2>1 DEF Differs
<1>2. CASE row.version # b.version
  BY <1>2 DEF StillMeant
<1> QED BY <1>1, <1>2

LEMMA LockKeeps ==
    ASSUME HistoriesInvariant, NEW h \in Handler, Lock(h)
    PROVE  HistoriesInvariant'
<1> DEFINE g == handling[h]
           meant == StillMeant(g.asked, g.base, holding) /\ ~(g.asked.op = "split" /\ holding.split)
<1>1. /\ g.step = "lock" /\ UNCHANGED <<holding, statusMoves, placeMoves, pieces>>
      /\ IF meant
         THEN handling' = [handling EXCEPT ![h].step = "write", ![h].read = holding]
         ELSE Handled(h)
  BY DEF Lock
<1>2. MovesOn /\ DOMAIN handling = Handler /\ holding \in ItemRow
  BY <1>1 DEF MovesOn, HistoriesInvariant
<1>3. AtWork(g, holding)
  <2>1. g # Resting
    BY <1>1 DEF Resting
  <2> QED BY <2>1 DEF HistoriesInvariant
<1>4. CASE meant
  <2> DEFINE now == [asked |-> g.asked, step |-> "write", base |-> g.base, read |-> holding]
  <2>1. g = [asked |-> g.asked, step |-> g.step, base |-> g.base, read |-> g.read]
    BY <1>3 DEF AtWork
  <2>2. /\ DOMAIN handling' = Handler
        /\ handling'[h] = [g EXCEPT !.step = "write", !.read = holding]
        /\ \A k \in Handler : k # h => handling'[k] = handling[k]
    <3>1. handling' = [handling EXCEPT ![h] = [g EXCEPT !.step = "write", !.read = holding]]
      BY <1>1, <1>4
    <3> HIDE DEF g
    <3> QED BY <1>2, <3>1
  <2>3. handling'[h] = now
    <3>1. PICK q : q = [g EXCEPT !.step = "write"]
      OBVIOUS
    <3> HIDE DEF g
    <3>2. q = [asked |-> g.asked, step |-> "write", base |-> g.base, read |-> g.read]
      BY <2>1, <3>1
    <3>3. [q EXCEPT !.read = holding] = now
      BY <3>2
    <3>4. [g EXCEPT !.step = "write", !.read = holding]
            = [[g EXCEPT !.step = "write"] EXCEPT !.read = holding]
      OBVIOUS
    <3> QED BY <2>2, <3>1, <3>3, <3>4, Zenon
  <2>4. /\ now.asked = g.asked /\ now.step = "write" /\ now.base = g.base /\ now.read = holding
        /\ now = [asked |-> now.asked, step |-> now.step, base |-> now.base, read |-> now.read]
    OBVIOUS
  <2>5. g.asked.token # "none" => ReadOf(g.base, holding) /\ ~Differs(g.asked, g.base, holding)
    <3>1. g.asked.token # "none" => ReadOf(g.base, holding)
      BY <1>3 DEF AtWork
    <3> HIDE DEF g
    <3> QED BY <1>2, <1>4, <3>1, StillMeantIs
  <2>6. g.asked.op = "split" => ~holding.split
    BY <1>4, Zenon
  <2> HIDE DEF now, g, meant
  <2>7. AtWork(now, holding)
    <3>1. CouldAsk(g.asked) /\ ReadOf(holding, holding)
      BY <1>2, <1>3, ReadNow DEF AtWork
    <3> QED BY <2>4, <2>5, <2>6, <3>1, Zenon DEF AtWork
  <2>8. AtWork(handling'[h], holding')
    BY <1>1, <2>3, <2>7, Zenon
  <2> QED BY <1>1, <1>2, <2>2, <2>8, OneMoves, RecordsStand, Zenon
<1>5. CASE ~meant
  <2>1. Handled(h)
    BY <1>1, <1>5, Zenon
  <2> QED BY <1>1, <1>2, <2>1, HandledIs, RecordsStand, Zenon
<1> QED BY <1>4, <1>5

\* What a write does: the histories lead on, and a split's pieces carry the
\* lot; what is overwritten is what was seen.
LEMMA SaveKeeps ==
    ASSUME HistoriesInvariant, NEW h \in Handler, Write(h)
    PROVE  /\ HistoriesInvariant'
           /\ \A k \in Handler : k # h => handling'[k] = handling[k]
           /\ pieces' # pieces =>
                /\ handling[h].asked.op = "split" /\ handling[h].asked.division \in Division
                /\ pieces = <<>> /\ ~holding.split /\ holding'.split /\ ~offerLive'
                /\ CarryTheLot(pieces', holding, handling[h].asked.division)
           /\ holding' # holding /\ handling[h].asked.token # "none" =>
                ~Differs(handling[h].asked, handling[h].base, holding)
<1> DEFINE g == handling[h]
           a == g.asked
           r == g.read
           w == With(r, a)
<1>1. /\ g.step = "write" /\ (w # r => r.version = holding.version)
      /\ IF w = r THEN holding' = holding
         ELSE holding' = [w EXCEPT !.version = holding.version + 1]
      /\ statusMoves' = statusMoves \o StatusMove(r.status, w.status)
      /\ placeMoves' = placeMoves \o PlaceMove(r.place, w.place)
      /\ offerLive' = (offerLive /\ ~EndsOffers(h))
      /\ pieces' = IF a.op = "split" THEN pieces \o PiecesOf(r, a.division) ELSE pieces
      /\ Handled(h)
  BY DEF Write, VersionHolds, AfterEnding
<1>2. holding \in ItemRow /\ DOMAIN handling = Handler
  BY DEF HistoriesInvariant
<1>3. AtWork(g, holding)
  <2>1. g # Resting
    <3>1. Resting.step # "write"
      BY DEF Resting
    <3> QED BY <1>1, <3>1, Zenon
  <2>2. \A k \in Handler : handling[k] = Resting \/ AtWork(handling[k], holding)
    BY Zenon DEF HistoriesInvariant
  <2> QED BY <2>1, <2>2, Zenon
<1> HIDE DEF g
<1>4. /\ CouldAsk(a) /\ ReadOf(r, holding) /\ r \in ItemRow
      /\ a.token # "none" => ~Differs(a, g.base, r)
      /\ a.op = "split" => ~r.split /\ a.division \in Division
  BY <1>1, <1>3 DEF AtWork, ReadOf, CouldAsk
<1> HIDE DEF a, r, w
<1>5. w = With(r, a)
  BY DEF w
<1>6. /\ w \in ItemRow /\ w.version = r.version
      /\ a.op = "split" => w.split
      /\ w.split => r.split \/ a.op = "split"
  BY <1>4, <1>5, WithIs
<1>7. a.op = "split" => w # r
  BY <1>4, <1>5, WithChanges, Zenon
<1>8. w # r => r = holding
  BY <1>1, <1>4 DEF ReadOf
<1>9. a.op = "split" => EndsOffers(h)
  BY DEF EndsOffers, a, g
<1>10. MovesOn
  <2>1. CASE w = r
    BY <1>1, <2>1 DEF MovesOn
  <2>2. CASE w # r
    <3>1. holding' = [w EXCEPT !.version = holding.version + 1]
      BY <1>1, <2>2
    <3>2. holding.version \in Nat /\ holding.version + 1 \in Nat
          /\ holding.version + 1 > holding.version
      BY <1>2, ItemRowIs
    <3>3. holding' \in ItemRow /\ holding'.version = holding.version + 1
      BY <1>6, <3>1, <3>2, VersionMoved
    <3> QED BY <3>2, <3>3 DEF MovesOn
  <2> QED BY <2>1, <2>2
<1>11. /\ DOMAIN handling' = Handler
       /\ \A k \in Handler : k # h => handling'[k] = handling[k]
       /\ \A k \in Handler : handling'[k] = Resting \/ AtWork(handling'[k], holding')
  BY <1>1, <1>10, HandledIs, Zenon
<1>12. CASE w = r
  <2>1. /\ holding' = holding /\ pieces' = pieces
        /\ StatusMove(r.status, w.status) = <<>> /\ PlaceMove(r.place, w.place) = <<>>
    BY <1>1, <1>7, <1>12 DEF StatusMove, PlaceMove
  <2>2. statusMoves' = statusMoves /\ placeMoves' = placeMoves
    BY <1>1, <2>1, ConcatEmptySeq DEF HistoriesInvariant
  <2> QED BY <1>11, <2>1, <2>2, RecordsStand, Zenon
<1>13. CASE w # r
  <2>1. /\ r = holding /\ w \in ItemRow /\ holding.version + 1 \in Nat
        /\ holding' = [w EXCEPT !.version = holding.version + 1]
    BY <1>1, <1>2, <1>6, <1>8, <1>13, ItemRowIs
  <2>2. /\ holding' \in ItemRow /\ holding'.status = w.status /\ holding'.place = w.place
        /\ holding'.split = w.split
    BY <2>1, VersionMoved
  <2>3. /\ holding.status \in Recorded /\ w.status \in Recorded
        /\ holding.place \in Place /\ w.place \in Place
    BY <1>2, <2>1, ItemRowIs
  <2>4. /\ statusMoves \in Seq(StatusRow) /\ Leads(statusMoves, NoStatus, holding.status)
        /\ placeMoves \in Seq(Place)
        /\ Leads(PlaceEvents(placeMoves), NoPlace, holding.place)
        /\ \A n \in DOMAIN pieces : PieceHeld(pieces[n])
        /\ ~holding.split => pieces = <<>>
    BY DEF HistoriesInvariant, StatusesTell, PlacesTell
  <2>5. statusMoves' \in Seq(StatusRow) /\ Leads(statusMoves', NoStatus, holding'.status)
    BY <1>1, <2>1, <2>2, <2>3, <2>4, StatusMoveLeads
  <2>6. placeMoves' \in Seq(Place) /\ Leads(PlaceEvents(placeMoves'), NoPlace, holding'.place)
    BY <1>1, <2>1, <2>2, <2>3, <2>4, PlaceMoveLeads
  <2>7. CASE a.op = "split"
    <3>1. /\ pieces = <<>> /\ ~holding.split /\ holding'.split /\ ~offerLive'
          /\ a.division \in Division
      BY <1>1, <1>4, <1>6, <1>9, <2>1, <2>2, <2>4, <2>7, Zenon
    <3>2. pieces' = <<>> \o PiecesOf(holding, a.division)
      BY <1>1, <2>1, <2>7, <3>1
    <3>3. /\ pieces' = PiecesOf(holding, a.division)
          /\ \A n \in DOMAIN pieces' : PieceHeld(pieces'[n])
          /\ CarryTheLot(pieces', holding, a.division)
      BY <1>2, <3>1, <3>2, PiecesCarry
    <3>4. HistoriesInvariant'
      BY <1>11, <2>2, <2>5, <2>6, <3>1, <3>3, Zenon
         DEF HistoriesInvariant, StatusesTell, PlacesTell
    <3>5. a.token # "none" => ~Differs(a, g.base, holding)
      BY <1>4, <2>1
    <3> QED BY <1>11, <2>7, <3>1, <3>3, <3>4, <3>5, Zenon DEF a, g
  <2>8. CASE a.op # "split"
    <3>1. pieces' = pieces /\ (~holding'.split => ~holding.split)
      <4>1. pieces' = pieces
        BY <1>1, <2>8
      <4>2. holding.split => w.split
        BY <1>2, <1>4, <1>5, <2>1, WithIs, Zenon
      <4> QED BY <2>2, <4>1, <4>2, Zenon
    <3>2. HistoriesInvariant'
      BY <1>11, <2>2, <2>4, <2>5, <2>6, <3>1, Zenon
         DEF HistoriesInvariant, StatusesTell, PlacesTell
    <3>3. a.token # "none" => ~Differs(a, g.base, holding)
      BY <1>4, <2>1
    <3> QED BY <1>11, <3>1, <3>2, <3>3, Zenon DEF a, g
  <2> QED BY <2>7, <2>8
<1> QED BY <1>12, <1>13

LEMMA RefusedKeeps ==
    ASSUME HistoriesInvariant, NEW h \in Handler, WriteRefused(h)
    PROVE  HistoriesInvariant' /\ pieces' = pieces /\ holding' = holding
<1>1. Handled(h) /\ UNCHANGED <<holding, statusMoves, placeMoves, pieces>>
  BY DEF WriteRefused
<1>2. MovesOn
  BY <1>1 DEF MovesOn
<1> QED BY <1>1, <1>2, HandledIs, RecordsStand, Zenon

\* The shop offers the item, or ends its offer.
LEMMA ShopKeeps ==
    ASSUME HistoriesInvariant, Offered \/ OfferEnds
    PROVE  HistoriesInvariant' /\ pieces' = pieces /\ handling' = handling
<1>1. /\ UNCHANGED <<statusMoves, placeMoves, handling, pieces>>
      /\ \E v \in {holding.version, holding.version + 1} :
            holding' = [holding EXCEPT !.version = v]
  BY DEF Offered, OfferEnds
<1>2. PICK v \in {holding.version, holding.version + 1} :
         holding' = [holding EXCEPT !.version = v]
  BY <1>1
<1>3. holding \in ItemRow /\ holding.version \in Nat /\ v \in Nat
  BY <1>2, ItemRowIs DEF HistoriesInvariant
<1>4. /\ holding' \in ItemRow /\ holding'.version = v
      /\ holding'.status = holding.status /\ holding'.place = holding.place
      /\ holding'.split = holding.split
      /\ v = holding.version => holding' = holding
  BY <1>2, <1>3, VersionMoved
<1>5. MovesOn
  BY <1>2, <1>3, <1>4 DEF MovesOn
<1>6. /\ DOMAIN handling' = Handler
      /\ \A k \in Handler : handling'[k] = Resting \/ AtWork(handling'[k], holding')
  BY <1>1, <1>5, NobodyMoves, Zenon
<1>7. HistoriesInvariant'
  BY <1>1, <1>4, <1>6, Zenon DEF HistoriesInvariant, StatusesTell, PlacesTell
<1> QED BY <1>1, <1>7

LEMMA HistoriesStart == ItemRecordsInit => HistoriesInvariant
<1> SUFFICES ASSUME ItemRecordsInit
             PROVE  HistoriesInvariant
  OBVIOUS
<1>1. PICK s \in {"ordered", "received"}, p \in Shelf \cup {NoPlace}, c \in Price,
             ship \in Postage :
         /\ holding = [status |-> s, place |-> p, cost |-> c, postage |-> ship,
                       version |-> 1, split |-> FALSE]
         /\ statusMoves = Opening(s) /\ placeMoves = PlaceMove(NoPlace, p)
         /\ pieces = <<>>
         /\ handling = [h \in Handler |-> Resting]
  BY DEF ItemRecordsInit
<1>2. s \in Recorded /\ p \in Place /\ c \in Nat /\ ship \in Nat
  BY ItemRecordsAssumption DEF Recorded, Place
<1>3. holding.status = s /\ holding.place = p /\ holding \in ItemRow
  BY <1>1, <1>2 DEF ItemRow
<1>4. statusMoves \in Seq(StatusRow) /\ StatusesTell
  BY <1>1, <1>2, <1>3, NoStatusIsNone, OpeningLeads DEF StatusesTell
<1>5. placeMoves \in Seq(Place) /\ PlacesTell
  BY <1>1, <1>2, <1>3, FirstPlaceLeads DEF PlacesTell
<1>6. /\ \A n \in DOMAIN pieces : PieceHeld(pieces[n])
      /\ DOMAIN handling = Handler /\ \A h \in Handler : handling[h] = Resting
  BY <1>1
<1> QED BY <1>1, <1>3, <1>4, <1>5, <1>6, Zenon DEF HistoriesInvariant

-----------------------------------------------------------------------------
(* The requests of an item.                                                *)

\* What a request begins with.
BeginsSo(h) ==
  \E step \in {"lock", "write"} : \E a :
    /\ CouldAsk(a) /\ (a.token # "none" => step = "lock") /\ (a.op = "split" => step = "lock")
    /\ Begin(h, a, step)

LEMMA BeginsWith ==
    ASSUME NEW h, NEW a, NEW step \in {"lock", "write"}, CouldAsk(a),
           a.token # "none" => step = "lock", a.op = "split" => step = "lock",
           Begin(h, a, step)
    PROVE  BeginsSo(h)
BY Zenon DEF BeginsSo

LEMMA AsksAre ==
    /\ Receipt \subseteq Recorded \cup {Unsent} /\ "ordered" \in Recorded \cup {Unsent}
    /\ Unsent \in Recorded \cup {Unsent}
    /\ Shelf \subseteq Place \cup {Unsent} /\ NoPlace \in Place \cup {Unsent}
    /\ House \in Place \cup {Unsent} /\ Unsent \in Place \cup {Unsent}
    /\ Corrected \subseteq Nat \cup {UnsentPrice} /\ UnsentPrice \in Nat \cup {UnsentPrice}
BY ItemRecordsAssumption DEF Recorded, Place

LEMMA SplitAsks ==
    ASSUME NEW d \in Division, NEW a,
           a = [Sends("split", Unsent, Unsent, UnsentPrice, "none") EXCEPT !.division = d]
    PROVE  CouldAsk(a) /\ a.token = "none"
<1>1. /\ a.op = "split" /\ a.status = Unsent /\ a.place = Unsent /\ a.cost = UnsentPrice
      /\ a.token = "none" /\ a.division = d
  BY DEF Sends
<1> QED BY <1>1, AsksAre DEF CouldAsk

LEMMA BeginsIs ==
    ASSUME NEW h \in AtRest,
           \/ \E s \in Receipt, p \in Shelf \cup {Unsent} : ReceiveItems(h, s, p)
           \/ \E e \in EditsAsked :
                \/ e.cost = UnsentPrice /\ BulkEdit(h, e.status, e.place)
                \/ \E token \in {"version", "base"} :
                     UpdateItem(h, e.status, e.place, e.cost, token)
           \/ Consign(h)
           \/ \E p \in Shelf : ReturnFromConsignment(h, p)
           \/ \E d \in Division : SplitLot(h, d)
    PROVE  BeginsSo(h)
<1>1. ASSUME NEW s \in Receipt, NEW p \in Shelf \cup {Unsent}, ReceiveItems(h, s, p)
      PROVE  BeginsSo(h)
  <2> DEFINE a == Sends("receive", s, p, UnsentPrice, "none")
  <2>1. CouldAsk(a) /\ a.token = "none" /\ a.op = "receive"
    <3>1. s \in Recorded \cup {Unsent} /\ p \in Place \cup {Unsent}
      BY AsksAre
    <3> QED BY <3>1, AsksAre, SendsAsks, SendsIs
  <2>2. LocksIf(s # "received") \in {"lock", "write"} /\ Begin(h, a, LocksIf(s # "received"))
    BY <1>1 DEF ReceiveItems, LocksIf
  <2> HIDE DEF a
  <2> QED BY <2>1, <2>2, BeginsWith
<1>2. ASSUME NEW e \in EditsAsked,
             \/ e.cost = UnsentPrice /\ BulkEdit(h, e.status, e.place)
             \/ \E token \in {"version", "base"} :
                  UpdateItem(h, e.status, e.place, e.cost, token)
      PROVE  BeginsSo(h)
  <2>1. /\ e.status \in Recorded \cup {Unsent} /\ e.place \in Place \cup {Unsent}
        /\ e.cost \in Nat \cup {UnsentPrice}
    <3>1. /\ e.status \in Receipt \cup {"ordered", Unsent}
          /\ e.place \in Shelf \cup {NoPlace, Unsent}
          /\ e.cost \in Corrected \cup {UnsentPrice}
      BY DEF EditsAsked
    <3> QED BY <3>1, AsksAre
  <2>2. CASE BulkEdit(h, e.status, e.place)
    <3> DEFINE a == Sends("edit", e.status, e.place, UnsentPrice, "none")
               step == LocksIf(StandingChanges(e.status))
    <3>1. CouldAsk(a) /\ a.token = "none" /\ a.op = "edit"
      BY <2>1, AsksAre, SendsAsks, SendsIs
    <3>2. step \in {"lock", "write"} /\ Begin(h, a, step)
      BY <2>2 DEF BulkEdit, LocksIf
    <3> HIDE DEF a, step
    <3> QED BY <3>1, <3>2, BeginsWith
  <2>3. ASSUME NEW token \in {"version", "base"},
               UpdateItem(h, e.status, e.place, e.cost, token)
        PROVE  BeginsSo(h)
    <3> DEFINE t == IF StandingChanges(e.status) THEN token ELSE "none"
               a == Sends("edit", e.status, e.place, e.cost, t)
               step == LocksIf(StandingChanges(e.status))
    <3>1. CouldAsk(a) /\ a.token = t /\ a.op = "edit"
      <4> HIDE DEF t
      <4> QED BY <2>1, SendsAsks, SendsIs
    <3>2. step \in {"lock", "write"} /\ Begin(h, a, step)
      BY <2>3 DEF UpdateItem, LocksIf
    <3>3. t # "none" => step = "lock"
      BY DEF LocksIf
    <3> HIDE DEF a, step, t
    <3> QED BY <3>1, <3>2, <3>3, BeginsWith
  <2> QED BY <1>2, <2>2, <2>3
<1>3. CASE Consign(h)
  <2> DEFINE a == Sends("consign", Unsent, House, UnsentPrice, "none")
  <2>1. CouldAsk(a) /\ a.token = "none" /\ a.op = "consign"
    BY AsksAre, SendsAsks, SendsIs
  <2>2. Begin(h, a, "write")
    BY <1>3 DEF Consign
  <2> HIDE DEF a
  <2> QED BY <2>1, <2>2, BeginsWith
<1>4. ASSUME NEW p \in Shelf, ReturnFromConsignment(h, p)
      PROVE  BeginsSo(h)
  <2> DEFINE a == Sends("return", Unsent, p, UnsentPrice, "none")
  <2>1. CouldAsk(a) /\ a.token = "none" /\ a.op = "return"
    <3>1. p \in Place \cup {Unsent}
      BY AsksAre
    <3> QED BY <3>1, AsksAre, SendsAsks, SendsIs
  <2>2. Begin(h, a, "write")
    BY <1>4 DEF ReturnFromConsignment
  <2> HIDE DEF a
  <2> QED BY <2>1, <2>2, BeginsWith
<1>5. ASSUME NEW d \in Division, SplitLot(h, d)
      PROVE  BeginsSo(h)
  <2> DEFINE a == [Sends("split", Unsent, Unsent, UnsentPrice, "none") EXCEPT !.division = d]
  <2>1. Begin(h, a, "lock")
    BY <1>5 DEF SplitLot
  <2> HIDE DEF a
  <2>2. CouldAsk(a) /\ a.token = "none"
    BY SplitAsks DEF a
  <2> QED BY <2>1, <2>2, BeginsWith
<1> QED BY <1>1, <1>2, <1>3, <1>4, <1>5

\* What no step does: pieces that do not carry their lot, and a field
\* overwritten that its caller did not see.
CarriesAlways ==
  pieces' # pieces =>
    /\ pieces = <<>> /\ ~holding.split /\ holding'.split /\ ~offerLive'
    /\ Total([n \in DOMAIN pieces' |-> pieces'[n].cost]) = holding.cost
    /\ Total([n \in DOMAIN pieces' |-> pieces'[n].postage]) = holding.postage
    /\ \A n \in DOMAIN pieces' :
         pieces'[n].status = holding.status /\ pieces'[n].place = holding.place
    /\ \E h \in Handler :
         LET w == Weights(handling[h].asked.division) IN
         /\ handling[h].asked.op = "split" /\ DOMAIN pieces' = DOMAIN w
         /\ Proportional([n \in DOMAIN pieces' |-> pieces'[n].cost], holding.cost, w)
SeenAlways ==
  \A h \in Handler :
    /\ handling[h].step = "write" /\ handling'[h] = Resting /\ holding' # holding
    /\ handling[h].asked.token # "none"
    => ~Differs(handling[h].asked, handling[h].base, holding)

LEMMA RecordsStep ==
    ASSUME HistoriesInvariant, [ItemRecordsNext]_itemRecordVars
    PROVE  HistoriesInvariant' /\ CarriesAlways /\ SeenAlways
<1>1. ASSUME NEW h \in Handler, BeginsSo(h)
      PROVE  HistoriesInvariant' /\ CarriesAlways /\ SeenAlways
  <2>1. HistoriesInvariant'
    BY <1>1, BeginKeeps DEF BeginsSo
  <2>2. pieces' = pieces /\ holding' = holding
    BY <1>1 DEF BeginsSo, Begin
  <2> QED BY <2>1, <2>2 DEF CarriesAlways, SeenAlways
<1>2. ASSUME NEW h \in Handler, Lock(h)
      PROVE  HistoriesInvariant' /\ CarriesAlways /\ SeenAlways
  <2>1. pieces' = pieces /\ holding' = holding
    BY <1>2 DEF Lock
  <2> QED BY <1>2, <2>1, LockKeeps DEF CarriesAlways, SeenAlways
<1>3. ASSUME NEW h \in Handler, Write(h)
      PROVE  HistoriesInvariant' /\ CarriesAlways /\ SeenAlways
  <2>1. /\ HistoriesInvariant'
        /\ \A k \in Handler : k # h => handling'[k] = handling[k]
        /\ pieces' # pieces =>
             /\ handling[h].asked.op = "split" /\ handling[h].asked.division \in Division
             /\ pieces = <<>> /\ ~holding.split /\ holding'.split /\ ~offerLive'
             /\ CarryTheLot(pieces', holding, handling[h].asked.division)
        /\ holding' # holding /\ handling[h].asked.token # "none" =>
             ~Differs(handling[h].asked, handling[h].base, holding)
    BY <1>3, SaveKeeps
  <2>2. CarriesAlways
    BY <2>1, Zenon DEF CarriesAlways, CarryTheLot
  <2>3. SeenAlways
    <3>1. ASSUME NEW k \in Handler, k # h, handling[k].step = "write", handling'[k] = Resting
          PROVE  FALSE
      <4>1. handling[k] = Resting
        BY <2>1, <3>1
      <4> QED BY <3>1, <4>1 DEF Resting
    <3> QED BY <2>1, <3>1, Zenon DEF SeenAlways
  <2> QED BY <2>1, <2>2, <2>3
<1>4. ASSUME NEW h \in Handler, WriteRefused(h)
      PROVE  HistoriesInvariant' /\ CarriesAlways /\ SeenAlways
  BY <1>4, RefusedKeeps DEF CarriesAlways, SeenAlways
<1>5. CASE Offered \/ OfferEnds
  <2>1. HistoriesInvariant' /\ pieces' = pieces /\ handling' = handling
    BY <1>5, ShopKeeps
  <2>2. SeenAlways
    BY <2>1 DEF SeenAlways, Resting
  <2> QED BY <2>1, <2>2 DEF CarriesAlways
<1>6. CASE UNCHANGED itemRecordVars
  <2>1. UNCHANGED <<holding, statusMoves, placeMoves, pieces, handling>>
    BY <1>6 DEF itemRecordVars
  <2>2. HistoriesInvariant'
    BY <2>1, Zenon DEF HistoriesInvariant, StatusesTell, PlacesTell
  <2> QED BY <2>1, <2>2 DEF CarriesAlways, SeenAlways
<1>7. CASE ItemRecordsNext
  <2>1. CASE \E h \in AtRest :
               \/ \E s \in Receipt, p \in Shelf \cup {Unsent} : ReceiveItems(h, s, p)
               \/ \E e \in EditsAsked :
                    \/ e.cost = UnsentPrice /\ BulkEdit(h, e.status, e.place)
                    \/ \E token \in {"version", "base"} :
                         UpdateItem(h, e.status, e.place, e.cost, token)
               \/ Consign(h)
               \/ \E p \in Shelf : ReturnFromConsignment(h, p)
               \/ \E d \in Division : SplitLot(h, d)
    <3>1. PICK h \in AtRest : BeginsSo(h)
      BY <2>1, BeginsIs, Zenon
    <3> QED BY <1>1, <3>1 DEF AtRest
  <2>2. CASE \E h \in Handler \ AtRest : Lock(h) \/ Write(h) \/ WriteRefused(h)
    BY <1>2, <1>3, <1>4, <2>2
  <2> QED BY <1>5, <1>7, <2>1, <2>2, Zenon DEF ItemRecordsNext
<1> QED BY <1>6, <1>7

\* The records of an item say what happened to it, however many requests
\* handle it at once and whatever it and its pieces cost: its histories lead
\* from nothing to where its row is, a lot is split once into pieces that
\* carry its cost to the cent, and a save under the row's lock overwrites only
\* what its caller saw (lifecycle_writes.py, splitting.py, allocation.py).
THEOREM RecordsTrueHolds == ItemRecordsSpec => RecordsTrue
<1>1. ItemRecordsInit => HistoriesInvariant
  BY HistoriesStart
<1>2. HistoriesInvariant /\ [ItemRecordsNext]_itemRecordVars
        => HistoriesInvariant' /\ CarriesAlways /\ SeenAlways
  BY RecordsStep
<1>3. HistoriesInvariant => StatusesTell /\ PlacesTell /\ PiecesTell
  BY Zenon DEF HistoriesInvariant, PiecesTell, PieceHeld
<1>4. ItemRecordsSpec => [](StatusesTell /\ PlacesTell /\ PiecesTell)
  BY <1>1, <1>2, <1>3, PTL DEF ItemRecordsSpec
<1>5. ItemRecordsSpec => [][CarriesAlways]_itemRecordVars
  BY <1>1, <1>2, PTL DEF ItemRecordsSpec
<1>6. ItemRecordsSpec => [][SeenAlways]_itemRecordVars
  BY <1>1, <1>2, PTL DEF ItemRecordsSpec
<1> QED
  BY <1>4, <1>5, <1>6, PTL
  DEF RecordsTrue, PiecesCarryTheLot, NothingOverwrittenUnderTheLock, CarriesAlways, SeenAlways

-----------------------------------------------------------------------------
(* Backups: a database copied and a workbook loaded back.                  *)

Tables(rows) == rows = [t \in RestoreTables |-> rows[t]]

IsDb(db) ==
    /\ db \in [rows : {db.rows}, code : {db.code}, revision : {db.revision}, next : {db.next}]
    /\ Tables(db.rows) /\ Tables(db.next)

\* A database the application could run on.
RunsOn(db) ==
    /\ IsDb(db) /\ db.revision = {1} /\ IsRows(db.rows) /\ LinksHold(db.rows)
    /\ db.code \in Nat /\ \A t \in RestoreTables : db.next[t] \in Nat \ {0}

SequenceSet(db, t) ==
    /\ db.next[t] = NextId(db.rows, t)
    /\ t = "item" => db.code = NextCode(db.rows)

CopyStands ==
    job.kind = "copy" =>
      /\ job \in [kind : {"copy"}, at : 1..(Len(Order) + 1), step : {"rows", "ids"}, seen : {job.seen}]
      /\ job.step = "ids" => job.at <= Len(Order)
      /\ RunsOn(job.seen) /\ outcome = NoOutcome /\ target.revision = {}
      /\ \A i \in DOMAIN Order :
           /\ target.rows[Order[i]] =
                IF i < job.at \/ (i = job.at /\ job.step = "ids") THEN job.seen.rows[Order[i]] ELSE Bare
           /\ i < job.at => SequenceSet(target, Order[i])

ExportStands ==
    job.kind = "export" =>
      /\ job \in [kind : {"export"}, at : 1..(Len(Order) + 1), seen : {job.seen}, sheets : {job.sheets}]
      /\ RunsOn(job.seen) /\ Tables(job.sheets)
      /\ \A i \in DOMAIN Order :
           job.sheets[Order[i]] = IF i < job.at THEN job.seen.rows[Order[i]] ELSE Bare

\* A vocabulary without a row is pointed at by nothing.
EmptyIsUnnamed(sheets) ==
    \A u \in RestoreTables : \A q \in Ids(sheets, u), c \in LinkColumns(u) :
      /\ sheets[u][q].links[c] # {}
      /\ LinksOf[u][c] \in Vocabularies
      => Ids(sheets, LinksOf[u][c]) # {}

BookStands ==
    \A b \in book :
      /\ b \in [sheets : {b.sheets}, revision : {b.revision}]
      /\ b.revision = {1} /\ IsRows(b.sheets) /\ EmptyIsUnnamed(b.sheets)

\* What a transaction may put into an empty database.
MayGoIn(rows) ==
    /\ Tables(rows) /\ LinksHold(rows)
    /\ \A t \in RestoreTables :
         /\ rows[t] \in [Ids(rows, t) -> RowsOf(t)]
         /\ IsFiniteSet(Ids(rows, t)) /\ Ids(rows, t) \subseteq Nat
         /\ IdsResync(rows, t)

Faithful(loaded, sheets, told) ==
    \A t \in RestoreTables :
      /\ Ids(sheets, t) \subseteq Ids(loaded, t)
      /\ \A r \in Ids(loaded, t) \ Ids(sheets, t) :
           loaded[t][r].unknown /\ r < 1 /\ PointedAt(loaded, t, r)
      /\ \A r \in Ids(sheets, t) :
           /\ loaded[t][r].code = sheets[t][r].code /\ loaded[t][r].unknown = sheets[t][r].unknown
           /\ \A c \in LinkColumns(t) :
                IF \E link \in told : link[1] = t /\ link[2] = r /\ link[3] = c
                THEN \A v \in loaded[t][r].links[c] : loaded[LinksOf[t][c]][v].unknown
                ELSE loaded[t][r].links[c] = sheets[t][r].links[c]

HeldBack(rows, t) == [r \in Ids(rows, t) |-> WithEmpty(rows[t][r], Deferred(t))]

ImportStands ==
    job.kind = "import" =>
      /\ job \in [kind : {"import"}, at : 1..Len(Order), pass : {"first", "second", "ids"},
                  sheets : {job.sheets}, rows : {job.rows}, told : {job.told}, work : {job.work}]
      /\ outcome = NoOutcome
      /\ MayGoIn(job.rows) /\ Faithful(job.rows, job.sheets, job.told)
      /\ IsDb(job.work) /\ job.work.revision = {1}
      /\ \A i \in DOMAIN Order :
           job.work.rows[Order[i]] =
             IF job.pass = "first"
             THEN IF i < job.at THEN HeldBack(job.rows, Order[i]) ELSE Bare
             ELSE IF job.pass = "second" /\ i >= job.at THEN HeldBack(job.rows, Order[i])
             ELSE job.rows[Order[i]]

TargetStands ==
    /\ IsDb(target)
    /\ LinksHold(target.rows)
    /\ target.revision # {} => Usable(target)
    /\ outcome.result \in {"copied", "loaded"} => target.revision # {}
    /\ outcome.result # "turned down"
    /\ outcome.result = "copied" => target.rows = outcome.want
    /\ outcome.result = "loaded" => Faithful(target.rows, outcome.sheets, outcome.told)

RestoresInvariant ==
    /\ RunsOn(main) /\ TargetStands /\ BookStands
    /\ job = NoJob \/ job.kind \in {"copy", "export", "import"}
    /\ CopyStands /\ ExportStands /\ ImportStands

-----------------------------------------------------------------------------
(* Tables, links and sequences.                                            *)

LEMMA OrderIs ==
    /\ Len(Order) \in Nat /\ DOMAIN Order = 1..Len(Order)
    /\ \A i \in DOMAIN Order : Order[i] \in RestoreTables
    /\ \A t \in RestoreTables : \E i \in DOMAIN Order : t = Order[i]
    /\ \A i, j \in DOMAIN Order : Order[i] = Order[j] => i = j
BY ForeignKeyOrder DEF RestoreTables

LEMMA LinksAre ==
    ASSUME NEW i \in DOMAIN Order, NEW c \in LinkColumns(Order[i])
    PROVE  \E j \in DOMAIN Order : j <= i /\ LinksOf[Order[i]][c] = Order[j]
BY OrderIs, ForeignKeyOrder DEF LinkColumns

LEMMA LinkedTable ==
    ASSUME NEW t \in RestoreTables, NEW c \in LinkColumns(t)
    PROVE  LinksOf[t][c] \in RestoreTables
BY OrderIs, LinksAre

LEMMA GreatestIs ==
    ASSUME NEW T \in SUBSET Nat, IsFiniteSet(T), T # {}
    PROVE  /\ Greatest(T) \in T /\ Greatest(T) + 1 \in Nat \ {0}
           /\ \A n \in T : n <= Greatest(T) /\ n < Greatest(T) + 1
<1>1. Greatest(T) \in T /\ \A n \in T : n <= Greatest(T)
  <2>1. T \in SUBSET Int
    OBVIOUS
  <2>2. \E m \in T : \A n \in T : n <= m
    BY <2>1, GreatestOf
  <2> QED BY <2>2 DEF Greatest
<1>2. PICK g : g = Greatest(T)
  OBVIOUS
<1>3. g \in Nat /\ \A n \in T : n \in Nat /\ n <= g
  BY <1>1, <1>2
<1>4. g + 1 \in Nat \ {0} /\ \A n \in T : n < g + 1
  BY <1>3
<1> QED BY <1>1, <1>2, <1>4

LEMMA NextIdIs ==
    ASSUME NEW rows, NEW t, Ids(rows, t) \subseteq Nat, IsFiniteSet(Ids(rows, t))
    PROVE  /\ NextId(rows, t) \in Nat \ {0}
           /\ \A r \in Ids(rows, t) : r < NextId(rows, t)
<1>1. CASE Ids(rows, t) = {}
  BY <1>1 DEF NextId
<1>2. CASE Ids(rows, t) # {}
  BY <1>2, GreatestIs DEF NextId
<1> QED BY <1>1, <1>2

LEMMA NextCodeIs ==
    ASSUME NEW rows, rows["item"] \in [Ids(rows, "item") -> RowsOf("item")],
           IsFiniteSet(Ids(rows, "item"))
    PROVE  /\ NextCode(rows) \in Nat
           /\ \A n \in HeldCodes(rows) : n < NextCode(rows)
<1>1. HeldCodes(rows) \in SUBSET Nat
  BY DEF HeldCodes, RowsOf
<1>2. IsFiniteSet(HeldCodes(rows))
  <2> DEFINE f == [r \in Ids(rows, "item") |-> rows["item"][r].code]
  <2>1. f \in Surjection(Ids(rows, "item"), HeldCodes(rows))
    BY DEF HeldCodes, Surjection
  <2> QED BY <2>1, FS_Surjection
<1>3. CASE HeldCodes(rows) = {}
  BY <1>3 DEF NextCode
<1>4. CASE HeldCodes(rows) # {}
  BY <1>1, <1>2, <1>4, GreatestIs DEF NextCode
<1> QED BY <1>3, <1>4

\* A database whose sequences are set past its rows can be gone on with.
LEMMA SetIsUsable ==
    ASSUME NEW db,
           \A t \in RestoreTables :
             /\ db.rows[t] \in [Ids(db.rows, t) -> RowsOf(t)]
             /\ IsFiniteSet(Ids(db.rows, t)) /\ Ids(db.rows, t) \subseteq Nat,
           \A t \in RestoreTables : SequenceSet(db, t)
    PROVE  Usable(db)
<1>1. ASSUME NEW t \in RestoreTables, NEW r \in Ids(db.rows, t)
      PROVE  r < db.next[t]
  BY NextIdIs DEF SequenceSet
<1>2. "item" \in RestoreTables
  BY RestoreAssumption
<1>3. \A n \in HeldCodes(db.rows) : n < db.code
  BY <1>2, NextCodeIs DEF SequenceSet
<1> QED BY <1>1, <1>3 DEF Usable

LEMMA NewIs ==
    ASSUME NEW rows, NEW revision, IsRows(rows), NEW db, db = NewDatabase(rows, revision)
    PROVE  /\ IsDb(db) /\ db.rows = rows /\ db.revision = revision /\ db.code = 1
           /\ \A t \in RestoreTables :
                /\ db.next[t] \in Nat \ {0}
                /\ \A r \in Ids(rows, t) : r < db.next[t]
<1>1. /\ db.rows = rows /\ db.revision = revision /\ db.code = 1
      /\ db.next = [t \in RestoreTables |-> IF Ids(rows, t) = {} THEN 1 ELSE NextId(rows, t)]
      /\ db \in [rows : {db.rows}, code : {db.code}, revision : {db.revision}, next : {db.next}]
  BY DEF NewDatabase
<1>2. IsDb(db)
  BY <1>1 DEF IsDb, Tables, IsRows
<1>3. ASSUME NEW t \in RestoreTables
      PROVE  /\ db.next[t] \in Nat \ {0}
             /\ \A r \in Ids(rows, t) : r < db.next[t]
  <2>1. Ids(rows, t) \subseteq Nat /\ IsFiniteSet(Ids(rows, t))
    BY DEF IsRows
  <2>2. NextId(rows, t) \in Nat \ {0} /\ \A r \in Ids(rows, t) : r < NextId(rows, t)
    BY <2>1, NextIdIs
  <2>3. db.next[t] = IF Ids(rows, t) = {} THEN 1 ELSE NextId(rows, t)
    BY <1>1
  <2> QED BY <2>2, <2>3
<1> QED BY <1>1, <1>2, <1>3

\* What the migrations leave is a database to go on with.
LEMMA SeededIs ==
    ASSUME NEW revision, NEW db, db = NewDatabase(SeededRows, revision)
    PROVE  IsDb(db) /\ LinksHold(db.rows) /\ Usable(db) /\ db.revision = revision
<1>1. IsRows(SeededRows) /\ LinksHold(SeededRows) /\ Ids(SeededRows, "item") = {}
  BY RowsAtFirst
<1>2. /\ IsDb(db) /\ db.rows = SeededRows /\ db.revision = revision
      /\ \A t \in RestoreTables : \A r \in Ids(SeededRows, t) : r < db.next[t]
  BY <1>1, NewIs
<1>3. HeldCodes(SeededRows) = {}
  BY <1>1 DEF HeldCodes
<1> QED BY <1>1, <1>2, <1>3 DEF Usable

LEMMA RestoresStart == RestoresInit => RestoresInvariant
<1> SUFFICES ASSUME RestoresInit PROVE RestoresInvariant
  OBVIOUS
<1> DEFINE first == NewDatabase(FirstRows, {1})
<1>1. IsRows(FirstRows) /\ LinksHold(FirstRows)
  BY RowsAtFirst
<1>2. /\ IsDb(first) /\ first.rows = FirstRows /\ first.revision = {1}
      /\ \A t \in RestoreTables : first.next[t] \in Nat \ {0}
  BY <1>1, NewIs
<1>3. main = [first EXCEPT !.code = NextCode(FirstRows)]
  BY DEF RestoresInit
<1>4. NextCode(FirstRows) \in Nat
  <2>1. "item" \in RestoreTables
    BY RestoreAssumption
  <2> QED BY <1>1, <2>1, NextCodeIs DEF IsRows
<1>5. /\ main.rows = FirstRows /\ main.revision = {1} /\ main.next = first.next
      /\ main.code = NextCode(FirstRows)
      /\ main \in [rows : {main.rows}, code : {main.code}, revision : {main.revision}, next : {main.next}]
  <2> HIDE DEF first
  <2> QED BY <1>2, <1>3 DEF IsDb
<1>6. RunsOn(main)
  <2> HIDE DEF first
  <2>1. IsDb(main)
    BY <1>2, <1>5 DEF IsDb
  <2> QED BY <1>1, <1>2, <1>4, <1>5, <2>1 DEF RunsOn
<1>7. TargetStands
  <2>1. IsDb(target) /\ LinksHold(target.rows) /\ Usable(target) /\ target.revision = {1}
    BY SeededIs DEF RestoresInit
  <2>2. outcome = NoOutcome
    BY DEF RestoresInit
  <2> QED BY <2>1, <2>2 DEF TargetStands, NoOutcome
<1>8. book = {} /\ job = NoJob
  BY DEF RestoresInit
<1> QED BY <1>6, <1>7, <1>8 DEF RestoresInvariant, BookStands, CopyStands, ExportStands, ImportStands, NoJob

-----------------------------------------------------------------------------
(* The collection goes on changing.                                        *)

RowsWith(rows, t, N) == [rows EXCEPT ![t] = N]

TableOf(N, t) ==
    N \in [DOMAIN N -> RowsOf(t)] /\ IsFiniteSet(DOMAIN N) /\ DOMAIN N \subseteq Nat \ {0}

\* A table's rows put in the place of those it held.
LEMMA RowsPut ==
    ASSUME NEW rows, IsRows(rows), NEW t \in RestoreTables,
           NEW N, TableOf(N, t), NEW R, R = RowsWith(rows, t, N)
    PROVE  /\ IsRows(R) /\ R[t] = N /\ Ids(R, t) = DOMAIN N
           /\ \A u \in RestoreTables \ {t} : R[u] = rows[u] /\ Ids(R, u) = Ids(rows, u)
<1>1. rows = [u \in RestoreTables |-> rows[u]]
  BY DEF IsRows
<1>2. R = [u \in RestoreTables |-> IF u = t THEN N ELSE rows[u]]
  BY <1>1 DEF RowsWith
<1>3. \A u \in RestoreTables :
        /\ R[u] = IF u = t THEN N ELSE rows[u]
        /\ Ids(R, u) = IF u = t THEN DOMAIN N ELSE Ids(rows, u)
  BY <1>2 DEF Ids
<1>4. R = [u \in RestoreTables |-> R[u]]
  BY <1>2
<1>5. ASSUME NEW u \in RestoreTables
      PROVE  /\ R[u] \in [Ids(R, u) -> RowsOf(u)]
             /\ IsFiniteSet(Ids(R, u)) /\ Ids(R, u) \subseteq Nat \ {0}
  <2>1. CASE u = t
    BY <1>3, <2>1 DEF TableOf
  <2>2. CASE u # t
    BY <1>3, <2>2 DEF IsRows
  <2> QED BY <2>1, <2>2
<1> QED BY <1>3, <1>4, <1>5 DEF IsRows

\* Rows that are added or linked anew point at rows that were there.
LEMMA RowsGrow ==
    ASSUME NEW rows, IsRows(rows), LinksHold(rows), NEW t \in RestoreTables,
           NEW N, TableOf(N, t), Ids(rows, t) \subseteq DOMAIN N,
           \A r \in DOMAIN N, c \in LinkColumns(t) :
             N[r].links[c] \subseteq Ids(rows, LinksOf[t][c]),
           NEW R, R = RowsWith(rows, t, N)
    PROVE  IsRows(R) /\ LinksHold(R)
<1>1. /\ IsRows(R) /\ R[t] = N /\ Ids(R, t) = DOMAIN N
      /\ \A u \in RestoreTables \ {t} : R[u] = rows[u] /\ Ids(R, u) = Ids(rows, u)
  BY RowsPut
<1>2. \A u \in RestoreTables : Ids(rows, u) \subseteq Ids(R, u)
  BY <1>1
<1>3. ASSUME NEW u \in RestoreTables, NEW r \in Ids(R, u), NEW c \in LinkColumns(u)
      PROVE  R[u][r].links[c] \subseteq Ids(R, LinksOf[u][c])
  <2>1. Ids(rows, LinksOf[u][c]) \subseteq Ids(R, LinksOf[u][c])
    BY <1>2, LinkedTable
  <2>2. R[u][r].links[c] \subseteq Ids(rows, LinksOf[u][c])
    <3>1. CASE u = t
      BY <1>1, <3>1
    <3>2. CASE u # t
      BY <1>1, <3>2 DEF LinksHold
    <3> QED BY <3>1, <3>2
  <2> QED BY <2>1, <2>2
<1> QED BY <1>1, <1>3 DEF LinksHold

LEMMA LinksAreNumbers ==
    ASSUME NEW rows, IsRows(rows), NEW t \in RestoreTables
    PROVE  Ids(rows, t) \subseteq Int
BY DEF IsRows

LEMMA AddedRow ==
    ASSUME NEW t, NEW sentLinks \in [LinkColumns(t) -> SUBSET Int], NEW code \in Nat, NEW row,
           row = [links |-> sentLinks, unknown |-> FALSE, code |-> code]
    PROVE  row \in RowsOf(t) /\ row.links = sentLinks
BY DEF RowsOf

LEMMA RowAddedRuns ==
    ASSUME NEW t \in RestoreTables, NEW sentLinks \in MayLink(t), RowAdded(t, sentLinks), RunsOn(main)
    PROVE  RunsOn(main')
<1> DEFINE D == Ids(main.rows, t)
           n == main.next[t]
           fresh == [links |-> sentLinks, unknown |-> FALSE,
                     code |-> IF t = "item" THEN main.code ELSE 0]
           N == [r \in D \cup {n} |-> IF r \in D THEN main.rows[t][r] ELSE fresh]
<1>1. /\ IsDb(main) /\ main.revision = {1} /\ IsRows(main.rows) /\ LinksHold(main.rows)
      /\ main.code \in Nat /\ \A u \in RestoreTables : main.next[u] \in Nat \ {0}
  BY DEF RunsOn
<1>2. /\ main \in [rows : {main.rows}, code : {main.code}, revision : {main.revision}, next : {main.next}]
      /\ Tables(main.next)
  BY <1>1 DEF IsDb
<1>3. main' = [main EXCEPT
         !.rows[t] = N, !.next[t] = n + 1, !.code = IF t = "item" THEN main.code + 1 ELSE main.code]
  BY <1>2 DEF RowAdded, Ids
<1>4. /\ main'.rows = [main.rows EXCEPT ![t] = N]
      /\ main'.next = [main.next EXCEPT ![t] = n + 1]
      /\ main'.code = IF t = "item" THEN main.code + 1 ELSE main.code
      /\ main'.revision = main.revision
      /\ main' \in [rows : {main'.rows}, code : {main'.code},
                   revision : {main'.revision}, next : {main'.next}]
  <2> HIDE DEF N, n
  <2> QED BY <1>2, <1>3
<1>5. sentLinks \in [LinkColumns(t) -> SUBSET Int]
      /\ \A c \in LinkColumns(t) : sentLinks[c] \subseteq Ids(main.rows, LinksOf[t][c])
  <2>1. /\ DOMAIN sentLinks = LinkColumns(t) /\ sentLinks = [c \in LinkColumns(t) |-> sentLinks[c]]
        /\ \A c \in LinkColumns(t) : sentLinks[c] \subseteq Ids(main.rows, LinksOf[t][c])
    BY DEF MayLink
  <2>2. \A c \in LinkColumns(t) : sentLinks[c] \in SUBSET Int
    BY <1>1, <2>1, LinkedTable, LinksAreNumbers
  <2> QED BY <2>1, <2>2
<1>6. fresh \in RowsOf(t) /\ fresh.links = sentLinks
  <2>1. (IF t = "item" THEN main.code ELSE 0) \in Nat
    BY <1>1
  <2> QED BY <1>5, <2>1, AddedRow
<1>7. D \subseteq Nat \ {0} /\ IsFiniteSet(D) /\ main.rows[t] \in [D -> RowsOf(t)] /\ n \in Nat \ {0}
  BY <1>1 DEF IsRows
<1>8. IsRows(main'.rows) /\ LinksHold(main'.rows)
  <2>1. DOMAIN N = D \cup {n} /\ \A r \in DOMAIN N : N[r] = IF r \in D THEN main.rows[t][r] ELSE fresh
    BY ONLY TRUE
  <2> HIDE DEF N, fresh, n
  <2>2. N \in [DOMAIN N -> RowsOf(t)]
    <3>1. \A r \in DOMAIN N : N[r] \in RowsOf(t)
      BY <1>6, <1>7, <2>1
    <3>2. N = [r \in DOMAIN N |-> N[r]]
      BY DEF N
    <3> QED BY <3>1, <3>2
  <2>3. IsFiniteSet(DOMAIN N) /\ DOMAIN N \subseteq Nat \ {0} /\ D \subseteq DOMAIN N
    <3>1. IsFiniteSet(D \cup {n})
      BY <1>7, FS_AddElement
    <3> QED BY <1>7, <2>1, <3>1
  <2>4. \A r \in DOMAIN N, c \in LinkColumns(t) : N[r].links[c] \subseteq Ids(main.rows, LinksOf[t][c])
    <3> TAKE r \in DOMAIN N, c \in LinkColumns(t)
    <3>1. CASE r \in D
      BY <1>1, <2>1, <3>1 DEF LinksHold
    <3>2. CASE r \notin D
      BY <1>5, <1>6, <2>1, <3>2
    <3> QED BY <3>1, <3>2
  <2> QED BY <1>1, <1>4, <2>2, <2>3, <2>4, RowsGrow DEF TableOf, RowsWith
<1>9. IsDb(main') /\ \A u \in RestoreTables : main'.next[u] \in Nat \ {0}
  <2>1. main'.next = [u \in RestoreTables |-> IF u = t THEN n + 1 ELSE main.next[u]]
    BY <1>2, <1>4 DEF Tables
  <2>2. \A u \in RestoreTables : main'.next[u] \in Nat \ {0}
    BY <1>1, <1>7, <2>1
  <2>3. Tables(main'.next)
    BY <2>1 DEF Tables
  <2> QED BY <1>4, <1>8, <2>2, <2>3 DEF IsDb, Tables, IsRows
<1> QED BY <1>1, <1>4, <1>8, <1>9 DEF RunsOn

LEMMA RowRelinkedRuns ==
    ASSUME NEW t \in RestoreTables, NEW r \in Ids(main.rows, t), NEW c \in LinkColumns(t), NEW link,
           RowRelinked(t, r, c, link), RunsOn(main)
    PROVE  RunsOn(main')
<1> DEFINE row == main.rows[t][r]
           N == [main.rows[t] EXCEPT ![r] = [row EXCEPT !.links = [row.links EXCEPT ![c] = link]]]
<1>1. /\ IsDb(main) /\ main.revision = {1} /\ IsRows(main.rows) /\ LinksHold(main.rows)
      /\ main.code \in Nat /\ \A u \in RestoreTables : main.next[u] \in Nat \ {0}
  BY DEF RunsOn
<1>2. /\ main \in [rows : {main.rows}, code : {main.code}, revision : {main.revision}, next : {main.next}]
  BY <1>1 DEF IsDb
<1>3. main' = [main EXCEPT !.rows = [main.rows EXCEPT ![t] = N]]
  BY <1>2 DEF RowRelinked
<1>4. /\ main'.rows = [main.rows EXCEPT ![t] = N]
      /\ main'.next = main.next /\ main'.code = main.code /\ main'.revision = main.revision
      /\ main' \in [rows : {main'.rows}, code : {main'.code},
                   revision : {main'.revision}, next : {main'.next}]
  <2> HIDE DEF N
  <2> QED BY <1>2, <1>3
<1>5. /\ Ids(main.rows, t) \subseteq Nat \ {0} /\ IsFiniteSet(Ids(main.rows, t))
      /\ main.rows[t] \in [Ids(main.rows, t) -> RowsOf(t)]
  BY <1>1 DEF IsRows
<1>6. link \subseteq Ids(main.rows, LinksOf[t][c])
  BY DEF RowRelinked
<1>7. link \in SUBSET Int
  BY <1>1, <1>6, LinkedTable, LinksAreNumbers
<1>8. PICK changed : changed = [row EXCEPT !.links = [row.links EXCEPT ![c] = link]]
  OBVIOUS
<1>9. /\ changed \in RowsOf(t) /\ changed.links = [row.links EXCEPT ![c] = link]
      /\ DOMAIN row.links = LinkColumns(t)
  BY <1>5, <1>7, <1>8 DEF RowsOf
<1>10. /\ DOMAIN N = Ids(main.rows, t)
       /\ N \in [Ids(main.rows, t) -> RowsOf(t)]
       /\ \A q \in Ids(main.rows, t) : N[q] = IF q = r THEN changed ELSE main.rows[t][q]
  BY <1>5, <1>8, <1>9
<1>11. \A q \in DOMAIN N, d \in LinkColumns(t) : N[q].links[d] \subseteq Ids(main.rows, LinksOf[t][d])
  <2> HIDE DEF N
  <2> TAKE q \in DOMAIN N, d \in LinkColumns(t)
  <2>1. main.rows[t][q].links[d] \subseteq Ids(main.rows, LinksOf[t][d])
    BY <1>1, <1>10 DEF LinksHold
  <2>2. CASE q = r
    BY <1>6, <1>9, <1>10, <2>1, <2>2
  <2>3. CASE q # r
    BY <1>10, <2>1, <2>3
  <2> QED BY <2>2, <2>3
<1>12. IsRows(main'.rows) /\ LinksHold(main'.rows)
  <2> HIDE DEF N
  <2> QED BY <1>1, <1>4, <1>5, <1>10, <1>11, RowsGrow DEF TableOf, RowsWith
<1>13. IsDb(main')
  BY <1>1, <1>4, <1>12 DEF IsDb, Tables, IsRows
<1> QED BY <1>1, <1>4, <1>12, <1>13 DEF RunsOn

LEMMA RowRemovedRuns ==
    ASSUME NEW t \in RestoreTables, NEW r \in Ids(main.rows, t), RowRemoved(t, r), RunsOn(main)
    PROVE  RunsOn(main')
<1> DEFINE N == [q \in Ids(main.rows, t) \ {r} |-> main.rows[t][q]]
<1>1. /\ IsDb(main) /\ main.revision = {1} /\ IsRows(main.rows) /\ LinksHold(main.rows)
      /\ main.code \in Nat /\ \A u \in RestoreTables : main.next[u] \in Nat \ {0}
  BY DEF RunsOn
<1>2. /\ main \in [rows : {main.rows}, code : {main.code}, revision : {main.revision}, next : {main.next}]
  BY <1>1 DEF IsDb
<1>3. main' = [main EXCEPT !.rows = RowsWith(main.rows, t, N)]
  BY <1>1 DEF RowRemoved, Without, Ids, RowsWith, IsRows
<1>4. /\ main'.rows = RowsWith(main.rows, t, N)
      /\ main'.next = main.next /\ main'.code = main.code /\ main'.revision = main.revision
      /\ main' \in [rows : {main'.rows}, code : {main'.code},
                   revision : {main'.revision}, next : {main'.next}]
  <2> HIDE DEF N
  <2> QED BY <1>2, <1>3
<1>5. TableOf(N, t)
  <2>1. /\ Ids(main.rows, t) \subseteq Nat \ {0} /\ IsFiniteSet(Ids(main.rows, t))
        /\ main.rows[t] \in [Ids(main.rows, t) -> RowsOf(t)]
    BY <1>1 DEF IsRows
  <2>2. IsFiniteSet(Ids(main.rows, t) \ {r})
    BY <2>1, FS_Subset
  <2> QED BY <2>1, <2>2 DEF TableOf
<1>6. /\ IsRows(main'.rows) /\ main'.rows[t] = N /\ Ids(main'.rows, t) = Ids(main.rows, t) \ {r}
      /\ \A u \in RestoreTables \ {t} :
           main'.rows[u] = main.rows[u] /\ Ids(main'.rows, u) = Ids(main.rows, u)
  <2>1. DOMAIN N = Ids(main.rows, t) \ {r}
    OBVIOUS
  <2> HIDE DEF N
  <2> QED BY <1>1, <1>4, <1>5, <2>1, RowsPut
<1>7. LinksHold(main'.rows)
  <2>1. ASSUME NEW u \in RestoreTables, NEW q \in Ids(main'.rows, u), NEW c \in LinkColumns(u)
        PROVE  main'.rows[u][q].links[c] \subseteq Ids(main'.rows, LinksOf[u][c])
    <3>1. q \in Ids(main.rows, u) /\ main'.rows[u][q] = main.rows[u][q]
      <4>1. CASE u = t
        BY <1>6, <4>1
      <4>2. CASE u # t
        BY <1>6, <4>2
      <4> QED BY <4>1, <4>2
    <3>2. main.rows[u][q].links[c] \subseteq Ids(main.rows, LinksOf[u][c])
      BY <1>1, <3>1 DEF LinksHold
    <3>3. LinksOf[u][c] = t => r \notin main.rows[u][q].links[c]
      BY <3>1 DEF RowRemoved, PointedAt
    <3>4. LinksOf[u][c] \in RestoreTables
      BY LinkedTable
    <3> QED BY <1>6, <3>1, <3>2, <3>3, <3>4
  <2> QED BY <2>1 DEF LinksHold
<1>8. IsDb(main')
  BY <1>1, <1>4, <1>6 DEF IsDb, Tables, IsRows
<1> QED BY <1>1, <1>4, <1>6, <1>7, <1>8 DEF RunsOn

LEMMA CodeDrawnRuns ==
    ASSUME CodeDrawn, RunsOn(main)
    PROVE  RunsOn(main')
<1>1. /\ main'.rows = main.rows /\ main'.next = main.next /\ main'.revision = main.revision
      /\ main'.code = main.code + 1
      /\ main' \in [rows : {main'.rows}, code : {main'.code},
                   revision : {main'.revision}, next : {main'.next}]
  BY DEF CodeDrawn, RunsOn, IsDb
<1> QED BY <1>1 DEF RunsOn, IsDb

LEMMA SavedKeeps ==
    ASSUME RestoresInvariant, CollectionSaved
    PROVE  RestoresInvariant'
<1>1. RunsOn(main')
  BY RowAddedRuns, RowRelinkedRuns, RowRemovedRuns, CodeDrawnRuns DEF CollectionSaved, RestoresInvariant
<1>2. UNCHANGED <<target, book, job, outcome>>
  BY DEF CollectionSaved, RowAdded, RowRelinked, RowRemoved, CodeDrawn, Saves
<1> QED BY <1>1, <1>2
    DEF RestoresInvariant, TargetStands, BookStands, CopyStands, ExportStands, ImportStands

-----------------------------------------------------------------------------
(* The copy.                                                               *)

LEMMA NoRowsAre ==
    /\ IsRows(NoRows) /\ LinksHold(NoRows)
    /\ \A t \in RestoreTables : NoRows[t] = Bare /\ Ids(NoRows, t) = {}
<1>1. \A t \in RestoreTables : NoRows[t] = Bare /\ Ids(NoRows, t) = {}
  BY DEF NoRows, Bare, Ids
<1>2. \A t \in RestoreTables : Bare \in [{} -> RowsOf(t)]
  BY DEF Bare
<1>3. IsFiniteSet({})
  BY FS_EmptySet
<1>4. NoRows = [t \in RestoreTables |-> NoRows[t]]
  BY DEF NoRows
<1>5. IsRows(NoRows)
  BY <1>1, <1>2, <1>3, <1>4 DEF IsRows
<1>6. LinksHold(NoRows)
  BY <1>1 DEF LinksHold
<1> QED BY <1>1, <1>5, <1>6

LEMMA StartCopyKeeps ==
    ASSUME RestoresInvariant, StartCopy
    PROVE  RestoresInvariant'
<1>1. /\ job' = [kind |-> "copy", at |-> 1, step |-> "rows", seen |-> main]
      /\ target' = NewDatabase(NoRows, {}) /\ outcome' = NoOutcome /\ UNCHANGED <<main, book>>
  BY DEF StartCopy, Starts
<1>2. IsDb(target') /\ target'.rows = NoRows /\ target'.revision = {}
  BY <1>1, NoRowsAre, NewIs
<1>3. /\ job'.kind = "copy" /\ job'.at = 1 /\ job'.step = "rows" /\ job'.seen = main
      /\ job' \in [kind : {"copy"}, at : 1..(Len(Order) + 1), step : {"rows", "ids"}, seen : {job'.seen}]
  BY <1>1, OrderIs
<1>4. TargetStands'
  BY <1>1, <1>2, NoRowsAre DEF TargetStands, NoOutcome
<1>5. CopyStands'
  BY <1>1, <1>2, <1>3, NoRowsAre, OrderIs DEF CopyStands, RestoresInvariant
<1> QED BY <1>1, <1>3, <1>4, <1>5 DEF RestoresInvariant, BookStands, ExportStands, ImportStands

LEMMA WithEmptyIs ==
    ASSUME NEW t, NEW row \in RowsOf(t), NEW held
    PROVE  /\ WithEmpty(row, held) \in RowsOf(t)
           /\ WithEmpty(row, held).unknown = row.unknown /\ WithEmpty(row, held).code = row.code
           /\ WithEmpty(row, held).links = [c \in LinkColumns(t) |-> IF c \in held THEN {} ELSE row.links[c]]
<1>1. row.links \in [LinkColumns(t) -> SUBSET Int]
  BY DEF RowsOf
<1>2. PICK L : L = [c \in LinkColumns(t) |-> IF c \in held THEN {} ELSE row.links[c]]
  OBVIOUS
<1>3. L \in [LinkColumns(t) -> SUBSET Int]
  BY <1>1, <1>2
<1>4. PICK w : w = WithEmpty(row, held) /\ w = [row EXCEPT !.links = L]
  BY <1>1, <1>2 DEF WithEmpty
<1>5. /\ w.links = L /\ w.unknown = row.unknown /\ w.code = row.code
      /\ w \in RowsOf(t)
  BY <1>3, <1>4 DEF RowsOf
<1> QED BY <1>2, <1>4, <1>5

\* Tables that have come in up to one point only at one another.
LEMMA CameInOrder ==
    ASSUME NEW seen, LinksHold(seen), NEW k \in Int, NEW R,
           \A i \in DOMAIN Order : R[Order[i]] = IF i <= k THEN seen[Order[i]] ELSE Bare
    PROVE  LinksHold(R)
<1>1. ASSUME NEW t \in RestoreTables, NEW r \in Ids(R, t), NEW c \in LinkColumns(t)
      PROVE  R[t][r].links[c] \subseteq Ids(R, LinksOf[t][c])
  <2>1. PICK i \in DOMAIN Order : t = Order[i]
    BY OrderIs
  <2>2. i <= k /\ R[t] = seen[t]
    BY <2>1 DEF Ids, Bare
  <2>3. PICK j \in DOMAIN Order : j <= i /\ LinksOf[t][c] = Order[j]
    BY <2>1, LinksAre
  <2>4. i \in Int /\ j \in Int
    BY OrderIs
  <2>5. R[Order[j]] = seen[Order[j]]
    BY <2>2, <2>3, <2>4
  <2>6. seen[t][r].links[c] \subseteq Ids(seen, LinksOf[t][c])
    BY <2>2 DEF LinksHold, Ids
  <2> QED BY <2>2, <2>3, <2>5, <2>6 DEF Ids
<1> QED BY <1>1 DEF LinksHold

LEMMA SequenceStays ==
    ASSUME NEW db, NEW t, SequenceSet(db, t),
           NEW e, e.rows[t] = db.rows[t], e.next[t] = db.next[t], t = "item" => e.code = db.code
    PROVE  SequenceSet(e, t)
BY DEF SequenceSet, NextId, NextCode, HeldCodes, Ids

DbWith(db, t, N, n, code) ==
    [db EXCEPT !.rows[t] = N, !.next[t] = n, !.code = code]

\* A database one table of which is put in, or one sequence of which is set.
LEMMA DbPut ==
    ASSUME NEW db, IsDb(db), NEW t \in RestoreTables, NEW N, NEW n, NEW code,
           NEW e, e = DbWith(db, t, N, n, code)
    PROVE  /\ IsDb(e) /\ e.revision = db.revision /\ e.code = code
           /\ e.rows[t] = N /\ e.next[t] = n
           /\ \A u \in RestoreTables \ {t} : e.rows[u] = db.rows[u] /\ e.next[u] = db.next[u]
<1>1. /\ db \in [rows : {db.rows}, code : {db.code}, revision : {db.revision}, next : {db.next}]
      /\ db.rows = [u \in RestoreTables |-> db.rows[u]]
      /\ db.next = [u \in RestoreTables |-> db.next[u]]
  BY DEF IsDb, Tables
<1>2. /\ e.rows = [db.rows EXCEPT ![t] = N] /\ e.next = [db.next EXCEPT ![t] = n]
      /\ e.code = code /\ e.revision = db.revision
      /\ e \in [rows : {e.rows}, code : {e.code}, revision : {e.revision}, next : {e.next}]
  BY <1>1 DEF DbWith
<1>3. /\ e.rows = [u \in RestoreTables |-> IF u = t THEN N ELSE db.rows[u]]
      /\ e.next = [u \in RestoreTables |-> IF u = t THEN n ELSE db.next[u]]
  BY <1>1, <1>2
<1>4. IsDb(e)
  BY <1>2, <1>3 DEF IsDb, Tables
<1> QED BY <1>2, <1>3, <1>4

LEMMA CopyTableKeeps ==
    ASSUME RestoresInvariant, CopyTable
    PROVE  RestoresInvariant'
<1> DEFINE t == Order[job.at]
           seen == job.seen.rows
<1>1. /\ job \in [kind : {"copy"}, at : 1..(Len(Order) + 1), step : {"rows", "ids"}, seen : {job.seen}]
      /\ job.step = "rows" /\ job.at <= Len(Order)
      /\ RunsOn(job.seen) /\ outcome = NoOutcome /\ target.revision = {}
      /\ \A i \in DOMAIN Order :
           /\ target.rows[Order[i]] = IF i < job.at THEN seen[Order[i]] ELSE Bare
           /\ i < job.at => SequenceSet(target, Order[i])
  BY DEF RestoresInvariant, CopyStands, CopyTable
<1>2. IsRows(seen) /\ LinksHold(seen) /\ IsDb(target)
  BY <1>1 DEF RunsOn, RestoresInvariant, TargetStands
<1>3. job.at \in DOMAIN Order /\ job.at \in Nat /\ t \in RestoreTables
  BY <1>1, OrderIs
<1>4. seen[t] \in [Ids(seen, t) -> RowsOf(t)]
  BY <1>2, <1>3 DEF IsRows
<1>5. Takes(target.rows, t, Inserted(t))
  <2>1. ASSUME NEW r \in DOMAIN Inserted(t), NEW c \in LinkColumns(t), NEW v \in Inserted(t)[r].links[c]
        PROVE  LinksOf[t][c] # t /\ v \in Ids(target.rows, LinksOf[t][c])
    <3>1. r \in Ids(seen, t) /\ Inserted(t)[r] = WithEmpty(seen[t][r], OwnLinks(t))
      BY DEF Inserted, Read, Ids
    <3>2. Inserted(t)[r].links = [d \in LinkColumns(t) |-> IF d \in OwnLinks(t) THEN {} ELSE seen[t][r].links[d]]
      <4>1. PICK u, row, held : u = t /\ row = seen[t][r] /\ held = OwnLinks(t)
        OBVIOUS
      <4>2. row \in RowsOf(u)
        BY <1>4, <3>1, <4>1
      <4>3. WithEmpty(row, held).links = [d \in LinkColumns(u) |-> IF d \in held THEN {} ELSE row.links[d]]
        BY <4>2, WithEmptyIs
      <4> QED BY <3>1, <4>1, <4>3
    <3>3. c \notin OwnLinks(t) /\ v \in seen[t][r].links[c]
      BY <3>2
    <3>4. LinksOf[t][c] # t
      BY <3>3 DEF OwnLinks
    <3>5. PICK j \in DOMAIN Order : j <= job.at /\ LinksOf[t][c] = Order[j]
      BY <1>3, LinksAre
    <3>6. j < job.at
      BY <1>3, <3>4, <3>5, OrderIs
    <3>7. target.rows[Order[j]] = seen[Order[j]]
      BY <1>1, <3>6
    <3>8. v \in Ids(seen, LinksOf[t][c])
      BY <1>2, <1>3, <3>1, <3>3 DEF LinksHold
    <3> QED BY <3>4, <3>5, <3>7, <3>8 DEF Ids
  <2> QED BY <2>1 DEF Takes
<1>6. /\ target' = [target EXCEPT !.rows[t] = Read(t)] /\ job' = [job EXCEPT !.step = "ids"]
      /\ UNCHANGED outcome /\ UNCHANGED <<main, book, used>>
  BY <1>5 DEF CopyTable
<1>7. /\ IsDb(target') /\ target'.revision = {} /\ target'.code = target.code
      /\ target'.rows[t] = seen[t] /\ target'.next[t] = target.next[t]
      /\ \A u \in RestoreTables \ {t} : target'.rows[u] = target.rows[u] /\ target'.next[u] = target.next[u]
  <2>1. target' = DbWith(target, t, seen[t], target.next[t], target.code)
    BY <1>2, <1>6 DEF Read, IsDb, Tables, DbWith
  <2> QED BY <1>1, <1>2, <1>3, <2>1, DbPut
<1>8. /\ job' \in [kind : {"copy"}, at : 1..(Len(Order) + 1), step : {"rows", "ids"}, seen : {job'.seen}]
      /\ job'.kind = "copy" /\ job'.seen = job.seen /\ job'.at = job.at /\ job'.step = "ids"
  BY <1>1, <1>6
<1>9. \A i \in DOMAIN Order : target'.rows[Order[i]] = IF i <= job.at THEN seen[Order[i]] ELSE Bare
  BY <1>1, <1>3, <1>7, OrderIs
<1>10. LinksHold(target'.rows)
  BY <1>2, <1>3, <1>9, CameInOrder
<1>11. \A i \in DOMAIN Order : i < job.at => SequenceSet(target', Order[i])
  <2> TAKE i \in DOMAIN Order
  <2> HAVE i < job.at
  <2>1. Order[i] # t /\ Order[i] \in RestoreTables
    BY <1>3, OrderIs
  <2> QED BY <1>1, <1>7, <2>1, SequenceStays
<1>12. CopyStands'
  <2>1. \A i \in DOMAIN Order :
          target'.rows[Order[i]] =
            IF i < job'.at \/ (i = job'.at /\ job'.step = "ids") THEN job'.seen.rows[Order[i]] ELSE Bare
    BY <1>3, <1>8, <1>9, OrderIs
  <2>2. job'.step = "ids" => job'.at <= Len(Order)
    BY <1>1, <1>8
  <2> QED BY <1>1, <1>6, <1>7, <1>8, <1>11, <2>1, <2>2 DEF CopyStands
<1>13. TargetStands'
  BY <1>1, <1>6, <1>7, <1>10 DEF TargetStands, NoOutcome
<1> QED BY <1>6, <1>8, <1>12, <1>13 DEF RestoresInvariant, BookStands, ExportStands, ImportStands

LEMMA CopySyncedKeeps ==
    ASSUME RestoresInvariant, CopySynced
    PROVE  RestoresInvariant'
<1> DEFINE t == Order[job.at]
           seen == job.seen.rows
<1>1. /\ job \in [kind : {"copy"}, at : 1..(Len(Order) + 1), step : {"rows", "ids"}, seen : {job.seen}]
      /\ job.step = "ids" /\ job.at <= Len(Order)
      /\ RunsOn(job.seen) /\ outcome = NoOutcome /\ target.revision = {}
      /\ \A i \in DOMAIN Order :
           /\ target.rows[Order[i]] = IF i < job.at \/ i = job.at THEN seen[Order[i]] ELSE Bare
           /\ i < job.at => SequenceSet(target, Order[i])
  BY DEF RestoresInvariant, CopyStands, CopySynced
<1>2. IsDb(target) /\ LinksHold(target.rows)
  BY DEF RestoresInvariant, TargetStands
<1>3. job.at \in DOMAIN Order /\ job.at \in Nat /\ t \in RestoreTables
  BY <1>1, OrderIs
<1>4. /\ target' = [target EXCEPT !.next[t] = NextId(target.rows, t), !.code = CodeAfter(t, target)]
      /\ job' = [job EXCEPT !.step = "rows", !.at = @ + 1]
      /\ UNCHANGED <<main, book, outcome, used>>
  BY DEF CopySynced
<1>5. /\ IsDb(target') /\ target'.revision = {} /\ target'.code = CodeAfter(t, target)
      /\ target'.rows[t] = target.rows[t] /\ target'.next[t] = NextId(target.rows, t)
      /\ \A u \in RestoreTables \ {t} : target'.rows[u] = target.rows[u] /\ target'.next[u] = target.next[u]
  <2>1. target' = DbWith(target, t, target.rows[t], NextId(target.rows, t), CodeAfter(t, target))
    BY <1>2, <1>4 DEF IsDb, Tables, DbWith
  <2> QED BY <1>1, <1>2, <1>3, <2>1, DbPut
<1>6. target'.rows = target.rows
  BY <1>2, <1>5 DEF IsDb, Tables
<1>7. /\ job' \in [kind : {"copy"}, at : 1..(Len(Order) + 1), step : {"rows", "ids"}, seen : {job'.seen}]
      /\ job'.kind = "copy" /\ job'.seen = job.seen /\ job'.at = job.at + 1 /\ job'.step = "rows"
  <2>1. job.at + 1 \in 1..(Len(Order) + 1)
    BY <1>1, <1>3, OrderIs
  <2>2. PICK j : j = job.at + 1
    OBVIOUS
  <2>3. job' = [job EXCEPT !.step = "rows", !.at = j]
    BY <1>4, <2>2
  <2>4. job'.at = j /\ job'.kind = "copy" /\ job'.step = "rows" /\ job'.seen = job.seen
        /\ job' \in [kind : {"copy"}, at : {j}, step : {"rows"}, seen : {job'.seen}]
    BY <1>1, <2>3
  <2> QED BY <2>1, <2>2, <2>4
<1>8. SequenceSet(target', t)
  BY <1>5, <1>6 DEF SequenceSet, CodeAfter
<1>9. \A i \in DOMAIN Order : i < job'.at => SequenceSet(target', Order[i])
  <2> TAKE i \in DOMAIN Order
  <2> HAVE i < job'.at
  <2>1. CASE i = job.at
    BY <1>8, <2>1
  <2>2. CASE i # job.at
    <3>1. i < job.at
      BY <1>3, <1>7, <2>2, OrderIs
    <3>2. Order[i] # t /\ Order[i] \in RestoreTables
      BY <1>3, <2>2, OrderIs
    <3>3. t # "item" => target'.code = target.code
      BY <1>5 DEF CodeAfter
    <3> QED BY <1>1, <1>5, <3>1, <3>2, <3>3, SequenceStays
  <2> QED BY <2>1, <2>2
<1>10. \A i \in DOMAIN Order :
         target'.rows[Order[i]] =
           IF i < job'.at \/ (i = job'.at /\ job'.step = "ids") THEN job'.seen.rows[Order[i]] ELSE Bare
  BY <1>1, <1>3, <1>6, <1>7, OrderIs
<1>11. CopyStands'
  BY <1>1, <1>4, <1>5, <1>7, <1>9, <1>10 DEF CopyStands
<1>12. TargetStands'
  BY <1>1, <1>2, <1>4, <1>5, <1>6 DEF TargetStands, NoOutcome
<1> QED BY <1>4, <1>7, <1>11, <1>12 DEF RestoresInvariant, BookStands, ExportStands, ImportStands

LEMMA RevisionCopiedKeeps ==
    ASSUME RestoresInvariant, RevisionCopied
    PROVE  RestoresInvariant'
<1> DEFINE seen == job.seen.rows
<1>1. /\ job.at > Len(Order) /\ job.at \in 1..(Len(Order) + 1) /\ RunsOn(job.seen)
      /\ \A i \in DOMAIN Order :
           /\ target.rows[Order[i]] = IF i < job.at \/ (i = job.at /\ job.step = "ids") THEN seen[Order[i]] ELSE Bare
           /\ i < job.at => SequenceSet(target, Order[i])
  BY DEF RestoresInvariant, CopyStands, RevisionCopied
<1>2. \A i \in DOMAIN Order : i < job.at
  BY <1>1, OrderIs
<1>3. \A t \in RestoreTables : target.rows[t] = seen[t] /\ SequenceSet(target, t)
  BY <1>1, <1>2, OrderIs
<1>4. IsDb(target) /\ IsRows(seen) /\ LinksHold(seen) /\ job.seen.revision = {1}
  BY <1>1 DEF RunsOn, RestoresInvariant, TargetStands
<1>5. target.rows = seen
  BY <1>3, <1>4 DEF IsDb, Tables, IsRows
<1>6. /\ target' = [target EXCEPT !.revision = {1}] /\ job' = NoJob
      /\ outcome' = [result |-> "copied", want |-> seen] /\ UNCHANGED <<main, book, used>>
  BY <1>4 DEF RevisionCopied
<1>7. IsDb(target') /\ target'.rows = seen /\ target'.revision = {1}
      /\ target'.next = target.next /\ target'.code = target.code
  BY <1>4, <1>5, <1>6 DEF IsDb
<1>8. Usable(target)
  <2>1. \A t \in RestoreTables :
          /\ target.rows[t] \in [Ids(target.rows, t) -> RowsOf(t)]
          /\ IsFiniteSet(Ids(target.rows, t)) /\ Ids(target.rows, t) \subseteq Nat
    BY <1>4, <1>5 DEF IsRows
  <2> QED BY <1>3, <2>1, SetIsUsable
<1>9. Usable(target')
  BY <1>5, <1>7, <1>8 DEF Usable
<1>10. TargetStands'
  BY <1>4, <1>6, <1>7, <1>9 DEF TargetStands
<1> QED BY <1>6, <1>10 DEF RestoresInvariant, BookStands, CopyStands, ExportStands, ImportStands, NoJob

LEMMA JobEnds ==
    ASSUME RestoresInvariant, job' = NoJob, UNCHANGED <<main, target, book, outcome>>
    PROVE  RestoresInvariant'
BY DEF RestoresInvariant, TargetStands, BookStands, CopyStands, ExportStands, ImportStands, NoJob

-----------------------------------------------------------------------------
(* The workbook.                                                           *)

LEMMA StartExportKeeps ==
    ASSUME RestoresInvariant, StartExport
    PROVE  RestoresInvariant'
<1>1. /\ job' = [kind |-> "export", at |-> 1, seen |-> main, sheets |-> NoRows]
      /\ UNCHANGED <<main, target, book, outcome>>
  BY DEF StartExport, Starts
<1>2. /\ job'.kind = "export" /\ job'.at = 1 /\ job'.seen = main /\ job'.sheets = NoRows
      /\ job' \in [kind : {"export"}, at : 1..(Len(Order) + 1), seen : {job'.seen}, sheets : {job'.sheets}]
  BY <1>1, OrderIs
<1>3. ExportStands'
  BY <1>1, <1>2, NoRowsAre, OrderIs DEF ExportStands, RestoresInvariant, Tables, IsRows
<1> QED BY <1>1, <1>2, <1>3 DEF RestoresInvariant, TargetStands, BookStands, CopyStands, ImportStands

LEMMA SheetWrittenKeeps ==
    ASSUME RestoresInvariant, SheetWritten
    PROVE  RestoresInvariant'
<1> DEFINE t == Order[job.at]
<1>1. /\ job \in [kind : {"export"}, at : 1..(Len(Order) + 1), seen : {job.seen}, sheets : {job.sheets}]
      /\ RunsOn(job.seen) /\ Tables(job.sheets) /\ job.at <= Len(Order)
      /\ \A i \in DOMAIN Order :
           job.sheets[Order[i]] = IF i < job.at THEN job.seen.rows[Order[i]] ELSE Bare
  BY DEF RestoresInvariant, ExportStands, SheetWritten
<1>2. job.at \in DOMAIN Order /\ job.at \in Nat /\ t \in RestoreTables
  BY <1>1, OrderIs
<1>3. PICK S, j : S = [job.sheets EXCEPT ![t] = job.seen.rows[t]] /\ j = job.at + 1
  OBVIOUS
<1>4. job' = [job EXCEPT !.sheets = S, !.at = j] /\ UNCHANGED <<main, target, book, outcome, used>>
  BY <1>1, <1>3 DEF SheetWritten, Read
<1>5. /\ job'.kind = "export" /\ job'.at = j /\ job'.seen = job.seen /\ job'.sheets = S
      /\ job' \in [kind : {"export"}, at : {j}, seen : {job'.seen}, sheets : {job'.sheets}]
  BY <1>1, <1>4
<1>6. j \in 1..(Len(Order) + 1)
  BY <1>1, <1>2, <1>3, OrderIs
<1>7. S = [u \in RestoreTables |-> IF u = t THEN job.seen.rows[t] ELSE job.sheets[u]]
  BY <1>1, <1>3 DEF Tables
<1>8. \A i \in DOMAIN Order : S[Order[i]] = IF i < j THEN job.seen.rows[Order[i]] ELSE Bare
  <2> TAKE i \in DOMAIN Order
  <2>1. CASE i = job.at
    BY <1>2, <1>3, <1>7, <2>1
  <2>2. CASE i # job.at
    <3>1. Order[i] # t /\ Order[i] \in RestoreTables
      BY <1>2, <2>2, OrderIs
    <3>2. i < j <=> i < job.at
      BY <1>2, <1>3, <2>2, OrderIs
    <3> QED BY <1>1, <1>7, <3>1, <3>2
  <2> QED BY <2>1, <2>2
<1>9. ExportStands'
  BY <1>1, <1>5, <1>6, <1>7, <1>8 DEF ExportStands, Tables
<1> QED BY <1>4, <1>5, <1>9 DEF RestoresInvariant, TargetStands, BookStands, CopyStands, ImportStands

LEMMA BookSavedKeeps ==
    ASSUME RestoresInvariant, BookSaved
    PROVE  RestoresInvariant'
<1>1. /\ job.at > Len(Order) /\ job.at \in 1..(Len(Order) + 1)
      /\ RunsOn(job.seen) /\ Tables(job.sheets)
      /\ \A i \in DOMAIN Order :
           job.sheets[Order[i]] = IF i < job.at THEN job.seen.rows[Order[i]] ELSE Bare
  BY DEF RestoresInvariant, ExportStands, BookSaved
<1>2. IsRows(job.seen.rows) /\ LinksHold(job.seen.rows) /\ job.seen.revision = {1}
  BY <1>1 DEF RunsOn
<1>3. \A i \in DOMAIN Order : i < job.at
  BY <1>1, OrderIs
<1>4. job.sheets = job.seen.rows
  <2>1. \A t \in RestoreTables : job.sheets[t] = job.seen.rows[t]
    BY <1>1, <1>3, OrderIs
  <2>2. Tables(job.sheets) /\ Tables(job.seen.rows)
    BY <1>1, <1>2 DEF Tables, IsRows
  <2> QED BY <2>1, <2>2 DEF Tables
<1>5. PICK b : b = [sheets |-> job.seen.rows, revision |-> {1}]
  OBVIOUS
<1>6. book' = {b} /\ job' = NoJob /\ UNCHANGED <<main, target, outcome, used>>
  BY <1>2, <1>4, <1>5 DEF BookSaved
<1>7. EmptyIsUnnamed(job.seen.rows)
  BY <1>2 DEF EmptyIsUnnamed, LinksHold
<1>8. /\ b \in [sheets : {b.sheets}, revision : {b.revision}]
      /\ b.revision = {1} /\ IsRows(b.sheets) /\ EmptyIsUnnamed(b.sheets)
  BY <1>2, <1>5, <1>7
<1>9. BookStands'
  BY <1>6, <1>8 DEF BookStands
<1> QED BY <1>6, <1>9 DEF RestoresInvariant, TargetStands, CopyStands, ExportStands, ImportStands, NoJob

LEMMA CorrectedKeeps ==
    ASSUME RestoresInvariant, NEW b \in book, NEW changed, Corrects(b, changed),
           IsRows(changed), EmptyIsUnnamed(changed)
    PROVE  RestoresInvariant'
<1>1. PICK e : e = [b EXCEPT !.sheets = changed]
  OBVIOUS
<1>2. book' = {e} /\ UNCHANGED <<main, target, job, outcome>>
  BY <1>1 DEF Corrects
<1>3. b \in [sheets : {b.sheets}, revision : {b.revision}] /\ b.revision = {1}
  BY DEF RestoresInvariant, BookStands
<1>4. /\ e \in [sheets : {e.sheets}, revision : {e.revision}]
      /\ e.revision = {1} /\ e.sheets = changed
  BY <1>1, <1>3
<1>5. BookStands'
  BY <1>2, <1>4 DEF BookStands
<1> QED BY <1>2, <1>5 DEF RestoresInvariant, TargetStands, CopyStands, ExportStands, ImportStands

LEMMA SheetCorrectedKeeps ==
    ASSUME RestoresInvariant, SheetCorrected, ~EmptiesSheets
    PROVE  RestoresInvariant'
<1>1. PICK b \in book : \E t \in RestoreTables : \E r \in Ids(b.sheets, t) :
        RowTakenOff(b, t, r) \/ CalledUnknown(b, t, r)
  BY DEF SheetCorrected
<1>2. PICK t \in RestoreTables : \E r \in Ids(b.sheets, t) :
        RowTakenOff(b, t, r) \/ CalledUnknown(b, t, r)
  BY <1>1
<1>3. PICK r \in Ids(b.sheets, t) : RowTakenOff(b, t, r) \/ CalledUnknown(b, t, r)
  BY <1>2
<1>4. IsRows(b.sheets) /\ EmptyIsUnnamed(b.sheets)
  BY DEF RestoresInvariant, BookStands
<1>5. /\ b.sheets[t] \in [Ids(b.sheets, t) -> RowsOf(t)]
      /\ IsFiniteSet(Ids(b.sheets, t)) /\ Ids(b.sheets, t) \subseteq Nat \ {0}
  BY <1>4 DEF IsRows
<1>6. CASE RowTakenOff(b, t, r)
  <2> DEFINE N == [q \in Ids(b.sheets, t) \ {r} |-> b.sheets[t][q]]
  <2>1. PICK R : R = RowsWith(b.sheets, t, N)
    OBVIOUS
  <2>2. Corrects(b, R) /\ (t \in Vocabularies => Ids(b.sheets, t) # {r})
    BY <1>4, <1>6, <2>1 DEF RowTakenOff, Without, RowsWith, Ids, IsRows
  <2>3. DOMAIN N = Ids(b.sheets, t) \ {r} /\ \A q \in DOMAIN N : N[q] = b.sheets[t][q]
    OBVIOUS
  <2>4. TableOf(N, t)
    BY <1>5, FS_Subset DEF TableOf
  <2> HIDE DEF N
  <2>5. /\ IsRows(R) /\ R[t] = N /\ Ids(R, t) = DOMAIN N
        /\ \A u \in RestoreTables \ {t} : R[u] = b.sheets[u] /\ Ids(R, u) = Ids(b.sheets, u)
    BY <1>4, <2>1, <2>4, RowsPut
  <2>6. EmptyIsUnnamed(R)
    <3>1. ASSUME NEW u \in RestoreTables, NEW q \in Ids(R, u), NEW c \in LinkColumns(u),
                 R[u][q].links[c] # {}, LinksOf[u][c] \in Vocabularies
          PROVE  Ids(R, LinksOf[u][c]) # {}
      <4>1. q \in Ids(b.sheets, u) /\ R[u][q] = b.sheets[u][q]
        <5>1. CASE u = t
          BY <2>3, <2>5, <5>1
        <5>2. CASE u # t
          BY <2>5, <5>2
        <5> QED BY <5>1, <5>2
      <4>2. Ids(b.sheets, LinksOf[u][c]) # {}
        BY <1>4, <3>1, <4>1 DEF EmptyIsUnnamed
      <4>3. LinksOf[u][c] \in RestoreTables
        BY LinkedTable
      <4>4. CASE LinksOf[u][c] = t
        BY <2>2, <2>3, <2>5, <3>1, <4>2, <4>4
      <4>5. CASE LinksOf[u][c] # t
        BY <2>5, <4>2, <4>3, <4>5
      <4> QED BY <4>4, <4>5
    <3> QED BY <3>1 DEF EmptyIsUnnamed
  <2> QED BY <2>2, <2>5, <2>6, CorrectedKeeps
<1>7. CASE CalledUnknown(b, t, r)
  <2>1. PICK row : row = [b.sheets[t][r] EXCEPT !.unknown = TRUE]
    OBVIOUS
  <2>2. row \in RowsOf(t) /\ row.links = b.sheets[t][r].links
    <3>1. b.sheets[t][r] \in RowsOf(t)
      BY <1>5
    <3>2. PICK w \in RowsOf(t) : w = b.sheets[t][r]
      BY <3>1
    <3>3. row = [w EXCEPT !.unknown = TRUE]
      BY <2>1, <3>2
    <3> QED BY <3>2, <3>3 DEF RowsOf
  <2> DEFINE N == [b.sheets[t] EXCEPT ![r] = row]
  <2>3. PICK R : R = RowsWith(b.sheets, t, N)
    OBVIOUS
  <2>4. Corrects(b, R)
    BY <1>4, <1>7, <2>1, <2>3 DEF CalledUnknown, RowsWith, IsRows
  <2>5. /\ DOMAIN N = Ids(b.sheets, t) /\ N \in [Ids(b.sheets, t) -> RowsOf(t)]
        /\ \A q \in DOMAIN N : N[q].links = b.sheets[t][q].links
    BY <1>5, <2>2
  <2> HIDE DEF N
  <2>6. TableOf(N, t)
    BY <1>5, <2>5 DEF TableOf
  <2>7. /\ IsRows(R) /\ R[t] = N /\ Ids(R, t) = DOMAIN N
        /\ \A u \in RestoreTables \ {t} : R[u] = b.sheets[u] /\ Ids(R, u) = Ids(b.sheets, u)
    BY <1>4, <2>3, <2>6, RowsPut
  <2>8. \A u \in RestoreTables :
          /\ Ids(R, u) = Ids(b.sheets, u)
          /\ \A q \in Ids(R, u) : R[u][q].links = b.sheets[u][q].links
    BY <2>5, <2>7
  <2>9. EmptyIsUnnamed(R)
    BY <1>4, <2>8, LinkedTable DEF EmptyIsUnnamed
  <2> QED BY <2>4, <2>7, <2>9, CorrectedKeeps
<1> QED BY <1>3, <1>6, <1>7

LEMMA NewTargetKeeps ==
    ASSUME RestoresInvariant, NEW revision, NewTarget(revision)
    PROVE  RestoresInvariant'
<1>1. /\ target' = NewDatabase(SeededRows, {revision}) /\ outcome' = NoOutcome
      /\ UNCHANGED <<main, book, job, used>> /\ job = NoJob
  BY DEF NewTarget
<1>2. IsDb(target') /\ LinksHold(target'.rows) /\ Usable(target') /\ target'.revision = {revision}
  BY <1>1, SeededIs
<1>3. TargetStands'
  BY <1>1, <1>2 DEF TargetStands, NoOutcome
<1> QED BY <1>1, <1>3 DEF RestoresInvariant, BookStands, CopyStands, ExportStands, ImportStands, NoJob

LEMMA ImportRefusedKeeps ==
    ASSUME RestoresInvariant, NEW to, NEW asked, ImportRefused(to, asked)
    PROVE  RestoresInvariant'
<1>1. /\ job' = NoJob /\ outcome' = [result |-> "refused"] /\ UNCHANGED <<main, target, book>>
  BY DEF ImportRefused, Starts
<1>2. TargetStands'
  BY <1>1 DEF TargetStands, RestoresInvariant
<1> QED BY <1>1, <1>2 DEF RestoresInvariant, BookStands, CopyStands, ExportStands, ImportStands, NoJob

-----------------------------------------------------------------------------
(* What is loaded of a workbook.                                           *)

LEMMA BrokenFrom ==
    ASSUME NEW sheets, NEW link \in Broken(sheets)
    PROVE  \E t \in RestoreTables : \E r \in Ids(sheets, t), c \in LinkColumns(t) :
             \E v \in sheets[t][r].links[c] \ Ids(sheets, LinksOf[t][c]) :
               /\ link[1] = t /\ link[2] = r /\ link[3] = c
               /\ PointsInto(link) = LinksOf[t][c]
BY DEF Broken, PointsInto

LEMMA BrokenHas ==
    ASSUME NEW sheets, NEW t \in RestoreTables, NEW r \in Ids(sheets, t), NEW c \in LinkColumns(t),
           NEW v \in sheets[t][r].links[c] \ Ids(sheets, LinksOf[t][c])
    PROVE  \E link \in Broken(sheets) : link[1] = t /\ link[2] = r /\ link[3] = c
<1>1. PICK link : link = <<t, r, c, v>>
  OBVIOUS
<1>2. link \in Broken(sheets)
  <2> DEFINE At(u, q, d) == {<<u, q, d, w>> : w \in sheets[u][q].links[d] \ Ids(sheets, LinksOf[u][d])}
             Of(u) == UNION {At(u, q, d) : q \in Ids(sheets, u), d \in LinkColumns(u)}
  <2>1. link \in At(t, r, c)
    BY <1>1
  <2>2. link \in Of(t)
    <3> HIDE DEF At
    <3> QED BY <2>1
  <2>3. Broken(sheets) = UNION {Of(u) : u \in RestoreTables}
    BY DEF Broken
  <2> HIDE DEF Of
  <2> QED BY <2>2, <2>3
<1>3. link[1] = t /\ link[2] = r /\ link[3] = c
  BY <1>1
<1> QED BY <1>2, <1>3

\* Zero is free, so the Unknown row made up is row 0.
LEMMA FreeIsZero ==
    ASSUME NEW taken, taken \subseteq Nat \ {0}, IsFiniteSet(taken)
    PROVE  FreeBelow(taken) = 0
<1> DEFINE IsFree(n) == n \notin taken /\ \A k \in (n + 1)..0 : k \in taken
<1>1. PICK m \in Nat : m = Cardinality(taken)
  BY FS_CardinalityType
<1>2. 0 \in -m..0 /\ IsFree(0)
  BY <1>1
<1>3. \A n \in -m..0 : IsFree(n) => n = 0
  <2> TAKE n \in -m..0
  <2> HAVE IsFree(n)
  <2> SUFFICES ASSUME n # 0 PROVE FALSE
    OBVIOUS
  <2>1. 0 \in (n + 1)..0
    BY <1>1
  <2> QED BY <2>1
<1>4. FreeBelow(taken) = CHOOSE n \in -m..0 : IsFree(n)
  BY <1>1 DEF FreeBelow
<1> HIDE DEF IsFree
<1> QED BY <1>2, <1>3, <1>4

LEMMA UnknownIdIs ==
    ASSUME NEW sheets, IsRows(sheets), NEW t \in RestoreTables
    PROVE  \/ UnknownId(sheets, t) \in CalledUnknowns(sheets, t)
           \/ UnknownId(sheets, t) = 0
<1>1. Ids(sheets, t) \subseteq Nat \ {0} /\ IsFiniteSet(Ids(sheets, t))
  BY DEF IsRows
<1>2. CASE CalledUnknowns(sheets, t) = {}
  BY <1>1, <1>2, FreeIsZero DEF UnknownId
<1>3. CASE CalledUnknowns(sheets, t) # {}
  <2>1. CalledUnknowns(sheets, t) \subseteq Ids(sheets, t)
    BY DEF CalledUnknowns
  <2>2. CalledUnknowns(sheets, t) \in SUBSET Nat /\ IsFiniteSet(CalledUnknowns(sheets, t))
    BY <1>1, <2>1, FS_Subset
  <2>3. \E m \in CalledUnknowns(sheets, t) : \A q \in CalledUnknowns(sheets, t) : m <= q
    BY <1>3, <2>2, LeastOf
  <2> QED BY <1>3, <2>3 DEF UnknownId
<1> QED BY <1>2, <1>3

Told(told, t, r, c) == \E link \in told : link[1] = t /\ link[2] = r /\ link[3] = c

LEMMA MendedRow ==
    ASSUME NEW t, NEW row \in RowsOf(t), NEW L, L \in [LinkColumns(t) -> SUBSET Int],
           NEW w, w = [row EXCEPT !.links = L]
    PROVE  w \in RowsOf(t) /\ w.links = L /\ w.code = row.code /\ w.unknown = row.unknown
BY DEF RowsOf

LEMMA MadeUpRow ==
    ASSUME NEW t
    PROVE  /\ UnknownRow(t) \in RowsOf(t) /\ UnknownRow(t).unknown
           /\ \A c \in LinkColumns(t) : UnknownRow(t).links[c] = {}
BY DEF UnknownRow, RowsOf

IsMended(rows, sheets, told) ==
    /\ Tables(rows)
    /\ \A t \in RestoreTables :
         /\ Ids(rows, t) = Ids(sheets, t) \cup
              {u \in {UnknownId(sheets, t)} : \E link \in told : PointsInto(link) = t}
         /\ rows[t] \in [Ids(rows, t) -> RowsOf(t)]
         /\ \A r \in Ids(sheets, t) :
              /\ rows[t][r].code = sheets[t][r].code /\ rows[t][r].unknown = sheets[t][r].unknown
              /\ \A c \in LinkColumns(t) :
                   rows[t][r].links[c] =
                     IF Told(told, t, r, c) THEN {UnknownId(sheets, LinksOf[t][c])}
                     ELSE sheets[t][r].links[c]
         /\ \A r \in Ids(rows, t) \ Ids(sheets, t) : rows[t][r] = UnknownRow(t)

\* The rows to load: those of the sheets with the links that were told mended,
\* and the Unknown rows such a link needed.
LEMMA MendedIs ==
    ASSUME NEW sheets, IsRows(sheets), NEW told, NEW rows, rows = Mended(sheets, told),
           \A link \in told : PointsInto(link) \in RestoreTables
    PROVE  IsMended(rows, sheets, told)
<1> DEFINE needed == {PointsInto(link) : link \in told}
           Loads(t) == Ids(sheets, t) \cup {u \in {UnknownId(sheets, t)} : t \in needed}
           Row(t, r) ==
             IF r \in Ids(sheets, t)
             THEN [sheets[t][r] EXCEPT !.links = [c \in DOMAIN @ |->
                    IF \E link \in told : link[1] = t /\ link[2] = r /\ link[3] = c
                    THEN {UnknownId(sheets, LinksOf[t][c])} ELSE @[c]]]
             ELSE UnknownRow(t)
<1>1. rows = [t \in RestoreTables |-> [r \in Loads(t) |-> Row(t, r)]]
  BY DEF Mended
<1>2. Tables(rows)
  BY <1>1 DEF Tables
<1>3. ASSUME NEW t \in RestoreTables
      PROVE  /\ Ids(rows, t) = Ids(sheets, t) \cup
                     {u \in {UnknownId(sheets, t)} : \E link \in told : PointsInto(link) = t}
             /\ rows[t] \in [Ids(rows, t) -> RowsOf(t)]
             /\ \A r \in Ids(sheets, t) :
                  /\ rows[t][r].code = sheets[t][r].code /\ rows[t][r].unknown = sheets[t][r].unknown
                  /\ \A c \in LinkColumns(t) :
                       rows[t][r].links[c] =
                         IF Told(told, t, r, c) THEN {UnknownId(sheets, LinksOf[t][c])}
                         ELSE sheets[t][r].links[c]
             /\ \A r \in Ids(rows, t) \ Ids(sheets, t) : rows[t][r] = UnknownRow(t)
  <2>1. rows[t] = [r \in Loads(t) |-> Row(t, r)]
    BY <1>1
  <2>2. Ids(rows, t) = Loads(t) /\ \A r \in Loads(t) : rows[t][r] = Row(t, r)
    BY <2>1 DEF Ids
  <2>3. Loads(t) = Ids(sheets, t) \cup
          {u \in {UnknownId(sheets, t)} : \E link \in told : PointsInto(link) = t}
    OBVIOUS
  <2>4. ASSUME NEW r \in Ids(sheets, t)
        PROVE  /\ rows[t][r] \in RowsOf(t)
               /\ rows[t][r].code = sheets[t][r].code /\ rows[t][r].unknown = sheets[t][r].unknown
               /\ \A c \in LinkColumns(t) :
                    rows[t][r].links[c] =
                      IF Told(told, t, r, c) THEN {UnknownId(sheets, LinksOf[t][c])}
                      ELSE sheets[t][r].links[c]
    <3>1. PICK row \in RowsOf(t) : row = sheets[t][r]
      BY DEF IsRows
    <3>2. row.links \in [LinkColumns(t) -> SUBSET Int]
      BY DEF RowsOf
    <3>3. PICK L : L = [c \in LinkColumns(t) |->
                          IF Told(told, t, r, c) THEN {UnknownId(sheets, LinksOf[t][c])} ELSE row.links[c]]
      OBVIOUS
    <3>4. \A c \in LinkColumns(t) : UnknownId(sheets, LinksOf[t][c]) \in Int
      <4> TAKE c \in LinkColumns(t)
      <4>1. LinksOf[t][c] \in RestoreTables
        BY LinkedTable
      <4>2. CalledUnknowns(sheets, LinksOf[t][c]) \subseteq Int
        BY <4>1 DEF CalledUnknowns, IsRows
      <4> QED BY <4>1, <4>2, UnknownIdIs
    <3>5. L \in [LinkColumns(t) -> SUBSET Int]
      BY <3>2, <3>3, <3>4
    <3>6. rows[t][r] = [row EXCEPT !.links = L]
      <4>1. Row(t, r) = [row EXCEPT !.links = L]
        BY <3>1, <3>2, <3>3 DEF Told
      <4> HIDE DEF Row
      <4> QED BY <2>2, <4>1
    <3>7. /\ rows[t][r] \in RowsOf(t) /\ rows[t][r].links = L
          /\ rows[t][r].code = row.code /\ rows[t][r].unknown = row.unknown
      BY <3>5, <3>6, MendedRow
    <3> QED BY <3>1, <3>3, <3>7
  <2>5. \A r \in Ids(rows, t) \ Ids(sheets, t) : rows[t][r] = UnknownRow(t)
    BY <2>2
  <2>6. rows[t] \in [Ids(rows, t) -> RowsOf(t)]
    <3>1. \A r \in Ids(rows, t) : rows[t][r] \in RowsOf(t)
      BY <2>4, <2>5, MadeUpRow
    <3>2. rows[t] = [r \in Ids(rows, t) |-> rows[t][r]]
      BY <2>1, <2>2
    <3> QED BY <3>1, <3>2
  <2> QED BY <2>2, <2>3, <2>4, <2>5, <2>6
<1> QED BY <1>2, <1>3 DEF IsMended

\* A workbook that is not refused can be put into an empty database, and what
\* goes in is what its sheets hold.
LEMMA MendedGoesIn ==
    ASSUME NEW sheets, IsRows(sheets), EmptyIsUnnamed(sheets),
           NEW asked, NEW told, told = Substituted(sheets, asked), Broken(sheets) = told,
           NEW rows, rows = Mended(sheets, told)
    PROVE  MayGoIn(rows) /\ Faithful(rows, sheets, told)
<1>1. ASSUME NEW link \in told
      PROVE  /\ PointsInto(link) \in RestoreTables
             /\ Ids(sheets, PointsInto(link)) # {}
             /\ \E t \in RestoreTables : \E r \in Ids(sheets, t), c \in LinkColumns(t) :
                  Told(told, t, r, c) /\ PointsInto(link) = LinksOf[t][c]
  <2>1. PICK t \in RestoreTables : \E r \in Ids(sheets, t), c \in LinkColumns(t) :
          \E v \in sheets[t][r].links[c] \ Ids(sheets, LinksOf[t][c]) :
            /\ link[1] = t /\ link[2] = r /\ link[3] = c
            /\ PointsInto(link) = LinksOf[t][c]
    BY BrokenFrom
  <2>2. PICK r \in Ids(sheets, t), c \in LinkColumns(t) :
          \E v \in sheets[t][r].links[c] \ Ids(sheets, LinksOf[t][c]) :
            /\ link[1] = t /\ link[2] = r /\ link[3] = c
            /\ PointsInto(link) = LinksOf[t][c]
    BY <2>1
  <2>3. sheets[t][r].links[c] # {} /\ PointsInto(link) = LinksOf[t][c] /\ Told(told, t, r, c)
    BY <2>2 DEF Told
  <2>4. PointsInto(link) \in Vocabularies
    BY DEF Substituted
  <2>5. Ids(sheets, LinksOf[t][c]) # {}
    BY <2>3, <2>4 DEF EmptyIsUnnamed
  <2> QED BY <2>3, <2>5, LinkedTable
<1>2. ASSUME NEW t \in RestoreTables, NEW r \in Ids(sheets, t), NEW c \in LinkColumns(t)
      PROVE  /\ Told(told, t, r, c) => \E link \in told : PointsInto(link) = LinksOf[t][c]
             /\ ~Told(told, t, r, c) => sheets[t][r].links[c] \subseteq Ids(sheets, LinksOf[t][c])
  <2>1. CASE Told(told, t, r, c)
    BY <2>1 DEF Told, PointsInto
  <2>2. CASE ~Told(told, t, r, c)
    BY <2>2, BrokenHas DEF Told
  <2> QED BY <2>1, <2>2
<1>3. /\ Tables(rows)
      /\ \A t \in RestoreTables :
           /\ Ids(rows, t) = Ids(sheets, t) \cup
                {u \in {UnknownId(sheets, t)} : \E link \in told : PointsInto(link) = t}
           /\ rows[t] \in [Ids(rows, t) -> RowsOf(t)]
           /\ \A r \in Ids(sheets, t) :
                /\ rows[t][r].code = sheets[t][r].code /\ rows[t][r].unknown = sheets[t][r].unknown
                /\ \A c \in LinkColumns(t) :
                     rows[t][r].links[c] =
                       IF Told(told, t, r, c) THEN {UnknownId(sheets, LinksOf[t][c])}
                       ELSE sheets[t][r].links[c]
           /\ \A r \in Ids(rows, t) \ Ids(sheets, t) : rows[t][r] = UnknownRow(t)
  <2>1. \A link \in told : PointsInto(link) \in RestoreTables
    BY <1>1
  <2>2. IsMended(rows, sheets, told)
    BY <2>1, MendedIs
  <2> QED BY <2>2 DEF IsMended
<1>4. ASSUME NEW t \in RestoreTables, NEW link \in told, PointsInto(link) = t
      PROVE  /\ UnknownId(sheets, t) \in Ids(rows, t)
             /\ rows[t][UnknownId(sheets, t)].unknown
  <2>1. PICK u : u = UnknownId(sheets, t)
    OBVIOUS
  <2>2. u \in Ids(rows, t)
    BY <1>3, <1>4, <2>1
  <2>3. CASE u \in Ids(sheets, t)
    <3>1. u # 0
      BY <2>3 DEF IsRows
    <3>2. u \in CalledUnknowns(sheets, t)
      BY <2>1, <3>1, UnknownIdIs
    <3>3. sheets[t][u].unknown
      BY <3>2 DEF CalledUnknowns
    <3>4. rows[t][u].unknown = sheets[t][u].unknown
      BY <1>3, <2>3
    <3>5. rows[t][u].unknown
      BY <3>3, <3>4
    <3> QED BY <2>1, <2>2, <3>5
  <2>4. CASE u \notin Ids(sheets, t)
    <3>1. rows[t][u] = UnknownRow(t)
      BY <1>3, <2>2, <2>4
    <3>2. rows[t][u].unknown
      BY <3>1, MadeUpRow
    <3> QED BY <2>1, <2>2, <3>2
  <2> QED BY <2>3, <2>4
<1>5. LinksHold(rows)
  <2>1. ASSUME NEW t \in RestoreTables, NEW r \in Ids(rows, t), NEW c \in LinkColumns(t)
        PROVE  rows[t][r].links[c] \subseteq Ids(rows, LinksOf[t][c])
    <3>1. LinksOf[t][c] \in RestoreTables
      BY LinkedTable
    <3>2. CASE r \notin Ids(sheets, t)
      BY <1>3, <3>2, MadeUpRow
    <3>3. CASE r \in Ids(sheets, t) /\ Told(told, t, r, c)
      <4>1. rows[t][r].links[c] = {UnknownId(sheets, LinksOf[t][c])}
        BY <1>3, <3>3
      <4>2. PICK link \in told : PointsInto(link) = LinksOf[t][c]
        BY <1>2, <3>3
      <4>3. UnknownId(sheets, LinksOf[t][c]) \in Ids(rows, LinksOf[t][c])
        BY <1>4, <3>1, <4>2
      <4> QED BY <4>1, <4>3
    <3>4. CASE r \in Ids(sheets, t) /\ ~Told(told, t, r, c)
      <4>1. rows[t][r].links[c] = sheets[t][r].links[c]
        BY <1>3, <3>4
      <4>2. sheets[t][r].links[c] \subseteq Ids(sheets, LinksOf[t][c])
        BY <1>2, <3>4
      <4>3. Ids(sheets, LinksOf[t][c]) \subseteq Ids(rows, LinksOf[t][c])
        BY <1>3, <3>1
      <4> QED BY <4>1, <4>2, <4>3
    <3> QED BY <3>2, <3>3, <3>4
  <2> QED BY <2>1 DEF LinksHold
<1>6. ASSUME NEW t \in RestoreTables
      PROVE  /\ IsFiniteSet(Ids(rows, t)) /\ Ids(rows, t) \subseteq Nat
             /\ IdsResync(rows, t)
  <2>1. IsFiniteSet(Ids(sheets, t)) /\ Ids(sheets, t) \subseteq Nat \ {0}
    BY DEF IsRows
  <2>2. Ids(rows, t) \subseteq Ids(sheets, t) \cup {UnknownId(sheets, t)}
    BY <1>3
  <2>3. UnknownId(sheets, t) \in Nat
    BY <2>1, UnknownIdIs DEF CalledUnknowns
  <2>4. IsFiniteSet(Ids(rows, t))
    <3>1. IsFiniteSet(Ids(sheets, t) \cup {UnknownId(sheets, t)})
      BY <2>1, FS_AddElement
    <3> QED BY <2>2, <3>1, FS_Subset
  <2>5. Ids(rows, t) \subseteq Nat
    BY <2>1, <2>2, <2>3
  <2>6. ASSUME Ids(rows, t) # {}
        PROVE  Greatest(Ids(rows, t)) >= 1
    <3>1. Ids(sheets, t) # {}
      BY <1>1, <1>3, <2>6
    <3>2. PICK r \in Ids(sheets, t) : TRUE
      BY <3>1
    <3>3. r \in Ids(rows, t) /\ r \in Nat \ {0}
      BY <1>3, <2>1
    <3>4. Greatest(Ids(rows, t)) \in Ids(rows, t) /\ r <= Greatest(Ids(rows, t))
      BY <2>4, <2>5, <3>3, GreatestIs
    <3>5. PICK g \in Nat : g = Greatest(Ids(rows, t))
      BY <2>5, <3>4
    <3> QED BY <3>3, <3>4, <3>5
  <2> QED BY <2>4, <2>5, <2>6 DEF IdsResync
<1>7. MayGoIn(rows)
  BY <1>3, <1>5, <1>6 DEF MayGoIn
<1>8. ASSUME NEW t \in RestoreTables, NEW r \in Ids(rows, t) \ Ids(sheets, t)
      PROVE  rows[t][r].unknown /\ r < 1 /\ PointedAt(rows, t, r)
  <2>1. PICK link \in told : PointsInto(link) = t
    BY <1>3
  <2>2. r = UnknownId(sheets, t)
    BY <1>3
  <2>3. r < 1
    <3>1. r \notin CalledUnknowns(sheets, t)
      BY DEF CalledUnknowns
    <3> QED BY <2>2, <3>1, UnknownIdIs
  <2>4. PICK u \in RestoreTables : \E q \in Ids(sheets, u), c \in LinkColumns(u) :
          Told(told, u, q, c) /\ t = LinksOf[u][c]
    BY <1>1, <2>1
  <2>5. PICK q \in Ids(sheets, u), c \in LinkColumns(u) : Told(told, u, q, c) /\ t = LinksOf[u][c]
    BY <2>4
  <2>6. rows[u][q].links[c] = {r} /\ q \in Ids(rows, u)
    BY <1>3, <2>2, <2>5
  <2>7. PointedAt(rows, t, r)
    BY <2>5, <2>6 DEF PointedAt
  <2> QED BY <1>4, <2>1, <2>2, <2>3, <2>7
<1>9. ASSUME NEW t \in RestoreTables, NEW r \in Ids(sheets, t), NEW c \in LinkColumns(t)
      PROVE  IF \E link \in told : link[1] = t /\ link[2] = r /\ link[3] = c
             THEN \A v \in rows[t][r].links[c] : rows[LinksOf[t][c]][v].unknown
             ELSE rows[t][r].links[c] = sheets[t][r].links[c]
  <2>1. LinksOf[t][c] \in RestoreTables
    BY LinkedTable
  <2>2. CASE Told(told, t, r, c)
    <3>1. rows[t][r].links[c] = {UnknownId(sheets, LinksOf[t][c])}
      BY <1>3, <2>2
    <3>2. rows[LinksOf[t][c]][UnknownId(sheets, LinksOf[t][c])].unknown
      BY <1>2, <1>4, <2>1, <2>2
    <3>3. \A v \in rows[t][r].links[c] : rows[LinksOf[t][c]][v].unknown
      BY <3>1, <3>2
    <3> QED BY <2>2, <3>3 DEF Told
  <2>3. CASE ~Told(told, t, r, c)
    <3>1. rows[t][r].links[c] = sheets[t][r].links[c]
      BY <1>3, <2>3
    <3> QED BY <2>3, <3>1 DEF Told
  <2> QED BY <2>2, <2>3
<1>10. Faithful(rows, sheets, told)
  BY <1>3, <1>8, <1>9 DEF Faithful
<1> QED BY <1>7, <1>10

-----------------------------------------------------------------------------
(* The import.                                                             *)

LEMMA StartImportKeeps ==
    ASSUME RestoresInvariant, NEW asked, StartImport(asked)
    PROVE  RestoresInvariant'
<1>1. PICK b \in book :
        /\ ~Unfit(b, "target") /\ ~WorkbookRefused(b, asked)
        /\ Starts([kind |-> "import", at |-> 1, pass |-> "first", sheets |-> b.sheets,
                   rows |-> Mended(b.sheets, Substituted(b.sheets, asked)),
                   told |-> Substituted(b.sheets, asked), work |-> Truncated(target)])
        /\ outcome' = NoOutcome
        /\ UNCHANGED <<main, target, book>>
  BY DEF StartImport
<1>2. PICK told, rows, work : /\ told = Substituted(b.sheets, asked) /\ rows = Mended(b.sheets, told)
                              /\ work = Truncated(target)
  OBVIOUS
<1>3. IsRows(b.sheets) /\ EmptyIsUnnamed(b.sheets) /\ b.revision = {1} /\ IsDb(target)
  BY DEF RestoresInvariant, BookStands, TargetStands
<1>4. Broken(b.sheets) = told /\ target.revision = {1}
  BY <1>1, <1>2, <1>3 DEF WorkbookRefused, Unfit
<1>5. MayGoIn(rows) /\ Faithful(rows, b.sheets, told)
  BY <1>2, <1>3, <1>4, MendedGoesIn
<1>6. job' = [kind |-> "import", at |-> 1, pass |-> "first", sheets |-> b.sheets,
              rows |-> rows, told |-> told, work |-> work]
  BY <1>1, <1>2 DEF Starts
<1>7. 1 \in 1..Len(Order)
  <2>1. "item" \in RestoreTables
    BY RestoreAssumption
  <2> QED BY <2>1, OrderIs
<1>8. /\ job'.kind = "import" /\ job'.at = 1 /\ job'.pass = "first" /\ job'.sheets = b.sheets
      /\ job'.rows = rows /\ job'.told = told /\ job'.work = work
      /\ job' \in [kind : {"import"}, at : 1..Len(Order), pass : {"first", "second", "ids"},
                    sheets : {job'.sheets}, rows : {job'.rows}, told : {job'.told}, work : {job'.work}]
  BY <1>6, <1>7
<1>9. IsDb(work) /\ work.revision = {1} /\ work.rows = NoRows
  <2>1. PICK N : N = [t \in RestoreTables |-> 1]
    OBVIOUS
  <2>2. work = [target EXCEPT !.rows = NoRows, !.next = N]
    BY <1>2, <2>1 DEF Truncated
  <2>3. /\ work \in [rows : {work.rows}, code : {work.code}, revision : {work.revision}, next : {work.next}]
        /\ work.rows = NoRows /\ work.next = N /\ work.revision = {1}
    BY <1>3, <1>4, <2>2 DEF IsDb
  <2>4. Tables(NoRows) /\ Tables(N)
    BY <2>1, NoRowsAre DEF Tables, IsRows
  <2> QED BY <2>3, <2>4 DEF IsDb
<1>10. \A i \in DOMAIN Order : ~(i < 1) /\ work.rows[Order[i]] = Bare
  BY <1>9, NoRowsAre, OrderIs
<1>11. ImportStands'
  BY <1>1, <1>5, <1>8, <1>9, <1>10 DEF ImportStands
<1>12. TargetStands'
  BY <1>1 DEF RestoresInvariant, TargetStands, NoOutcome
<1> QED BY <1>1, <1>8, <1>11, <1>12 DEF RestoresInvariant, BookStands, CopyStands, ExportStands

LEMMA HeldBackIs ==
    ASSUME NEW rows, NEW t, rows[t] \in [Ids(rows, t) -> RowsOf(t)]
    PROVE  /\ DOMAIN HeldBack(rows, t) = Ids(rows, t)
           /\ \A r \in Ids(rows, t) :
                HeldBack(rows, t)[r].links =
                  [c \in LinkColumns(t) |-> IF c \in Deferred(t) THEN {} ELSE rows[t][r].links[c]]
<1>1. ASSUME NEW r \in Ids(rows, t)
      PROVE  HeldBack(rows, t)[r].links =
               [c \in LinkColumns(t) |-> IF c \in Deferred(t) THEN {} ELSE rows[t][r].links[c]]
  <2>1. PICK row, held : row = rows[t][r] /\ held = Deferred(t)
    OBVIOUS
  <2>2. row \in RowsOf(t)
    BY <2>1
  <2>3. HeldBack(rows, t)[r] = WithEmpty(row, held)
    BY <2>1 DEF HeldBack
  <2>4. WithEmpty(row, held).links = [c \in LinkColumns(t) |-> IF c \in held THEN {} ELSE row.links[c]]
    BY <2>2, WithEmptyIs
  <2> QED BY <2>1, <2>3, <2>4
<1>2. DOMAIN HeldBack(rows, t) = Ids(rows, t)
  BY DEF HeldBack
<1> QED BY <1>1, <1>2

\* The links a row was held back without, filled in: the row as it was sent.
LEMMA Refilled ==
    ASSUME NEW rows, NEW t, rows[t] \in [Ids(rows, t) -> RowsOf(t)], NEW w, w = HeldBack(rows, t)
    PROVE  [r \in DOMAIN w |-> [w[r] EXCEPT !.links = [c \in DOMAIN @ |->
              IF c \in Deferred(t) THEN rows[t][r].links[c] ELSE @[c]]]] = rows[t]
<1> DEFINE Filled(r) == [w[r] EXCEPT !.links = [c \in DOMAIN @ |->
              IF c \in Deferred(t) THEN rows[t][r].links[c] ELSE @[c]]]
<1>1. ASSUME NEW r \in Ids(rows, t)
      PROVE  Filled(r) = rows[t][r]
  <2>1. PICK row, held : row = rows[t][r] /\ held = Deferred(t)
    OBVIOUS
  <2>2. row \in RowsOf(t)
    BY <2>1
  <2>3. w[r] = WithEmpty(row, held)
    BY <2>1 DEF HeldBack
  <2>4. row.links \in [LinkColumns(t) -> SUBSET Int]
    BY <2>2 DEF RowsOf
  <2>5. PICK L : L = [c \in LinkColumns(t) |-> IF c \in held THEN {} ELSE row.links[c]]
    OBVIOUS
  <2>6. w[r] = [row EXCEPT !.links = L]
    BY <2>3, <2>4, <2>5 DEF WithEmpty
  <2>7. w[r].links = L
    BY <2>2, <2>6 DEF RowsOf
  <2>8. [c \in DOMAIN L |-> IF c \in held THEN row.links[c] ELSE L[c]] = row.links
    BY <2>4, <2>5
  <2>9. Filled(r) = [w[r] EXCEPT !.links = row.links]
    BY <2>1, <2>7, <2>8
  <2>10. [[row EXCEPT !.links = L] EXCEPT !.links = row.links] = row
    BY <2>2 DEF RowsOf
  <2> QED BY <2>1, <2>6, <2>9, <2>10
<1>2. DOMAIN w = Ids(rows, t)
  BY DEF HeldBack
<1>3. rows[t] = [r \in Ids(rows, t) |-> rows[t][r]]
  OBVIOUS
<1> HIDE DEF Filled
<1>4. [r \in DOMAIN w |-> Filled(r)] = rows[t]
  BY <1>1, <1>2, <1>3
<1> QED BY <1>4 DEF Filled

LEMMA PlaceAfter ==
    ASSUME NEW at \in 1..Len(Order), NEW j, j = IF at < Len(Order) THEN at + 1 ELSE 1
    PROVE  /\ j \in 1..Len(Order)
           /\ \A i \in DOMAIN Order :
                /\ at < Len(Order) => (i < j <=> i < at \/ i = at)
                /\ ~(at < Len(Order)) => (i < at \/ i = at)
                /\ ~(at < Len(Order)) => i >= j
BY OrderIs

LEMMA FirstPassKeeps ==
    ASSUME RestoresInvariant, FirstPass
    PROVE  RestoresInvariant'
<1> DEFINE t == Order[job.at]
           sent == [r \in DOMAIN job.rows[t] |-> WithEmpty(job.rows[t][r], Deferred(t))]
<1>1. /\ job \in [kind : {"import"}, at : 1..Len(Order), pass : {"first", "second", "ids"},
                  sheets : {job.sheets}, rows : {job.rows}, told : {job.told}, work : {job.work}]
      /\ outcome = NoOutcome /\ job.pass = "first"
      /\ MayGoIn(job.rows) /\ Faithful(job.rows, job.sheets, job.told)
      /\ IsDb(job.work) /\ job.work.revision = {1}
      /\ \A i \in DOMAIN Order :
           job.work.rows[Order[i]] = IF i < job.at THEN HeldBack(job.rows, Order[i]) ELSE Bare
  BY DEF RestoresInvariant, ImportStands, FirstPass
<1>2. job.at \in DOMAIN Order /\ t \in RestoreTables
  BY <1>1, OrderIs
<1>3. /\ job.rows[t] \in [Ids(job.rows, t) -> RowsOf(t)] /\ LinksHold(job.rows)
      /\ \A u \in RestoreTables : job.rows[u] \in [Ids(job.rows, u) -> RowsOf(u)]
  BY <1>1, <1>2 DEF MayGoIn
<1>4. sent = HeldBack(job.rows, t)
  BY DEF HeldBack, Ids
<1>5. Takes(job.work.rows, t, sent)
  <2>1. /\ DOMAIN sent = Ids(job.rows, t)
        /\ \A r \in Ids(job.rows, t) : sent[r].links =
             [c \in LinkColumns(t) |-> IF c \in Deferred(t) THEN {} ELSE job.rows[t][r].links[c]]
    <3>1. PICK rows, u : rows = job.rows /\ u = t
      OBVIOUS
    <3>2. rows[u] \in [Ids(rows, u) -> RowsOf(u)]
      BY <1>3, <3>1
    <3>3. PICK w : w = HeldBack(rows, u)
      OBVIOUS
    <3>4. /\ DOMAIN w = Ids(rows, u)
          /\ \A r \in Ids(rows, u) : w[r].links =
               [c \in LinkColumns(u) |-> IF c \in Deferred(u) THEN {} ELSE rows[u][r].links[c]]
      BY <3>2, <3>3, HeldBackIs
    <3>5. sent = w
      BY <1>4, <3>1, <3>3
    <3> HIDE DEF sent
    <3> QED BY <3>1, <3>4, <3>5
  <2> HIDE DEF sent
  <2>2. ASSUME NEW r \in DOMAIN sent, NEW c \in LinkColumns(t), NEW v \in sent[r].links[c]
        PROVE  LinksOf[t][c] # t /\ v \in Ids(job.work.rows, LinksOf[t][c])
    <3>1. c \notin Deferred(t) /\ v \in job.rows[t][r].links[c] /\ r \in Ids(job.rows, t)
      BY <2>1
    <3>2. PICK j \in DOMAIN Order : j <= job.at /\ LinksOf[t][c] = Order[j]
      BY <1>2, LinksAre
    <3>3. ~(job.at <= j)
      BY <1>2, <3>1, <3>2 DEF Deferred
    <3>4. j < job.at /\ LinksOf[t][c] # t
      BY <1>2, <3>2, <3>3, OrderIs
    <3>5. v \in Ids(job.rows, LinksOf[t][c])
      BY <1>2, <1>3, <3>1 DEF LinksHold
    <3>6. job.work.rows[Order[j]] = HeldBack(job.rows, Order[j])
      BY <1>1, <3>4
    <3>7. DOMAIN HeldBack(job.rows, Order[j]) = Ids(job.rows, Order[j])
      BY DEF HeldBack
    <3> QED BY <3>2, <3>4, <3>5, <3>6, <3>7 DEF Ids
  <2> QED BY <2>2 DEF Takes
<1>6. PICK S, W, j, going :
        /\ S = [job.work.rows EXCEPT ![t] = HeldBack(job.rows, t)]
        /\ W = [job.work EXCEPT !.rows = S]
        /\ j = IF job.at < Len(Order) THEN job.at + 1 ELSE 1
        /\ going = IF job.at < Len(Order) THEN "first" ELSE "second"
  OBVIOUS
<1>7. /\ job' = [job EXCEPT !.work = W, !.at = j, !.pass = going]
      /\ UNCHANGED <<main, target, book, outcome, used>>
  <2>1. /\ job' = [job EXCEPT !.work.rows[t] = HeldBack(job.rows, t),
                     !.at = IF @ < Len(Order) THEN @ + 1 ELSE 1,
                     !.pass = IF job.at < Len(Order) THEN "first" ELSE "second"]
        /\ UNCHANGED <<main, target, book, outcome, used>>
    BY <1>4, <1>5 DEF FirstPass
  <2> QED BY <1>1, <1>6, <2>1
<1>8. /\ job'.kind = "import" /\ job'.at = j /\ job'.pass = going /\ job'.sheets = job.sheets
      /\ job'.rows = job.rows /\ job'.told = job.told /\ job'.work = W
      /\ job' \in [kind : {"import"}, at : {j}, pass : {going},
                    sheets : {job'.sheets}, rows : {job'.rows}, told : {job'.told}, work : {job'.work}]
  BY <1>1, <1>7
<1>9. IsDb(W) /\ W.revision = {1} /\ W.rows = S
      /\ S = [u \in RestoreTables |-> IF u = t THEN HeldBack(job.rows, t) ELSE job.work.rows[u]]
  BY <1>1, <1>6 DEF IsDb, Tables
<1>10. /\ j \in 1..Len(Order)
       /\ \A i \in DOMAIN Order :
            /\ job.at < Len(Order) => (i < j <=> i < job.at \/ i = job.at)
            /\ ~(job.at < Len(Order)) => (i < job.at \/ i = job.at)
            /\ ~(job.at < Len(Order)) => i >= j
  <2>1. PICK at : at = job.at
    OBVIOUS
  <2>2. at \in 1..Len(Order) /\ j = IF at < Len(Order) THEN at + 1 ELSE 1
    BY <1>1, <1>6, <2>1
  <2>3. /\ j \in 1..Len(Order)
        /\ \A i \in DOMAIN Order :
             /\ at < Len(Order) => (i < j <=> i < at \/ i = at)
             /\ ~(at < Len(Order)) => (i < at \/ i = at)
             /\ ~(at < Len(Order)) => i >= j
    BY <2>2, PlaceAfter
  <2> QED BY <2>1, <2>3
<1>11. \A i \in DOMAIN Order :
         S[Order[i]] = IF i < job.at \/ i = job.at THEN HeldBack(job.rows, Order[i]) ELSE Bare
  <2> TAKE i \in DOMAIN Order
  <2>1. CASE i = job.at
    BY <1>2, <1>9, <2>1
  <2>2. CASE i # job.at
    <3>1. Order[i] # t /\ Order[i] \in RestoreTables
      BY <1>2, <2>2, OrderIs
    <3> QED BY <1>1, <1>9, <2>2, <3>1
  <2> QED BY <2>1, <2>2
<1>12. \A i \in DOMAIN Order :
         S[Order[i]] =
           IF going = "first" THEN IF i < j THEN HeldBack(job.rows, Order[i]) ELSE Bare
           ELSE IF going = "second" /\ i >= j THEN HeldBack(job.rows, Order[i])
           ELSE job.rows[Order[i]]
  <2>1. CASE job.at < Len(Order)
    BY <1>6, <1>10, <1>11, <2>1
  <2>2. CASE ~(job.at < Len(Order))
    BY <1>6, <1>10, <1>11, <2>2
  <2> QED BY <2>1, <2>2
<1>13. going \in {"first", "second", "ids"}
  BY <1>6
<1>14. ImportStands'
  <2>1. job' \in [kind : {"import"}, at : 1..Len(Order), pass : {"first", "second", "ids"},
                  sheets : {job'.sheets}, rows : {job'.rows}, told : {job'.told}, work : {job'.work}]
    BY <1>8, <1>10, <1>13
  <2>2. outcome' = NoOutcome
    BY <1>1, <1>7
  <2> QED BY <1>1, <1>8, <1>9, <1>12, <2>1, <2>2 DEF ImportStands
<1> QED BY <1>7, <1>8, <1>14 DEF RestoresInvariant, TargetStands, BookStands, CopyStands, ExportStands

LEMMA SecondPassKeeps ==
    ASSUME RestoresInvariant, SecondPass
    PROVE  RestoresInvariant'
<1> DEFINE t == Order[job.at]
<1>1. /\ job \in [kind : {"import"}, at : 1..Len(Order), pass : {"first", "second", "ids"},
                  sheets : {job.sheets}, rows : {job.rows}, told : {job.told}, work : {job.work}]
      /\ outcome = NoOutcome /\ job.pass = "second"
      /\ MayGoIn(job.rows) /\ Faithful(job.rows, job.sheets, job.told)
      /\ IsDb(job.work) /\ job.work.revision = {1}
      /\ \A i \in DOMAIN Order :
           job.work.rows[Order[i]] = IF i >= job.at THEN HeldBack(job.rows, Order[i]) ELSE job.rows[Order[i]]
  BY DEF RestoresInvariant, ImportStands, SecondPass
<1>2. job.at \in DOMAIN Order /\ job.at \in Nat /\ t \in RestoreTables
  BY <1>1, OrderIs
<1>3. job.rows[t] \in [Ids(job.rows, t) -> RowsOf(t)]
  BY <1>1, <1>2 DEF MayGoIn
<1>4. job.work.rows[t] = HeldBack(job.rows, t)
  BY <1>1, <1>2
<1>5. PICK S, W, j, going :
        /\ S = [job.work.rows EXCEPT ![t] = job.rows[t]]
        /\ W = [job.work EXCEPT !.rows = S]
        /\ j = IF job.at < Len(Order) THEN job.at + 1 ELSE 1
        /\ going = IF job.at < Len(Order) THEN "second" ELSE "ids"
  OBVIOUS
<1>6. /\ job' = [job EXCEPT !.work = W, !.at = j, !.pass = going]
      /\ UNCHANGED <<main, target, book, outcome, used>>
  <2> DEFINE filled == [r \in DOMAIN job.work.rows[t] |->
                         [job.work.rows[t][r] EXCEPT !.links = [c \in DOMAIN @ |->
                            IF c \in Deferred(t) THEN job.rows[t][r].links[c] ELSE @[c]]]]
  <2>1. filled = job.rows[t]
    <3>1. PICK rows, u, w : rows = job.rows /\ u = t /\ w = job.work.rows[t]
      OBVIOUS
    <3>2. rows[u] \in [Ids(rows, u) -> RowsOf(u)] /\ w = HeldBack(rows, u)
      BY <1>3, <1>4, <3>1
    <3>3. [r \in DOMAIN w |-> [w[r] EXCEPT !.links = [c \in DOMAIN @ |->
             IF c \in Deferred(u) THEN rows[u][r].links[c] ELSE @[c]]]] = rows[u]
      BY <3>2, Refilled
    <3> QED BY <3>1, <3>3
  <2>2. /\ job' = [job EXCEPT !.work.rows[t] = filled,
                     !.at = IF @ < Len(Order) THEN @ + 1 ELSE 1,
                     !.pass = IF job.at < Len(Order) THEN "second" ELSE "ids"]
        /\ UNCHANGED <<main, target, book, outcome, used>>
    BY DEF SecondPass
  <2> HIDE DEF filled
  <2> QED BY <1>1, <1>5, <2>1, <2>2
<1>7. /\ job'.kind = "import" /\ job'.at = j /\ job'.pass = going /\ job'.sheets = job.sheets
      /\ job'.rows = job.rows /\ job'.told = job.told /\ job'.work = W
      /\ job' \in [kind : {"import"}, at : {j}, pass : {going},
                    sheets : {job'.sheets}, rows : {job'.rows}, told : {job'.told}, work : {job'.work}]
  BY <1>1, <1>6
<1>8. IsDb(W) /\ W.revision = {1} /\ W.rows = S
      /\ S = [u \in RestoreTables |-> IF u = t THEN job.rows[t] ELSE job.work.rows[u]]
  BY <1>1, <1>5 DEF IsDb, Tables
<1>9. /\ j \in 1..Len(Order)
      /\ \A i \in DOMAIN Order :
           /\ job.at < Len(Order) => (i < j <=> i < job.at \/ i = job.at)
           /\ ~(job.at < Len(Order)) => (i < job.at \/ i = job.at)
           /\ ~(job.at < Len(Order)) => i >= j
  <2>1. PICK at : at = job.at
    OBVIOUS
  <2>2. at \in 1..Len(Order) /\ j = IF at < Len(Order) THEN at + 1 ELSE 1
    BY <1>1, <1>5, <2>1
  <2>3. /\ j \in 1..Len(Order)
        /\ \A i \in DOMAIN Order :
             /\ at < Len(Order) => (i < j <=> i < at \/ i = at)
             /\ ~(at < Len(Order)) => (i < at \/ i = at)
             /\ ~(at < Len(Order)) => i >= j
    BY <2>2, PlaceAfter
  <2> QED BY <2>1, <2>3
<1>10. \A i \in DOMAIN Order :
         S[Order[i]] = IF i < job.at \/ i = job.at THEN job.rows[Order[i]] ELSE HeldBack(job.rows, Order[i])
  <2> TAKE i \in DOMAIN Order
  <2>1. CASE i = job.at
    BY <1>2, <1>8, <2>1
  <2>2. CASE i # job.at
    <3>1. Order[i] # t /\ Order[i] \in RestoreTables
      BY <1>2, <2>2, OrderIs
    <3>2. i >= job.at <=> ~(i < job.at)
      BY <1>2, OrderIs
    <3> QED BY <1>1, <1>8, <2>2, <3>1, <3>2
  <2> QED BY <2>1, <2>2
<1>11. \A i \in DOMAIN Order :
         S[Order[i]] =
           IF going = "first" THEN IF i < j THEN HeldBack(job.rows, Order[i]) ELSE Bare
           ELSE IF going = "second" /\ i >= j THEN HeldBack(job.rows, Order[i])
           ELSE job.rows[Order[i]]
  <2> TAKE i \in DOMAIN Order
  <2>1. CASE job.at < Len(Order)
    <3>1. i >= j <=> ~(i < j)
      BY <1>9, OrderIs
    <3> QED BY <1>5, <1>9, <1>10, <2>1, <3>1
  <2>2. CASE ~(job.at < Len(Order))
    BY <1>5, <1>9, <1>10, <2>2
  <2> QED BY <2>1, <2>2
<1>12. going \in {"first", "second", "ids"}
  BY <1>5
<1>13. ImportStands'
  <2>1. job' \in [kind : {"import"}, at : 1..Len(Order), pass : {"first", "second", "ids"},
                  sheets : {job'.sheets}, rows : {job'.rows}, told : {job'.told}, work : {job'.work}]
    BY <1>7, <1>9, <1>12
  <2>2. outcome' = NoOutcome
    BY <1>1, <1>6
  <2> QED BY <1>1, <1>7, <1>8, <1>11, <2>1, <2>2 DEF ImportStands
<1> QED BY <1>6, <1>7, <1>13 DEF RestoresInvariant, TargetStands, BookStands, CopyStands, ExportStands

LEMMA LoadedKeeps ==
    ASSUME RestoresInvariant, Loaded
    PROVE  RestoresInvariant'
<1>1. /\ MayGoIn(job.rows) /\ Faithful(job.rows, job.sheets, job.told)
      /\ IsDb(job.work) /\ job.work.revision = {1}
      /\ \A i \in DOMAIN Order : job.work.rows[Order[i]] = job.rows[Order[i]]
  BY DEF RestoresInvariant, ImportStands, Loaded
<1>2. job.work.rows = job.rows
  <2>1. \A t \in RestoreTables : job.work.rows[t] = job.rows[t]
    BY <1>1, OrderIs
  <2>2. Tables(job.work.rows) /\ Tables(job.rows)
    BY <1>1 DEF MayGoIn, IsDb
  <2> QED BY <2>1, <2>2 DEF Tables
<1>3. \A t \in RestoreTables : IdsResync(job.work.rows, t)
  BY <1>1, <1>2 DEF MayGoIn
<1>4. PICK N : N = [t \in RestoreTables |-> NextId(job.work.rows, t)]
  OBVIOUS
<1>5. /\ target' = [job.work EXCEPT !.next = N, !.code = CodeAfter("item", job.work)]
      /\ job' = NoJob
      /\ outcome' = [result |-> "loaded", sheets |-> job.sheets, told |-> job.told]
      /\ UNCHANGED <<main, book, used>>
  BY <1>3, <1>4 DEF Loaded
<1>6. /\ target' \in [rows : {target'.rows}, code : {target'.code}, revision : {target'.revision}, next : {target'.next}]
      /\ target'.rows = job.rows /\ target'.next = N /\ target'.revision = {1}
      /\ target'.code = CodeAfter("item", job.work)
  BY <1>1, <1>2, <1>5 DEF IsDb
<1>7. IsDb(target')
  BY <1>1, <1>4, <1>6 DEF IsDb, Tables, MayGoIn
<1>8. PICK db : db = target'
  OBVIOUS
<1>9. Usable(db)
  <2>1. \A t \in RestoreTables :
          /\ db.rows[t] \in [Ids(db.rows, t) -> RowsOf(t)]
          /\ IsFiniteSet(Ids(db.rows, t)) /\ Ids(db.rows, t) \subseteq Nat
    BY <1>1, <1>6, <1>8 DEF MayGoIn
  <2>2. \A t \in RestoreTables : SequenceSet(db, t)
    BY <1>2, <1>4, <1>6, <1>8 DEF SequenceSet, CodeAfter
  <2> QED BY <2>1, <2>2, SetIsUsable
<1>10. TargetStands'
  BY <1>1, <1>5, <1>6, <1>7, <1>8, <1>9 DEF TargetStands, MayGoIn
<1> QED BY <1>5, <1>10 DEF RestoresInvariant, BookStands, CopyStands, ExportStands, ImportStands, NoJob

LEMMA RestoresStep ==
    ASSUME RestoresInvariant, [RestoresNext]_restoreVars, ~EmptiesSheets
    PROVE  RestoresInvariant'
<1>1. CASE UNCHANGED restoreVars
  BY <1>1 DEF restoreVars, RestoresInvariant, TargetStands, BookStands, CopyStands, ExportStands, ImportStands
<1>2. CASE Dies
  BY <1>2, JobEnds DEF Dies
<1>3. CASE RestoresNext /\ ~Dies
  BY <1>3, SavedKeeps, StartCopyKeeps, CopyTableKeeps, CopySyncedKeeps, RevisionCopiedKeeps,
     StartExportKeeps, SheetWrittenKeeps, BookSavedKeeps, SheetCorrectedKeeps, NewTargetKeeps,
     ImportRefusedKeeps, StartImportKeeps, FirstPassKeeps, SecondPassKeeps, LoadedKeeps
     DEF RestoresNext
<1> QED BY <1>1, <1>2, <1>3

LEMMA WholeNow ==
    ASSUME RestoresInvariant
    PROVE  RestoresWhole
<1>1. /\ LinksHold(target.rows) /\ outcome.result # "turned down"
      /\ target.revision # {} => Usable(target)
      /\ outcome.result \in {"copied", "loaded"} => target.revision # {}
      /\ outcome.result = "copied" => target.rows = outcome.want
      /\ outcome.result = "loaded" => Faithful(target.rows, outcome.sheets, outcome.told)
      /\ main.revision = {1}
  BY DEF RestoresInvariant, TargetStands, RunsOn
<1>2. CountsMatch(main, target) => target.revision # {}
  BY <1>1, FS_EmptySet, FS_Singleton DEF CountsMatch
<1>3. CopiesOneMoment
  BY <1>1 DEF CopiesOneMoment
<1>4. LoadsTheBook
  BY <1>1 DEF LoadsTheBook, Faithful, Ids
<1> QED BY <1>1, <1>2, <1>3, <1>4 DEF RestoresWhole

\* backup.py and workbook_backup.py: whatever is saved meanwhile and wherever a
\* job dies, what a copy or an import leaves has links that hold; a copy is of
\* one moment, an import of what the workbook holds; and a database whose counts
\* match is one to go on with. Of every schema whose tables are in foreign-key
\* order, when no correction takes the last row off a vocabulary's sheet.
THEOREM RestoresWholeHolds ==
    ASSUME ~EmptiesSheets
    PROVE  RestoresSpec => []RestoresWhole
<1>1. RestoresInit => RestoresInvariant
  BY RestoresStart
<1>2. RestoresInvariant /\ [RestoresNext]_restoreVars => RestoresInvariant'
  BY RestoresStep
<1>3. RestoresInvariant => RestoresWhole
  BY WholeNow
<1> QED BY <1>1, <1>2, <1>3, PTL DEF RestoresSpec
=============================================================================
