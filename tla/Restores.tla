------------------------------- MODULE Restores -------------------------------
(***************************************************************************)
(* The database copied into another one (backup.py), written to a workbook *)
(* a person may correct, and loaded back (workbook_backup.py), while the   *)
(* collection goes on changing and a job can die between two of its steps. *)
(* A row is its links, whether it is coded unknown, and its item code.     *)
(***************************************************************************)
EXTENDS Integers, Sequences, FiniteSets

CONSTANTS
    Order,          \* the tables that have models, in foreign-key order
    LinksOf,        \* of each table: its link columns, and the table each points into
    Vocabularies,   \* the tables of a code and a label
    Guessable,      \* those whose rows need nothing else
    FirstRows,      \* the rows of each table the collection starts with
    SeededRows,     \* the rows of each table the migrations put into a new database
    EmptiesSheets,  \* a person may take the last row off a vocabulary's sheet
    MaxSave,        \* bound: the changes of the collection
    MaxJob,         \* bound: the copies, exports and imports started
    MaxCorrection   \* bound: the corrections of a workbook

RestoreTables == {Order[i] : i \in DOMAIN Order}

ASSUME RestoreAssumption ==
    /\ Vocabularies \subseteq RestoreTables /\ Guessable \subseteq Vocabularies
    /\ "item" \in RestoreTables \ Vocabularies
    /\ EmptiesSheets \in BOOLEAN /\ {MaxSave, MaxJob, MaxCorrection} \subseteq Nat

\* "sorted_tables is the topological order, so a row never arrives before a row
\* it names": a link is into a table that comes before, or into its own.
ASSUME ForeignKeyOrder ==
    /\ Order \in Seq(STRING)
    /\ \A i, j \in DOMAIN Order : Order[i] = Order[j] => i = j
    /\ \A i \in DOMAIN Order : \A c \in DOMAIN LinksOf[Order[i]] :
         \E j \in 1..i : Order[j] = LinksOf[Order[i]][c]

VARIABLES
    main,      \* the database the application runs on
    target,    \* the database copied or imported into
    book,      \* the workbook: its rows and its revision; {} before one is written
    job,       \* the command under way
    outcome,   \* how the last command on the target ended
    used       \* how much of each bound is used

restoreVars == <<main, target, book, job, outcome, used>>

NoJob == [kind |-> "none"]
NoOutcome == [result |-> "none"]

\* A link is the set of the one id it names, empty where it is NULL.
LinkColumns(t) == DOMAIN LinksOf[t]
Bare == [r \in {} |-> 0]

\* The whole numbers a table's rows hold, and the highest item code.
Ids(rows, t) == DOMAIN rows[t]
Greatest(S) == CHOOSE n \in S : \A k \in S : k <= n
HeldCodes(rows) == {rows["item"][r].code : r \in Ids(rows, "item")}

\* Every link of a database names a row it holds.
LinksHold(rows) ==
    \A t \in RestoreTables : \A r \in Ids(rows, t), c \in LinkColumns(t) :
      rows[t][r].links[c] \subseteq Ids(rows, LinksOf[t][c])

RowsOf(t) == [links : [LinkColumns(t) -> SUBSET Int], unknown : BOOLEAN, code : Nat]

\* Finitely many rows of each table, with ids from 1 up.
IsRows(rows) ==
    /\ rows = [t \in RestoreTables |-> rows[t]]
    /\ \A t \in RestoreTables :
         /\ rows[t] \in [Ids(rows, t) -> RowsOf(t)]
         /\ IsFiniteSet(Ids(rows, t)) /\ Ids(rows, t) \subseteq Nat \ {0}

ASSUME RowsAtFirst ==
    /\ \A rows \in {FirstRows, SeededRows} : IsRows(rows) /\ LinksHold(rows)
    /\ Ids(SeededRows, "item") = {}

\* Where the id sequence stands after resync_sequence: setval to the highest id, 1 of none.
NextId(rows, t) == IF Ids(rows, t) = {} THEN 2 ELSE Greatest(Ids(rows, t)) + 1

\* setval refuses a number below the sequence's first.
IdsResync(rows, t) == Ids(rows, t) # {} => Greatest(Ids(rows, t)) >= 1

\* Where the item codes' sequence stands after resync_item_codes.
NextCode(rows) == IF HeldCodes(rows) = {} THEN 1 ELSE Greatest(HeldCodes(rows)) + 1

NewDatabase(rows, revision) ==
    [rows |-> rows, code |-> 1, revision |-> revision,
     next |-> [t \in RestoreTables |-> IF Ids(rows, t) = {} THEN 1 ELSE NextId(rows, t)]]

RestoresInit ==
    /\ main = [NewDatabase(FirstRows, {1}) EXCEPT !.code = NextCode(FirstRows)]
    /\ target = NewDatabase(SeededRows, {1})
    /\ book = {}
    /\ job = NoJob
    /\ outcome = NoOutcome
    /\ used = [save |-> 0, job |-> 0, correction |-> 0]

-----------------------------------------------------------------------------
(* The collection goes on changing.                                        *)

Saves ==
    /\ used.save < MaxSave
    /\ used' = [used EXCEPT !.save = @ + 1]
    /\ UNCHANGED <<target, book, job, outcome>>

\* The links a row of t may be given: each to a row that is there, or to none.
MayLink(t) ==
    {l \in [LinkColumns(t) -> {{}} \cup {{r} : r \in UNION {Ids(main.rows, LinksOf[t][c]) : c \in LinkColumns(t)}}] :
       \A c \in LinkColumns(t) : l[c] \subseteq Ids(main.rows, LinksOf[t][c])}

\* A row is added, with the next id of its table; an item draws the next item code.
RowAdded(t, links) ==
    /\ Saves
    /\ main' = [main EXCEPT
         !.rows[t] = [r \in DOMAIN @ \cup {main.next[t]} |->
           IF r \in DOMAIN @ THEN @[r]
           ELSE [links |-> links, unknown |-> FALSE,
                 code |-> IF t = "item" THEN main.code ELSE 0]],
         !.next[t] = @ + 1,
         !.code = IF t = "item" THEN @ + 1 ELSE @]

RowRelinked(t, r, c, link) ==
    /\ Saves
    /\ main.rows[t][r].links[c] # link /\ link \subseteq Ids(main.rows, LinksOf[t][c])
    /\ main' = [main EXCEPT !.rows[t][r].links[c] = link]

\* What points at row r of t.
PointedAt(rows, t, r) ==
    \E u \in RestoreTables : \E q \in Ids(rows, u), c \in LinkColumns(u) :
      LinksOf[u][c] = t /\ r \in rows[u][q].links[c]

Without(rows, t, r) ==
    [rows EXCEPT ![t] = [q \in DOMAIN @ \ {r} |-> @[q]]]

RowRemoved(t, r) ==
    /\ Saves
    /\ ~PointedAt(main.rows, t, r)
    /\ main' = [main EXCEPT !.rows = Without(main.rows, t, r)]

\* An item code is drawn by a save that is rolled back.
CodeDrawn ==
    /\ Saves
    /\ main' = [main EXCEPT !.code = @ + 1]

-----------------------------------------------------------------------------
(* The copy into another database.                                         *)

Starts(new) ==
    /\ job = NoJob /\ used.job < MaxJob
    /\ used' = [used EXCEPT !.job = @ + 1]
    /\ job' = new

NoRows == [t \in RestoreTables |-> Bare]

\* Not the code: the table without a model is copied first.
RevisionFirst ==
    /\ Starts([kind |-> "copy", at |-> 1, step |-> "rows", seen |-> main])
    /\ target' = NewDatabase(NoRows, main.revision)
    /\ outcome' = NoOutcome
    /\ UNCHANGED <<main, book>>

\* create_database, create_all, and the connection that reads one snapshot.
StartCopy ==
    /\ Starts([kind |-> "copy", at |-> 1, step |-> "rows", seen |-> main])
    /\ target' = NewDatabase(NoRows, {})
    /\ outcome' = NoOutcome
    /\ UNCHANGED <<main, book>>

\* Not the code: every table is read as it stands by then.
ReadsOn(t) == main.rows[t]

\* What the job reads of a table: what it held when the snapshot was taken.
Read(t) == job.seen.rows[t]

\* Not the code: rows go in with every link they have.
HeldWithout(t) == {}

\* A row's links into its own table are held empty until the table is in.
OwnLinks(t) == {c \in LinkColumns(t) : LinksOf[t][c] = t}

WithEmpty(row, held) ==
    [row EXCEPT !.links = [c \in DOMAIN @ |-> IF c \in held THEN {} ELSE @[c]]]

\* The database takes a row whose links name rows that are there by then.
Takes(rows, t, sent) ==
    \A r \in DOMAIN sent : \A c \in LinkColumns(t) :
      \A v \in sent[r].links[c] :
        IF LinksOf[t][c] = t THEN v \in DOMAIN sent /\ v <= r
        ELSE v \in Ids(rows, LinksOf[t][c])

Inserted(t) == [r \in DOMAIN Read(t) |-> WithEmpty(Read(t)[r], OwnLinks(t))]

\* _copy_table and its commit: the rows, then the links they were held without.
CopyTable ==
    /\ job.kind = "copy" /\ job.step = "rows" /\ job.at <= Len(Order)
    /\ LET t == Order[job.at] IN
       IF Takes(target.rows, t, Inserted(t))
       THEN /\ target' = [target EXCEPT !.rows[t] = Read(t)]
            /\ job' = [job EXCEPT !.step = "ids"]
            /\ UNCHANGED outcome
       ELSE /\ job' = NoJob
            /\ outcome' = [result |-> "turned down"]
            /\ UNCHANGED target
    /\ UNCHANGED <<main, book, used>>

\* Not the code: no sequence of its own is an item code's.
CodeStays(t, db) == db.code

\* _resync_sequences, in a transaction of its own.
CodeAfter(t, db) == IF t = "item" THEN NextCode(db.rows) ELSE db.code

CopySynced ==
    /\ job.kind = "copy" /\ job.step = "ids"
    /\ LET t == Order[job.at] IN
       target' = [target EXCEPT !.next[t] = NextId(target.rows, t),
                                !.code = CodeAfter(t, target)]
    /\ job' = [job EXCEPT !.step = "rows", !.at = @ + 1]
    /\ UNCHANGED <<main, book, outcome, used>>

\* The table without a model, which the copy is finished with.
RevisionCopied ==
    /\ job.kind = "copy" /\ job.at > Len(Order)
    /\ target' = [target EXCEPT !.revision = job.seen.revision]
    /\ job' = NoJob
    /\ outcome' = [result |-> "copied", want |-> job.seen.rows]
    /\ UNCHANGED <<main, book, used>>

\* Any job dies: what was committed stays, what was not is gone.
Dies ==
    /\ job # NoJob
    /\ job' = NoJob
    /\ UNCHANGED <<main, target, book, outcome, used>>

-----------------------------------------------------------------------------
(* The workbook: one sheet per table, of one snapshot, saved when all are  *)
(* written.                                                                *)

StartExport ==
    /\ Starts([kind |-> "export", at |-> 1, seen |-> main, sheets |-> NoRows])
    /\ UNCHANGED <<main, target, book, outcome>>

SheetWritten ==
    /\ job.kind = "export" /\ job.at <= Len(Order)
    /\ job' = [job EXCEPT !.sheets[Order[job.at]] = Read(Order[job.at]), !.at = @ + 1]
    /\ UNCHANGED <<main, target, book, outcome, used>>

BookSaved ==
    /\ job.kind = "export" /\ job.at > Len(Order)
    /\ book' = {[sheets |-> job.sheets, revision |-> job.seen.revision]}
    /\ job' = NoJob
    /\ UNCHANGED <<main, target, outcome, used>>

\* A person takes a row off a sheet, or gives a vocabulary's row the unknown code.
Corrects(b, changed) ==
    /\ used.correction < MaxCorrection
    /\ used' = [used EXCEPT !.correction = @ + 1]
    /\ book' = {[b EXCEPT !.sheets = changed]}
    /\ UNCHANGED <<main, target, job, outcome>>

RowTakenOff(b, t, r) ==
    /\ r \in Ids(b.sheets, t)
    /\ EmptiesSheets \/ t \notin Vocabularies \/ Ids(b.sheets, t) # {r}
    /\ Corrects(b, Without(b.sheets, t, r))

CalledUnknown(b, t, r) ==
    /\ t \in Vocabularies /\ r \in Ids(b.sheets, t) /\ ~b.sheets[t][r].unknown
    /\ Corrects(b, [b.sheets EXCEPT ![t][r].unknown = TRUE])

\* A new database, brought to a revision: the migrations put their rows into it.
NewTarget(revision) ==
    /\ job = NoJob
    /\ target # NewDatabase(SeededRows, {revision})
    /\ target' = NewDatabase(SeededRows, {revision})
    /\ outcome' = NoOutcome
    /\ UNCHANGED <<main, book, job, used>>

-----------------------------------------------------------------------------
(* The workbook loaded back, in one transaction.                           *)

\* The links that point at no row of the workbook: <<table, row, column, id>>.
Broken(sheets) ==
    UNION {UNION {{<<t, r, c, v>> : v \in sheets[t][r].links[c] \ Ids(sheets, LinksOf[t][c])} :
                    r \in Ids(sheets, t), c \in LinkColumns(t)} : t \in RestoreTables}

PointsInto(link) == LinksOf[link[1]][link[3]]

\* Such a link may point at its vocabulary's Unknown row instead, when that was asked for.
Substituted(sheets, asked) ==
    {link \in Broken(sheets) : asked /\ PointsInto(link) \in Vocabularies}

CalledUnknowns(sheets, t) == {r \in Ids(sheets, t) : sheets[t][r].unknown}

\* _unknown_row's new id: zero, or the next free one below it.
FreeBelow(taken) ==
    CHOOSE n \in -Cardinality(taken)..0 :
      n \notin taken /\ \A k \in (n + 1)..0 : k \in taken

UnknownId(sheets, t) ==
    IF CalledUnknowns(sheets, t) = {} THEN FreeBelow(Ids(sheets, t))
    ELSE CHOOSE r \in CalledUnknowns(sheets, t) :
           \A q \in CalledUnknowns(sheets, t) : r <= q

\* A row is not made up for a vocabulary that needs more than a code and a label.
CannotGuess(sheets, links) ==
    \E link \in links : /\ CalledUnknowns(sheets, PointsInto(link)) = {}
                        /\ PointsInto(link) \notin Guessable

UnknownRow(t) == [links |-> [c \in LinkColumns(t) |-> {}], unknown |-> TRUE, code |-> 0]

\* _check_links: the rows to load, each Unknown row added where one was needed.
Mended(sheets, links) ==
    LET needed == {PointsInto(link) : link \in links} IN
    [t \in RestoreTables |->
      [r \in Ids(sheets, t) \cup {u \in {UnknownId(sheets, t)} : t \in needed} |->
        IF r \in Ids(sheets, t)
        THEN [sheets[t][r] EXCEPT !.links = [c \in DOMAIN @ |->
               IF \E link \in links : link[1] = t /\ link[2] = r /\ link[3] = c
               THEN {UnknownId(sheets, LinksOf[t][c])} ELSE @[c]]]
        ELSE UnknownRow(t)]]

\* _refuse_live, _refuse_occupied and the revision.
Unfit(b, to) ==
    \/ to = "main"
    \/ Ids(target.rows, "item") # {}
    \/ target.revision # b.revision

WorkbookRefused(b, asked) ==
    LET links == Substituted(b.sheets, asked) IN
    Broken(b.sheets) # links \/ CannotGuess(b.sheets, links)

\* The transaction begins: every table is emptied, and its ids start again.
Truncated(db) ==
    [db EXCEPT !.rows = NoRows, !.next = [t \in RestoreTables |-> 1]]

ImportRefused(to, asked) ==
    /\ \E b \in book : Unfit(b, to) \/ WorkbookRefused(b, asked)
    /\ Starts(NoJob)
    /\ outcome' = [result |-> "refused"]
    /\ UNCHANGED <<main, target, book>>

StartImport(asked) ==
    \E b \in book :
      /\ ~Unfit(b, "target") /\ ~WorkbookRefused(b, asked)
      /\ LET links == Substituted(b.sheets, asked) IN
         Starts([kind |-> "import", at |-> 1, pass |-> "first", sheets |-> b.sheets,
                 rows |-> Mended(b.sheets, links), told |-> links, work |-> Truncated(target)])
      /\ outcome' = NoOutcome
      /\ UNCHANGED <<main, target, book>>

\* Not the code: only links into later tables wait.
LaterOnly(t) ==
    {c \in LinkColumns(t) : \E i, j \in DOMAIN Order :
       Order[i] = t /\ Order[j] = LinksOf[t][c] /\ i < j}

\* The links _second_pass fills: into the table itself, or into a later one.
Deferred(t) ==
    {c \in LinkColumns(t) : \E i, j \in DOMAIN Order :
       Order[i] = t /\ Order[j] = LinksOf[t][c] /\ i <= j}

TurnedDown ==
    /\ job' = NoJob
    /\ outcome' = [result |-> "turned down"]

FirstPass ==
    /\ job.kind = "import" /\ job.pass = "first"
    /\ LET t == Order[job.at]
           sent == [r \in DOMAIN job.rows[t] |-> WithEmpty(job.rows[t][r], Deferred(t))]
       IN IF Takes(job.work.rows, t, sent)
          THEN /\ job' = [job EXCEPT !.work.rows[t] = sent,
                                     !.at = IF @ < Len(Order) THEN @ + 1 ELSE 1,
                                     !.pass = IF job.at < Len(Order) THEN "first" ELSE "second"]
               /\ UNCHANGED outcome
          ELSE TurnedDown
    /\ UNCHANGED <<main, target, book, used>>

SecondPass ==
    /\ job.kind = "import" /\ job.pass = "second"
    /\ LET t == Order[job.at]
           filled == [r \in DOMAIN job.work.rows[t] |->
                       [job.work.rows[t][r] EXCEPT !.links = [c \in DOMAIN @ |->
                          IF c \in Deferred(t) THEN job.rows[t][r].links[c] ELSE @[c]]]]
       IN job' = [job EXCEPT !.work.rows[t] = filled,
                             !.at = IF @ < Len(Order) THEN @ + 1 ELSE 1,
                             !.pass = IF job.at < Len(Order) THEN "second" ELSE "ids"]
    /\ UNCHANGED <<main, target, book, outcome, used>>

\* The sequences are set past what was loaded, and the transaction commits.
Loaded ==
    /\ job.kind = "import" /\ job.pass = "ids"
    /\ IF \A t \in RestoreTables : IdsResync(job.work.rows, t)
       THEN /\ target' = [job.work EXCEPT
                 !.next = [t \in RestoreTables |-> NextId(job.work.rows, t)],
                 !.code = CodeAfter("item", job.work)]
            /\ job' = NoJob
            /\ outcome' = [result |-> "loaded", sheets |-> job.sheets, told |-> job.told]
       ELSE TurnedDown /\ UNCHANGED target
    /\ UNCHANGED <<main, book, used>>

-----------------------------------------------------------------------------

CollectionSaved ==
    \/ \E t \in RestoreTables : \E links \in MayLink(t) : RowAdded(t, links)
    \/ \E t \in RestoreTables : \E r \in Ids(main.rows, t) :
         \/ \E c \in LinkColumns(t) :
              \E link \in {{}} \cup {{v} : v \in Ids(main.rows, LinksOf[t][c])} :
                RowRelinked(t, r, c, link)
         \/ RowRemoved(t, r)
    \/ CodeDrawn

SheetCorrected ==
    \E b \in book : \E t \in RestoreTables : \E r \in Ids(b.sheets, t) :
      RowTakenOff(b, t, r) \/ CalledUnknown(b, t, r)

RestoresNext ==
    \/ CollectionSaved
    \/ StartCopy \/ CopyTable \/ CopySynced \/ RevisionCopied
    \/ StartExport \/ SheetWritten \/ BookSaved \/ SheetCorrected
    \/ \E revision \in {1, 2} : NewTarget(revision)
    \/ \E to \in {"main", "target"}, asked \in BOOLEAN : ImportRefused(to, asked)
    \/ \E asked \in BOOLEAN : StartImport(asked)
    \/ FirstPass \/ SecondPass \/ Loaded
    \/ Dies

RestoresSpec == RestoresInit /\ [][RestoresNext]_restoreVars

-----------------------------------------------------------------------------

\* A database accepts the next row of every table: no id and no item code it
\* would issue is held already (backup.py: "a restored database would look fine
\* until someone used it").
Usable(db) ==
    /\ \A t \in RestoreTables : \A r \in Ids(db.rows, t) : r < db.next[t]
    /\ \A n \in HeldCodes(db.rows) : n < db.code

\* compare of backup.py: the counts of every table, the migrations' own too.
CountsMatch(a, b) ==
    /\ \A t \in RestoreTables : Cardinality(Ids(a.rows, t)) = Cardinality(Ids(b.rows, t))
    /\ Cardinality(a.revision) = Cardinality(b.revision)

\* What a person put right in the workbook is what is loaded: every row of every
\* sheet and no other but an Unknown row that was needed, every link as the sheet
\* has it, or at a row called unknown, which was told.
LoadsTheBook ==
    outcome.result = "loaded" =>
      \A t \in RestoreTables :
        LET loaded == target.rows[t]
            sheet == outcome.sheets[t]
        IN /\ DOMAIN sheet \subseteq DOMAIN loaded
           /\ \A r \in DOMAIN loaded \ DOMAIN sheet :
                loaded[r].unknown /\ r < 1 /\ PointedAt(target.rows, t, r)
           /\ \A r \in DOMAIN sheet :
                /\ loaded[r].code = sheet[r].code /\ loaded[r].unknown = sheet[r].unknown
                /\ \A c \in LinkColumns(t) :
                     IF \E link \in outcome.told : link[1] = t /\ link[2] = r /\ link[3] = c
                     THEN \A v \in loaded[r].links[c] :
                            target.rows[LinksOf[t][c]][v].unknown
                     ELSE loaded[r].links[c] = sheet[r].links[c]

\* A copy holds what the collection held at one moment, though it went on
\* changing while it was made.
CopiesOneMoment ==
    outcome.result = "copied" => target.rows = outcome.want

\* What a copy or an import leaves behind, finished or dead part way: links that
\* hold, nothing the database had to turn down; and whenever its counts match the
\* collection's, a database that can take over.
RestoresWhole ==
    /\ outcome.result # "turned down"
    /\ LinksHold(target.rows)
    /\ CopiesOneMoment
    /\ LoadsTheBook
    /\ CountsMatch(main, target) => Usable(target)
    /\ outcome.result \in {"copied", "loaded"} => Usable(target)
=============================================================================
