------------------------------- MODULE Seeding -------------------------------
(***************************************************************************)
(* The reference data a release ships, loaded again and again over a       *)
(* vocabulary people rename, merge and give other names (seeding.py, with  *)
(* aliases.py and reference_merge.py).  A code is a value's identity.  A   *)
(* load reads the merges and the codes first, then writes all it has and   *)
(* commits once, or nothing.                                               *)
(***************************************************************************)
EXTENDS Integers, FiniteSets

CONSTANTS
    Releases,        \* the files a release ships: rows, names, ranges and issues
    Labels,          \* the labels a person may give
    EditsOverlap,    \* a person changes the vocabulary while a load runs
    NamesComeAgain,  \* a name a person added, or taken from a value merged away, is shipped too
    MaxChange        \* bound: the changes people make

SeedCodes == UNION {DOMAIN f.rows : f \in Releases}

ASSUME SeedingAssumption ==
    /\ {EditsOverlap, NamesComeAgain} \subseteq BOOLEAN /\ MaxChange \in Nat
    /\ \A f \in Releases :
         /\ {x[1] : x \in f.names \cup f.ranges \cup f.issues} \subseteq DOMAIN f.rows
         /\ \A x, y \in f.ranges : x[1] = y[1] /\ x[2] = y[2] => x = y

VARIABLES
    release,  \* the files installed
    words,    \* per code there is: its label and who it is from
    aliases,  \* the other names: of what, the name, who it is from, whether in use
    spans,    \* the designs' year ranges: <<of, first year, last year>>
    issues,   \* the note issues: <<of, year, facts>>
    intoCode, \* what each code merged away became
    loading,  \* what a load under way read first
    changes,  \* how many changes people made
    byPeople  \* what they said: the names taken away, and whether any change came since a load

seedVars == <<release, words, aliases, spans, issues, intoCode, loading, changes, byPeople>>
vocabularyOf == <<words, aliases, spans, issues>>

NoLoad == [at |-> "none"]
Word(label, source) == [label |-> label, source |-> source]
Name(of, name, source, active) == [of |-> of, name |-> name, source |-> source, active |-> active]

SeedsInit ==
    /\ release \in Releases
    /\ words = [c \in {} |-> Word("", "seeded")]
    /\ aliases = {} /\ spans = {} /\ issues = {}
    /\ intoCode = [c \in {} |-> c]
    /\ loading = NoLoad
    /\ changes = 0
    /\ byPeople = [taken |-> {}, since |-> TRUE]

-----------------------------------------------------------------------------
(* What people change.                                                     *)

Changes ==
    /\ loading # NoLoad => EditsOverlap
    /\ changes < MaxChange
    /\ changes' = changes + 1
    /\ UNCHANGED <<release, loading>>

\* A value is renamed: it is a person's from now on.
Renamed(c, label) ==
    /\ Changes
    /\ c \in DOMAIN words /\ words[c].label # label
    /\ words' = [words EXCEPT ![c] = Word(label, "manual")]
    /\ byPeople' = [byPeople EXCEPT !.since = TRUE]
    /\ UNCHANGED <<aliases, spans, issues, intoCode>>

\* add_alias: a name of any value is refused, a retired one is used again.
OwnNames(w) == DOMAIN w \cup {w[c].label : c \in DOMAIN w}

WithName(w, held, c, name) ==
    LET there == {x \in held : x.of = c /\ x.name = name} IN
    IF name \in OwnNames(w) THEN held
    ELSE IF there = {} THEN held \cup {Name(c, name, "manual", TRUE)}
    ELSE (held \ there) \cup {[x EXCEPT !.active = TRUE] : x \in there}

NameGiven(c, name) ==
    /\ Changes
    /\ c \in DOMAIN words
    /\ aliases' = WithName(words, aliases, c, name)
    /\ aliases' # aliases
    /\ byPeople' = [taken |-> byPeople.taken \ {<<c, name>>}, since |-> TRUE]
    /\ UNCHANGED <<words, spans, issues, intoCode>>

\* Where a code leads: to the value it became, through every later merge.
RECURSIVE LeadsTo(_, _)
LeadsTo(c, into) == IF c \in DOMAIN into THEN LeadsTo(into[c], into) ELSE c

\* Some release gives the name to c, or to a value merged into it.
Ships(c, name) ==
    \E f \in Releases : \E x \in f.names : x[2] = name /\ LeadsTo(x[1], intoCode) = c

\* Mutant: every name taken away is deleted.
Forgotten(x) == {}

\* remove_alias: a shipped name is retired, one a person added is deleted.
Retired(x) == IF x.source = "manual" THEN {} ELSE {[x EXCEPT !.active = FALSE]}

NameTaken(x) ==
    /\ Changes
    /\ x \in aliases /\ x.active
    /\ x.source = "manual" /\ Ships(x.of, x.name) => NamesComeAgain
    /\ aliases' = (aliases \ {x}) \cup Retired(x)
    /\ byPeople' = [taken |-> byPeople.taken \cup {<<x.of, x.name>>}, since |-> TRUE]
    /\ UNCHANGED <<words, spans, issues, intoCode>>

\* plan: a value a range or an issue is about is not merged away.
InUse(v) == \E x \in spans \cup issues : x[1] = v

RECURSIVE WithNames(_, _, _, _)
WithNames(w, held, c, names) ==
    IF names = {} THEN held
    ELSE LET n == CHOOSE x \in names : TRUE
         IN WithNames(w, WithName(w, held, c, n), c, names \ {n})

\* What stays taken away: a name of neither now, taken from each it was shipped for.
StillTaken(v, w, held) ==
    LET both == {t[2] : t \in {u \in byPeople.taken : u[1] \in {v, w}}}
    IN {t \in byPeople.taken : t[1] \notin {v, w}} \cup
       {<<w, n>> : n \in {m \in both \ held : \A u \in {v, w} :
                              Ships(u, m) => <<u, m>> \in byPeople.taken}}

\* merge: the value is gone, its names are the other's now.
MergedAway(v, w) ==
    /\ Changes
    /\ v # w /\ {v, w} \subseteq DOMAIN words /\ ~InUse(v)
    /\ (\E x \in aliases : x.of = v /\ ~x.active) => NamesComeAgain
    /\ LET left == [c \in DOMAIN words \ {v} |-> words[c]]
           kept == {v, words[v].label} \cup {x.name : x \in {y \in aliases : y.of = v /\ y.active}}
       IN /\ words' = left
          /\ aliases' = WithNames(left, {x \in aliases : x.of # v}, w, kept)
          /\ byPeople' = [taken |-> StillTaken(v, w, {x.name : x \in {y \in aliases' :
                                       y.of = w /\ y.active}}), since |-> TRUE]
    /\ intoCode' = [c \in DOMAIN intoCode \cup {v} |-> IF c = v THEN w ELSE intoCode[c]]
    /\ UNCHANGED <<spans, issues>>

NewRelease(f) ==
    /\ loading = NoLoad /\ f # release
    /\ changes < MaxChange
    /\ release' = f
    /\ changes' = changes + 1
    /\ byPeople' = [byPeople EXCEPT !.since = TRUE]
    /\ UNCHANGED <<words, aliases, spans, issues, intoCode, loading>>

-----------------------------------------------------------------------------
(* A load.                                                                 *)

\* _merged: read once, before anything is written.
LoadStarts ==
    /\ loading = NoLoad /\ byPeople.since
    /\ loading' = [at |-> "read", merged |-> intoCode]
    /\ UNCHANGED <<release, vocabularyOf, intoCode, changes, byPeople>>

\* _with_merged: the codes there are, and each code merged away as what it became.
Index(w, merged) ==
    [c \in {x \in DOMAIN w \cup DOMAIN merged : x \in DOMAIN w \/ LeadsTo(x, merged) \in DOMAIN w} |->
      IF c \in DOMAIN w THEN c ELSE LeadsTo(c, merged)]

\* Mutant: a value a person renamed is put right.
MayOverwrite(word) == TRUE

Seeded(word) == word.source # "manual"

\* Mutant: a code merged away is loaded like any other.
EveryRow(f, merged) == DOMAIN f.rows

RowsToLoad(f, merged) == DOMAIN f.rows \ DOMAIN merged

\* _seed_table, _upsert: by code; a person's row is left alone.
Upserted(f, w, merged) ==
    [c \in DOMAIN w \cup RowsToLoad(f, merged) |->
      IF c \notin DOMAIN w THEN Word(f.rows[c], "seeded")
      ELSE IF c \in RowsToLoad(f, merged) /\ Seeded(w[c]) THEN [w[c] EXCEPT !.label = f.rows[c]]
      ELSE w[c]]

\* A file's rows, read with the codes they name.
Meant(rows, index) == {<<index[x[1]], x[2], x[3]>> : x \in rows}

\* A row that names no value, or two rows that come to be one: SeedError.
Readable(rows, index) ==
    /\ \A x \in rows : x[1] \in DOMAIN index
    /\ \A x, y \in rows : x # y => <<index[x[1]], x[2]>> # <<index[y[1]], y[2]>>

\* Mutant: a name not in use is missing.
ActiveOnly(held, c, name) == \E x \in held : x.of = c /\ x.name = name /\ x.active

HasName(held, c, name) == \E x \in held : x.of = c /\ x.name = name

\* _seed_series_aliases, _seed_reference_aliases: added, never removed.
Named(f, held, index) ==
    held \cup {Name(index[x[1]], x[2], "seeded", TRUE) :
                 x \in {y \in f.names : ~HasName(held, index[y[1]], y[2])}}

\* _match_year_ranges: a design the file names has the file's ranges, unless it is a person's.
Matched(f, w, have, index) ==
    LET wanted == Meant(f.ranges, index)
        owned == {c \in {x[1] : x \in wanted} : Seeded(w[c])}
    IN {x \in have : x[1] \notin owned} \cup {x \in wanted : x[1] \in owned}

\* _match_note_issues: the file's and no other, when it has any.
Published(f, have, index) == IF f.issues = {} THEN have ELSE Meant(f.issues, index)

LoadFails(f, index) ==
    \/ \E x \in f.names : x[1] \notin DOMAIN index
    \/ ~Readable(f.ranges, index) \/ ~Readable(f.issues, index)

\* seed_all: everything, and one commit.
LoadEnds ==
    /\ loading # NoLoad
    /\ LET w == Upserted(release, words, loading.merged)
           index == Index(w, loading.merged)
       IN IF LoadFails(release, index)
          THEN UNCHANGED vocabularyOf
          ELSE /\ words' = w
               /\ aliases' = Named(release, aliases, index)
               /\ spans' = Matched(release, w, spans, index)
               /\ issues' = Published(release, issues, index)
    /\ loading' = NoLoad
    /\ byPeople' = [byPeople EXCEPT !.since = FALSE]
    /\ UNCHANGED <<release, intoCode, changes>>

SeedsNext ==
    \/ \E c \in SeedCodes, label \in Labels : Renamed(c, label)
    \/ \E f \in Releases : \E x \in f.names : \E c \in SeedCodes : NameGiven(c, x[2])
    \/ \E x \in aliases : NameTaken(x)
    \/ \E v, w \in SeedCodes : MergedAway(v, w)
    \/ \E f \in Releases : NewRelease(f)
    \/ LoadStarts \/ LoadEnds

SeedsSpec == SeedsInit /\ [][SeedsNext]_seedVars

-----------------------------------------------------------------------------

\* A code merged away is not there again, and leads to a value that is
\* (reference_merge.py: "It stays merged").
StaysMerged ==
    \A c \in DOMAIN intoCode : c \notin DOMAIN words /\ LeadsTo(c, intoCode) \in DOMAIN words

\* A name a person took from a value is not in use for it, whatever was loaded
\* since (aliases.py: "A removed alias stays removed").
TakenStaysTaken ==
    \A t \in byPeople.taken :
      ~\E x \in aliases : x.of = t[1] /\ x.name = t[2] /\ x.active

\* A load is safe to run again: with nothing changed since, it would find every
\* row, name, range and issue as it would write it.
AgainChangesNothing ==
    (loading = NoLoad /\ ~byPeople.since) =>
      LET w == Upserted(release, words, intoCode)
          index == Index(w, intoCode)
      IN LoadFails(release, index) \/
         /\ w = words /\ Named(release, aliases, index) = aliases
         /\ Matched(release, w, spans, index) = spans
         /\ Published(release, issues, index) = issues

\* A load leaves what a person said: a renamed value, its ranges, every name in use.
LoadsLeavePeoplesWords ==
    [][loading # NoLoad /\ loading' = NoLoad =>
         /\ \A c \in DOMAIN words : words[c].source = "manual" =>
              /\ words'[c] = words[c]
              /\ \A x \in spans \cup spans' : x[1] = c => x \in spans /\ x \in spans'
         /\ \A x \in aliases : x \in aliases']_seedVars

\* Whatever people rename, merge or take away, the file loaded after it neither
\* undoes it nor settles differently the second time.
SeedsStand ==
    /\ [](StaysMerged /\ TakenStaysTaken /\ AgainChangesNothing)
    /\ LoadsLeavePeoplesWords
=============================================================================
