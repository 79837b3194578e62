----------------------------- MODULE Vocabulary -----------------------------
(***************************************************************************)
(* One vocabulary: its values, the names they go by, the items marked with *)
(* them, and one value merged into another while items are edited and      *)
(* names are given and taken away (reference_merge.py, aliases.py,         *)
(* references.py, routers/reference.py).  A value goes by its code, its    *)
(* label and its aliases; names are compared without regard to case.  An   *)
(* alias taken away is deleted, or kept as retired for the loads of later  *)
(* releases (Seeding): no reader of names tells these apart.               *)
(* An item's marks are the item_attribute_link rows: one per item and      *)
(* value, in force or removed.  A request's statements see what others     *)
(* committed before each of them; its own writes and commit are one step.  *)
(***************************************************************************)
EXTENDS Integers, FiniteSets

CONSTANTS
    Value,        \* the codes values may have
    CodeKeyed,    \* the values the program looks up by code: never merged away
    Word,         \* the labels and aliases there may be, beside the codes
    TooLong,      \* those of them longer than MAX_ALIAS: labels only
    Article,      \* the items
    Request,      \* the merges and edits that may be under way at once
    CrossMerges,  \* a value is merged away while another is merged into it
    LateMarks,    \* an item is given the value merged after the items were looked for
    LateLabels,   \* a value is renamed while it is merged, or merged into
    MaxVersions,  \* bound: the version an item reaches
    MaxNamings    \* bound: the names given or taken away

ASSUME VocabularyAssumption ==
    /\ CodeKeyed \subseteq Value /\ TooLong \subseteq Word \ Value
    /\ MaxVersions \in Nat \ {0} /\ MaxNamings \in Nat
    /\ {CrossMerges, LateMarks, LateLabels} \subseteq BOOLEAN
    /\ "unlocked" \notin Request

VARIABLES
    values,   \* the values there are
    usable,   \* those of them not retired
    label,    \* per value: what it is called
    names,    \* per value: its aliases in use
    namings,  \* how many names were given or taken away by a person
    became,   \* what each value merged away was merged into
    marks,    \* per item and value: "none", "held" or "removed"
    told,     \* per item: the values its history says it holds
    edition,  \* per item: its version
    asks,     \* per request: what it does and how far it is
    lockedBy  \* who holds each item's row

nameVars == <<label, names, namings>>
vocabularyVars == <<values, usable, nameVars, became, marks, told, edition, asks, lockedBy>>

Unlocked == "unlocked"
AsksNothing == [does |-> "nothing"]
HeldBy(m, i) == {v \in Value : m[i][v] = "held"}
MarkedWith(v) == {i \in Article : marks[i][v] # "none"}

VocabularyInit ==
    /\ values \in SUBSET Value
    /\ usable = values
    /\ label = [v \in Value |-> v]
    /\ names = [v \in Value |-> {}]
    /\ namings = 0
    /\ became = [v \in {} |-> v]
    /\ marks \in [Article -> [Value -> {"none", "held", "removed"}]]
    /\ \A v \in Value \ values : MarkedWith(v) = {}
    /\ told = [i \in Article |-> HeldBy(marks, i)]
    /\ edition = [i \in Article |-> 1]
    /\ asks = [r \in Request |-> AsksNothing]
    /\ lockedBy = [i \in Article |-> Unlocked]

Merging == {r \in Request : asks[r].does = "merge"}

\* The names a value has of itself, and all it goes by.
OwnNames(v) == {v, label[v]}
NamesOf(v) == OwnNames(v) \cup names[v]

Retirable(v) == v \notin CodeKeyed

Retire(v) ==
    /\ v \in values /\ Retirable(v)
    /\ usable' = IF v \in usable THEN usable \ {v} ELSE usable \cup {v}
    /\ UNCHANGED <<values, nameVars, became, marks, told, edition, asks, lockedBy>>

\* Mutant: a code that was merged away is given again.
NeverMerged(v) == TRUE

NotMerged(v) == v \notin DOMAIN became

Create(v) ==
    /\ v \notin values /\ NotMerged(v)
    /\ values' = values \cup {v}
    /\ usable' = usable \cup {v}
    /\ \E n \in {v} \cup Word : label' = [label EXCEPT ![v] = n]
    /\ UNCHANGED <<names, namings, became, marks, told, edition, asks, lockedBy>>

GivesName ==
    /\ namings < MaxNamings
    /\ namings' = namings + 1
    /\ UNCHANGED <<values, usable, became, marks, told, edition, asks, lockedBy>>

\* A label may be a name of any other value: only codes are unique.
Relabel(v, n) ==
    /\ GivesName
    /\ v \in values
    /\ (\E r \in Merging : v \in {asks[r].source, asks[r].target}) => LateLabels
    /\ label' = [label EXCEPT ![v] = n]
    /\ UNCHANGED names

Owned(vs) == UNION {OwnNames(x) : x \in vs}

AddAlias(v, n) ==
    /\ GivesName
    /\ v \in values /\ n \notin TooLong \cup names[v] \cup Owned(values)
    /\ names' = [names EXCEPT ![v] = @ \cup {n}]
    /\ UNCHANGED label

RemoveAlias(v, n) ==
    /\ GivesName
    /\ v \in values /\ n \in names[v]
    /\ names' = [names EXCEPT ![v] = @ \ {n}]
    /\ UNCHANGED label

\* An edit reads the item's version and resolves the code, both unlocked.
BeginEdit(r, i, v, to) ==
    /\ edition[i] < MaxVersions
    /\ marks[i][v] # to
    /\ IF to = "held" THEN v \in usable ELSE marks[i][v] = "held"
    /\ asks' = [asks EXCEPT ![r] = [does |-> "edit", item |-> i, value |-> v, to |-> to,
                                    read |-> edition[i]]]
    /\ UNCHANGED <<values, usable, nameVars, became, marks, told, edition, lockedBy>>

Given(v, i) == \E r \in Merging : asks[r].source = v /\ asks[r].at \in {"hold", "move"} /\ i \notin asks[r].items

Ends(r) ==
    /\ asks' = [asks EXCEPT ![r] = AsksNothing]
    /\ lockedBy' = [i \in Article |-> IF lockedBy[i] = r THEN Unlocked ELSE lockedBy[i]]

Refused(r) == Ends(r) /\ UNCHANGED <<values, usable, nameVars, became, marks, told, edition>>

\* The item's row is held or written first, so a merge that holds it is waited for.
CommitEdit(r) ==
    /\ asks[r].does = "edit"
    /\ LET i == asks[r].item
           v == asks[r].value
       IN /\ lockedBy[i] = Unlocked
          /\ IF edition[i] # asks[r].read \/ v \notin values \/ marks[i][v] = asks[r].to
             THEN Refused(r)
             ELSE /\ (Given(v, i) /\ asks[r].to = "held") => LateMarks
                  /\ marks' = [marks EXCEPT ![i][v] = asks[r].to]
                  /\ told' = [told EXCEPT ![i] = HeldBy(marks', i)]
                  /\ edition' = [edition EXCEPT ![i] = @ + 1]
                  /\ Ends(r)
                  /\ UNCHANGED <<values, usable, nameVars, became>>

Crosses(v, w) == \E r \in Merging : v = asks[r].target \/ w = asks[r].source

\* The plan: the rows read here are those the merge goes on with, labels and all.
BeginMerge(r, v, w) ==
    /\ v # w /\ {v, w} \subseteq values /\ Retirable(v) /\ w \in usable
    /\ Crosses(v, w) => CrossMerges
    /\ \A i \in Article : edition[i] < MaxVersions
    /\ asks' = [asks EXCEPT ![r] = [does |-> "merge", source |-> v, target |-> w, at |-> "lock",
                                    called |-> OwnNames(v), own |-> OwnNames(w),
                                    items |-> MarkedWith(v), moves |-> {}, log |-> MarkedWith(v)]]
    /\ UNCHANGED <<values, usable, nameVars, became, marks, told, edition, lockedBy>>

Holds(r, items) ==
    /\ \A i \in items : lockedBy[i] \in {Unlocked, r}
    /\ lockedBy' = [i \in Article |-> IF i \in items THEN r ELSE lockedBy[i]]

\* Mutant: the items given the value while the first were waited for are missed.
NoneLate(v) == {}

Late(v) == MarkedWith(v)

\* Mutant: the history's items are those of the plan.
LogPlanned(r) == asks[r].log

ToLog(r) == MarkedWith(asks[r].source)

\* The items holding it, then those that got it while the first were waited for.
LockItems(r) ==
    /\ asks[r].does = "merge"
    /\ \/ /\ asks[r].at = "lock"
          /\ Holds(r, asks[r].items)
          /\ asks' = [asks EXCEPT ![r].at = "late"]
       \/ /\ asks[r].at = "late"
          /\ asks' = [asks EXCEPT ![r].at = "hold", ![r].items = @ \cup Late(asks[r].source)]
          /\ UNCHANGED lockedBy
       \/ /\ asks[r].at = "hold"
          /\ Holds(r, asks[r].items)
          /\ asks' = [asks EXCEPT ![r].at = "move", ![r].log = ToLog(r)]
    /\ UNCHANGED <<values, usable, nameVars, became, marks, told, edition>>

\* The records' UPDATE and DELETE reach the rows committed by now.
MoveRecords(r) ==
    /\ asks[r].does = "merge" /\ asks[r].at = "move"
    /\ asks' = [asks EXCEPT ![r].at = "commit", ![r].moves = MarkedWith(asks[r].source)]
    /\ UNCHANGED <<values, usable, nameVars, became, marks, told, edition, lockedBy>>

\* Mutant: a value the item no longer has still counts as had.
MovedOverRemoved(m, v, w) == [m EXCEPT ![v] = "none", ![w] = IF m[w] # "none" THEN m[w] ELSE m[v]]

\* One row per item and value: the target's stays if it is in force, else the
\* source's takes its place.
Moved(m, v, w) == [m EXCEPT ![v] = "none", ![w] = IF m[w] = "held" THEN "held" ELSE m[v]]

\* Mutant: the names are read once the old value's aliases are gone.
NamesAfter(r) == asks[r].called

OldNames(r) == asks[r].called \cup names[asks[r].source]

\* What add_alias takes of them, the old value gone: none too long, and none
\* that a value has of itself, the target's as the plan read it included.
KeptNames(r) ==
    OldNames(r) \ (TooLong \cup asks[r].own \cup Owned(values \ {asks[r].source}))

\* Everything moved, the old value deleted, its names kept: a foreign key
\* refuses the delete when an item was given the value since, and the moves
\* when the target is gone.
CommitMerge(r) ==
    /\ asks[r].does = "merge" /\ asks[r].at = "commit"
    /\ LET v == asks[r].source
           w == asks[r].target
           moves == asks[r].moves
       IN IF v \notin values \/ MarkedWith(v) # moves \/ (moves # {} /\ w \notin values)
          THEN Refused(r)
          ELSE /\ marks' = [i \in Article |-> IF i \in moves THEN Moved(marks[i], v, w) ELSE marks[i]]
               /\ told' = [i \in Article |-> IF i \in asks[r].log THEN HeldBy(marks', i) ELSE told[i]]
               /\ edition' = [i \in Article |-> edition[i] + IF i \in asks[r].items THEN 1 ELSE 0]
               /\ names' = [names EXCEPT ![v] = {}, ![w] = @ \cup KeptNames(r)]
               /\ UNCHANGED <<label, namings>>
               /\ became' = [x \in DOMAIN became \cup {v} |-> IF x = v THEN w ELSE became[x]]
               /\ values' = values \ {v}
               /\ usable' = usable \ {v}
               /\ Ends(r)

NotAsking == {r \in Request : asks[r] = AsksNothing}

VocabularyNext ==
    \/ \E v \in Value : Retire(v) \/ Create(v)
    \/ \E v \in Value, n \in Value \cup Word : Relabel(v, n) \/ AddAlias(v, n) \/ RemoveAlias(v, n)
    \/ \E r \in NotAsking :
        \/ \E i \in Article, v \in Value, to \in {"held", "removed"} : BeginEdit(r, i, v, to)
        \/ \E v, w \in Value : BeginMerge(r, v, w)
    \/ \E r \in Request \ NotAsking :
        \/ CommitEdit(r)
        \/ LockItems(r) \/ MoveRecords(r) \/ CommitMerge(r)

VocabularySpec == VocabularyInit /\ [][VocabularyNext]_vocabularyVars

-----------------------------------------------------------------------------
\* A code merged away is never made again, and leads to a value there is, if need
\* be by way of others merged on in their turn: nowhere does that way go in a ring.
MergedLeadsOn ==
    /\ \A v \in DOMAIN became : v \notin values /\ became[v] \in values \cup DOMAIN became
    /\ \A ring \in SUBSET DOMAIN became : ring # {} => \E v \in ring : became[v] \notin ring

\* What an item's history says it holds is what it holds, whoever changed it.
HistoryIsTrue == \A i \in Article : told[i] = HeldBy(marks, i)

\* Whoever changes an item's marks moves its version, so that an edit made from
\* what was read before is refused.
NothingChangesUnseen ==
    [][\A i \in Article : marks'[i] # marks[i] => edition'[i] > edition[i]]_vocabularyVars

\* A merge gives an item the target where it held either value, and leaves its
\* other marks as they were: none is lost, none comes back.
MergeKeepsWhatIsHeld ==
    [][\A i \in Article, v \in values \ values' :
           LET w == became'[v] IN
           /\ marks'[i][w] = "held" <=> {marks[i][v], marks[i][w]} \cap {"held"} # {}
           /\ \A u \in Value \ {v, w} : marks'[i][u] = marks[i][u]]_vocabularyVars

\* A value merged away takes none of the names it goes by with it: each is then an
\* alias of the value kept, or is too long to be one, or names a value of itself.
NamesAreKept ==
    [][\A v \in values \ values' :
           NamesOf(v) \subseteq names'[became'[v]] \cup TooLong \cup Owned(values)']_vocabularyVars

\* Merging loses nothing: no name, no mark, no line of an item's history and no
\* edit made from what was read before.
MergesLoseNothing ==
    /\ [](MergedLeadsOn /\ HistoryIsTrue)
    /\ NothingChangesUnseen /\ MergeKeepsWhatIsHeld /\ NamesAreKept
=============================================================================
