------------------------------ MODULE ItemKinds ------------------------------
(***************************************************************************)
(* What an item holds because of its kind: backend/app/item_kinds.py, the  *)
(* entry, edit, bulk edit and split of routers/inventory.py, and years.py. *)
(*                                                                         *)
(* One item is followed, through every save that can reach it.  A save     *)
(* reads the item, decides against what it read, and writes the columns it *)
(* would change; the row's version refuses it when another save landed in  *)
(* between.  `late' is a save that has read and not yet written, `stale'   *)
(* whether the version has moved since; every other save is one step.      *)
(*                                                                         *)
(* A coded value is known by the side it belongs to (`applies_to', or the  *)
(* kind of a denomination); "coin" is every kind that is neither bullion   *)
(* nor a note.                                                             *)
(***************************************************************************)
EXTENDS Integers

CONSTANTS Sided,    \* the coded fields whose values belong to a side
          Serial,   \* serial numbers
          Year      \* the years a request names

VARIABLES item,    \* the item's row and its detail row
          late,    \* what a save that has read the item would write
          stale,   \* whether the item moved since that save read it
          named    \* whether the last save named a detail row's own field

kindVars == <<item, late, stale, named>>

KindsAssumption ==
  /\ Sided \subseteq {"denomination", "series", "grade_designation", "metal"}
  /\ Year \subseteq Int \ {0}
  /\ "none" \notin Serial

ASSUME KindsAssumption

ItemKind == {"coin", "bullion", "currency"}

(* No year, and nothing held in a field. *)
NoYear == 0
Empty == "none"

(* The sides the values of a field come in. *)
SidesOf(f) ==
  CASE f = "metal"             -> {"coin"}
    [] f = "grade_designation" -> {"coin", "currency", "any"}
    [] OTHER                   -> {"coin", "currency"}

(* The one detail row of an item: a coin's, or a note's. *)
CoinRow(m, s) == [table |-> "coin", own |-> m, serial |-> s]
NoteRow(f, s) == [table |-> "currency", own |-> f, serial |-> s]

IsNote(it) == it.kind = "currency"

-----------------------------------------------------------------------------
(* What a request sends: the fields it names, and no other.                *)

Only(f, v) == [g \in {f} |-> v]
Laid(changes, it) ==
  [f \in DOMAIN changes \cup DOMAIN it |->
     IF f \in DOMAIN changes THEN changes[f] ELSE it[f]]

KindSent == {<<>>} \cup {Only("kind", k) : k \in ItemKind}

YearSent(f) == {<<>>} \cup {Only(f, y) : y \in Year \cup {NoYear}}
DatesSent == {Laid(y, e) : y \in YearSent("start"), e \in YearSent("end")}

FlagSent == {<<>>} \cup {Only("noDate", b) : b \in BOOLEAN}

OneFieldSent ==
  {Only(p[1], p[2]) : p \in {q \in Sided \X {"coin", "currency", "any", Empty} :
                               q[2] \in SidesOf(q[1]) \cup {Empty}}}
    \cup {Only("serial", s) : s \in Serial \cup {Empty}}
    \cup {Only("facts", b) : b \in BOOLEAN}

MintSent == {Only("mint", b) : b \in BOOLEAN}

(* An edit of one item, and the same request over many: `_SINGLE_EDIT_ONLY'. *)
EditSent == {Laid(k, o) : k \in KindSent,
                          o \in OneFieldSent \cup MintSent \cup DatesSent}
            \cup {Laid(d, n) : d \in DatesSent, n \in FlagSent}
BulkSent == {Laid(k, o) : k \in KindSent, o \in OneFieldSent \cup DatesSent}

Sent(data, f) == f \in DOMAIN data

(* _kind_after, _effective_is_currency *)
KindAfter(data, it) == IF Sent(data, "kind") THEN data.kind ELSE it.kind
NoteAfter(data, it) == KindAfter(data, it) = "currency"

(* A value of the other kind, sent or carried: _refuse_coin_only_fields,   *)
(* _refuse_mismatched_denomination, _designation and _series.              *)
ValueAfter(data, it, f) == IF Sent(data, f) THEN data[f] ELSE it[f]
AskedOfTheSent(data, f) == Sent(data, f)             \* a plausible bug
Asked(data, f) == Sent(data, "kind") \/ Sent(data, f)
OfTheOtherKind(data, it) ==
  \E f \in Sided :
    /\ Asked(data, f)
    /\ ValueAfter(data, it, f) \notin {Empty, "any"}
    /\ (ValueAfter(data, it, f) = "currency") # NoteAfter(data, it)

(* _take_coin_changes: a serial goes to the coin row of what is, or was,   *)
(* bullion; anything else sent as one is a note's.                         *)
ToTheCoinRow(data, it) ==
  /\ Sent(data, "serial")
  /\ \/ KindAfter(data, it) = "bullion"
     \/ it.kind = "bullion" /\ ~NoteAfter(data, it)

MintOnANote(data, it) ==
  Sent(data, "mint") /\ data.mint /\ NoteAfter(data, it)

-----------------------------------------------------------------------------
(* The years: years.py, _no_date_after, _years_after, _years_for_bulk.     *)

YearsSent(data) ==
  \E f \in {"start", "end"} : Sent(data, f) /\ data[f] # NoYear

Single(it) == it.end \in {NoYear, it.start}

(* resolve_years: a start sent alone moves a single year's end with it. *)
Resolved(data, it) ==
  LET start == IF Sent(data, "start") THEN data.start ELSE it.start
  IN  <<start, IF Sent(data, "end") THEN data.end
               ELSE IF Sent(data, "start") /\ Single(it) THEN start
               ELSE it.end>>

Backwards(years) ==
  years[1] # NoYear /\ years[2] # NoYear /\ years[2] < years[1]

FlagSet(data) == Sent(data, "noDate") /\ data.noDate

NoDateKept(data, it) == FlagSet(data) \/ (it.noDate /\ ~Sent(data, "noDate"))
                                                       \* a plausible bug
NoDateAfter(data, it) ==
  IF FlagSet(data) THEN TRUE
  ELSE IF NoteAfter(data, it) \/ YearsSent(data) THEN FALSE
  ELSE it.noDate /\ ~Sent(data, "noDate")

DateRefused(data, it) ==
  \/ YearsSent(data) /\ NoteAfter(data, it)
  \/ FlagSet(data) /\ (YearsSent(data) \/ NoteAfter(data, it))

YearsAfter(data, it, undated) ==
  IF NoteAfter(data, it) \/ undated THEN <<NoYear, NoYear>>
  ELSE Resolved(data, it)

Dated(it, years, undated) ==
  IF Backwards(years) THEN {}
  ELSE {[it EXCEPT !.start = years[1], !.end = years[2], !.noDate = undated]}

-----------------------------------------------------------------------------
(* The detail row.  Each step gives the item after it, or none: a refusal, *)
(* which rolls the whole save back.                                        *)

(* A serial a detail row hands over when the kind takes the row away. *)
NothingCarried(it) == Empty                            \* a plausible bug
Carried(it) == it.row.serial

(* match_detail_to_kind *)
Matched(it) ==
  IF IsNote(it) = (it.row.table = "currency")
  THEN IF it.kind = "coin" /\ it.row.serial # Empty THEN {} ELSE {it}
  ELSE IF IsNote(it)
  THEN {[it EXCEPT !.row = NoteRow(FALSE, Carried(it))]}
  ELSE IF it.row.own \/ (it.kind = "coin" /\ it.row.serial # Empty) THEN {}
  ELSE {[it EXCEPT !.row = CoinRow(FALSE, Carried(it))]}

(* _set_coin_detail: nothing on a note's row. *)
CoinDetailSet(data, it, serialToo) ==
  IF it.row.table = "currency" THEN it
  ELSE [it EXCEPT !.row =
          CoinRow(IF Sent(data, "mint") THEN data.mint ELSE @.own,
                  IF serialToo THEN data.serial ELSE @.serial)]

(* _apply_note_changes: only a banknote has these. *)
NoteChanged(data, it, serialToo) ==
  IF ~Sent(data, "facts") /\ ~serialToo THEN {it}
  ELSE IF it.row.table # "currency" THEN {}
  ELSE {[it EXCEPT !.row =
           NoteRow(IF Sent(data, "facts") THEN data.facts ELSE @.own,
                   IF serialToo THEN data.serial ELSE @.serial)]}

(* _set_notes_and_detail: a note row comes before what is written on it,   *)
(* and a row a kind gives up goes after its facts were cleared.            *)
NotesAndDetail(data, it, serialToo) ==
  LET asNote == IF Sent(data, "kind") /\ IsNote(it) THEN Matched(it) ELSE {it}
      noted  == UNION {NoteChanged(data, x, serialToo) : x \in asNote}
  IN  IF Sent(data, "kind") THEN UNION {Matched(x) : x \in noted} ELSE noted

(* _set_classifiers, _set_resolved *)
ClassifiersSet(data, it) ==
  [f \in DOMAIN it |->
     IF f \in Sided \cup {"kind"} /\ Sent(data, f) THEN data[f] ELSE it[f]]

(* update_item: the item after the save, or none where it is refused. *)
SavedEdit(data, it) ==
  LET coinSerial == ToTheCoinRow(data, it)
      noteSerial == Sent(data, "serial") /\ ~coinSerial
      undated    == NoDateAfter(data, it)
      cleared    == CoinDetailSet(data, ClassifiersSet(data, it), coinSerial)
      noted      == NotesAndDetail(data, cleared, noteSerial)
      detailed   == {CoinDetailSet(data, x, coinSerial) : x \in noted}
  IN  IF OfTheOtherKind(data, it) \/ MintOnANote(data, it)
           \/ DateRefused(data, it)
      THEN {}
      ELSE UNION {Dated(x, YearsAfter(data, it, undated), undated)
                    : x \in detailed}

(* bulk_edit, of this item: the rest of the selection may refuse it, which *)
(* writes nothing.                                                         *)
BulkEdited(data, it) ==
  LET years   == YearsAfter(data, it, FALSE)
      undated == it.noDate /\ ~NoteAfter(data, it)
                   /\ years = <<NoYear, NoYear>>
      noted   == NotesAndDetail(data, ClassifiersSet(data, it),
                                Sent(data, "serial"))
  IN  IF OfTheOtherKind(data, it) \/ (YearsSent(data) /\ NoteAfter(data, it))
      THEN {}
      ELSE UNION {Dated(x, years, undated) : x \in noted}

(* split: a piece is another item, of the lot's kind, with a row of its own *)
(* that holds nothing yet (_refuse_pieces_that_do_not_fit, _to_piece).     *)
PieceSent ==
  {Laid(m, y) : m \in {<<>>} \cup {Only(f, "coin") :
                                   f \in Sided \cap {"metal", "denomination"}},
                y \in {<<>>} \cup {Only("start", y) : y \in Year}}

PieceOf(data, it) ==
  IF IsNote(it) /\ data # <<>> THEN {}
  ELSE {[f \in DOMAIN it |->
           CASE f \in Sided /\ Sent(data, f)             -> data[f]
             [] f \in {"start", "end"} /\ Sent(data, "start") -> data.start
             [] f = "noDate" -> it.noDate /\ ~Sent(data, "start")
             [] f = "row"    -> [table |-> it.row.table, own |-> FALSE,
                                 serial |-> Empty]
             [] OTHER        -> it[f]]}

-----------------------------------------------------------------------------
(* create_item, as the first state: what ItemCreate and the handler let in. *)

Fits(side, kind) ==
  side \in {Empty, "any"} \/ ((side = "currency") = (kind = "currency"))

ItemEntered(it) ==
  /\ \A f \in Sided : it[f] \in SidesOf(f) \cup {Empty} /\ Fits(it[f], it.kind)
  /\ IsNote(it) => it.start = NoYear /\ it.end = NoYear /\ ~it.noDate
  /\ it.noDate => it.start = NoYear /\ it.end = NoYear
  /\ ~Backwards(<<it.start, it.end>>)
  /\ it.start # NoYear => it.end # NoYear
  /\ (it.row.table = "currency") = IsNote(it)
  /\ it.kind = "coin" => it.row.serial = Empty

Rows == [table : {"coin", "currency"}, own : BOOLEAN,
         serial : Serial \cup {Empty}]

KindsInit ==
  /\ \E k \in ItemKind, s \in Year \cup {NoYear}, e \in Year \cup {NoYear},
        u \in BOOLEAN, r \in Rows,
        c \in [Sided -> {"coin", "currency", "any", Empty}] :
       LET it == Laid(c, [kind |-> k, start |-> s, end |-> e, noDate |-> u,
                          row |-> r])
       IN  ItemEntered(it) /\ item = it
  /\ late = {}
  /\ stale = FALSE
  /\ named = FALSE

-----------------------------------------------------------------------------
(* Each request, and the item it would leave: none where it is refused.    *)

Outcome(how, data, it) ==
  IF how = "edit" THEN SavedEdit(data, it) ELSE BulkEdited(data, it)

KindRequests ==
  {<<"edit", d>> : d \in EditSent} \cup {<<"bulk", d>> : d \in BulkSent}

Names(data) == \E f \in {"serial", "facts"} : Sent(data, f)

Landed == stale' = (late # {} /\ item' # item)

(* A whole request, by itself or between the late one's two steps. *)
SaveAtOnce(how, data) ==
  /\ item' \in Outcome(how, data, item)
  /\ named' = Names(data)
  /\ Landed
  /\ UNCHANGED late

Split(data) ==
  /\ item' \in PieceOf(data, item)
  /\ named' = TRUE
  /\ Landed
  /\ UNCHANGED late

(* The late request reads the item and decides against what it read. *)
ReadFirst(how, data) ==
  /\ \E after \in Outcome(how, data, item) :
       /\ after # item
       /\ late' = {[set |-> [f \in {g \in DOMAIN item : after[g] # item[g]}
                               |-> after[f]],
                    names |-> Names(data)]}
  /\ stale' = FALSE
  /\ UNCHANGED <<item, named>>

(* The version the UPDATE asks for: _VersionedMixin, _STALE_ITEMS. *)
StaleOrNot == TRUE                                     \* a plausible bug
NotStale == ~stale

(* It writes the columns it would change, if the version still holds. *)
SaveLate ==
  /\ NotStale
  /\ \E w \in late : item' = Laid(w.set, item) /\ named' = w.names
  /\ late' = {}
  /\ stale' = FALSE

RefuseLate ==
  /\ stale
  /\ late' = {}
  /\ stale' = FALSE
  /\ UNCHANGED <<item, named>>

(* One request is late at a time.  Once it is stale only its refusal is    *)
(* left, so it is taken next.                                              *)
KindsNext ==
  \/ /\ ~stale
     /\ \/ \E r \in KindRequests : SaveAtOnce(r[1], r[2])
        \/ \E data \in PieceSent : Split(data)
  \/ /\ late = {}
     /\ \E r \in KindRequests : ReadFirst(r[1], r[2])
  \/ SaveLate
  \/ RefuseLate

KindsSpec == KindsInit /\ [][KindsNext]_kindVars

-----------------------------------------------------------------------------
(* PROPERTIES.                                                             *)

(* The item has the detail row of its kind, a serial only where a note or  *)
(* bullion holds one, and no value of the other kind: every way in asks    *)
(* this of a different mixture of what is sent and what is carried.        *)
HoldsItsKindsFields ==
  /\ (item.row.table = "currency") = IsNote(item)
  /\ item.kind = "coin" => item.row.serial = Empty
  /\ \A f \in Sided : Fits(item[f], item.kind)

(* A year, a range that does not run backwards, or "no date" -- and none   *)
(* of them on a note, whose year is its series year.                       *)
DatesMakeSense ==
  /\ ~Backwards(<<item.start, item.end>>)
  /\ item.noDate => item.start = NoYear /\ item.end = NoYear
  /\ IsNote(item) => item.start = NoYear /\ item.end = NoYear /\ ~item.noDate

(* A save that names neither leaves the serial where it was, and a note's  *)
(* own facts: "a serial number is the one identifier a note has, and       *)
(* dropping it silently because the kind moved is the loss this module     *)
(* exists to prevent" (item_kinds.py:70).                                  *)
NothingDroppedUnnamed ==
  [][named' \/ /\ item'.row.serial = item.row.serial
               /\ IsNote(item) /\ item.row.own =>
                    IsNote(item') /\ item'.row.own]_kindVars

(* Whatever way in an item and its kind take, it holds what its kind may,  *)
(* and its years make sense.                                               *)
FitsItsKind == HoldsItsKindsFields /\ DatesMakeSense
=============================================================================
