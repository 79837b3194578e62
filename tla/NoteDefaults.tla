---------------------------- MODULE NoteDefaults -----------------------------
(***************************************************************************)
(* What the facts of a banknote fill in: note_outcome and the attribute    *)
(* rules of backend/app/classifier_defaults.py, attribute_rules.py,        *)
(* gift_rule.py and item_attributes.py.                                    *)
(*                                                                         *)
(* One note.  Its series is a year with a letter; a serial is known by     *)
(* what district_letter and the rule of an attribute read in it.  An       *)
(* attribute is linked to the note by the rule that added it, by a person  *)
(* ("manual"), or not at all ("none"); a link a person took away stays, as *)
(* "removed".                                                              *)
(***************************************************************************)
EXTENDS CoinDefaults

CONSTANTS NoteFacts,  \* the facts a note may have recorded
          NoteValues, \* [column -> the values a request may send]
          Issues,     \* [denomination, year, letter, type, seal, signatures]
          BaseSeal,   \* [seal -> the seal it is a shade of, or itself]
          BankOf,     \* [serial -> the bank it names, or none]
          BySerial,   \* [serial -> "always", "never", or none: _by_serial]
          Districts,  \* the banks there are
          Rule        \* the attribute rule: [type, face, always, evidence]

VARIABLES note,     \* [facts, value, source, links]
          sentNote  \* the columns and attributes the last request named

noteVars == <<note, sentNote>>

IssueColumns == {"type", "seal", "signatures"}
NoteFilled   == IssueColumns \cup {"district"}
NoteColumns  == NoteFilled \cup {"series"}
Attributes   == {"no_motto", "gift"}

NotesAssumption ==
  /\ DOMAIN NoteValues \subseteq NoteColumns
  /\ \A k \in DOMAIN NoteValues : NoCode \in NoteValues[k]

ASSUME NotesAssumption

-----------------------------------------------------------------------------
(* note_outcome.                                                           *)

(* The issues of the note's denomination and series. *)
IssuesOf(f) ==
  {i \in Issues : i.denomination = f.denomination /\ i.year = f.year
                  /\ i.letter = f.letter}

(* _note_options: what a person recorded narrows them, a shade of a seal   *)
(* read as the seal it is a shade of.                                      *)
Recorded(n, column) ==
  IF column = "seal" THEN BaseSeal[n.value.seal] ELSE n.value[column]

Options(n) ==
  {i \in IssuesOf(n.facts) :
     \A k \in IssueColumns :
       IsMine(n, k) \/ IsEmpty(n, k) \/ i[k] = Recorded(n, k)}

(* _named_by_rating: a rating that names one of the classes left. *)
NamedByRating(issues, rated) ==
  LET named == {i.type : i \in issues} \cap rated
  IN  IF Cardinality(named) = 1 THEN {i \in issues : i.type \in named}
      ELSE issues

(* _bank_outcome: the district a Federal Reserve Note's serial names. *)
DistrictOfAny(n, type) == {BankOf[n.facts.serial]} \cap Districts
                                                       \* a plausible bug
DistrictSaid(n, type) ==
  IF type = "frn" THEN {BankOf[n.facts.serial]} \cap Districts ELSE {}

DistrictOutcome(n, type) ==
  IF DistrictSaid(n, type) = {} THEN TakenBack(n, {"district"})
  ELSE Decided(n, [k \in {"district"} |-> DistrictSaid(n, type)], "serial")

Both(a, b) ==
  [writes |-> [k \in DOMAIN a.writes \cup DOMAIN b.writes |->
                 IF k \in DOMAIN a.writes THEN a.writes[k] ELSE b.writes[k]],
   retracts |-> a.retracts \cup b.retracts]

WithDistrict(n, issued) ==
  Both(issued, DistrictOutcome(n, After(n, issued, "type")))

NoteOutcomeOf(n, issues) ==
  IF issues = {} THEN TakenBack(n, NoteFilled)
  ELSE WithDistrict(n, Decided(n, [k \in IssueColumns |-> {i[k] : i \in issues}],
                               "issue"))

NoteOutcome(n) == NoteOutcomeOf(n, NamedByRating(Options(n), n.facts.rated))

-----------------------------------------------------------------------------
(* attribute_outcome, after the class this pass leaves.                    *)

(* A letter is a number, and a series without one before those with one. *)
Before(a, b) == a[1] < b[1] \/ (a[1] = b[1] /\ a[2] <= b[2])
SeriesWithin(f, span) ==
  Before(span.from, <<f.year, f.letter>>) /\ Before(<<f.year, f.letter>>, span.to)

(* verdict *)
Verdict(f, type) ==
  IF type # Rule.type \/ f.denomination # Rule.face \/ f.year = 0 THEN NoCode
  ELSE IF SeriesWithin(f, Rule.always) THEN "always"
  ELSE IF ~SeriesWithin(f, Rule.evidence) THEN "never"
  ELSE IF BySerial[f.serial] # NoCode THEN BySerial[f.serial] ELSE "evidence"

(* _link_change: added where there is no link at all, a removed one        *)
(* included; taken back where the link in force is the rule's own.         *)
RuleLinkOverRemoved(link, carries) ==                  \* a plausible bug
  IF carries THEN IF link \in {"none", "removed"} THEN "rule" ELSE link
  ELSE IF link = "rule" THEN "none" ELSE link
RuleLink(link, carries) ==
  IF carries THEN IF link = "none" THEN "rule" ELSE link
  ELSE IF link = "rule" THEN "none" ELSE link

(* _add_attributes *)
TypeBefore(n, out) == n.value.type                     \* a plausible bug
TypeAfter(n, out) == After(n, out, "type")

ClassifiedAs(n, out) ==
  [Applied(n, out) EXCEPT
     !.links.no_motto =
        RuleLink(@, Verdict(n.facts, TypeAfter(n, out)) = "always")]
NoteClassified(n) == ClassifiedAs(n, NoteOutcome(n))

(* refresh_items, of a note *)
NoteSeriesGiven(n) ==
  SeriesRefreshed(n, "currency", n.facts.year, n.facts.letter,
                  n.value.seal, n.value.type)

NoteAskedAgain(n, given) ==
  IF given.value.series = n.value.series THEN given ELSE NoteClassified(given)
NoteRefreshed(n) == NoteAskedAgain(n, NoteSeriesGiven(NoteClassified(n)))

(* gift_rule.apply: a note that cost nothing is a gift; one given a cost   *)
(* later loses the gift the rule gave it.                                  *)
GiftRuled(n) == [n EXCEPT !.links.gift = RuleLink(@, n.facts.free)]

-----------------------------------------------------------------------------
(* set_attributes: the note's attributes become exactly those sent.        *)
AttributesSet(n, codes) ==
  [n EXCEPT !.links =
     [a \in Attributes |->
        IF a \notin codes THEN IF @[a] = "none" THEN "none" ELSE "removed"
        ELSE IF @[a] \in {"none", "removed"} THEN "manual" ELSE @[a]]]

(* What a request sends: new facts, a column, or a set of attributes.      *)
NoteSendings ==
  {<<>>} \cup UNION {[{k} -> NoteValues[k]] : k \in DOMAIN NoteValues}

AttributesSent == {{}} \cup {{codes} : codes \in SUBSET Attributes}

SavedNote(n, facts, data, attributes) ==
  LET kept == UNION attributes
      with == IF attributes = {} THEN n ELSE AttributesSet(n, kept)
  IN  GiftRuled(NoteRefreshed([Typed(with, data) EXCEPT !.facts = facts]))

SaveNote(facts, data, attributes) ==
  /\ note' = SavedNote(note, facts, data, attributes)
  /\ sentNote' = DOMAIN data \cup (IF attributes = {} THEN {} ELSE Attributes)

(* create_item: no gift rule, "the row is made before its cost is typed". *)
NotesInit ==
  /\ \E facts \in NoteFacts, data \in NoteSendings, codes \in SUBSET Attributes :
       \E suggested \in SUBSET DOMAIN data :
         LET blank == [facts  |-> facts,
                       value  |-> [k \in NoteColumns |-> NoCode],
                       source |-> [k \in NoteColumns |-> "none"],
                       links  |-> [a \in Attributes |-> IF a \in codes
                                                        THEN "manual"
                                                        ELSE "none"]]
         IN  /\ \A k \in suggested : data[k] # NoCode
             /\ note = NoteRefreshed(EnteredAs(blank, data, suggested))
  /\ sentNote = {}

NoteRequests ==
  {[facts |-> facts, data |-> <<>>, attributes |-> {}] : facts \in NoteFacts}
    \cup {[facts |-> note.facts, data |-> data, attributes |-> {}]
            : data \in NoteSendings}
    \cup {[facts |-> note.facts, data |-> <<>>, attributes |-> attributes]
            : attributes \in AttributesSent}

NotesNext ==
  \E r \in NoteRequests : SaveNote(r.facts, r.data, r.attributes)

NotesSpec == NotesInit /\ [][NotesNext]_noteVars

-----------------------------------------------------------------------------
(* PROPERTIES.                                                             *)

(* A value a person gave a note, or emptied, stands through every save     *)
(* that does not send it, whatever its class, its seal and its series come *)
(* to on the way.                                                          *)
NotePersonsValueStands ==
  [][\A k \in NoteColumns \ sentNote' :
       Persons(note, k) => /\ note'.value[k] = note.value[k]
                           /\ note'.source[k] = note.source[k]]_noteVars

(* "A removed attribute stays removed", and one a person set stays set     *)
(* (item_attributes.py:8): neither rule puts one back or takes one away.   *)
PersonsAttributesStand ==
  [][\A a \in Attributes \ sentNote' :
       note.links[a] \in {"removed", "manual"} =>
         note'.links[a] = note.links[a]]_noteVars

(* A save leaves nothing for the next one to fill or take back, although   *)
(* the class decides the district and the attribute, and the seal and the  *)
(* class the series.                                                       *)
NoteSettles == NoteRefreshed(note) = note

(* A district the serial gave stands only on a Federal Reserve Note, and   *)
(* a class the issues gave only while an issue has it.                     *)
DerivedNoteFactsStand ==
  /\ note.source.district = "serial" =>
       note.value.type = "frn" /\ note.value.district = BankOf[note.facts.serial]
  /\ note.source.type = "issue" =>
       \E i \in Options(note) : i.type = note.value.type

(* What a person said of a coin or a note stands through every later save. *)
PersonsWordStands ==
  PersonsValueStands /\ NotePersonsValueStands /\ PersonsAttributesStand

=============================================================================
