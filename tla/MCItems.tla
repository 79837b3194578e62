------------------------------- MODULE MCItems -------------------------------
(***************************************************************************)
(* What the facts of a coin, or of a note, fill in, the forms open on one  *)
(* item, the reference data a release loads, and the database copied and   *)
(* loaded back.  They share no state, so a behaviour is of one desk,       *)
(* chosen at the start, with the others at rest.                           *)
(***************************************************************************)
EXTENDS NoteDefaults, OpenForms, Seeding, Restores, TLC

VARIABLE desk

-----------------------------------------------------------------------------
(* The vocabulary: a half dollar of one design that changed its metal, a   *)
(* proof set's silver half, a commemorative that only a text tells apart,  *)
(* and a bar; a silver certificate of one design, and a brown seal.        *)

Row(id, set, design, denomination, from, to, metal, fineness, gross, fine) ==
  [id |-> id, set |-> set, design |-> design, denomination |-> denomination,
   from |-> from, to |-> to, metal |-> metal, fineness |-> fineness,
   gross |-> gross, fine |-> fine]

SmallRows ==
  {Row("r1", "none", "KEN", "half", 1, 1, "silver", 1, 2, 2),
   Row("r2", "none", "KEN", "half", 2, 0, "clad", 0, 2, 0),
   Row("r3", "proofset", "none", "half", 2, 2, "silver", 1, 2, 0),
   Row("r4", "none", "BAR", "none", 1, 0, "silver", 2, 1, 0)}

RunOf(denomination, from, to) ==
  [denomination |-> denomination, from |-> from, to |-> to]

SmallRuns ==
  "KEN" :> {RunOf("half", 1, 0)} @@ "BIC" :> {RunOf("half", 2, 2)}
    @@ "BAR" :> {RunOf("none", 1, 0)}

Span(denomination, from, to) ==
  [denomination |-> denomination, from |-> from, to |-> to, letters |-> {}]

Design(code, side, needsEvidence, seal, class, span) ==
  [code |-> code, side |-> side, needsEvidence |-> needsEvidence,
   seal |-> seal, class |-> class, spans |-> {span}]

SmallDesigns ==
  {Design("KEN", "coin", FALSE, "none", "none", Span("half", 1, 0)),
   Design("BIC", "coin", TRUE, "none", "none", Span("half", 2, 2)),
   Design("EAGLE", "currency", FALSE, "none", "sc", Span("one", 1, 1)),
   Design("BROWN", "currency", TRUE, "brown", "none", Span("one", 1, 2))}

-----------------------------------------------------------------------------
(* The coin, and the requests about it.                                    *)

CoinFact(denomination, year, strike, said) ==
  [denomination |-> denomination, year |-> year, strike |-> strike,
   set |-> "none", said |-> said]

CoinFacts ==
  {CoinFact("half", 1, "none", {}), CoinFact("half", 2, "none", {}),
   CoinFact("half", 2, "proof", {}), CoinFact("half", 2, "none", {"BIC"}),
   CoinFact("none", 0, "none", {})}

CoinValues ==
  [metal |-> {"none", "plated"}, series |-> {"none", "KEN", "BAR"},
   fineness |-> {0, 2}, gross |-> {0, 2}, fine |-> {0, 3}]

OneAtATime == {{}} \cup {{k} : k \in DOMAIN CoinValues}

Plated == "silver" :> "silver" @@ "clad" :> "clad" @@ "plated" :> "silver"

Words == {[gross |-> 0, fineness |-> 0], [gross |-> 1, fineness |-> 2]}
Peers == {[gross |-> 2, fineness |-> 2, fine |-> 4],
          [gross |-> 0, fineness |-> 2, fine |-> 4]}

-----------------------------------------------------------------------------
(* The note.                                                               *)

NoteFact(denomination, year, letter, serial, rated, free) ==
  [denomination |-> denomination, year |-> year, letter |-> letter,
   serial |-> serial, rated |-> rated, said |-> {}, free |-> free]

SomeNoteFacts ==
  {NoteFact("one", 1, 0, "s1", {}, FALSE),
   NoteFact("one", 1, 0, "s1", {"frn"}, FALSE),
   NoteFact("one", 1, 1, "s1", {}, FALSE),
   NoteFact("one", 1, 1, "s2", {}, TRUE),
   NoteFact("one", 2, 0, "s2", {}, FALSE),
   NoteFact("none", 0, 0, "none", {}, TRUE)}

SomeNoteValues ==
  [type |-> {"none", "frn"}, seal |-> {"none", "dark"},
   district |-> {"none", "C"}]

Issued(year, letter, type, seal, signatures) ==
  [denomination |-> "one", year |-> year, letter |-> letter, type |-> type,
   seal |-> seal, signatures |-> signatures]

SmallIssues ==
  {Issued(1, 0, "sc", "blue", "jw"), Issued(1, 0, "frn", "brown", "none"),
   Issued(1, 1, "sc", "blue", "jw"), Issued(2, 0, "frn", "brown", "none")}

Shades == "none" :> "none" @@ "blue" :> "blue" @@ "brown" :> "brown"
            @@ "dark" :> "blue"
Banks == "none" :> "none" @@ "s1" :> "A" @@ "s2" :> "Z"
Cutoffs == "none" :> "none" @@ "s1" :> "always" @@ "s2" :> "none"

NoMotto ==
  [type |-> "sc", face |-> "one",
   always |-> [from |-> <<1, 0>>, to |-> <<1, 0>>],
   evidence |-> [from |-> <<1, 1>>, to |-> <<1, 1>>]]

-----------------------------------------------------------------------------

(* The reference data: two releases that differ in a label, a design's     *)
(* range, a name and a published issue; C's range of the second collides   *)
(* with A's once they are merged.                                          *)

Shipped ==
  {[rows |-> "A" :> "a" @@ "B" :> "b" @@ "C" :> "c",
    names |-> {<<"A", "x">>, <<"B", "x">>, <<"C", "y">>},
    ranges |-> {<<"A", 1, 5>>}, issues |-> {<<"B", 1, 1>>}],
   [rows |-> "A" :> "aa" @@ "B" :> "b" @@ "C" :> "c",
    names |-> {<<"A", "x">>, <<"C", "y">>},
    ranges |-> {<<"A", 1, 6>>, <<"C", 1, 2>>}, issues |-> {<<"A", 1, 2>>}]}

-----------------------------------------------------------------------------
(* The database: two vocabularies and the items, the first item a piece of *)
(* the second; the migrations seed one grade.                              *)

Unlinked == [c \in {} |-> ""]

SmallOrder == <<"grade", "mint", "item">>
SmallLinks ==
  "grade" :> Unlinked @@ "mint" :> Unlinked
    @@ "item" :> ("grade" :> "grade" @@ "mint" :> "mint" @@ "parent" :> "item")

AValue == [links |-> [c \in {} |-> {}], unknown |-> FALSE, code |-> 0]

AnItem(grade, mint, parent, code) ==
  [links |-> ("grade" :> grade @@ "mint" :> mint @@ "parent" :> parent),
   unknown |-> FALSE, code |-> code]

SmallStock ==
  "grade" :> (1 :> AValue @@ 2 :> AValue) @@ "mint" :> (1 :> AValue)
    @@ "item" :> (1 :> AnItem({1}, {}, {2}, 1) @@ 2 :> AnItem({2}, {1}, {}, 3))

Migrated ==
  "grade" :> (1 :> AValue) @@ "mint" :> [r \in {} |-> AValue]
    @@ "item" :> [r \in {} |-> AnItem({}, {}, {}, 0)]

-----------------------------------------------------------------------------

FieldValues == "grade" :> {0, 1, 2} @@ "errors" :> {0, 1}
Editors == Permutations(Editor)

itemVars == <<desk, defaultsVars, noteVars, formVars, seedVars, restoreVars>>

(* A desk at rest holds a blank item. *)
CoinAtRest ==
  /\ coin = Blank("coin", CoinFact("none", 0, "none", {}))
  /\ answer = [sent |-> {}, result |-> "saved"]

NoteAtRest ==
  /\ note = [facts |-> NoteFact("none", 0, 0, "none", {}, FALSE),
             value |-> [k \in NoteColumns |-> NoCode],
             source |-> [k \in NoteColumns |-> "none"],
             links |-> [a \in Attributes |-> "none"]]
  /\ sentNote = {}

NoDatabase ==
  main = {} /\ target = {} /\ book = {} /\ job = {} /\ outcome = {} /\ used = {}

SeedsAtRest == SeedsInit /\ release = CHOOSE f \in Releases : TRUE

Init ==
  /\ desk \in {"coins", "notes", "forms", "seeds", "copies"}
  /\ FormsInit
  /\ IF desk = "copies" THEN RestoresInit ELSE NoDatabase
  /\ IF desk = "seeds" THEN SeedsInit ELSE SeedsAtRest
  /\ IF desk = "coins" THEN DefaultsInit ELSE CoinAtRest
  /\ IF desk = "notes" THEN NotesInit ELSE NoteAtRest

AtCoins ==
  /\ desk = "coins"
  /\ UNCHANGED <<desk, noteVars, formVars, seedVars, restoreVars>>
  /\ DefaultsNext

AtNotes ==
  /\ desk = "notes"
  /\ UNCHANGED <<desk, defaultsVars, formVars, seedVars, restoreVars>>
  /\ NotesNext

AtForms ==
  /\ desk = "forms"
  /\ UNCHANGED <<desk, defaultsVars, noteVars, seedVars, restoreVars>>
  /\ FormsNext

AtSeeds ==
  /\ desk = "seeds"
  /\ UNCHANGED <<desk, defaultsVars, noteVars, formVars, restoreVars>>
  /\ SeedsNext

AtCopies ==
  /\ desk = "copies"
  /\ UNCHANGED <<desk, defaultsVars, noteVars, formVars, seedVars>>
  /\ RestoresNext

Next == AtCoins \/ AtNotes \/ AtForms \/ AtSeeds \/ AtCopies

Spec == Init /\ [][Next]_itemVars

-----------------------------------------------------------------------------
(* One save settles everything it fills in, and what stands as derived is  *)
(* what the facts say now, of coins and of notes.                          *)
DefaultsSettle ==
  /\ desk = "coins" => RefreshSettles /\ DerivedIsWhatTheFactsSay
  /\ desk = "notes" => NoteSettles /\ DerivedNoteFactsStand

\* The reference data loaded again, and the database copied or loaded back,
\* keep what people did and what the collection held.
LoadsKeepWhatIsHeld ==
  /\ [](desk = "copies" => RestoresWhole)
  /\ SeedsStand
=============================================================================
