---------------------------- MODULE CoinDefaults -----------------------------
(***************************************************************************)
(* What the facts of a coin or a bar fill in, and what they leave alone:   *)
(* backend/app/classifier_defaults.py, field_sources.py, the edits of      *)
(* routers/inventory.py and the guesses of bullion_weights.py.             *)
(*                                                                         *)
(* One item.  A column is filled, left or taken back by who its value is   *)
(* from: no record is a person's value or the data's, "held" a column a    *)
(* person emptied, anything else the rule that filled it.  Weights are in  *)
(* ounces, a fineness in parts of Pure and a fine weight in the same parts *)
(* of an ounce.                                                            *)
(***************************************************************************)
EXTENDS SeriesDesigns

CONSTANTS Facts,      \* the facts an item may have recorded
          SentValues, \* [column -> the values a request may send]
          SentTogether, \* the columns one request may send
          BaseMetal,  \* [metal -> the metal it is plated on, or itself]
          WordsSay,   \* what the words of a bar may state
          PeersSay    \* what a bar's peers may state

VARIABLES coin,    \* [kind, facts, value, source]
          answer   \* [sent, result]: the last request, and how it ended

defaultsVars == <<coin, answer>>

(* The parts a whole is counted in. *)
Pure == 2

CompositionColumns == {"composition", "metal", "fineness", "gross", "fine"}
Columns == CompositionColumns \cup {"series"}
WeightRules == {"weight", "words", "peers"}

DefaultsAssumption ==
  /\ DOMAIN SentValues = Columns \ {"composition"}
  /\ SentTogether \subseteq SUBSET DOMAIN SentValues
  /\ \A column \in DOMAIN SentValues : Nothing(column) \in SentValues[column]

ASSUME DefaultsAssumption

GuessedOf(c) == {column \in Columns : c.source[column] \in WeightRules}

-----------------------------------------------------------------------------
(* classifier_defaults: one pass over the item.                            *)

(* A plated metal tells what is under it only where a person recorded it. *)
RecordedMetal(c) ==
  IF IsMine(c, "metal") \/ IsEmpty(c, "metal") THEN NoCode
  ELSE BaseMetal[c.value.metal]

(* _composition, of an item whose country is known *)
Found(c) ==
  LET f      == c.facts
      series == c.value.series
      runs   == IF series = NoCode THEN {} ELSE SeriesRuns[series]
      faces  == {r.denomination : r \in runs} \ {NoCode}
      q == [denomination |-> f.denomination, series |-> series,
            first |-> f.year, last |-> f.year, set |-> f.set,
            setUnknown |-> f.set = NoCode /\ f.strike \notin {NoCode, "business"},
            metal |-> RecordedMetal(c)]
  IN  IF f.denomination = NoCode /\ c.kind # "coin" /\ (runs = {} \/ faces # {})
      THEN {}
      ELSE IF f.year # NoWeight
      THEN CompositionOf([q EXCEPT !.denomination =
             IF @ # NoCode \/ Cardinality(faces) # 1 THEN @
             ELSE CHOOSE face \in faces : TRUE])
      ELSE IF series = NoCode THEN {}
      ELSE CompositionOfSeries(q)

(* The value a composition has for a column. *)
Says(row, column) == IF column = "composition" THEN row.id ELSE row[column]

(* A metal a person recorded, which the composition contradicts. *)
Contradicted(c, row) ==
  /\ RecordedMetal(c) # NoCode
  /\ row.metal \notin {NoCode, RecordedMetal(c)}

(* The guesses of a weight are not taken back with the composition. *)
TakeBack(c) == TakenBack(c, CompositionColumns \ GuessedOf(c))

Filled(c, row) ==
  Decided(c, [k \in CompositionColumns |-> {Says(row, k)}], "composition")

(* coin_outcome *)
OutcomeOf(c, rows) ==
  IF rows = {} THEN TakeBack(c) ELSE Filled(c, CHOOSE row \in rows : TRUE)
CoinOutcome(c) == OutcomeOf(c, {row \in Found(c) : ~Contradicted(c, row)})

FineWeight(gross, fineness) == gross * fineness

(* weight_outcome: the fine weight the gross and the fineness come to. *)
WeighedOnce(c, out) ==                                 \* a plausible bug
  IF After(c, out, "fine") # NoWeight \/ c.source.fine = "held"
       \/ NoWeight \in {After(c, out, "gross"), After(c, out, "fineness")}
  THEN out
  ELSE [writes |-> [column \in DOMAIN out.writes \cup {"fine"} |->
                      IF column = "fine"
                      THEN [value |-> FineWeight(After(c, out, "gross"),
                                                 After(c, out, "fineness")),
                            rule |-> "weight"]
                      ELSE out.writes[column]],
        retracts |-> out.retracts \ {"fine"}]
Weighed(c, out) ==
  LET gross    == After(c, out, "gross")
      fineness == After(c, out, "fineness")
      now      == After(c, out, "fine")
      worked   == c.source.fine = "weight"
      target   == FineWeight(gross, fineness)
  IN  IF "fine" \in DOMAIN out.writes \/ c.source.fine = "held" THEN out
      ELSE IF NoWeight \in {gross, fineness}
      THEN IF worked /\ now # NoWeight
           THEN [out EXCEPT !.retracts = @ \cup {"fine"}] ELSE out
      ELSE IF now = NoWeight \/ (worked /\ now # target)
      THEN [writes |-> [column \in DOMAIN out.writes \cup {"fine"} |->
                          IF column = "fine"
                          THEN [value |-> target, rule |-> "weight"]
                          ELSE out.writes[column]],
            retracts |-> out.retracts \ {"fine"}]
      ELSE out

Classified(c) == Applied(c, Weighed(c, CoinOutcome(c)))

SeriesGiven(c) ==
  SeriesRefreshed(c, "coin", c.facts.year, NoCode, NoCode, NoCode)

(* refresh_items: the composition waits on the series, so it is asked      *)
(* again where the series changed.                                         *)
RefreshedOnce(c) == SeriesGiven(Classified(c))     \* a plausible bug
AskedAgain(c, once) ==
  IF once.value.series = c.value.series THEN once ELSE Classified(once)
Refreshed(c) == AskedAgain(c, SeriesGiven(Classified(c)))

(* The database's own rule, asked as each of those steps is written:       *)
(* ck_inventory_item_fine_within_gross.                                    *)
FineFits(v) ==
  NoWeight \in {v.fine, v.gross} \/ v.fine <= Pure * v.gross

WritesLand(c, refreshed) ==
  /\ FineFits(c.value) /\ FineFits(refreshed.value)
  /\ refreshed.value.series # c.value.series => FineFits(Classified(c).value)

-----------------------------------------------------------------------------
(* The requests.  A request sends some facts and some columns.             *)

Sendings ==
  UNION {{s \in [columns -> UNION {SentValues[k] : k \in columns}] :
            \A k \in columns : s[k] \in SentValues[k]}
           : columns \in SentTogether}

SentWith(c, facts, data) == [Typed(c, data) EXCEPT !.facts = facts]

(* _refuse_fine_above_gross: judged only where a weight is sent, and not   *)
(* on a fine weight that is worked out again (_empty_worked_out_...).      *)
TooFine(c, data) ==
  /\ {"gross", "fine"} \cap DOMAIN data # {}
  /\ ~FineFits(SentWith(c, c.facts, data).value)
WorkedOut(c, data) == "fine" \notin DOMAIN data /\ c.source.fine = "weight"

Emptied(c) ==
  [c EXCEPT !.value.fine = NoWeight,
            !.source.fine = IF IsEmpty(c, "fineness") THEN "none" ELSE @]

Saved(facts, data) ==
  LET sent == SentWith(coin, facts, data)
  IN  IF TooFine(coin, data) THEN Emptied(sent) ELSE sent

(* update_item, bulk_edit and _save_classification, of this item *)
Result(data, saved, refreshed) ==
  IF TooFine(coin, data) /\ ~WorkedOut(coin, data) THEN "refused"
  ELSE IF WritesLand(saved, refreshed) THEN "saved" ELSE "error"

Answer(data, result, refreshed) ==
  /\ answer' = [sent |-> DOMAIN data, result |-> result]
  /\ coin' = IF result = "saved" THEN refreshed ELSE coin

SaveRefreshed(data, saved, refreshed) ==
  Answer(data, Result(data, saved, refreshed), refreshed)

SaveOf(data, saved) == SaveRefreshed(data, saved, Refreshed(saved))
Save(facts, data) == SaveOf(data, Saved(facts, data))

(* bullion_weights: a bar with no fine weight takes what its words state,  *)
(* then what its peers do (_guess_from_words, _guess_from_peers, apply).   *)
Guess(c, column, value, rule) ==
  IF IsEmpty(c, column) /\ c.source[column] # "held" /\ value # NoWeight
  THEN [c EXCEPT !.value[column] = value, !.source[column] = rule] ELSE c

Known(held, stated) == IF held # NoWeight THEN held ELSE stated

SameMetal(fineness, peer) ==
  \/ fineness = NoWeight
  \/ IF peer = NoWeight THEN fineness = Pure ELSE fineness = peer

FromPeers(c, fineness, peer) ==
  LET known == Known(fineness, peer.fineness)
      fine  == IF fineness = NoWeight
               THEN Guess(c, "fineness", peer.fineness, "peers") ELSE c
      gross == Guess(fine, "gross", peer.gross, "peers")
  IN  IF ~SameMetal(fineness, peer.fineness) THEN c
      ELSE IF NoWeight \in {peer.gross, known}
      THEN Guess(gross, "fine", peer.fine, "peers") ELSE gross

Guessed(c, words, peer) ==
  LET own == Guess(Guess(c, "fineness", words.fineness, "words"),
                   "gross", words.gross, "words")
  IN  IF Known(c.value.gross, words.gross) # NoWeight THEN own
      ELSE FromPeers(own, Known(c.value.fineness, words.fineness), peer)

GuessRefreshed(guessed, refreshed) ==
  /\ guessed # coin /\ WritesLand(guessed, refreshed)
  /\ coin' = refreshed
  /\ answer' = [sent |-> {}, result |-> "saved"]

GuessOf(guessed) == GuessRefreshed(guessed, Refreshed(guessed))
GuessWeights(words, peer) ==
  /\ coin.kind = "bullion"
  /\ IsEmpty(coin, "fine") /\ coin.source.fine # "held"
  /\ GuessOf(Guessed(coin, words, peer))

(* create_item: what is entered, some of it a suggestion left alone. *)
Blank(kind, facts) ==
  [kind |-> kind, facts |-> facts,
   value |-> [k \in Columns |-> Nothing(k)],
   source |-> [k \in Columns |-> "none"]]

Entered(entered, refreshed) ==
  WritesLand(entered, refreshed) /\ coin = refreshed

DefaultsInit ==
  /\ \E kind \in {"coin", "bullion"}, facts \in Facts, data \in Sendings :
       \E suggested \in SUBSET ({"metal", "series"} \cap DOMAIN data) :
         LET entered == EnteredAs(Blank(kind, facts), data, suggested)
         IN  Entered(entered, Refreshed(entered))
  /\ answer = [sent |-> {}, result |-> "saved"]

Requests ==
  {[facts |-> facts, data |-> <<>>] : facts \in Facts}
    \cup {[facts |-> coin.facts, data |-> data] : data \in Sendings}

DefaultsNext ==
  \/ \E request \in Requests : Save(request.facts, request.data)
  \/ \E words \in WordsSay, peer \in PeersSay : GuessWeights(words, peer)

DefaultsSpec == DefaultsInit /\ [][DefaultsNext]_defaultsVars

-----------------------------------------------------------------------------
(* PROPERTIES.                                                             *)

(* A person's value stands, and an emptied column stays empty, through     *)
(* every later save, refresh and guess that does not send it: "Any other   *)
(* value is a person's, or came with the data, and is never touched"       *)
(* (classifier_defaults.py:16).                                            *)
PersonsValueStands ==
  [][\A column \in Columns \ answer'.sent :
       Persons(coin, column) =>
         /\ coin'.value[column] = coin.value[column]
         /\ coin'.source[column] = coin.source[column]]_defaultsVars

(* A refresh leaves nothing for the next one, although each of the columns *)
(* is decided from the others -- but for the fine weight: EmptyIsFilled.   *)
SameButFine(again) ==
  \A column \in Columns \ {"fine"} :
    /\ again.value[column] = coin.value[column]
    /\ again.source[column] = coin.source[column]
RefreshSettles == SameButFine(Refreshed(coin))

(* "An empty field is filled" (classifier_defaults.py:14) where the        *)
(* composition states it and no person emptied it.                         *)
EmptyIsFilled ==
  \A row \in Found(coin), column \in CompositionColumns :
    /\ ~Contradicted(coin, row)
    /\ coin.source[column] # "held" /\ Says(row, column) # Nothing(column)
    => ~IsEmpty(coin, column)

(* What stands as derived is what the facts say now: a composition's value *)
(* is the composition's, and a worked-out fine weight the product.         *)
DerivedIsWhatTheFactsSay ==
  /\ \A column \in CompositionColumns :
       coin.source[column] = "composition" =>
         \E row \in Found(coin) : Says(row, column) = coin.value[column]
  /\ coin.source.fine = "weight" =>
       coin.value.fine = FineWeight(coin.value.gross, coin.value.fineness)

(* "Raise a 422 if the edit leaves an item with more fine weight than      *)
(* gross" (inventory.py:2718): no edit ends in an error of the database.   *)
SavesAreAnswered == answer.result # "error"

=============================================================================
