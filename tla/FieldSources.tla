---------------------------- MODULE FieldSources -----------------------------
(***************************************************************************)
(* Who a column's value is from, and what the machine may do with it:      *)
(* backend/app/field_sources.py, and `decide' and `apply' of               *)
(* classifier_defaults.py.                                                 *)
(*                                                                         *)
(* A record holds [value, source], each over its columns.  A source of     *)
(* "none" is no record: a person's value, or the data's.  "held" is a      *)
(* column a person emptied; anything else is the rule that filled it.      *)
(***************************************************************************)
EXTENDS Integers, FiniteSets

NoCode == "none"
NoWeight == 0

Weights == {"fineness", "gross", "fine"}
Nothing(column) == IF column \in Weights THEN NoWeight ELSE NoCode

IsEmpty(c, column) == c.value[column] = Nothing(column)
IsMine(c, k) == c.source[k] \notin {"none", "held"}

(* decide: "a person's value, or the data's: never touched" *)
FillableHeld(c, column) ==                             \* a plausible bug
  c.source[column] # "none" \/ IsEmpty(c, column)
Fillable(c, column) ==
  /\ c.source[column] # "held"
  /\ IsMine(c, column) \/ IsEmpty(c, column)

(* decide: a column is written where one value is allowed, and a value of  *)
(* the machine's own is taken back where it is allowed no longer.          *)
Decided(c, options, rule) ==
  LET mayFill == {k \in DOMAIN options : Fillable(c, k)}
      only    == {k \in mayFill : Cardinality(options[k]) = 1
                                    /\ options[k] # {Nothing(k)}}
      TheOnly(k) == CHOOSE v \in options[k] : TRUE
  IN  [writes |-> [k \in {w \in only : TheOnly(w) # c.value[w]} |->
                     [value |-> TheOnly(k), rule |-> rule]],
       retracts |-> {k \in mayFill \ only :
                       /\ IsMine(c, k) /\ ~IsEmpty(c, k)
                       /\ c.value[k] \notin options[k]}]

(* _retract *)
TakenBack(c, columns) ==
  [writes |-> <<>>,
   retracts |-> {k \in columns : IsMine(c, k) /\ ~IsEmpty(c, k)}]

(* A column as an outcome leaves it. *)
After(c, out, column) ==
  IF column \in DOMAIN out.writes THEN out.writes[column].value
  ELSE IF column \in out.retracts THEN Nothing(column) ELSE c.value[column]

(* apply: a retraction takes the record with it, a write records its rule. *)
Applied(c, out) ==
  [c EXCEPT !.value = [k \in DOMAIN @ |-> After(c, out, k)],
            !.source = [k \in DOMAIN @ |->
                          IF k \in DOMAIN out.writes THEN out.writes[k].rule
                          ELSE IF k \in out.retracts THEN "none" ELSE @[k]]]

(* What a request sends replaces what was there: the record goes, and a    *)
(* column sent empty is held (forget, hold, _emptied).                     *)
Typed(c, data) ==
  [c EXCEPT !.value = [k \in DOMAIN @ |->
                         IF k \in DOMAIN data THEN data[k] ELSE @[k]],
            !.source = [k \in DOMAIN @ |->
                          IF k \notin DOMAIN data THEN @[k]
                          ELSE IF data[k] = Nothing(k) THEN "held" ELSE "none"]]

(* A new item: what was typed, and which of it was a suggestion left alone. *)
EnteredAs(blank, data, suggested) ==
  [blank EXCEPT !.value = [k \in DOMAIN @ |->
                             IF k \in DOMAIN data THEN data[k] ELSE @[k]],
                !.source = [k \in DOMAIN @ |->
                              IF k \in suggested THEN "suggestion" ELSE @[k]]]

(* A value of a person's, or of the data's, or a column a person emptied. *)
Persons(c, column) ==
  c.source[column] = "held" \/ (c.source[column] = "none" /\ ~IsEmpty(c, column))

=============================================================================
