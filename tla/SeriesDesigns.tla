---------------------------- MODULE SeriesDesigns ----------------------------
(***************************************************************************)
(* Which design series the facts give a coin or a note:                    *)
(* backend/app/series_classify.py.                                         *)
(*                                                                         *)
(* A design is issued at its denominations, in its years and, for a note,  *)
(* under its series letters.  What a text says is the set of designs it    *)
(* names, as series_match reads it.  A span is [denomination, from, to,     *)
(* letters]: `to' is OpenEnded for a design still issued, and no letters   *)
(* at all allow any.                                                       *)
(***************************************************************************)
EXTENDS Compositions

CONSTANT Designs  \* [code, side, needsEvidence, seal, class, spans]

DesignCoded(code) == {d \in Designs : d.code = code}

(* SeriesYearRange.allows_letter *)
AllowsLetter(letters, letter) == letters = {} \/ letter \in letters

(* Design.covers *)
Covers(d, denomination, year, letter) ==
  \E span \in d.spans :
    /\ span.denomination = denomination
    /\ span.from <= year
    /\ span.to # OpenEnded => year <= span.to
    /\ AllowsLetter(span.letters, letter)

(* candidates: no facts, no candidate *)
CandidatesFor(side, denomination, year, letter) ==
  {d \in Designs : /\ d.side = side
                   /\ denomination # NoCode /\ year # 0
                   /\ Covers(d, denomination, year, letter)}

Codes(designs) == {d.code : d \in designs}

(* A candidate that needs evidence has it: a text names it, or the seal or *)
(* the class of the note is its own.                                       *)
HasEvidence(d, named, seal, class) ==
  \/ ~d.needsEvidence
  \/ d.code \in named
  \/ seal # NoCode /\ d.seal = seal
  \/ class # NoCode /\ d.class = class

OfClass(candidates, class) ==
  {d \in candidates : class = NoCode \/ d.class \in {NoCode, class}}

(* decide: the one design an item is, as a set of at most one. *)
DesignOf(candidates, named, seal, lotNamed, class) ==
  LET possible == OfClass(candidates, class)
      said     == named \cap Codes(Designs)
      eligible == {d \in possible : HasEvidence(d, said, seal, class)}
      hinted   == {d \in possible \ eligible : d.code \in lotNamed}
      chosen   == {d \in eligible : d.code \in said}
  IN  IF said # {} /\ said \cap Codes(possible) = {} THEN {}
      ELSE IF hinted # {} THEN {}
      ELSE IF Cardinality(eligible) = 1 THEN eligible
      ELSE IF Cardinality(chosen) = 1 THEN chosen ELSE {}

(* _rules_out, and _stale: no design, no facts, or facts that rule it out. *)
RulesOut(d, side, denomination, year, letter, class) ==
  \/ d.class # NoCode /\ class # NoCode /\ d.class # class
  \/ d.side # side
  \/ ~Covers(d, denomination, year, letter)

SeriesUnsupported(series, side, denomination, year, letter, class) ==
  \/ DesignCoded(series) = {} \/ denomination = NoCode \/ year = 0
  \/ \E d \in DesignCoded(series) :
       RulesOut(d, side, denomination, year, letter, class)

(* refresh_series: a series of the machine's own the facts rule out is     *)
(* taken back, and an empty one given where they come to one design.       *)
SeriesRefreshed(c, side, year, letter, seal, class) ==
  LET denomination == c.facts.denomination
      stale  == /\ c.source.series \in {"series", "suggestion"}
                /\ ~IsEmpty(c, "series")
                /\ SeriesUnsupported(c.value.series, side, denomination, year,
                                     letter, class)
      after  == IF stale THEN [c EXCEPT !.value.series = NoCode,
                                        !.source.series = "none"] ELSE c
      design == DesignOf(CandidatesFor(side, denomination, year, letter),
                         c.facts.said, seal, {}, class)
  IN  IF ~IsEmpty(after, "series") \/ after.source.series = "held"
           \/ design = {}
      THEN after
      ELSE [after EXCEPT !.value.series = (CHOOSE d \in design : TRUE).code,
                         !.source.series = "series"]

=============================================================================
