---------------------------- MODULE Compositions -----------------------------
(***************************************************************************)
(* What a coin is made of: backend/app/composition.py.                     *)
(*                                                                         *)
(* A composition row is [set, design, denomination, from, to, metal,       *)
(* fineness, gross, fine].  An answer is a set of at most one row.         *)
(***************************************************************************)
EXTENDS FieldSources

CONSTANTS CompositionRows,  \* the rows of the composition table
          SeriesRuns        \* [design -> the runs it was first struck in]

(* The last year of a row, or of a run, still struck; and no year at all. *)
OpenEnded == 0

(* An answer only where there is exactly one. *)
TheOne(rows) == IF Cardinality(rows) = 1 THEN rows ELSE {}

(* A row covers a run of years, and one merely reaches into it: _set_rows. *)
CoversYears(c, first, last) ==
  /\ c.from <= first
  /\ c.to # OpenEnded => last # OpenEnded /\ last <= c.to

ReachesYears(c, first, last) ==
  /\ last # OpenEnded => c.from <= last
  /\ c.to # OpenEnded => first <= c.to

(* The rows a set has of its own, for the coin's denomination or design. *)
SetRows(q, set) ==
  {c \in CompositionRows :
     /\ c.set # NoCode /\ set \in {NoCode, c.set}
     /\ \/ q.denomination # NoCode /\ c.denomination = q.denomination
        \/ q.series # NoCode /\ c.design = q.series
     /\ ReachesYears(c, q.first, q.last)}

OwnDesign(c, q) ==
  /\ c.design = q.series
  /\ \/ NoCode \in {c.denomination, q.denomination}
     \/ c.denomination = q.denomination

Latest(rows) == {c \in rows : \A d \in rows : d.from <= c.from}

(* composition_of, of a coin in no set: its design's own row before its    *)
(* denomination's, and of those the one that began last.                   *)
EveryCoins(q) ==
  LET covering == {c \in CompositionRows :
                     c.set = NoCode /\ CoversYears(c, q.first, q.last)}
      own == {c \in covering : q.series # NoCode /\ OwnDesign(c, q)}
  IN  IF own # {} THEN TheOne(own)
      ELSE IF q.denomination = NoCode THEN {}
      ELSE Latest({c \in covering : c.design = NoCode
                                    /\ c.denomination = q.denomination})

(* composition_of: a set's own rows where it has them; a proof with no set *)
(* recorded could be either, and the metal recorded on it chooses.         *)
CompositionOf(q) ==
  LET reaching == SetRows(q, IF q.setUnknown THEN NoCode ELSE q.set)
      covering == {c \in reaching : CoversYears(c, q.first, q.last)}
  IN  IF (q.set = NoCode /\ ~q.setUnknown) \/ reaching = {} THEN EveryCoins(q)
      ELSE IF ~q.setUnknown THEN TheOne(covering)
      ELSE IF q.metal = NoCode THEN {}
      ELSE TheOne({c \in covering \cup EveryCoins(q) : c.metal = q.metal})

(* composition_of_series: a coin with no year, where every run its design  *)
(* was struck in says the same.                                            *)
OfEveryRun(found) == IF {} \in found THEN {} ELSE TheOne(UNION found)

CompositionOfSeries(q) ==
  LET runs == {r \in SeriesRuns[q.series] :
                 NoCode \in {q.denomination, r.denomination}
                   \/ r.denomination = q.denomination}
      OfRun(r) ==
        CompositionOf([q EXCEPT !.first = r.from, !.last = r.to,
                                !.denomination = IF @ = NoCode
                                                 THEN r.denomination ELSE @])
  IN  OfEveryRun({OfRun(r) : r \in runs})

=============================================================================
