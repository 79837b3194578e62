------------------------------- MODULE ItemProofs -------------------------------
(*****************************************************************************)
(* What holds of an item as it is edited, proved for every kind, year, fact  *)
(* and field.  Of the detail row and the dates of an item: they fit its      *)
(* kind, and a change of kind drops nothing it does not name.  Of the open   *)
(* forms, for any number of them on any number of items: the log tells what  *)
(* was stored, a form only advances, and where nobody types while a save is  *)
(* out, edits merge and nothing is overwritten unseen.  Of what is filled in *)
(* for a coin and a note: what a person said stands.  And of the vocabulary  *)
(* an item names: edits and merges that lock as they do lose nothing.        *)
(*****************************************************************************)
EXTENDS ItemKinds, OpenForms, NoteDefaults, Vocabulary, TLAPS

-----------------------------------------------------------------------------
(* The kind of an item: what each step of a save leaves.                   *)

\* An item's columns and its detail row.
KindColumns == Sided \cup {"kind", "start", "end", "noDate", "row"}

\* The detail row is of the kind, and a serial is a note's or bullion's.
RowFits(it) ==
  /\ (it.row.table = "currency") = (it.kind = "currency")
  /\ it.kind = "coin" => it.row.serial = Empty

\* Dates that make sense.
DatesFit(it) ==
  /\ ~Backwards(<<it.start, it.end>>)
  /\ it.noDate => it.start = NoYear /\ it.end = NoYear
  /\ IsNote(it) => it.start = NoYear /\ it.end = NoYear /\ ~it.noDate

\* The inductive fact about an item.
ItemFits(it) ==
  /\ DOMAIN it = KindColumns
  /\ it.kind \in ItemKind
  /\ it.start \in Int /\ it.end \in Int
  /\ it.noDate \in BOOLEAN
  /\ it.row \in Rows
  /\ RowFits(it)
  /\ \A f \in Sided : Fits(it[f], it.kind)
  /\ DatesFit(it)

\* What a save that names neither a serial nor a note's facts keeps.
NothingDropped(it, after) ==
  /\ after.row.serial = it.row.serial
  /\ IsNote(it) /\ it.row.own => IsNote(after) /\ after.row.own

\* An item is as its kind lets it be, and a save not yet written would leave
\* it so, as long as the item is the one that save read.
KindsInvariant ==
  /\ ItemFits(item)
  /\ stale \in BOOLEAN
  /\ \A w \in late : ~stale =>
       /\ ItemFits(Laid(w.set, item))
       /\ w.names \/ NothingDropped(item, Laid(w.set, item))

\* What a request may carry.
WellSent(data) ==
  /\ Sent(data, "kind") => data.kind \in ItemKind
  /\ Sent(data, "serial") => data.serial \in Serial \cup {Empty}
  /\ Sent(data, "start") => data.start \in Int
  /\ Sent(data, "end") => data.end \in Int
  /\ Sent(data, "noDate") => data.noDate \in BOOLEAN
  /\ Sent(data, "facts") => data.facts \in BOOLEAN
  /\ Sent(data, "mint") => data.mint \in BOOLEAN

\* Two items that differ at most in the columns C.
AlikeBut(it, after, C) ==
  /\ DOMAIN after = DOMAIN it
  /\ \A f \in DOMAIN it \ C : after[f] = it[f]

\* A map is what it is at each of its names.
IsMap(it) == it = [f \in DOMAIN it |-> it[f]]

\* The columns' names are apart from the sided fields'.
LEMMA ColumnsApart ==
    /\ "kind" \notin Sided /\ "start" \notin Sided /\ "end" \notin Sided
    /\ "noDate" \notin Sided /\ "row" \notin Sided
BY KindsAssumption DEF KindsAssumption

\* A map laid over another.
LEMMA LaidIs ==
    ASSUME NEW c, NEW it
    PROVE  /\ DOMAIN Laid(c, it) = DOMAIN c \cup DOMAIN it
           /\ \A f \in DOMAIN c : Laid(c, it)[f] = c[f]
           /\ \A f \in DOMAIN it \ DOMAIN c : Laid(c, it)[f] = it[f]
BY Zenon DEF Laid

LEMMA OnlyIs ==
    ASSUME NEW f, NEW v
    PROVE  DOMAIN Only(f, v) = {f} /\ Only(f, v)[f] = v
BY Zenon DEF Only

LEMMA NoneIs == DOMAIN <<>> = {}
OBVIOUS

\* The new row of an item.
LEMMA RowSet ==
    ASSUME NEW it, NEW r, "row" \in DOMAIN it,
           NEW y, y = [it EXCEPT !.row = r]
    PROVE  AlikeBut(it, y, {"row"}) /\ y.row = r
BY Zenon DEF AlikeBut

\* The rows, and what they hold.
LEMMA CoinRowIs ==
    ASSUME NEW m \in BOOLEAN, NEW s \in Serial \cup {Empty}
    PROVE  /\ CoinRow(m, s) \in Rows
           /\ CoinRow(m, s).table = "coin"
           /\ CoinRow(m, s).serial = s
           /\ CoinRow(m, s).own = m
BY DEF CoinRow, Rows

LEMMA NoteRowIs ==
    ASSUME NEW m \in BOOLEAN, NEW s \in Serial \cup {Empty}
    PROVE  /\ NoteRow(m, s) \in Rows
           /\ NoteRow(m, s).table = "currency"
           /\ NoteRow(m, s).serial = s
           /\ NoteRow(m, s).own = m
BY DEF NoteRow, Rows

LEMMA RowsHold ==
    ASSUME NEW r \in Rows
    PROVE  /\ r.table \in {"coin", "currency"}
           /\ r.own \in BOOLEAN
           /\ r.serial \in Serial \cup {Empty}
BY DEF Rows

\* The classifiers a request writes, and the columns it leaves.
LEMMA ClassifiersAre ==
    ASSUME NEW it, DOMAIN it = KindColumns, NEW data
    PROVE  LET c == ClassifiersSet(data, it)
           IN  /\ DOMAIN c = KindColumns
               /\ c.kind = KindAfter(data, it)
               /\ c.start = it.start /\ c.end = it.end
               /\ c.noDate = it.noDate /\ c.row = it.row
               /\ \A f \in Sided : c[f] = ValueAfter(data, it, f)
<1> DEFINE c == ClassifiersSet(data, it)
<1>1. /\ DOMAIN c = KindColumns
      /\ \A f \in KindColumns : c[f] = IF f \in Sided \cup {"kind"} /\ Sent(data, f)
                                   THEN data[f] ELSE it[f]
  BY Zenon DEF ClassifiersSet
<1>2. /\ "kind" \in KindColumns /\ "start" \in KindColumns /\ "end" \in KindColumns
      /\ "noDate" \in KindColumns /\ "row" \in KindColumns /\ Sided \subseteq KindColumns
  BY DEF KindColumns
<1> HIDE DEF c
<1>3. c.kind = KindAfter(data, it)
  BY <1>1, <1>2, Zenon DEF KindAfter
<1>4. \A f \in Sided : c[f] = ValueAfter(data, it, f)
  BY <1>1, <1>2, Zenon DEF ValueAfter
<1>5. c.start = it.start /\ c.end = it.end
  BY <1>1, <1>2, ColumnsApart
<1>6. c.noDate = it.noDate /\ c.row = it.row
  BY <1>1, <1>2, ColumnsApart
<1> QED BY <1>1, <1>3, <1>4, <1>5, <1>6 DEF c

\* The kind of an item whose row alone differs is the same, and so is all
\* the item holds besides.
LEMMA RowAside ==
    ASSUME NEW it, NEW y, AlikeBut(it, y, {"row"}), DOMAIN it = KindColumns
    PROVE  /\ DOMAIN y = KindColumns
           /\ y.kind = it.kind
           /\ y.start = it.start /\ y.end = it.end /\ y.noDate = it.noDate
           /\ \A f \in Sided : y[f] = it[f]
<1>1. /\ "kind" \in KindColumns /\ "start" \in KindColumns /\ "end" \in KindColumns
      /\ "noDate" \in KindColumns /\ Sided \subseteq KindColumns \ {"row"}
  BY ColumnsApart DEF KindColumns
<1> QED BY <1>1 DEF AlikeBut

\* What a coin's own fields make of an item's row.
LEMMA CoinDetailIs ==
    ASSUME NEW it, DOMAIN it = KindColumns, it.row \in Rows,
           NEW data, WellSent(data), NEW b \in BOOLEAN,
           b => Sent(data, "serial"),
           NEW y, y = CoinDetailSet(data, it, b)
    PROVE  /\ AlikeBut(it, y, {"row"})
           /\ y.row \in Rows
           /\ y.row.table = it.row.table
           /\ it.row.table = "currency" => y.row = it.row
           /\ y.row.serial = IF b /\ it.row.table = "coin" THEN data.serial
                             ELSE it.row.serial
<1> DEFINE m == IF Sent(data, "mint") THEN data.mint ELSE it.row.own
           s == IF b THEN data.serial ELSE it.row.serial
<1>1. m \in BOOLEAN
  BY RowsHold, Zenon DEF WellSent
<1>2. s \in Serial \cup {Empty}
  BY RowsHold, Zenon DEF WellSent
<1>3. "row" \in DOMAIN it
  BY DEF KindColumns
<1>4. CASE it.row.table = "currency"
  <2>1. y = it
    BY <1>4, Zenon DEF CoinDetailSet
  <2> QED BY <1>4, <2>1 DEF AlikeBut
<1>5. CASE it.row.table # "currency"
  <2>1. y = [it EXCEPT !.row = CoinRow(m, s)]
    BY <1>5, Zenon DEF CoinDetailSet
  <2> HIDE DEF m
  <2>2. AlikeBut(it, y, {"row"}) /\ y.row = CoinRow(m, s)
    BY <1>3, <2>1, RowSet
  <2>3. CoinRow(m, s) \in Rows /\ CoinRow(m, s).table = "coin"
          /\ CoinRow(m, s).serial = s
    BY <1>1, <1>2, CoinRowIs
  <2>4. it.row.table = "coin"
    BY <1>5, RowsHold
  <2> QED BY <1>5, <2>2, <2>3, <2>4
<1> QED BY <1>4, <1>5

\* What a note's own fields make of it.
LEMMA NoteChangedIs ==
    ASSUME NEW it, DOMAIN it = KindColumns, it.row \in Rows,
           NEW data, WellSent(data), NEW b \in BOOLEAN,
           b => Sent(data, "serial"),
           NEW y \in NoteChanged(data, it, b)
    PROVE  /\ AlikeBut(it, y, {"row"})
           /\ y.row \in Rows
           /\ y.row.table = it.row.table
           /\ b => it.row.table = "currency"
           /\ ~b => y.row.serial = it.row.serial
           /\ ~b /\ ~Sent(data, "facts") => y = it
<1> DEFINE m == IF Sent(data, "facts") THEN data.facts ELSE it.row.own
           s == IF b THEN data.serial ELSE it.row.serial
<1>1. m \in BOOLEAN
  BY RowsHold, Zenon DEF WellSent
<1>2. s \in Serial \cup {Empty}
  BY RowsHold, Zenon DEF WellSent
<1>3. "row" \in DOMAIN it
  BY DEF KindColumns
<1>4. CASE ~Sent(data, "facts") /\ ~b
  <2>1. y = it
    BY <1>4, Zenon DEF NoteChanged
  <2> QED BY <1>4, <2>1 DEF AlikeBut
<1>5. CASE Sent(data, "facts") \/ b
  <2>1. it.row.table = "currency" /\ y = [it EXCEPT !.row = NoteRow(m, s)]
    <3>1. y \in IF it.row.table # "currency" THEN {}
                ELSE {[it EXCEPT !.row = NoteRow(m, s)]}
      BY <1>5, Zenon DEF NoteChanged
    <3> HIDE DEF m, s
    <3> QED BY <3>1, Zenon
  <2> HIDE DEF m
  <2>2. AlikeBut(it, y, {"row"}) /\ y.row = NoteRow(m, s)
    BY <1>3, <2>1, RowSet
  <2>3. NoteRow(m, s) \in Rows /\ NoteRow(m, s).table = "currency"
          /\ NoteRow(m, s).serial = s
    BY <1>1, <1>2, NoteRowIs
  <2> QED BY <1>5, <2>1, <2>2, <2>3
<1> QED BY <1>4, <1>5

\* What a kind makes of it.
LEMMA MatchedIs ==
    ASSUME NEW it, DOMAIN it = KindColumns, it.kind \in ItemKind, it.row \in Rows,
           NEW y \in Matched(it)
    PROVE  /\ AlikeBut(it, y, {"row"})
           /\ y.row \in Rows
           /\ RowFits(y)
           /\ y.row.serial = it.row.serial
           /\ it.row.table = "currency" /\ it.row.own =>
                y.row.table = "currency" /\ y.row.own
<1>1. it.row.table \in {"coin", "currency"} /\ it.row.own \in BOOLEAN
        /\ it.row.serial \in Serial \cup {Empty}
  BY RowsHold
<1>2. "row" \in DOMAIN it
  BY DEF KindColumns
<1>3. CASE IsNote(it) = (it.row.table = "currency")
  <2>1. y = it /\ ~(it.kind = "coin" /\ it.row.serial # Empty)
    <3>1. y \in IF it.kind = "coin" /\ it.row.serial # Empty THEN {} ELSE {it}
      BY <1>3, Zenon DEF Matched
    <3> QED BY <3>1, Zenon
  <2>2. RowFits(it)
    BY <1>3, <2>1, Zenon DEF RowFits, IsNote
  <2> QED BY <2>1, <2>2, Zenon DEF AlikeBut
<1>4. CASE IsNote(it) # (it.row.table = "currency") /\ IsNote(it)
  <2>1. y = [it EXCEPT !.row = NoteRow(FALSE, it.row.serial)]
    BY <1>4, Zenon DEF Matched, Carried
  <2>2. AlikeBut(it, y, {"row"}) /\ y.row = NoteRow(FALSE, it.row.serial)
    BY <1>2, <2>1, RowSet
  <2>3. y.row \in Rows /\ y.row.table = "currency"
          /\ y.row.serial = it.row.serial
    <3>1. FALSE \in BOOLEAN
      OBVIOUS
    <3>2. /\ NoteRow(FALSE, it.row.serial) \in Rows
          /\ NoteRow(FALSE, it.row.serial).table = "currency"
          /\ NoteRow(FALSE, it.row.serial).serial = it.row.serial
      BY <1>1, <3>1, NoteRowIs, Zenon
    <3> QED BY <2>2, <3>2, Zenon
  <2>4. it.kind = "currency" /\ it.row.table # "currency" /\ y.kind = it.kind
    BY <1>4, <2>2, RowAside DEF IsNote
  <2>5. RowFits(y)
    BY <2>3, <2>4 DEF RowFits
  <2> QED BY <2>2, <2>3, <2>4, <2>5
<1>5. CASE IsNote(it) # (it.row.table = "currency") /\ ~IsNote(it)
  <2>1. /\ y = [it EXCEPT !.row = CoinRow(FALSE, it.row.serial)]
        /\ ~it.row.own
        /\ ~(it.kind = "coin" /\ it.row.serial # Empty)
    <3>1. y \in IF it.row.own \/ (it.kind = "coin" /\ it.row.serial # Empty)
                THEN {} ELSE {[it EXCEPT !.row = CoinRow(FALSE, it.row.serial)]}
      BY <1>5, Zenon DEF Matched, Carried
    <3> QED BY <3>1, Zenon
  <2>2. AlikeBut(it, y, {"row"}) /\ y.row = CoinRow(FALSE, it.row.serial)
    BY <1>2, <2>1, RowSet
  <2>3. y.row \in Rows /\ y.row.table = "coin"
          /\ y.row.serial = it.row.serial
    <3>1. FALSE \in BOOLEAN
      OBVIOUS
    <3>2. /\ CoinRow(FALSE, it.row.serial) \in Rows
          /\ CoinRow(FALSE, it.row.serial).table = "coin"
          /\ CoinRow(FALSE, it.row.serial).serial = it.row.serial
      BY <1>1, <3>1, CoinRowIs, Zenon
    <3> QED BY <2>2, <3>2, Zenon
  <2>4. it.kind # "currency" /\ y.kind = it.kind
    BY <1>5, <2>2, RowAside DEF IsNote
  <2>5. RowFits(y)
    BY <2>1, <2>3, <2>4 DEF RowFits
  <2> QED BY <2>1, <2>2, <2>3, <2>5
<1> QED BY <1>3, <1>4, <1>5

\* What both, in their order, make of it.
LEMMA NotesAndDetailIs ==
    ASSUME NEW it, DOMAIN it = KindColumns, it.kind \in ItemKind, it.row \in Rows,
           NEW data, WellSent(data), NEW b \in BOOLEAN,
           b => Sent(data, "serial"),
           NEW y \in NotesAndDetail(data, it, b)
    PROVE  /\ AlikeBut(it, y, {"row"})
           /\ y.row \in Rows
           /\ Sent(data, "kind") => RowFits(y)
           /\ ~Sent(data, "kind") => y.row.table = it.row.table
           /\ ~Sent(data, "kind") /\ b => it.row.table = "currency"
           /\ ~b => y.row.serial = it.row.serial
           /\ ~b /\ ~Sent(data, "facts")
                /\ it.row.table = "currency" /\ it.row.own =>
                y.row.table = "currency" /\ y.row.own
<1>1. CASE ~Sent(data, "kind")
  <2>1. y \in NoteChanged(data, it, b)
    <3>1. y \in UNION {NoteChanged(data, x, b) : x \in {it}}
      BY <1>1, Zenon DEF NotesAndDetail
    <3> QED BY <3>1
  <2>2. /\ AlikeBut(it, y, {"row"})
        /\ y.row \in Rows
        /\ y.row.table = it.row.table
        /\ b => it.row.table = "currency"
        /\ ~b => y.row.serial = it.row.serial
        /\ ~b /\ ~Sent(data, "facts") => y = it
    BY <2>1, NoteChangedIs, Zenon
  <2> QED BY <1>1, <2>2, Zenon
<1>2. CASE Sent(data, "kind")
  <2> DEFINE asNote == IF IsNote(it) THEN Matched(it) ELSE {it}
             noted == UNION {NoteChanged(data, x, b) : x \in asNote}
  <2>1. y \in UNION {Matched(x) : x \in noted}
    BY <1>2, Zenon DEF NotesAndDetail
  <2>2. PICK m \in noted : y \in Matched(m)
    BY <2>1
  <2>3. PICK n \in asNote : m \in NoteChanged(data, n, b)
    BY <2>2
  <2>4. /\ AlikeBut(it, n, {"row"})
        /\ n.row \in Rows
        /\ n.row.serial = it.row.serial
        /\ it.row.table = "currency" /\ it.row.own =>
             n.row.table = "currency" /\ n.row.own
    <3>1. CASE IsNote(it)
      <4>1. n \in Matched(it)
        BY <2>3, <3>1, Zenon
      <4> QED BY <4>1, MatchedIs, Zenon
    <3>2. CASE ~IsNote(it)
      <4>1. n = it
        BY <2>3, <3>2, Zenon
      <4> QED BY <4>1, Zenon DEF AlikeBut
    <3> QED BY <3>1, <3>2
  <2> HIDE DEF asNote, noted
  <2>5. DOMAIN n = KindColumns /\ n.kind = it.kind
    BY <2>4, RowAside, Zenon
  <2>6. /\ AlikeBut(n, m, {"row"})
        /\ m.row \in Rows
        /\ ~b => m.row.serial = n.row.serial
        /\ ~b /\ ~Sent(data, "facts") => m = n
    <3>1. m \in NoteChanged(data, n, b)
      BY <2>3
    <3>2. n.row \in Rows /\ b \in BOOLEAN /\ (b => Sent(data, "serial"))
      BY <2>4
    <3>3. /\ AlikeBut(n, m, {"row"})
          /\ m.row \in Rows
          /\ m.row.table = n.row.table
          /\ b => n.row.table = "currency"
          /\ ~b => m.row.serial = n.row.serial
          /\ ~b /\ ~Sent(data, "facts") => m = n
      BY <2>5, <3>1, <3>2, NoteChangedIs, Zenon
    <3> QED BY <3>3, Zenon
  <2>7. DOMAIN m = KindColumns /\ m.kind = it.kind
    <3>1. AlikeBut(n, m, {"row"}) /\ DOMAIN n = KindColumns /\ n.kind = it.kind
      BY <2>5, <2>6, Zenon
    <3> HIDE <2>5, <2>6
    <3>2. DOMAIN m = KindColumns /\ m.kind = n.kind
      BY <3>1, RowAside
    <3> QED BY <3>1, <3>2, Zenon
  <2>8. /\ AlikeBut(m, y, {"row"})
        /\ y.row \in Rows
        /\ RowFits(y)
        /\ y.row.serial = m.row.serial
        /\ m.row.table = "currency" /\ m.row.own =>
             y.row.table = "currency" /\ y.row.own
    BY <2>2, <2>6, <2>7, MatchedIs, Zenon
  <2>9. AlikeBut(it, y, {"row"})
    BY <2>4, <2>6, <2>8 DEF AlikeBut
  <2> QED BY <1>2, <2>4, <2>6, <2>8, <2>9, Zenon
<1> QED BY <1>1, <1>2

\* What is neither sent nor carried against the kind fits it.
LEMMA SidedAfter ==
    ASSUME NEW it, ItemFits(it), NEW data, WellSent(data),
           ~OfTheOtherKind(data, it)
    PROVE  /\ KindAfter(data, it) \in ItemKind
           /\ \A f \in Sided : Fits(ValueAfter(data, it, f), KindAfter(data, it))
<1>1. KindAfter(data, it) \in ItemKind
  BY Zenon DEF KindAfter, ItemFits, WellSent
<1>2. ASSUME NEW f \in Sided
      PROVE  Fits(ValueAfter(data, it, f), KindAfter(data, it))
  <2>1. CASE Asked(data, f)
    BY <1>2, <2>1, Zenon DEF OfTheOtherKind, Fits, NoteAfter
  <2>2. CASE ~Asked(data, f)
    <3>1. ValueAfter(data, it, f) = it[f] /\ KindAfter(data, it) = it.kind
      BY <2>2, Zenon DEF Asked, ValueAfter, KindAfter
    <3> QED BY <1>2, <3>1, Zenon DEF ItemFits
  <2> QED BY <2>1, <2>2
<1> QED BY <1>1, <1>2

\* The years a save leaves are numbers, and a note has none.
LEMMA YearsAre ==
    ASSUME NEW it, ItemFits(it), NEW data, WellSent(data), NEW u \in BOOLEAN
    PROVE  /\ \E a, b \in Int : YearsAfter(data, it, u) = <<a, b>>
           /\ NoteAfter(data, it) \/ u => YearsAfter(data, it, u) = <<NoYear, NoYear>>
<1>1. NoteAfter(data, it) \/ u => YearsAfter(data, it, u) = <<NoYear, NoYear>>
  BY Zenon DEF YearsAfter
<1>2. NoYear \in Int
  BY DEF NoYear
<1>3. ASSUME ~(NoteAfter(data, it) \/ u)
      PROVE  \E a, b \in Int : YearsAfter(data, it, u) = <<a, b>>
  <2> DEFINE a == IF Sent(data, "start") THEN data.start ELSE it.start
             b == IF Sent(data, "end") THEN data.end
                  ELSE IF Sent(data, "start") /\ Single(it) THEN a ELSE it.end
  <2>1. YearsAfter(data, it, u) = <<a, b>>
    BY <1>3, Zenon DEF YearsAfter, Resolved
  <2>2. a \in Int
    BY Zenon DEF ItemFits, WellSent
  <2>3. b \in Int
    BY <2>2, Zenon DEF ItemFits, WellSent
  <2> QED BY <2>1, <2>2, <2>3, Zenon
<1> QED BY <1>1, <1>2, <1>3, Zenon

LEMMA ExceptIsMap ==
    ASSUME NEW x, NEW a, NEW b, NEW v, NEW y,
           y = [x EXCEPT !.start = a, !.end = b, !.noDate = v]
    PROVE  IsMap(y)
BY Zenon DEF IsMap

\* The dates written on an item make sense.
LEMMA DatedFits ==
    ASSUME NEW x, DOMAIN x = KindColumns, NEW u \in BOOLEAN, NEW a \in Int,
           NEW b \in Int, u => a = NoYear /\ b = NoYear,
           IsNote(x) => ~u /\ a = NoYear /\ b = NoYear,
           NEW after \in Dated(x, <<a, b>>, u)
    PROVE  /\ AlikeBut(x, after, {"start", "end", "noDate"})
           /\ after.start \in Int /\ after.end \in Int
           /\ after.noDate \in BOOLEAN
           /\ DatesFit(after)
           /\ IsMap(after)
<1>1. ~Backwards(<<a, b>>)
        /\ after = [x EXCEPT !.start = a, !.end = b, !.noDate = u]
  <2> DEFINE z == [x EXCEPT !.start = <<a, b>>[1], !.end = <<a, b>>[2],
                            !.noDate = u]
  <2>1. after \in IF Backwards(<<a, b>>) THEN {} ELSE {z}
    BY Zenon DEF Dated
  <2>2. <<a, b>>[1] = a /\ <<a, b>>[2] = b
    OBVIOUS
  <2> HIDE DEF z
  <2>3. ~Backwards(<<a, b>>) /\ after = z
    BY <2>1, Zenon
  <2> QED BY <2>2, <2>3, Zenon DEF z
<1>2. {"start", "end", "noDate"} \subseteq DOMAIN x
  BY DEF KindColumns
<1>3. /\ AlikeBut(x, after, {"start", "end", "noDate"})
      /\ after.start = a /\ after.end = b /\ after.noDate = u
  <2>1. ASSUME NEW v, after = [x EXCEPT !.start = a, !.end = b, !.noDate = v]
        PROVE  /\ AlikeBut(x, after, {"start", "end", "noDate"})
               /\ after.start = a /\ after.end = b /\ after.noDate = v
    BY <1>2, <2>1, Zenon DEF AlikeBut
  <2> QED BY <1>1, <2>1, Zenon
<1>4. after.kind = x.kind
  <2>1. "kind" \in DOMAIN x \ {"start", "end", "noDate"}
    BY DEF KindColumns
  <2> QED BY <1>3, <2>1, Zenon DEF AlikeBut
<1>5. DatesFit(after)
  BY <1>1, <1>3, <1>4, Zenon DEF DatesFit, IsNote
<1>6. IsMap(after)
  <2>1. ASSUME NEW v, after = [x EXCEPT !.start = a, !.end = b, !.noDate = v]
        PROVE  IsMap(after)
    BY <2>1, ExceptIsMap, Zenon
  <2> QED BY <1>1, <2>1, Zenon
<1> QED BY <1>3, <1>5, <1>6, Zenon

\* An item put together from a row that fits, sided fields that fit, and
\* dates that make sense, is as its kind lets it be.
LEMMA FitsTogether ==
    ASSUME NEW x, DOMAIN x = KindColumns, x.kind \in ItemKind, x.row \in Rows,
           RowFits(x), \A f \in Sided : Fits(x[f], x.kind),
           NEW after, AlikeBut(x, after, {"start", "end", "noDate"}),
           after.start \in Int, after.end \in Int,
           after.noDate \in BOOLEAN, DatesFit(after)
    PROVE  ItemFits(after) /\ after.kind = x.kind /\ after.row = x.row
<1>1. /\ "kind" \in KindColumns \ {"start", "end", "noDate"}
      /\ "row" \in KindColumns \ {"start", "end", "noDate"}
      /\ Sided \subseteq KindColumns \ {"start", "end", "noDate"}
  BY ColumnsApart DEF KindColumns
<1>2. after.kind = x.kind /\ after.row = x.row
        /\ \A f \in Sided : after[f] = x[f]
  BY <1>1, Zenon DEF AlikeBut
<1>3. DOMAIN after = KindColumns
  BY Zenon DEF AlikeBut
<1>4. RowFits(after)
  BY <1>2, Zenon DEF RowFits
<1> QED BY <1>2, <1>3, <1>4, Zenon DEF ItemFits

\* A boolean that a request's parts make.
LEMMA NoDateAfterIs ==
    ASSUME NEW it, ItemFits(it), NEW data, WellSent(data)
    PROVE  NoDateAfter(data, it) \in BOOLEAN
BY Zenon DEF NoDateAfter

\* update_item leaves an item as its kind lets it be, and what it does not
\* name where it was.
LEMMA SavedEditFits ==
    ASSUME NEW it, ItemFits(it), NEW data, WellSent(data),
           NEW after \in SavedEdit(data, it)
    PROVE  /\ ItemFits(after) /\ IsMap(after)
           /\ Names(data) \/ NothingDropped(it, after)
<1> DEFINE coinSerial == ToTheCoinRow(data, it)
           noteSerial == Sent(data, "serial") /\ ~coinSerial
           undated    == NoDateAfter(data, it)
           classified == ClassifiersSet(data, it)
           cleared    == CoinDetailSet(data, classified, coinSerial)
           noted      == NotesAndDetail(data, cleared, noteSerial)
           detailed   == {CoinDetailSet(data, x, coinSerial) : x \in noted}
           years      == YearsAfter(data, it, undated)
<1>1. /\ ~OfTheOtherKind(data, it) /\ ~DateRefused(data, it)
      /\ after \in UNION {Dated(x, years, undated) : x \in detailed}
  <2>1. after \in IF OfTheOtherKind(data, it) \/ MintOnANote(data, it)
                       \/ DateRefused(data, it)
                  THEN {}
                  ELSE UNION {Dated(x, years, undated) : x \in detailed}
    BY Zenon DEF SavedEdit
  <2> HIDE DEF detailed, years, undated
  <2> QED BY <2>1, Zenon
<1>2. PICK y \in detailed : after \in Dated(y, years, undated)
  BY <1>1
<1>3. PICK n \in noted : y = CoinDetailSet(data, n, coinSerial)
  BY <1>2
<1>4. /\ coinSerial \in BOOLEAN /\ noteSerial \in BOOLEAN
      /\ undated \in BOOLEAN
      /\ coinSerial => Sent(data, "serial")
      /\ noteSerial => Sent(data, "serial")
  BY NoDateAfterIs, Zenon DEF ToTheCoinRow
<1>5. coinSerial =>
        KindAfter(data, it) = "bullion"
          \/ (it.kind = "bullion" /\ KindAfter(data, it) # "currency")
  BY Zenon DEF ToTheCoinRow, NoteAfter
<1>6. /\ undated => ~NoteAfter(data, it)
  BY <1>1, Zenon DEF NoDateAfter, DateRefused
<1> HIDE DEF detailed, years, undated, noted
<1>7. /\ DOMAIN it = KindColumns /\ it.kind \in ItemKind /\ it.row \in Rows
      /\ RowFits(it)
  BY DEF ItemFits
<1>8. /\ KindAfter(data, it) \in ItemKind
      /\ \A f \in Sided : Fits(ValueAfter(data, it, f), KindAfter(data, it))
  BY <1>1, SidedAfter
<1>9. /\ DOMAIN classified = KindColumns
      /\ classified.kind = KindAfter(data, it)
      /\ classified.row = it.row
      /\ \A f \in Sided : classified[f] = ValueAfter(data, it, f)
  BY <1>7, ClassifiersAre
<1>10. /\ AlikeBut(classified, cleared, {"row"})
       /\ cleared.row \in Rows
       /\ cleared.row.table = it.row.table
       /\ it.row.table = "currency" => cleared.row = it.row
       /\ cleared.row.serial = IF coinSerial /\ it.row.table = "coin"
                               THEN data.serial ELSE it.row.serial
  <2> HIDE DEF classified, coinSerial
  <2> QED BY <1>4, <1>7, <1>9, CoinDetailIs
<1> HIDE DEF coinSerial, classified
<1>11. /\ DOMAIN cleared = KindColumns
       /\ cleared.kind = KindAfter(data, it)
       /\ \A f \in Sided : cleared[f] = ValueAfter(data, it, f)
  <2>1. AlikeBut(classified, cleared, {"row"}) /\ DOMAIN classified = KindColumns
    BY <1>9, <1>10
  <2>2. /\ DOMAIN cleared = KindColumns /\ cleared.kind = classified.kind
        /\ \A f \in Sided : cleared[f] = classified[f]
    BY <2>1, RowAside
  <2> QED BY <1>9, <2>2, Zenon
<1>12. /\ AlikeBut(cleared, n, {"row"})
       /\ n.row \in Rows
       /\ Sent(data, "kind") => RowFits(n)
       /\ ~Sent(data, "kind") => n.row.table = cleared.row.table
       /\ ~Sent(data, "kind") /\ noteSerial => cleared.row.table = "currency"
       /\ ~noteSerial => n.row.serial = cleared.row.serial
       /\ ~noteSerial /\ ~Sent(data, "facts")
            /\ cleared.row.table = "currency" /\ cleared.row.own =>
            n.row.table = "currency" /\ n.row.own
  <2> HIDE DEF cleared, noteSerial
  <2> QED BY <1>4, <1>8, <1>10, <1>11, NotesAndDetailIs DEF noted
<1> HIDE DEF cleared
<1>13. /\ DOMAIN n = KindColumns
       /\ n.kind = KindAfter(data, it)
       /\ \A f \in Sided : n[f] = ValueAfter(data, it, f)
  <2>1. AlikeBut(cleared, n, {"row"}) /\ DOMAIN cleared = KindColumns
    BY <1>11, <1>12
  <2>2. /\ DOMAIN n = KindColumns /\ n.kind = cleared.kind
        /\ \A f \in Sided : n[f] = cleared[f]
    BY <2>1, RowAside
  <2> QED BY <1>11, <2>2, Zenon
<1>14. /\ AlikeBut(n, y, {"row"})
       /\ y.row \in Rows
       /\ y.row.table = n.row.table
       /\ n.row.table = "currency" => y.row = n.row
       /\ y.row.serial = IF coinSerial /\ n.row.table = "coin"
                         THEN data.serial ELSE n.row.serial
  BY <1>3, <1>4, <1>12, <1>13, CoinDetailIs
<1>15. /\ DOMAIN y = KindColumns
       /\ y.kind = KindAfter(data, it)
       /\ \A f \in Sided : y[f] = ValueAfter(data, it, f)
  <2>1. AlikeBut(n, y, {"row"}) /\ DOMAIN n = KindColumns
    BY <1>13, <1>14
  <2>2. /\ DOMAIN y = KindColumns /\ y.kind = n.kind
        /\ \A f \in Sided : y[f] = n[f]
    BY <2>1, RowAside
  <2> QED BY <1>13, <2>2, Zenon
<1>16. RowFits(y)
  <2>1. CASE Sent(data, "kind")
    <3>1. (y.row.table = "currency") = (y.kind = "currency")
      BY <1>12, <1>13, <1>14, <1>15, <2>1, Zenon DEF RowFits
    <3>2. ASSUME y.kind = "coin"
          PROVE  y.row.serial = Empty
      <4>1. n.row.serial = Empty
        BY <1>12, <1>13, <1>15, <2>1, <3>2, Zenon DEF RowFits
      <4>2. CASE ~coinSerial
        BY <1>14, <4>1, <4>2, Zenon
      <4>3. CASE coinSerial
        <5>1. it.kind = "bullion"
          BY <1>5, <1>15, <3>2, <4>3
        <5>2. it.row.table = "coin"
          BY <1>7, <5>1, RowsHold DEF RowFits
        <5>3. cleared.row.serial = data.serial
          BY <1>10, <4>3, <5>2, Zenon
        <5>4. n.row.serial = cleared.row.serial
          BY <1>12, <4>3, Zenon
        <5> QED BY <1>14, <4>1, <5>3, <5>4, Zenon
      <4> QED BY <4>2, <4>3
    <3> QED BY <3>1, <3>2 DEF RowFits
  <2>2. CASE ~Sent(data, "kind")
    <3>1. KindAfter(data, it) = it.kind
      BY <2>2, Zenon DEF KindAfter
    <3>2. y.row.table = it.row.table
      BY <1>10, <1>12, <1>14, <2>2, Zenon
    <3>3. (y.row.table = "currency") = (y.kind = "currency")
      BY <1>7, <1>15, <3>1, <3>2, Zenon DEF RowFits
    <3>4. ASSUME y.kind = "coin"
          PROVE  y.row.serial = Empty
      <4>1. it.kind = "coin"
        BY <1>15, <3>1, <3>4
      <4>2. ~coinSerial
        BY <1>5, <3>1, <4>1
      <4>3. it.row.table # "currency" /\ it.row.serial = Empty
        BY <1>7, <4>1 DEF RowFits
      <4>4. cleared.row.serial = Empty
        BY <1>10, <4>2, <4>3, Zenon
      <4>5. ~noteSerial
        BY <1>10, <1>12, <2>2, <4>3, Zenon
      <4>6. n.row.serial = Empty
        BY <1>12, <4>4, <4>5, Zenon
      <4> QED BY <1>14, <4>2, <4>6, Zenon
    <3> QED BY <3>3, <3>4 DEF RowFits
  <2> QED BY <2>1, <2>2
<1>17. PICK a \in Int, b \in Int : years = <<a, b>>
  BY <1>4, YearsAre DEF years
<1>18. undated \/ NoteAfter(data, it) => a = NoYear /\ b = NoYear
  <2>1. undated \/ NoteAfter(data, it) => <<a, b>> = <<NoYear, NoYear>>
    BY <1>4, <1>17, YearsAre DEF years
  <2> QED BY <2>1
<1>19. IsNote(y) => ~undated /\ a = NoYear /\ b = NoYear
  <2>1. IsNote(y) => NoteAfter(data, it)
    BY <1>15, Zenon DEF IsNote, NoteAfter
  <2> QED BY <1>6, <1>18, <2>1, Zenon DEF undated
<1>20. /\ AlikeBut(y, after, {"start", "end", "noDate"})
       /\ after.start \in Int /\ after.end \in Int
       /\ after.noDate \in BOOLEAN
       /\ DatesFit(after)
       /\ IsMap(after)
  <2>1. after \in Dated(y, <<a, b>>, undated)
    BY <1>2, <1>17, Zenon
  <2>2. undated => a = NoYear /\ b = NoYear
    BY <1>18, Zenon
  <2> QED BY <1>4, <1>15, <1>19, <2>1, <2>2, DatedFits
<1>21. \A f \in Sided : Fits(y[f], y.kind)
  BY <1>8, <1>15, Zenon
<1>22. ItemFits(after) /\ after.kind = y.kind /\ after.row = y.row
  BY <1>8, <1>14, <1>15, <1>16, <1>20, <1>21, FitsTogether, Zenon
<1>23. ASSUME ~Names(data)
       PROVE  NothingDropped(it, after)
  <2>1. ~Sent(data, "serial") /\ ~Sent(data, "facts")
    BY <1>23, Zenon DEF Names
  <2>2. ~coinSerial /\ ~noteSerial
    BY <1>4, <2>1, Zenon
  <2>3. after.row.serial = it.row.serial
    BY <1>10, <1>12, <1>14, <1>22, <2>2, Zenon
  <2>4. ASSUME IsNote(it), it.row.own
        PROVE  IsNote(after) /\ after.row.own
    <3>1. it.row.table = "currency"
      BY <1>7, <2>4, Zenon DEF RowFits, IsNote
    <3>2. cleared.row = it.row
      BY <1>10, <3>1, Zenon
    <3>3. n.row.table = "currency" /\ n.row.own
      BY <1>12, <2>1, <2>2, <2>4, <3>1, <3>2, Zenon
    <3>4. after.row = n.row
      BY <1>14, <1>22, <3>3, Zenon
    <3>5. IsNote(after)
      BY <1>16, <1>22, <1>14, <3>3, Zenon DEF RowFits, IsNote
    <3> QED BY <3>3, <3>4, <3>5, Zenon
  <2> QED BY <2>3, <2>4, Zenon DEF NothingDropped
<1> QED BY <1>20, <1>22, <1>23

\* bulk_edit leaves an item as its kind lets it be, and what it does not
\* name where it was.
LEMMA BulkEditedFits ==
    ASSUME NEW it, ItemFits(it), NEW data, WellSent(data),
           NEW after \in BulkEdited(data, it)
    PROVE  /\ ItemFits(after) /\ IsMap(after)
           /\ Names(data) \/ NothingDropped(it, after)
<1> DEFINE years      == YearsAfter(data, it, FALSE)
           undated    == it.noDate /\ ~NoteAfter(data, it)
                           /\ years = <<NoYear, NoYear>>
           classified == ClassifiersSet(data, it)
           serialToo  == Sent(data, "serial")
           noted      == NotesAndDetail(data, classified, serialToo)
<1>1. /\ ~OfTheOtherKind(data, it)
      /\ after \in UNION {Dated(x, years, undated) : x \in noted}
  <2>1. after \in IF OfTheOtherKind(data, it)
                       \/ (YearsSent(data) /\ NoteAfter(data, it))
                  THEN {}
                  ELSE UNION {Dated(x, years, undated) : x \in noted}
    BY Zenon DEF BulkEdited
  <2> HIDE DEF noted, years, undated
  <2> QED BY <2>1, Zenon
<1>2. PICK n \in noted : after \in Dated(n, years, undated)
  BY <1>1
<1>3. undated \in BOOLEAN /\ serialToo \in BOOLEAN
  <2>1. undated \in BOOLEAN
    OBVIOUS
  <2>2. serialToo \in BOOLEAN
    BY DEF Sent
  <2> QED BY <2>1, <2>2
<1>4. undated => ~NoteAfter(data, it) /\ years = <<NoYear, NoYear>>
  BY Zenon
<1> HIDE DEF years, undated
<1>5. /\ DOMAIN it = KindColumns /\ it.kind \in ItemKind /\ it.row \in Rows
      /\ RowFits(it)
  BY DEF ItemFits
<1>6. /\ KindAfter(data, it) \in ItemKind
      /\ \A f \in Sided : Fits(ValueAfter(data, it, f), KindAfter(data, it))
  BY <1>1, SidedAfter
<1>7. /\ DOMAIN classified = KindColumns
      /\ classified.kind = KindAfter(data, it)
      /\ classified.row = it.row
      /\ \A f \in Sided : classified[f] = ValueAfter(data, it, f)
  BY <1>5, ClassifiersAre
<1> HIDE DEF classified
<1>8. /\ AlikeBut(classified, n, {"row"})
      /\ n.row \in Rows
      /\ Sent(data, "kind") => RowFits(n)
      /\ ~Sent(data, "kind") => n.row.table = it.row.table
      /\ ~Sent(data, "kind") /\ serialToo => it.row.table = "currency"
      /\ ~serialToo => n.row.serial = it.row.serial
      /\ ~serialToo /\ ~Sent(data, "facts")
           /\ it.row.table = "currency" /\ it.row.own =>
           n.row.table = "currency" /\ n.row.own
  <2>1. serialToo => Sent(data, "serial")
    OBVIOUS
  <2> HIDE DEF serialToo
  <2>2. classified.kind \in ItemKind /\ classified.row \in Rows
    BY <1>5, <1>6, <1>7
  <2>3. n \in NotesAndDetail(data, classified, serialToo)
    BY DEF noted
  <2>4. /\ AlikeBut(classified, n, {"row"})
        /\ n.row \in Rows
        /\ Sent(data, "kind") => RowFits(n)
        /\ ~Sent(data, "kind") => n.row.table = classified.row.table
        /\ ~Sent(data, "kind") /\ serialToo => classified.row.table = "currency"
        /\ ~serialToo => n.row.serial = classified.row.serial
        /\ ~serialToo /\ ~Sent(data, "facts")
             /\ classified.row.table = "currency" /\ classified.row.own =>
             n.row.table = "currency" /\ n.row.own
    BY <1>3, <1>7, <2>1, <2>2, <2>3, NotesAndDetailIs
  <2> QED BY <1>7, <2>4, Zenon
<1> HIDE DEF noted, serialToo
<1>9. /\ DOMAIN n = KindColumns
      /\ n.kind = KindAfter(data, it)
      /\ \A f \in Sided : n[f] = ValueAfter(data, it, f)
  <2>1. AlikeBut(classified, n, {"row"}) /\ DOMAIN classified = KindColumns
    BY <1>7, <1>8
  <2>2. /\ DOMAIN n = KindColumns /\ n.kind = classified.kind
        /\ \A f \in Sided : n[f] = classified[f]
    BY <2>1, RowAside
  <2> QED BY <1>7, <2>2, Zenon
<1>10. RowFits(n)
  <2>1. CASE ~Sent(data, "kind")
    <3>1. n.kind = it.kind
      BY <1>9, <2>1, Zenon DEF KindAfter
    <3>2. ASSUME n.kind = "coin"
          PROVE  n.row.serial = Empty
      <4>1. it.row.table # "currency" /\ it.row.serial = Empty
        BY <1>5, <3>1, <3>2 DEF RowFits
      <4> QED BY <1>8, <2>1, <4>1, Zenon
    <3>3. (n.row.table = "currency") = (n.kind = "currency")
      BY <1>5, <1>8, <2>1, <3>1, Zenon DEF RowFits
    <3> QED BY <3>2, <3>3 DEF RowFits
  <2> QED BY <1>8, <2>1
<1>11. PICK a \in Int, b \in Int : years = <<a, b>>
  <2>1. FALSE \in BOOLEAN
    OBVIOUS
  <2> QED BY <2>1, YearsAre, Zenon DEF years
<1>12. undated \/ NoteAfter(data, it) => a = NoYear /\ b = NoYear
  <2>1. NoteAfter(data, it) => years = <<NoYear, NoYear>>
    BY Zenon DEF years, YearsAfter
  <2>2. undated \/ NoteAfter(data, it) => <<a, b>> = <<NoYear, NoYear>>
    BY <1>4, <1>11, <2>1, Zenon
  <2> QED BY <2>2
<1>13. IsNote(n) => ~undated /\ a = NoYear /\ b = NoYear
  <2>1. IsNote(n) => NoteAfter(data, it)
    BY <1>9, Zenon DEF IsNote, NoteAfter
  <2> QED BY <1>4, <1>12, <2>1, Zenon
<1>14. /\ AlikeBut(n, after, {"start", "end", "noDate"})
       /\ after.start \in Int /\ after.end \in Int
       /\ after.noDate \in BOOLEAN
       /\ DatesFit(after)
       /\ IsMap(after)
  <2>1. after \in Dated(n, <<a, b>>, undated)
    BY <1>2, <1>11, Zenon
  <2>2. undated => a = NoYear /\ b = NoYear
    BY <1>12, Zenon
  <2> QED BY <1>3, <1>9, <1>13, <2>1, <2>2, DatedFits
<1>15. \A f \in Sided : Fits(n[f], n.kind)
  BY <1>6, <1>9, Zenon
<1>16. ItemFits(after) /\ after.kind = n.kind /\ after.row = n.row
  BY <1>6, <1>8, <1>9, <1>10, <1>14, <1>15, FitsTogether, Zenon
<1>17. ASSUME ~Names(data)
       PROVE  NothingDropped(it, after)
  <2>1. ~serialToo /\ ~Sent(data, "facts")
    BY <1>17, Zenon DEF Names, serialToo
  <2>2. after.row.serial = it.row.serial
    BY <1>8, <1>16, <2>1, Zenon
  <2>3. ASSUME IsNote(it), it.row.own
        PROVE  IsNote(after) /\ after.row.own
    <3>1. it.row.table = "currency"
      BY <1>5, <2>3, Zenon DEF RowFits, IsNote
    <3>2. n.row.table = "currency" /\ n.row.own
      BY <1>8, <2>1, <2>3, <3>1, Zenon
    <3>3. IsNote(after)
      BY <1>10, <1>16, <3>2, Zenon DEF RowFits, IsNote
    <3> QED BY <1>16, <3>2, <3>3, Zenon
  <2> QED BY <2>2, <2>3, Zenon DEF NothingDropped
<1> QED BY <1>14, <1>16, <1>17

\* What is laid over what, each well sent, is well sent.
LEMMA LaidWellSent ==
    ASSUME NEW a, WellSent(a), NEW b, WellSent(b)
    PROVE  WellSent(Laid(a, b))
<1> DEFINE d == Laid(a, b)
<1>1. ASSUME NEW f, NEW T, Sent(d, f), Sent(a, f) => a[f] \in T,
             Sent(b, f) => b[f] \in T
      PROVE  d[f] \in T
  <2>1. DOMAIN d = DOMAIN a \cup DOMAIN b
          /\ (f \in DOMAIN a => d[f] = a[f])
          /\ (f \in DOMAIN b \ DOMAIN a => d[f] = b[f])
    BY LaidIs
  <2> HIDE DEF d
  <2> QED BY <1>1, <2>1 DEF Sent
<1> HIDE DEF d
<1>2. Sent(d, "kind") => d.kind \in ItemKind
  BY <1>1, Zenon DEF WellSent
<1>3. Sent(d, "serial") => d.serial \in Serial \cup {Empty}
  BY <1>1, Zenon DEF WellSent
<1>4. Sent(d, "start") => d.start \in Int
  BY <1>1, Zenon DEF WellSent
<1>5. Sent(d, "end") => d.end \in Int
  BY <1>1, Zenon DEF WellSent
<1>6. Sent(d, "noDate") => d.noDate \in BOOLEAN
  BY <1>1, Zenon DEF WellSent
<1>7. Sent(d, "facts") => d.facts \in BOOLEAN
  BY <1>1, Zenon DEF WellSent
<1>8. Sent(d, "mint") => d.mint \in BOOLEAN
  BY <1>1, Zenon DEF WellSent
<1> QED BY <1>2, <1>3, <1>4, <1>5, <1>6, <1>7, <1>8, Zenon DEF WellSent, d

LEMMA NoneWellSent == WellSent(<<>>)
<1>1. \A f : ~Sent(<<>>, f)
  BY NoneIs DEF Sent
<1> QED BY <1>1, Zenon DEF WellSent

\* One field sent by itself is well sent.
LEMMA OnlyWellSent ==
    ASSUME NEW f, NEW v,
           f = "kind" => v \in ItemKind,
           f = "serial" => v \in Serial \cup {Empty},
           f \in {"start", "end"} => v \in Int,
           f \in {"noDate", "facts", "mint"} => v \in BOOLEAN
    PROVE  WellSent(Only(f, v))
<1> DEFINE d == Only(f, v)
<1>1. \A g : Sent(d, g) => f = g /\ d[g] = v
  <2>1. DOMAIN d = {f} /\ d[f] = v
    BY OnlyIs
  <2> HIDE DEF d
  <2> QED BY <2>1, Zenon DEF Sent
<1> HIDE DEF d
<1>2. /\ Sent(d, "kind") => d.kind \in ItemKind
      /\ Sent(d, "serial") => d.serial \in Serial \cup {Empty}
      /\ Sent(d, "start") => d.start \in Int
      /\ Sent(d, "end") => d.end \in Int
  BY <1>1
<1>3. /\ Sent(d, "noDate") => d.noDate \in BOOLEAN
      /\ Sent(d, "facts") => d.facts \in BOOLEAN
      /\ Sent(d, "mint") => d.mint \in BOOLEAN
  BY <1>1, Zenon
<1> QED BY <1>2, <1>3, Zenon DEF WellSent, d

\* What each part of a request is.
LEMMA KindPart == ASSUME NEW d \in KindSent PROVE WellSent(d)
<1>1. CASE d = <<>>
  BY <1>1, NoneWellSent
<1>2. ASSUME NEW k \in ItemKind, d = Only("kind", k)
      PROVE  WellSent(d)
  BY <1>2, OnlyWellSent
<1> QED BY <1>1, <1>2 DEF KindSent

LEMMA DatesPart == ASSUME NEW d \in DatesSent PROVE WellSent(d)
<1>1. ASSUME NEW f \in {"start", "end"}, NEW y \in YearSent(f)
      PROVE  WellSent(y)
  <2>1. Year \cup {NoYear} \subseteq Int
    BY KindsAssumption DEF KindsAssumption, NoYear
  <2>2. ASSUME NEW v \in Year \cup {NoYear}, y = Only(f, v)
        PROVE  WellSent(y)
    BY <2>1, <2>2, OnlyWellSent
  <2> QED BY <2>2, NoneWellSent DEF YearSent
<1>2. PICK y \in YearSent("start"), e \in YearSent("end") : d = Laid(y, e)
  BY DEF DatesSent
<1>3. WellSent(y) /\ WellSent(e)
  BY <1>1
<1> QED BY <1>2, <1>3, LaidWellSent

LEMMA FlagPart == ASSUME NEW d \in FlagSent PROVE WellSent(d)
<1>1. ASSUME NEW b \in BOOLEAN, d = Only("noDate", b)
      PROVE  WellSent(d)
  BY <1>1, OnlyWellSent
<1> QED BY <1>1, NoneWellSent, Zenon DEF FlagSent

LEMMA FieldPart == ASSUME NEW d \in OneFieldSent PROVE WellSent(d)
<1>1. ASSUME NEW f \in Sided, NEW v, d = Only(f, v)
      PROVE  WellSent(d)
  <2>1. f \notin {"kind", "serial", "start", "end", "noDate", "facts", "mint"}
    BY KindsAssumption DEF KindsAssumption
  <2> QED BY <1>1, <2>1, OnlyWellSent
<1>2. ASSUME NEW v \in Serial \cup {Empty}, d = Only("serial", v)
      PROVE  WellSent(d)
  BY <1>2, OnlyWellSent
<1>3. ASSUME NEW b \in BOOLEAN, d = Only("facts", b)
      PROVE  WellSent(d)
  BY <1>3, OnlyWellSent
<1>4. \/ \E f \in Sided : \E v : d = Only(f, v)
      \/ \E v \in Serial \cup {Empty} : d = Only("serial", v)
      \/ \E b \in BOOLEAN : d = Only("facts", b)
  <2> DEFINE Pair == {q \in Sided \X {"coin", "currency", "any", Empty} :
                         q[2] \in SidesOf(q[1]) \cup {Empty}}
  <2>1. \/ d \in {Only(p[1], p[2]) : p \in Pair}
        \/ d \in {Only("serial", v) : v \in Serial \cup {Empty}}
        \/ d \in {Only("facts", b) : b \in BOOLEAN}
    BY Zenon DEF OneFieldSent
  <2>2. \A p \in Pair : p[1] \in Sided
    OBVIOUS
  <2> HIDE DEF Pair
  <2> QED BY <2>1, <2>2, Zenon
<1> QED BY <1>1, <1>2, <1>3, <1>4, Zenon

LEMMA MintPart == ASSUME NEW d \in MintSent PROVE WellSent(d)
<1>1. ASSUME NEW b \in BOOLEAN, d = Only("mint", b)
      PROVE  WellSent(d)
  BY <1>1, OnlyWellSent
<1> QED BY <1>1, Zenon DEF MintSent

\* Every request is well sent.
LEMMA RequestsWellSent ==
    ASSUME NEW r \in KindRequests
    PROVE  WellSent(r[2])
<1>1. ASSUME NEW d \in EditSent
      PROVE  WellSent(d)
  <2>1. CASE \E k \in KindSent, o \in OneFieldSent \cup MintSent \cup DatesSent :
               d = Laid(k, o)
    <3>1. PICK k \in KindSent, o \in OneFieldSent \cup MintSent \cup DatesSent :
             d = Laid(k, o)
      BY <2>1
    <3> QED BY <3>1, KindPart, FieldPart, MintPart, DatesPart, LaidWellSent
  <2>2. CASE \E e \in DatesSent, n \in FlagSent : d = Laid(e, n)
    BY <2>2, DatesPart, FlagPart, LaidWellSent
  <2> QED BY <2>1, <2>2 DEF EditSent
<1>2. ASSUME NEW d \in BulkSent
      PROVE  WellSent(d)
  BY KindPart, FieldPart, DatesPart, LaidWellSent DEF BulkSent
<1>3. \/ \E d \in EditSent : r = <<"edit", d>>
      \/ \E d \in BulkSent : r = <<"bulk", d>>
  BY Zenon DEF KindRequests
<1> QED BY <1>1, <1>2, <1>3

\* A save leaves an item as its kind lets it be, and what it does not name.
LEMMA OutcomeFits ==
    ASSUME NEW it, ItemFits(it), NEW r \in KindRequests,
           NEW after \in Outcome(r[1], r[2], it)
    PROVE  /\ ItemFits(after) /\ IsMap(after)
           /\ Names(r[2]) \/ NothingDropped(it, after)
<1>1. WellSent(r[2])
  BY RequestsWellSent
<1>2. after \in SavedEdit(r[2], it) \/ after \in BulkEdited(r[2], it)
  BY Zenon DEF Outcome
<1> QED BY <1>1, <1>2, SavedEditFits, BulkEditedFits

\* What the typed-in part of a piece may be.
LEMMA PieceSentIs ==
    ASSUME NEW data \in PieceSent
    PROVE  /\ \A f \in Sided : Sent(data, f) => data[f] = "coin"
           /\ Sent(data, "start") => data.start \in Int
           /\ data = <<>> => \A f : ~Sent(data, f)
<1>1. PICK m \in {<<>>} \cup {Only(f, "coin") :
                                f \in Sided \cap {"metal", "denomination"}},
           y \in {<<>>} \cup {Only("start", z) : z \in Year} : data = Laid(m, y)
  BY DEF PieceSent
<1>2. \A f \in DOMAIN m : f \in Sided /\ m[f] = "coin"
  <2>1. CASE m = <<>>
    BY <2>1, NoneIs
  <2>2. ASSUME NEW f \in Sided, m = Only(f, "coin")
        PROVE  \A g \in DOMAIN m : g \in Sided /\ m[g] = "coin"
    <3>1. DOMAIN m = {f} /\ m[f] = "coin"
      BY <2>2, OnlyIs
    <3> QED BY <3>1
  <2> QED BY <2>1, <2>2
<1>3. \A f \in DOMAIN y : f = "start" /\ y[f] \in Int
  <2>1. CASE y = <<>>
    BY <2>1, NoneIs
  <2>2. ASSUME NEW z \in Year, y = Only("start", z)
        PROVE  \A g \in DOMAIN y : g = "start" /\ y[g] \in Int
    <3>1. DOMAIN y = {"start"} /\ y["start"] = z
      BY <2>2, OnlyIs
    <3>2. z \in Int
      BY KindsAssumption DEF KindsAssumption
    <3> QED BY <3>1, <3>2
  <2> QED BY <2>1, <2>2
<1>4. /\ DOMAIN data = DOMAIN m \cup DOMAIN y
      /\ \A f \in DOMAIN m : data[f] = m[f]
      /\ \A f \in DOMAIN y \ DOMAIN m : data[f] = y[f]
  <2>1. data = Laid(m, y)
    BY <1>1
  <2>2. /\ DOMAIN Laid(m, y) = DOMAIN m \cup DOMAIN y
        /\ \A f \in DOMAIN m : Laid(m, y)[f] = m[f]
        /\ \A f \in DOMAIN y \ DOMAIN m : Laid(m, y)[f] = y[f]
    BY LaidIs
  <2> QED BY <2>1, <2>2
<1>5. \A f \in Sided : Sent(data, f) => data[f] = "coin"
  BY <1>2, <1>3, <1>4, ColumnsApart DEF Sent
<1>6. Sent(data, "start") => data.start \in Int
  BY <1>2, <1>3, <1>4, ColumnsApart DEF Sent
<1>7. data = <<>> => \A f : ~Sent(data, f)
  BY NoneIs DEF Sent
<1> QED BY <1>5, <1>6, <1>7

\* A piece of a lot is as its kind lets it be.
LEMMA PieceFits ==
    ASSUME NEW it, ItemFits(it), NEW data \in PieceSent,
           NEW after \in PieceOf(data, it)
    PROVE  ItemFits(after)
<1> DEFINE u == it.noDate /\ ~Sent(data, "start")
           r == [table |-> it.row.table, own |-> FALSE, serial |-> Empty]
<1>1. /\ IsNote(it) => data = <<>>
      /\ after = [f \in DOMAIN it |->
           CASE f \in Sided /\ Sent(data, f)             -> data[f]
             [] f \in {"start", "end"} /\ Sent(data, "start") -> data.start
             [] f = "noDate" -> u
             [] f = "row"    -> r
             [] OTHER        -> it[f]]
  BY Zenon DEF PieceOf
<1>2. DOMAIN it = KindColumns
  BY DEF ItemFits
<1> HIDE DEF u, r
<1>3. DOMAIN after = KindColumns /\ "kind" \in KindColumns /\ "start" \in KindColumns
        /\ "end" \in KindColumns /\ "noDate" \in KindColumns /\ "row" \in KindColumns
        /\ Sided \subseteq KindColumns
  BY <1>1, <1>2, Zenon DEF KindColumns
<1>4. \A f \in Sided : after[f] = IF Sent(data, f) THEN data[f] ELSE it[f]
  BY <1>1, <1>2, <1>3, ColumnsApart
<1>5. after.kind = it.kind
  BY <1>1, <1>2, <1>3, ColumnsApart
<1>6. after.start = IF Sent(data, "start") THEN data.start ELSE it.start
  BY <1>1, <1>2, <1>3, ColumnsApart
<1>7. after.end = IF Sent(data, "start") THEN data.start ELSE it.end
  BY <1>1, <1>2, <1>3, ColumnsApart
<1>8. after.noDate = u
  BY <1>1, <1>2, <1>3, ColumnsApart
<1>9. after.row = r
  BY <1>1, <1>2, <1>3, ColumnsApart
<1>10. after.row.table = it.row.table /\ after.row.own = FALSE
         /\ after.row.serial = Empty /\ after.row \in Rows
  <2>1. it.row.table \in {"coin", "currency"}
    BY RowsHold DEF ItemFits
  <2> QED BY <1>9, <2>1 DEF Rows, r
<1>11. RowFits(after)
  BY <1>5, <1>10, Zenon DEF ItemFits, RowFits
<1>12. IsNote(it) => \A f : ~Sent(data, f)
  BY <1>1, PieceSentIs
<1>13. \A f \in Sided : Fits(after[f], after.kind)
  <2>1. ASSUME NEW f \in Sided
        PROVE  Fits(after[f], after.kind)
    <3>1. CASE ~Sent(data, f)
      BY <1>4, <1>5, <3>1, Zenon DEF ItemFits
    <3>2. CASE Sent(data, f)
      <4>1. after[f] = "coin" /\ it.kind # "currency"
        BY <1>4, <1>12, <3>2, PieceSentIs DEF IsNote
      <4> QED BY <1>5, <4>1 DEF Fits
    <3> QED BY <3>1, <3>2
  <2> QED BY <2>1
<1>14. after.start \in Int /\ after.end \in Int
  BY <1>6, <1>7, PieceSentIs, Zenon DEF ItemFits
<1>15. u \in BOOLEAN
  BY Zenon DEF u
<1>16. DatesFit(after)
  <2>1. CASE Sent(data, "start")
    <3>1. after.start = after.end
      BY <1>6, <1>7, <2>1, Zenon
    <3>2. ~Backwards(<<after.start, after.end>>)
      BY <1>14, <3>1 DEF Backwards
    <3>3. ~after.noDate
      BY <1>8, <2>1, Zenon DEF u
    <3>4. ~IsNote(after)
      BY <1>5, <1>12, <2>1, Zenon DEF IsNote
    <3> QED BY <3>2, <3>3, <3>4, Zenon DEF DatesFit
  <2>2. CASE ~Sent(data, "start")
    <3>1. after.start = it.start /\ after.end = it.end
      BY <1>6, <1>7, <2>2, Zenon
    <3>2. after.noDate <=> it.noDate
      BY <1>8, <2>2, Zenon DEF u
    <3>3. DatesFit(it)
      BY DEF ItemFits
    <3> QED BY <1>5, <3>1, <3>2, <3>3, Zenon DEF DatesFit, IsNote
  <2> QED BY <2>1, <2>2
<1>17. after.noDate \in BOOLEAN
  BY <1>8, <1>15, Zenon
<1>18. after.kind \in ItemKind
  BY <1>5, Zenon DEF ItemFits
<1> QED BY <1>3, <1>10, <1>11, <1>13, <1>14, <1>16, <1>17, <1>18, Zenon DEF ItemFits

-----------------------------------------------------------------------------
(* The invariant, step by step.                                            *)

LEMMA KindsInvariantInit == KindsInit => KindsInvariant
<1> SUFFICES ASSUME KindsInit
             PROVE  KindsInvariant
  OBVIOUS
<1>1. PICK k \in ItemKind, s \in Year \cup {NoYear}, e \in Year \cup {NoYear},
           u \in BOOLEAN, r \in Rows,
           c \in [Sided -> {"coin", "currency", "any", Empty}] :
             /\ item = Laid(c, [kind |-> k, start |-> s, end |-> e,
                                noDate |-> u, row |-> r])
             /\ ItemEntered(item)
  BY ZenonT(40) DEF KindsInit
<1> DEFINE b == [kind |-> k, start |-> s, end |-> e, noDate |-> u, row |-> r]
<1>2. /\ DOMAIN b = {"kind", "start", "end", "noDate", "row"}
      /\ b.kind = k /\ b.start = s /\ b.end = e /\ b.row = r
  OBVIOUS
<1>3. b.noDate = u
  BY Zenon
<1> HIDE DEF b
<1>4. /\ DOMAIN item = DOMAIN c \cup DOMAIN b
      /\ \A f \in DOMAIN b \ DOMAIN c : item[f] = b[f]
  <2>1. item = Laid(c, b)
    BY <1>1, Zenon DEF b
  <2>2. /\ DOMAIN Laid(c, b) = DOMAIN c \cup DOMAIN b
        /\ \A f \in DOMAIN b \ DOMAIN c : Laid(c, b)[f] = b[f]
    BY LaidIs, Zenon
  <2> QED BY <2>1, <2>2
<1>5. DOMAIN item = KindColumns /\ DOMAIN c = Sided
  BY <1>2, <1>4 DEF KindColumns
<1>6. item.kind = k /\ item.start = s /\ item.end = e /\ item.row = r
  BY <1>2, <1>4, <1>5, ColumnsApart
<1>7. item.noDate = u
  <2>1. "noDate" \in DOMAIN b \ DOMAIN c
    BY <1>2, <1>5, ColumnsApart
  <2> QED BY <1>3, <1>4, <2>1, Zenon
<1>8. item.start \in Int /\ item.end \in Int
  BY <1>6, KindsAssumption DEF KindsAssumption, NoYear
<1>9. RowFits(item)
  BY <1>1, Zenon DEF ItemEntered, RowFits, IsNote
<1>10. DatesFit(item)
  BY <1>1, Zenon DEF ItemEntered, DatesFit, IsNote
<1>11. ItemFits(item)
  BY <1>1, <1>5, <1>6, <1>7, <1>8, <1>9, <1>10, Zenon DEF ItemEntered, ItemFits
<1>12. late = {} /\ stale \in BOOLEAN
  BY Zenon DEF KindsInit
<1> QED BY <1>11, <1>12, Zenon DEF KindsInvariant

\* Nothing is dropped from what stands.
LEMMA StandingKept == ASSUME NEW it PROVE NothingDropped(it, it)
BY Zenon DEF NothingDropped

\* What a save writes late is what it decided, while the item is what it read.
LEMMA WrittenIsDecided ==
    ASSUME NEW it, NEW after, DOMAIN after = DOMAIN it, NEW c,
           c = [f \in {g \in DOMAIN it : after[g] # it[g]} |-> after[f]],
           IsMap(after)
    PROVE  Laid(c, it) = after
<1>1. DOMAIN c = {g \in DOMAIN it : after[g] # it[g]}
        /\ \A f \in DOMAIN c : c[f] = after[f]
  BY Zenon
<1>2. \A f \in DOMAIN it : (IF f \in DOMAIN c THEN c[f] ELSE it[f]) = after[f]
  BY <1>1
<1>3. DOMAIN c \cup DOMAIN it = DOMAIN it
  BY <1>1
<1>4. Laid(c, it) = [f \in DOMAIN it |-> IF f \in DOMAIN c THEN c[f] ELSE it[f]]
  BY <1>3, Zenon DEF Laid
<1> QED BY <1>2, <1>4, Zenon DEF IsMap

LEMMA KindsInvariantNext ==
    ASSUME KindsInvariant, [KindsNext]_kindVars
    PROVE  /\ KindsInvariant'
           /\ named' \/ NothingDropped(item, item')
<1> USE DEF KindsInvariant
<1>1. ASSUME ~stale, ItemFits(item'), Landed, UNCHANGED late
      PROVE  KindsInvariant'
  <2>1. stale' \in BOOLEAN /\ (~stale' => late = {} \/ item' = item)
    BY <1>1, Zenon DEF Landed
  <2>2. CASE stale'
    BY <1>1, <2>1, <2>2, Zenon
  <2>3. CASE ~stale' /\ late = {}
    BY <1>1, <2>1, <2>3, Zenon
  <2>4. CASE ~stale' /\ item' = item
    BY <1>1, <2>1, <2>4, Zenon
  <2> QED BY <2>1, <2>2, <2>3, <2>4
<1>2. ASSUME NEW r \in KindRequests, ~stale, SaveAtOnce(r[1], r[2])
      PROVE  KindsInvariant' /\ (named' \/ NothingDropped(item, item'))
  <2>1. ItemFits(item') /\ (Names(r[2]) \/ NothingDropped(item, item'))
    BY <1>2, OutcomeFits DEF SaveAtOnce
  <2> QED BY <1>1, <1>2, <2>1, Zenon DEF SaveAtOnce
<1>3. ASSUME NEW data \in PieceSent, ~stale, Split(data)
      PROVE  KindsInvariant' /\ (named' \/ NothingDropped(item, item'))
  <2>1. ItemFits(item')
    BY <1>3, PieceFits DEF Split
  <2> QED BY <1>1, <1>3, <2>1, Zenon DEF Split
<1>4. ASSUME NEW r \in KindRequests, ReadFirst(r[1], r[2])
      PROVE  KindsInvariant' /\ (named' \/ NothingDropped(item, item'))
  <2> DEFINE Told(after) == [f \in {g \in DOMAIN item : after[g] # item[g]}
                              |-> after[f]]
  <2>1. PICK after \in Outcome(r[1], r[2], item) :
           late' = {[set |-> Told(after), names |-> Names(r[2])]}
    BY <1>4, Zenon DEF ReadFirst
  <2>2. /\ ItemFits(after) /\ IsMap(after)
        /\ Names(r[2]) \/ NothingDropped(item, after)
    BY OutcomeFits
  <2>3. item' = item /\ named' = named /\ stale' \in BOOLEAN
    BY <1>4, Zenon DEF ReadFirst
  <2>4. Laid(Told(after), item) = after
    <3>1. DOMAIN after = KindColumns /\ DOMAIN item = KindColumns
      BY <2>2 DEF ItemFits
    <3> QED BY <2>2, <3>1, WrittenIsDecided
  <2>5. ASSUME NEW w \in late'
        PROVE  /\ ItemFits(Laid(w.set, item))
               /\ w.names \/ NothingDropped(item, Laid(w.set, item))
    <3>1. w.set = Told(after) /\ w.names = Names(r[2])
      <4>1. ASSUME NEW c, NEW n, w = [set |-> c, names |-> n]
            PROVE  w.set = c /\ w.names = n
        BY <4>1
      <4>2. w = [set |-> Told(after), names |-> Names(r[2])]
        BY <2>1, <2>5, Zenon
      <4> HIDE DEF Told
      <4> QED BY <4>1, <4>2, Zenon
    <3> QED BY <2>2, <2>4, <3>1, Zenon
  <2> QED BY <2>3, <2>5, StandingKept, Zenon
<1>5. ASSUME SaveLate
      PROVE  KindsInvariant' /\ (named' \/ NothingDropped(item, item'))
  <2>1. PICK w \in late : item' = Laid(w.set, item) /\ named' = w.names
    BY <1>5, Zenon DEF SaveLate
  <2>2. late' = {} /\ stale' \in BOOLEAN /\ ~stale
    BY <1>5, Zenon DEF SaveLate, NotStale
  <2> QED BY <2>1, <2>2, Zenon
<1>6. ASSUME RefuseLate
      PROVE  KindsInvariant' /\ (named' \/ NothingDropped(item, item'))
  BY <1>6, StandingKept, Zenon DEF RefuseLate
<1>7. ASSUME UNCHANGED kindVars
      PROVE  KindsInvariant' /\ (named' \/ NothingDropped(item, item'))
  BY <1>7, StandingKept, Zenon DEF kindVars
<1> QED BY <1>2, <1>3, <1>4, <1>5, <1>6, <1>7, Zenon DEF KindsNext

-----------------------------------------------------------------------------

\* Whatever way in an item and its kind take, it holds what its kind may, and
\* its years make sense: one detail row, the kind's own, a serial only where
\* a note or bullion holds one, no value of the other kind, no range that
\* runs backwards.
THEOREM FitsItsKindHolds == KindsSpec => []FitsItsKind
<1>1. KindsInvariant => FitsItsKind
  BY Zenon DEF KindsInvariant, ItemFits, RowFits, DatesFit, FitsItsKind,
     HoldsItsKindsFields, DatesMakeSense, IsNote
<1>2. KindsInvariant /\ [KindsNext]_kindVars => KindsInvariant'
  BY KindsInvariantNext
<1> QED BY <1>1, <1>2, KindsInvariantInit, PTL DEF KindsSpec

\* A save that names neither leaves the serial number, and a note's own
\* facts, where they were: `match_detail_to_kind' carries or refuses.
THEOREM NothingDroppedUnnamedHolds == KindsSpec => NothingDroppedUnnamed
<1> DEFINE Step == named' \/ NothingDropped(item, item')
<1>1. KindsInvariant /\ [KindsNext]_kindVars => KindsInvariant' /\ Step
  BY KindsInvariantNext
<1>2. Step => (named' \/ /\ item'.row.serial = item.row.serial
                         /\ IsNote(item) /\ item.row.own =>
                              IsNote(item') /\ item'.row.own)
  BY Zenon DEF NothingDropped
<1>3. KindsInvariant /\ [KindsNext]_kindVars =>
        /\ KindsInvariant'
        /\ [named' \/ /\ item'.row.serial = item.row.serial
                      /\ IsNote(item) /\ item.row.own =>
                           IsNote(item') /\ item'.row.own]_kindVars
  BY <1>1, <1>2
<1> QED BY <1>3, KindsInvariantInit, PTL DEF KindsSpec, NothingDroppedUnnamed


-----------------------------------------------------------------------------
(* OPEN FORMS.  The inductive invariant: what a form read is no newer than *)
(* what is stored, and if as new the same; the fields a save sent are in   *)
(* the draft still, and stand on what was read; and, where nobody types    *)
(* while a save is out, whatever a field's edit stands on has been seen.   *)

IsForm(w) ==
  w = [item |-> w.item, base |-> w.base, draft |-> w.draft, seen |-> w.seen,
       errors |-> w.errors, savedErrors |-> w.savedErrors, at |-> w.at,
       sent |-> w.sent, read |-> w.read, probe |-> w.probe]

OfFields(fs) == fs = [f \in Field |-> fs[f]]

\* What was read of an item now at version v.
NoNewer(it, v) == OfFields(it.fields) /\ it.version \in Nat /\ it.version <= v

Sees(w) ==
  \A f \in Field :
    /\ w.base[f] \in w.seen[f]
    /\ f \in Conflicts(w) => w.item.fields[f] \in w.seen[f]
    /\ f \notin DOMAIN w.draft => w.base[f] = w.item.fields[f]

FormStands(w, fs, v) ==
  /\ IsForm(w)
  /\ OfFields(w.base) /\ DOMAIN w.draft \subseteq Field
  /\ NoNewer(w.item, v)
  /\ \A fresh \in w.probe : NoNewer(fresh, v)
  /\ w.read.version \in Nat /\ w.read.version <= v
  /\ w.read.version = v => w.read.fields = fs
  /\ w.at # "open" => DOMAIN w.sent \subseteq DOMAIN w.draft
  /\ w.at = "writing" => Clashing(w.read.fields, w) = {}

FormHolds(w, fs, v) ==
  /\ FormStands(w, fs, v)
  /\ ~TypesOn => Sees(w) /\ (w.at # "open" => w.sent = w.draft)

FormsInvariant ==
  /\ OfFields(fields) /\ version \in Nat \ {0}
  /\ newest = [fields |-> fields, errors |-> faults]
  /\ form = [e \in Editor |-> form[e]]
  /\ \A e \in Editor : FormHolds(form[e], fields, version)

-----------------------------------------------------------------------------

(* One request changes one form.                                           *)
LEMMA OneFormMoves ==
  ASSUME FormsInvariant, NEW e \in Editor, NEW w, Set(e, w)
  PROVE  /\ form' = [d \in Editor |-> form'[d]]
         /\ form'[e] = w
         /\ \A d \in Editor \ {e} : form'[d] = form[d]
BY DEF FormsInvariant, Set

(* What a form holds stays no newer than an item that moves on.            *)
LEMMA OthersStand ==
  ASSUME NEW w, NEW fs, NEW v \in Nat, NEW gs, NEW u \in Nat,
         FormHolds(w, fs, v), v <= u, u = v => gs = fs
  PROVE  FormHolds(w, gs, u)
<1>1. FormStands(w, fs, v) BY DEF FormHolds
<1>2. \A fresh : NoNewer(fresh, v) => NoNewer(fresh, u) BY DEF NoNewer
<1>3. w.read.version <= u /\ (w.read.version = u => w.read.fields = gs)
  BY <1>1 DEF FormStands
<1>4. FormStands(w, gs, u)
  BY <1>1, <1>2, <1>3 DEF FormStands
<1> QED BY <1>4 DEF FormHolds

(* A step of one form that stores nothing, or stores a newer item.         *)
AllAdvance == \A e \in Editor : form'[e].item.version >= form[e].item.version

LEMMA StepStands ==
  ASSUME FormsInvariant, NEW e \in Editor, NEW w, Set(e, w),
         OfFields(fields'), version' \in Nat, version <= version',
         version' = version => fields' = fields,
         newest' = [fields |-> fields', errors |-> faults'],
         FormHolds(w, fields', version'),
         w.item = form[e].item \/ w.item.version >= form[e].item.version
  PROVE  FormsInvariant' /\ AllAdvance
<1>1. form' = [d \in Editor |-> form'[d]] BY OneFormMoves
<1>2. version \in Nat \ {0} BY DEF FormsInvariant
<1>3. version' \in Nat \ {0} BY <1>2
<1>4. ASSUME NEW d \in Editor PROVE FormHolds(form'[d], fields', version')
  <2>1. CASE d = e BY <2>1, OneFormMoves
  <2>2. CASE d # e
    <3>1. form'[d] = form[d] BY <2>2, OneFormMoves
    <3>2. FormHolds(form[d], fields, version) BY DEF FormsInvariant
    <3>3. FormHolds(form[d], fields', version') BY <1>2, <3>2, OthersStand
    <3> QED BY <3>1, <3>3
  <2> QED BY <2>1, <2>2
<1>5. ASSUME NEW d \in Editor PROVE form'[d].item.version >= form[d].item.version
  <2>1. form[d].item.version \in Nat
    BY DEF FormsInvariant, FormHolds, FormStands, NoNewer
  <2>2. CASE d = e BY <2>1, <2>2, OneFormMoves
  <2>3. CASE d # e BY <2>1, <2>3, OneFormMoves
  <2> QED BY <2>2, <2>3
<1> QED BY <1>1, <1>3, <1>4, <1>5 DEF FormsInvariant, AllAdvance

LEMMA FormAlone ==
  ASSUME FormsInvariant, NEW e \in Editor, NEW w, Set(e, w),
         UNCHANGED <<fields, faults, version, newest>>,
         FormHolds(w, fields, version),
         w.item = form[e].item \/ w.item.version >= form[e].item.version
  PROVE  FormsInvariant' /\ AllAdvance
<1>1. /\ OfFields(fields) /\ version \in Nat
      /\ newest = [fields |-> fields, errors |-> faults]
  BY DEF FormsInvariant
<1> QED BY <1>1, StepStands

-----------------------------------------------------------------------------
(* What a form shows, it has been seen to hold.                            *)

StandsOnSeen(w) ==
  \A f \in Field :
    /\ f \in DOMAIN w.draft => w.base[f] \in w.seen[f]
    /\ f \notin DOMAIN w.draft => w.base[f] = w.item.fields[f]

LEMMA ShownIs ==
  ASSUME NEW w, IsForm(w)
  PROVE  Shown(w) =
           [item |-> w.item, base |-> w.base, draft |-> w.draft,
            seen |-> Shown(w).seen,
            errors |-> w.errors, savedErrors |-> w.savedErrors, at |-> w.at,
            sent |-> w.sent, read |-> w.read, probe |-> w.probe]
<1>1. ASSUME NEW x
      PROVE  [w EXCEPT !.seen = x] =
               [item |-> w.item, base |-> w.base, draft |-> w.draft, seen |-> x,
                errors |-> w.errors, savedErrors |-> w.savedErrors, at |-> w.at,
                sent |-> w.sent, read |-> w.read, probe |-> w.probe]
  BY DEF IsForm
<1>2. PICK x : Shown(w) = [w EXCEPT !.seen = x] BY DEF Shown
<1> QED BY <1>1, <1>2

LEMMA ShownSees ==
  ASSUME NEW w, IsForm(w), StandsOnSeen(w)
  PROVE  Sees(Shown(w))
<1>1. /\ Shown(w).item = w.item /\ Shown(w).base = w.base
      /\ Shown(w).draft = w.draft
  BY ShownIs
<1>2. Conflicts(Shown(w)) = Conflicts(w) BY <1>1 DEF Conflicts
<1>3. ASSUME NEW f \in Field
      PROVE  Shown(w).seen[f] =
               (IF f \in DOMAIN w.draft THEN w.seen[f] ELSE {})
                 \cup (IF f \in DOMAIN w.draft \ Conflicts(w) THEN {}
                       ELSE {w.item.fields[f]})
  BY DEF Shown, IsForm
<1>4. Conflicts(w) \subseteq DOMAIN w.draft BY DEF Conflicts, ConflictsOf
<1>5. ASSUME NEW f \in Field
      PROVE  /\ w.base[f] \in Shown(w).seen[f]
             /\ f \in Conflicts(w) => w.item.fields[f] \in Shown(w).seen[f]
             /\ f \notin DOMAIN w.draft => w.base[f] = w.item.fields[f]
  BY <1>3, <1>4 DEF StandsOnSeen
<1> QED BY <1>1, <1>2, <1>5 DEF Sees

LEMMA ShownHolds ==
  ASSUME NEW w, NEW fs, NEW v, FormStands(w, fs, v),
         ~TypesOn => StandsOnSeen(w) /\ (w.at # "open" => w.sent = w.draft)
  PROVE  FormHolds(Shown(w), fs, v)
<1>1. IsForm(w) BY DEF FormStands
<1> DEFINE s == Shown(w)
<1>2. /\ s.item = w.item /\ s.base = w.base /\ s.draft = w.draft /\ s.at = w.at
      /\ s.sent = w.sent /\ s.read = w.read /\ s.probe = w.probe
      /\ IsForm(s)
  BY <1>1, ShownIs DEF IsForm
<1>3. ~TypesOn => Sees(s) BY <1>1, ShownSees
<1> HIDE DEF s
<1>4. Clashing(s.read.fields, s) = Clashing(w.read.fields, w)
  BY <1>2 DEF Clashing
<1>5. FormStands(s, fs, v) BY <1>2, <1>4 DEF FormStands
<1> QED BY <1>2, <1>3, <1>5 DEF FormHolds, s

-----------------------------------------------------------------------------
(* At the form.                                                            *)

LEMMA HeldIs ==
  ASSUME FormsInvariant, NEW e \in Editor
  PROVE  /\ FormHolds(form[e], fields, version) /\ IsForm(form[e])
         /\ FormStands(form[e], fields, version)
BY DEF FormsInvariant, FormHolds, FormStands

LEMMA TypeKeeps ==
  ASSUME FormsInvariant, NEW e \in Editor, NEW f \in Field, NEW x, Type(e, f, x)
  PROVE  FormsInvariant' /\ AllAdvance
<1> DEFINE w == form[e]
           d == WithTyped(w.draft, f, x)
           u == [w EXCEPT !.draft = d]
<1>1. FormHolds(w, fields, version) /\ IsForm(w) /\ FormStands(w, fields, version)
  BY HeldIs
<1>2. DOMAIN d = DOMAIN w.draft \cup {f} BY DEF WithTyped
<1>3. Set(e, Shown(u)) /\ UNCHANGED <<fields, faults, version, newest>> BY DEF Type
<1>4. w.at = "open" \/ TypesOn BY DEF Type, MayType
<1> HIDE DEF d, w
<1>5. /\ u.item = w.item /\ u.base = w.base /\ u.draft = d /\ u.seen = w.seen
      /\ u.at = w.at /\ u.sent = w.sent /\ u.read = w.read /\ u.probe = w.probe
      /\ IsForm(u)
  BY <1>1 DEF IsForm
<1> HIDE DEF u
<1>6. Clashing(u.read.fields, u) = Clashing(w.read.fields, w) BY <1>5 DEF Clashing
<1>7. FormStands(u, fields, version) BY <1>1, <1>2, <1>5, <1>6 DEF FormStands
<1>8. ~TypesOn => StandsOnSeen(u)
  BY <1>1, <1>2, <1>5 DEF FormHolds, Sees, StandsOnSeen
<1>9. FormHolds(Shown(u), fields, version) BY <1>4, <1>5, <1>7, <1>8, ShownHolds
<1>10. Shown(u).item = w.item BY <1>5, ShownIs
<1> QED BY <1>3, <1>9, <1>10, FormAlone DEF w

(* A change that leaves alone what a form holds, shows and edits.          *)
LEMMA AsideHolds ==
  ASSUME NEW w, NEW u, NEW fs, NEW v, FormHolds(w, fs, v), IsForm(u),
         u.item = w.item, u.base = w.base, u.draft = w.draft, u.seen = w.seen,
         \A fresh \in u.probe : NoNewer(fresh, v),
         u.read.version \in Nat, u.read.version <= v,
         u.read.version = v => u.read.fields = fs,
         u.at # "open" => u.sent = w.draft \/ (u.sent = w.sent /\ w.at # "open"),
         u.at = "writing" => Clashing(u.read.fields, u) = {}
  PROVE  FormHolds(u, fs, v)
<1>1. FormStands(w, fs, v) BY DEF FormHolds
<1>2. FormStands(u, fs, v) BY <1>1 DEF FormStands
<1>3. Conflicts(u) = Conflicts(w) BY DEF Conflicts
<1>4. ~TypesOn => Sees(u) BY <1>3 DEF FormHolds, Sees
<1>5. ~TypesOn => (u.at # "open" => u.sent = u.draft) BY DEF FormHolds
<1> QED BY <1>2, <1>4, <1>5 DEF FormHolds

LEMMA EditErrorsKeeps ==
  ASSUME FormsInvariant, NEW e \in Editor, NEW x, EditErrors(e, x)
  PROVE  FormsInvariant' /\ AllAdvance
<1> DEFINE w == form[e]
           u == [w EXCEPT !.errors = x]
<1>1. FormHolds(w, fields, version) /\ IsForm(w) /\ FormStands(w, fields, version)
  BY HeldIs
<1>2. Set(e, u) /\ UNCHANGED <<fields, faults, version, newest>> /\ w.at = "open"
  BY DEF EditErrors
<1> HIDE DEF w
<1>3. /\ u.item = w.item /\ u.base = w.base /\ u.draft = w.draft /\ u.seen = w.seen
      /\ u.at = w.at /\ u.sent = w.sent /\ u.read = w.read /\ u.probe = w.probe
      /\ IsForm(u)
  BY <1>1 DEF IsForm
<1> HIDE DEF u
<1>4. FormHolds(u, fields, version) BY <1>1, <1>2, <1>3, AsideHolds DEF FormStands
<1> QED BY <1>2, <1>3, <1>4, FormAlone DEF w

LEMMA KeepMineKeeps ==
  ASSUME FormsInvariant, NEW e \in Editor, NEW f \in Field, KeepMine(e, f)
  PROVE  FormsInvariant' /\ AllAdvance
<1> DEFINE w == form[e]
           b == [w.base EXCEPT ![f] = w.item.fields[f]]
           u == [w EXCEPT !.base = b]
<1>1. FormHolds(w, fields, version) /\ IsForm(w) /\ FormStands(w, fields, version)
  BY HeldIs
<1>2. OfFields(b) /\ \A g \in Field : b[g] = IF g = f THEN w.item.fields[f] ELSE w.base[g]
  BY <1>1 DEF FormStands, OfFields
<1>3. /\ Set(e, Shown([w EXCEPT !.base[f] = w.item.fields[f]]))
      /\ UNCHANGED <<fields, faults, version, newest>>
      /\ w.at = "open" /\ f \in Conflicts(w)
  BY DEF KeepMine
<1>4. [w EXCEPT !.base[f] = w.item.fields[f]] = u BY <1>1 DEF IsForm
<1> HIDE DEF b, w
<1>5. /\ u.item = w.item /\ u.base = b /\ u.draft = w.draft /\ u.seen = w.seen
      /\ u.at = w.at /\ u.sent = w.sent /\ u.read = w.read /\ u.probe = w.probe
      /\ IsForm(u)
  BY <1>1 DEF IsForm
<1> HIDE DEF u
<1>6. f \in DOMAIN w.draft BY <1>3 DEF Conflicts, ConflictsOf
<1>7. FormStands(u, fields, version) BY <1>1, <1>2, <1>3, <1>5 DEF FormStands
<1>8. ~TypesOn => StandsOnSeen(u)
  BY <1>1, <1>2, <1>3, <1>5, <1>6 DEF FormHolds, Sees, StandsOnSeen
<1>9. FormHolds(Shown(u), fields, version) BY <1>3, <1>5, <1>7, <1>8, ShownHolds
<1>10. Shown(u).item = w.item BY <1>5, ShownIs
<1> QED BY <1>3, <1>4, <1>9, <1>10, FormAlone DEF w

LEMMA RebasedIs ==
  ASSUME NEW w, IsForm(w), NEW b, NEW x
  PROVE  /\ [w EXCEPT !.base = b, !.draft = x] =
              [item |-> w.item, base |-> b, draft |-> x, seen |-> w.seen,
               errors |-> w.errors, savedErrors |-> w.savedErrors, at |-> w.at,
               sent |-> w.sent, read |-> w.read, probe |-> w.probe]
         /\ [w EXCEPT !.item = x, !.base = b] =
              [item |-> x, base |-> b, draft |-> w.draft, seen |-> w.seen,
               errors |-> w.errors, savedErrors |-> w.savedErrors, at |-> w.at,
               sent |-> w.sent, read |-> w.read, probe |-> w.probe]
<1>1. PICK q : q = [w EXCEPT !.base = b] OBVIOUS
<1>2. PICK p : p = [w EXCEPT !.item = x] OBVIOUS
<1>3. /\ IsForm(q) /\ q.item = w.item /\ q.base = b /\ q.draft = w.draft
      /\ q.seen = w.seen /\ q.errors = w.errors /\ q.savedErrors = w.savedErrors
      /\ q.at = w.at /\ q.sent = w.sent /\ q.read = w.read /\ q.probe = w.probe
  BY <1>1 DEF IsForm
<1>4. /\ IsForm(p) /\ p.item = x /\ p.base = w.base /\ p.draft = w.draft
      /\ p.seen = w.seen /\ p.errors = w.errors /\ p.savedErrors = w.savedErrors
      /\ p.at = w.at /\ p.sent = w.sent /\ p.read = w.read /\ p.probe = w.probe
  BY <1>2 DEF IsForm
<1>5. [q EXCEPT !.draft = x] =
        [item |-> q.item, base |-> q.base, draft |-> x, seen |-> q.seen,
         errors |-> q.errors, savedErrors |-> q.savedErrors, at |-> q.at,
         sent |-> q.sent, read |-> q.read, probe |-> q.probe]
  BY <1>3 DEF IsForm
<1>6. [p EXCEPT !.base = b] =
        [item |-> p.item, base |-> b, draft |-> p.draft, seen |-> p.seen,
         errors |-> p.errors, savedErrors |-> p.savedErrors, at |-> p.at,
         sent |-> p.sent, read |-> p.read, probe |-> p.probe]
  BY <1>4 DEF IsForm
<1>7. [w EXCEPT !.base = b, !.draft = x] = [q EXCEPT !.draft = x]
  BY ONLY <1>1, IsForm(w) DEF IsForm
<1>8. [w EXCEPT !.item = x, !.base = b] = [p EXCEPT !.base = b]
  BY ONLY <1>2, IsForm(w) DEF IsForm
<1> QED BY <1>3, <1>4, <1>5, <1>6, <1>7, <1>8

LEMMA UseTheirsKeeps ==
  ASSUME FormsInvariant, NEW e \in Editor, NEW f \in Field, UseTheirs(e, f)
  PROVE  FormsInvariant' /\ AllAdvance
<1> DEFINE w == form[e]
           b == [w.base EXCEPT ![f] = w.item.fields[f]]
           d == [g \in DOMAIN w.draft \ {f} |-> w.draft[g]]
           u == [w EXCEPT !.base = b, !.draft = d]
<1>1. FormHolds(w, fields, version) /\ IsForm(w) /\ FormStands(w, fields, version)
  BY HeldIs
<1>2. OfFields(b) /\ \A g \in Field : b[g] = IF g = f THEN w.item.fields[f] ELSE w.base[g]
  BY <1>1 DEF FormStands, OfFields
<1>3. /\ Set(e, Shown([w EXCEPT !.base[f] = w.item.fields[f], !.draft = d]))
      /\ UNCHANGED <<fields, faults, version, newest>>
      /\ w.at = "open" /\ f \in Conflicts(w)
  BY DEF UseTheirs
<1>6. DOMAIN d = DOMAIN w.draft \ {f} OBVIOUS
<1> HIDE DEF d
<1>4. [w EXCEPT !.base[f] = w.item.fields[f], !.draft = d] = u BY <1>1 DEF IsForm
<1> HIDE DEF b, w
<1>9. u = [item |-> w.item, base |-> b, draft |-> d, seen |-> w.seen,
            errors |-> w.errors, savedErrors |-> w.savedErrors, at |-> w.at,
            sent |-> w.sent, read |-> w.read, probe |-> w.probe]
  BY <1>1, RebasedIs
<1> HIDE DEF u
<1>5. /\ u.item = w.item /\ u.base = b /\ u.draft = d /\ u.seen = w.seen
      /\ u.at = w.at /\ u.sent = w.sent /\ u.read = w.read /\ u.probe = w.probe
      /\ IsForm(u)
  BY <1>9 DEF IsForm
<1>7. FormStands(u, fields, version) BY <1>1, <1>2, <1>3, <1>5, <1>6 DEF FormStands
<1>8. ~TypesOn => StandsOnSeen(u)
  BY <1>1, <1>2, <1>3, <1>5, <1>6 DEF FormHolds, Sees, StandsOnSeen
<1>10. FormHolds(Shown(u), fields, version) BY <1>3, <1>5, <1>7, <1>8, ShownHolds
<1>11. Shown(u).item = w.item BY <1>5, ShownIs
<1> QED BY <1>3, <1>4, <1>10, <1>11, FormAlone DEF w

(* What is stored is the newest there is to read.                          *)
LEMMA StoredIs ==
  ASSUME FormsInvariant
  PROVE  /\ Stored.fields = fields /\ Stored.version = version
         /\ NoNewer(Stored, version)
         /\ version \in Nat \ {0} /\ Unread.version = 0
BY DEF FormsInvariant, Stored, Unread, NoNewer

LEMMA LookKeeps ==
  ASSUME FormsInvariant, NEW e \in Editor, Look(e)
  PROVE  FormsInvariant' /\ AllAdvance
<1> DEFINE w == form[e]
           u == [w EXCEPT !.probe = {Stored}]
<1>1. FormHolds(w, fields, version) /\ IsForm(w) /\ FormStands(w, fields, version)
  BY HeldIs
<1>2. Set(e, u) /\ UNCHANGED <<fields, faults, version, newest>> BY DEF Look
<1> HIDE DEF w
<1>3. /\ u.item = w.item /\ u.base = w.base /\ u.draft = w.draft /\ u.seen = w.seen
      /\ u.at = w.at /\ u.sent = w.sent /\ u.read = w.read /\ u.probe = {Stored}
      /\ IsForm(u)
  BY <1>1 DEF IsForm
<1> HIDE DEF u
<1>4. Clashing(u.read.fields, u) = Clashing(w.read.fields, w) BY <1>3 DEF Clashing
<1>5. FormHolds(u, fields, version)
  BY <1>1, <1>3, <1>4, StoredIs, AsideHolds DEF FormStands
<1> QED BY <1>2, <1>3, <1>5, FormAlone DEF w

(* A newer item, taken in beside the edits of the form.                    *)
LEMMA TakenInHolds ==
  ASSUME NEW w, NEW fs, NEW v, FormHolds(w, fs, v), NEW fresh, NoNewer(fresh, v)
  PROVE  FormHolds(TakeIn(w, fresh), fs, v) /\ TakeIn(w, fresh).item = fresh
<1> DEFINE b == Rebase(fresh.fields, w.base, w.draft)
           u == [w EXCEPT !.item = fresh, !.base = b]
<1>1. IsForm(w) /\ FormStands(w, fs, v) BY DEF FormHolds, FormStands
<1>2. /\ OfFields(b)
      /\ \A g \in Field : b[g] = IF g \in DOMAIN w.draft THEN w.base[g] ELSE fresh.fields[g]
  BY DEF Rebase, OfFields
<1>3. TakeIn(w, fresh) = Shown(u) BY DEF TakeIn
<1> HIDE DEF b
<1>4. u = [item |-> fresh, base |-> b, draft |-> w.draft, seen |-> w.seen,
            errors |-> w.errors, savedErrors |-> w.savedErrors, at |-> w.at,
            sent |-> w.sent, read |-> w.read, probe |-> w.probe]
  BY <1>1, RebasedIs
<1> HIDE DEF u
<1>5. /\ u.item = fresh /\ u.base = b /\ u.draft = w.draft /\ u.seen = w.seen
      /\ u.at = w.at /\ u.sent = w.sent /\ u.read = w.read /\ u.probe = w.probe
      /\ IsForm(u)
  BY <1>4 DEF IsForm
<1>6. w.at = "writing" => Clashing(u.read.fields, u) = {}
  <2> SUFFICES ASSUME w.at = "writing" PROVE Clashing(u.read.fields, u) = {}
    OBVIOUS
  <2>1. DOMAIN w.sent \subseteq DOMAIN w.draft \cap Field /\ Clashing(w.read.fields, w) = {}
    BY <1>1 DEF FormStands
  <2>2. \A g \in DOMAIN w.sent : u.base[g] = w.base[g] BY <1>2, <1>5, <2>1
  <2> QED BY <1>5, <2>1, <2>2 DEF Clashing, ConflictsOf
<1>7. FormStands(u, fs, v) BY <1>1, <1>2, <1>5, <1>6 DEF FormStands
<1>8. ~TypesOn => StandsOnSeen(u) BY <1>2, <1>5 DEF FormHolds, Sees, StandsOnSeen
<1>9. FormHolds(Shown(u), fs, v) BY <1>5, <1>7, <1>8, ShownHolds DEF FormHolds
<1>10. Shown(u).item = fresh BY <1>5, ShownIs
<1> QED BY <1>3, <1>9, <1>10

LEMMA ArrivesKeeps ==
  ASSUME FormsInvariant, NEW e \in Editor, Arrives(e)
  PROVE  FormsInvariant' /\ AllAdvance
<1> DEFINE w == form[e]
<1>1. FormHolds(w, fields, version) /\ FormStands(w, fields, version) BY HeldIs
<1>2. PICK fresh \in w.probe :
        Set(e, [(IF Newer(w, fresh) THEN TakeIn(w, fresh) ELSE w) EXCEPT !.probe = {}])
  BY DEF Arrives
<1>3. UNCHANGED <<fields, faults, version, newest>> BY DEF Arrives
<1>4. NoNewer(fresh, version) BY <1>1 DEF FormStands
<1>5. PICK s : /\ s = (IF Newer(w, fresh) THEN TakeIn(w, fresh) ELSE w)
               /\ FormHolds(s, fields, version)
               /\ s.item = w.item \/ s.item.version >= w.item.version
  <2>1. CASE Newer(w, fresh)
    BY <1>1, <1>4, <2>1, TakenInHolds DEF Newer, FormStands, NoNewer
  <2>2. CASE ~Newer(w, fresh) BY <1>1, <2>2
  <2> QED BY <2>1, <2>2
<1> HIDE DEF w
<1> DEFINE u == [s EXCEPT !.probe = {}]
<1>6. Set(e, u) BY <1>2, <1>5
<1>7. IsForm(s) BY <1>5 DEF FormHolds, FormStands
<1>8. /\ u.item = s.item /\ u.base = s.base /\ u.draft = s.draft /\ u.seen = s.seen
      /\ u.at = s.at /\ u.sent = s.sent /\ u.read = s.read /\ u.probe = {}
      /\ IsForm(u)
  BY <1>7 DEF IsForm
<1> HIDE DEF u
<1>9. Clashing(u.read.fields, u) = Clashing(s.read.fields, s) /\ Conflicts(u) = Conflicts(s)
  BY <1>8 DEF Clashing, Conflicts
<1>10. FormStands(u, fields, version) BY <1>5, <1>8, <1>9 DEF FormHolds, FormStands
<1>11. FormHolds(u, fields, version) BY <1>5, <1>8, <1>9, <1>10 DEF FormHolds, Sees
<1> QED BY <1>3, <1>5, <1>6, <1>8, <1>11, FormAlone DEF w

-----------------------------------------------------------------------------
(* A save.                                                                 *)

FormWith(w, a, t, r, x, y) ==
  [item |-> w.item, base |-> w.base, draft |-> w.draft, seen |-> w.seen,
   errors |-> x, savedErrors |-> y, at |-> a, sent |-> t, read |-> r,
   probe |-> w.probe]

IsSameForm(p, w) ==
  /\ IsForm(p) /\ p.item = w.item /\ p.base = w.base
  /\ p.draft = w.draft /\ p.seen = w.seen /\ p.probe = w.probe

LEMMA FormWithIs ==
  ASSUME NEW w, NEW p, IsSameForm(p, w)
  PROVE  p = FormWith(w, p.at, p.sent, p.read, p.errors, p.savedErrors)
BY DEF IsSameForm, IsForm, FormWith

LEMMA AtMoves ==
  ASSUME NEW w, IsForm(w), NEW a
  PROVE  LET p == [w EXCEPT !.at = a] IN
         /\ IsSameForm(p, w) /\ p.at = a /\ p.sent = w.sent /\ p.read = w.read
         /\ p.errors = w.errors /\ p.savedErrors = w.savedErrors
BY DEF IsForm, IsSameForm

LEMMA ReadMoves ==
  ASSUME NEW w, NEW p, IsSameForm(p, w), NEW r
  PROVE  LET q == [p EXCEPT !.read = r] IN
         /\ IsSameForm(q, w) /\ q.at = p.at /\ q.sent = p.sent /\ q.read = r
         /\ q.errors = p.errors /\ q.savedErrors = p.savedErrors
BY DEF IsForm, IsSameForm

LEMMA SentMoves ==
  ASSUME NEW w, NEW p, IsSameForm(p, w), NEW t
  PROVE  LET q == [p EXCEPT !.sent = t] IN
         /\ IsSameForm(q, w) /\ q.at = p.at /\ q.sent = t /\ q.read = p.read
         /\ q.errors = p.errors /\ q.savedErrors = p.savedErrors
BY DEF IsForm, IsSameForm

LEMMA AtIs ==
  ASSUME NEW w, IsForm(w), NEW a
  PROVE  [w EXCEPT !.at = a] = FormWith(w, a, w.sent, w.read, w.errors, w.savedErrors)
<1>1. PICK p : p = [w EXCEPT !.at = a] OBVIOUS
<1>2. /\ IsSameForm(p, w) /\ p.at = a /\ p.sent = w.sent /\ p.read = w.read
      /\ p.errors = w.errors /\ p.savedErrors = w.savedErrors
  BY <1>1, AtMoves
<1> QED BY <1>1, <1>2, FormWithIs

LEMMA PressedIs ==
  ASSUME NEW w, IsForm(w), NEW a, NEW t
  PROVE  [w EXCEPT !.at = a, !.sent = t]
           = FormWith(w, a, t, w.read, w.errors, w.savedErrors)
<1>1. PICK p : p = [w EXCEPT !.at = a] OBVIOUS
<1>2. /\ IsSameForm(p, w) /\ p.at = a /\ p.sent = w.sent /\ p.read = w.read
      /\ p.errors = w.errors /\ p.savedErrors = w.savedErrors
  BY <1>1, AtMoves
<1>3. PICK q : q = [p EXCEPT !.sent = t] OBVIOUS
<1>4. /\ IsSameForm(q, w) /\ q.at = a /\ q.sent = t /\ q.read = w.read
      /\ q.errors = w.errors /\ q.savedErrors = w.savedErrors
  BY <1>2, <1>3, SentMoves
<1>5. [w EXCEPT !.at = a, !.sent = t] = [[w EXCEPT !.at = a] EXCEPT !.sent = t]
  BY DEF IsForm
<1>6. q = FormWith(w, a, t, w.read, w.errors, w.savedErrors) BY <1>4, FormWithIs
<1> QED BY <1>1, <1>3, <1>5, <1>6

LEMMA ReadIs ==
  ASSUME NEW w, IsForm(w), NEW a, NEW r
  PROVE  [w EXCEPT !.at = a, !.read = r]
           = FormWith(w, a, w.sent, r, w.errors, w.savedErrors)
<1>1. PICK p : p = [w EXCEPT !.at = a] OBVIOUS
<1>2. /\ IsSameForm(p, w) /\ p.at = a /\ p.sent = w.sent /\ p.read = w.read
      /\ p.errors = w.errors /\ p.savedErrors = w.savedErrors
  BY <1>1, AtMoves
<1>3. PICK q : q = [p EXCEPT !.read = r] OBVIOUS
<1>4. /\ IsSameForm(q, w) /\ q.at = a /\ q.sent = w.sent /\ q.read = r
      /\ q.errors = w.errors /\ q.savedErrors = w.savedErrors
  BY <1>2, <1>3, ReadMoves
<1>5. [w EXCEPT !.at = a, !.read = r] = [[w EXCEPT !.at = a] EXCEPT !.read = r]
  BY DEF IsForm
<1>6. q = FormWith(w, a, w.sent, r, w.errors, w.savedErrors) BY <1>4, FormWithIs
<1> QED BY <1>1, <1>3, <1>5, <1>6

LEMMA BackIs ==
  ASSUME NEW w, IsForm(w)
  PROVE  Back(w) = FormWith(w, "open", NoDraft, Unread, w.errors, w.savedErrors)
<1>1. PICK p : p = [w EXCEPT !.at = "open"] OBVIOUS
<1>2. /\ IsSameForm(p, w) /\ p.at = "open" /\ p.sent = w.sent /\ p.read = w.read
      /\ p.errors = w.errors /\ p.savedErrors = w.savedErrors
  BY <1>1, AtMoves
<1>3. PICK q : q = [p EXCEPT !.sent = NoDraft] OBVIOUS
<1>4. /\ IsSameForm(q, w) /\ q.at = "open" /\ q.sent = NoDraft /\ q.read = w.read
      /\ q.errors = w.errors /\ q.savedErrors = w.savedErrors
  BY <1>2, <1>3, SentMoves
<1>5. PICK k : k = [q EXCEPT !.read = Unread] OBVIOUS
<1>6. /\ IsSameForm(k, w) /\ k.at = "open" /\ k.sent = NoDraft /\ k.read = Unread
      /\ k.errors = w.errors /\ k.savedErrors = w.savedErrors
  BY <1>4, <1>5, ReadMoves
<1>7. Back(w) = [[[w EXCEPT !.at = "open"] EXCEPT !.sent = NoDraft]
                   EXCEPT !.read = Unread]
  BY DEF IsForm, Back
<1>8. k = FormWith(w, "open", NoDraft, Unread, w.errors, w.savedErrors)
  BY <1>6, FormWithIs
<1> QED BY <1>1, <1>3, <1>5, <1>7, <1>8

LEMMA ErrorsAre ==
  ASSUME NEW w, IsForm(w), NEW x
  PROVE  /\ [w EXCEPT !.at = "reading", !.read = Unread, !.savedErrors = x]
              = FormWith(w, "reading", w.sent, Unread, w.errors, x)
         /\ [w EXCEPT !.at = "reading", !.read = Unread, !.savedErrors = x, !.errors = x]
              = FormWith(w, "reading", w.sent, Unread, x, x)
<1>1. PICK p : p = [w EXCEPT !.at = "reading", !.read = Unread] OBVIOUS
<1>2. p = FormWith(w, "reading", w.sent, Unread, w.errors, w.savedErrors)
  BY <1>1, ReadIs
<1>3. /\ IsSameForm(p, w) /\ p.at = "reading" /\ p.sent = w.sent /\ p.read = Unread
      /\ p.errors = w.errors
  BY <1>2 DEF FormWith, IsSameForm, IsForm
<1>4. PICK q : q = [p EXCEPT !.savedErrors = x] OBVIOUS
<1>5. /\ IsSameForm(q, w) /\ q.at = "reading" /\ q.sent = w.sent /\ q.read = Unread
      /\ q.errors = w.errors /\ q.savedErrors = x
  BY <1>3, <1>4 DEF IsSameForm, IsForm
<1>6. PICK k : k = [q EXCEPT !.errors = x] OBVIOUS
<1>7. /\ IsSameForm(k, w) /\ k.at = "reading" /\ k.sent = w.sent /\ k.read = Unread
      /\ k.errors = x /\ k.savedErrors = x
  BY <1>5, <1>6 DEF IsSameForm, IsForm
<1>8. [w EXCEPT !.at = "reading", !.read = Unread, !.savedErrors = x]
        = [[w EXCEPT !.at = "reading", !.read = Unread] EXCEPT !.savedErrors = x]
  BY DEF IsForm
<1>9. [w EXCEPT !.at = "reading", !.read = Unread, !.savedErrors = x, !.errors = x]
        = [[[w EXCEPT !.at = "reading", !.read = Unread] EXCEPT !.savedErrors = x]
             EXCEPT !.errors = x]
  BY DEF IsForm
<1>10. q = FormWith(w, "reading", w.sent, Unread, w.errors, x) BY <1>5, FormWithIs
<1>11. k = FormWith(w, "reading", w.sent, Unread, x, x) BY <1>7, FormWithIs
<1> QED BY <1>1, <1>4, <1>6, <1>8, <1>9, <1>10, <1>11

(* The save moves on: what it read since must be no newer than the item.   *)
LEMMA MovedHolds ==
  ASSUME NEW w, NEW fs, NEW v, FormHolds(w, fs, v),
         NEW a, NEW t, NEW r, NEW x, NEW y,
         r.version \in Nat, r.version <= v, r.version = v => r.fields = fs,
         a # "open" => t = w.draft \/ (t = w.sent /\ w.at # "open"),
         a = "writing" => ConflictsOf(r.fields, w.base, t) = {}
  PROVE  FormHolds(FormWith(w, a, t, r, x, y), fs, v)
<1> DEFINE u == FormWith(w, a, t, r, x, y)
<1>1. /\ IsForm(u) /\ u.item = w.item /\ u.base = w.base /\ u.draft = w.draft
      /\ u.seen = w.seen /\ u.at = a /\ u.sent = t /\ u.read = r /\ u.probe = w.probe
  BY DEF FormWith, IsForm
<1>2. \A fresh \in w.probe : NoNewer(fresh, v) BY DEF FormHolds, FormStands
<1> HIDE DEF u
<1>3. Clashing(u.read.fields, u) = ConflictsOf(r.fields, w.base, t)
  BY <1>1 DEF Clashing
<1>4. FormHolds(u, fs, v) BY <1>1, <1>2, <1>3, AsideHolds
<1> QED BY <1>4 DEF u

LEMMA PressKeeps ==
  ASSUME FormsInvariant, NEW e \in Editor, Press(e)
  PROVE  FormsInvariant' /\ AllAdvance
<1> DEFINE w == form[e]
           at == IF w.draft = NoDraft THEN "rest" ELSE "sent"
<1>1. FormHolds(w, fields, version) /\ IsForm(w) /\ FormStands(w, fields, version)
  BY HeldIs
<1>2. /\ Set(e, [w EXCEPT !.at = at, !.sent = w.draft])
      /\ UNCHANGED <<fields, faults, version, newest>>
  BY DEF Press
<1>3. at # "writing" OBVIOUS
<1> HIDE DEF w, at
<1>4. [w EXCEPT !.at = at, !.sent = w.draft]
        = FormWith(w, at, w.draft, w.read, w.errors, w.savedErrors)
  BY <1>1, PressedIs
<1>5. FormHolds(FormWith(w, at, w.draft, w.read, w.errors, w.savedErrors),
                fields, version)
  BY <1>1, <1>3, MovedHolds DEF FormStands
<1>6. Set(e, FormWith(w, at, w.draft, w.read, w.errors, w.savedErrors))
  BY <1>2, <1>4
<1> QED BY <1>2, <1>5, <1>6, FormAlone DEF w, FormWith

LEMMA BackHolds ==
  ASSUME FormsInvariant, NEW w, FormHolds(w, fields, version)
  PROVE  /\ Back(w) = FormWith(w, "open", NoDraft, Unread, w.errors, w.savedErrors)
         /\ FormHolds(Back(w), fields, version) /\ IsForm(Back(w))
<1>1. IsForm(w) BY DEF FormHolds, FormStands
<1>2. Back(w) = FormWith(w, "open", NoDraft, Unread, w.errors, w.savedErrors)
  BY <1>1, BackIs
<1>3. FormHolds(FormWith(w, "open", NoDraft, Unread, w.errors, w.savedErrors),
                fields, version)
  BY StoredIs, MovedHolds
<1> QED BY <1>2, <1>3 DEF FormHolds, FormStands

LEMMA MergeKeeps ==
  ASSUME FormsInvariant, NEW e \in Editor, Merge(e)
  PROVE  FormsInvariant' /\ AllAdvance
<1> DEFINE w == form[e]
<1>1. FormHolds(w, fields, version) /\ IsForm(w) /\ FormStands(w, fields, version)
  BY HeldIs
<1>2. w.at = "sent" /\ UNCHANGED <<fields, faults, version, newest>> BY DEF Merge
<1>3. CASE Clashing(fields, w) = {}
  <2>1. Set(e, [w EXCEPT !.at = "writing", !.read = Stored]) BY <1>3 DEF Merge
  <2>2. ConflictsOf(Stored.fields, w.base, w.sent) = {}
    BY <1>3, StoredIs DEF Clashing
  <2> HIDE DEF w
  <2>3. Set(e, FormWith(w, "writing", w.sent, Stored, w.errors, w.savedErrors))
    BY <1>1, <2>1, ReadIs
  <2>4. FormHolds(FormWith(w, "writing", w.sent, Stored, w.errors, w.savedErrors),
                  fields, version)
    BY <1>1, <1>2, <2>2, StoredIs, MovedHolds DEF NoNewer
  <2> QED BY <1>2, <2>3, <2>4, FormAlone DEF w, FormWith
<1>4. CASE Clashing(fields, w) # {}
  <2> DEFINE b == Back(w)
             u == [b EXCEPT !.probe = {Stored}]
  <2>1. Set(e, u) BY <1>4 DEF Merge
  <2>2. FormHolds(b, fields, version) /\ IsForm(b) BY <1>1, BackHolds
  <2>3. b.at = "open" /\ b.item = w.item BY <1>1, BackHolds DEF FormWith
  <2>4. FormStands(b, fields, version) BY <2>2 DEF FormHolds
  <2> HIDE DEF w, b
  <2>5. /\ u.item = b.item /\ u.base = b.base /\ u.draft = b.draft /\ u.seen = b.seen
        /\ u.at = b.at /\ u.read = b.read /\ u.probe = {Stored}
        /\ IsForm(u)
    BY <2>2 DEF IsForm
  <2> HIDE DEF u
  <2>6. FormHolds(u, fields, version)
    BY <2>2, <2>3, <2>4, <2>5, StoredIs, AsideHolds DEF FormStands
  <2> QED BY <1>2, <2>1, <2>3, <2>5, <2>6, FormAlone DEF w
<1> QED BY <1>3, <1>4

(* What the write changes, it read as it stands, and so is on what the     *)
(* form shows.                                                             *)
LEMMA WriteIs ==
  ASSUME FormsInvariant, NEW e \in Editor, Write(e)
  PROVE  /\ Set(e, FormWith(form[e], "rest", form[e].sent, Unread,
                            form[e].errors, form[e].savedErrors))
         /\ fields' = Merged(form[e]) /\ OfFields(fields')
         /\ version' = version + 1 /\ faults' = faults
         /\ newest' = [fields |-> fields', errors |-> faults']
         /\ \A f \in Field \cap DOMAIN form[e].sent :
              fields'[f] # fields[f] => fields[f] = form[e].base[f]
<1> DEFINE w == form[e]
<1>1. FormHolds(w, fields, version) /\ IsForm(w) /\ FormStands(w, fields, version)
  BY HeldIs
<1>2. /\ w.at = "writing" /\ version = w.read.version
      /\ fields' = Merged(w) /\ version' = version + 1 /\ faults' = faults
      /\ newest' = [newest EXCEPT !.fields = Logged(w)]
      /\ Set(e, [w EXCEPT !.at = "rest", !.read = Unread])
  BY DEF Write, Unmoved
<1>3. newest = [fields |-> fields, errors |-> faults] /\ OfFields(fields)
  BY DEF FormsInvariant
<1> HIDE DEF w
<1>4. w.read.fields = fields BY <1>1, <1>2 DEF FormStands
<1>5. \A f \in Field : fields'[f] = IF f \in DOMAIN w.sent THEN w.sent[f] ELSE fields[f]
  BY <1>2 DEF Merged
<1>6. OfFields(fields') BY <1>2 DEF Merged, OfFields
<1>7. newest' = [fields |-> Logged(w), errors |-> faults] BY <1>2, <1>3
<1>8. newest.fields = fields BY <1>3
<1>9. \A f \in Field : Logged(w)[f] = fields'[f]
  BY <1>2, <1>4, <1>5, <1>8 DEF Logged
<1>10. Logged(w) = [f \in Field |-> Logged(w)[f]] BY DEF Logged
<1>11. Logged(w) = fields' BY <1>6, <1>9, <1>10 DEF OfFields
<1>12. ConflictsOf(fields, w.base, w.sent) = {} BY <1>1, <1>2, <1>4 DEF FormStands, Clashing
<1>13. \A f \in Field \cap DOMAIN w.sent :
         fields'[f] # fields[f] => fields[f] = w.base[f]
  BY <1>5, <1>12 DEF ConflictsOf
<1>14. [w EXCEPT !.at = "rest", !.read = Unread]
         = FormWith(w, "rest", w.sent, Unread, w.errors, w.savedErrors)
  BY <1>1, ReadIs
<1>15. Set(e, FormWith(w, "rest", w.sent, Unread, w.errors, w.savedErrors))
  BY <1>2, <1>14
<1> QED BY <1>2, <1>6, <1>7, <1>11, <1>13, <1>15 DEF w

LEMMA WriteKeeps ==
  ASSUME FormsInvariant, NEW e \in Editor, Write(e)
  PROVE  FormsInvariant' /\ AllAdvance
<1> DEFINE w == form[e]
<1>1. FormHolds(w, fields, version) BY HeldIs
<1>2. version \in Nat /\ version' = version + 1 /\ version' \in Nat
  BY WriteIs, StoredIs
<1>3. FormHolds(w, fields', version') BY <1>1, <1>2, OthersStand
<1>4. w.at = "writing" BY DEF Write
<1>5. FormHolds(FormWith(w, "rest", w.sent, Unread, w.errors, w.savedErrors),
                fields', version')
  BY <1>2, <1>3, <1>4, StoredIs, MovedHolds
<1>6. Set(e, FormWith(w, "rest", w.sent, Unread, w.errors, w.savedErrors))
  BY WriteIs
<1>7. FormWith(w, "rest", w.sent, Unread, w.errors, w.savedErrors).item = w.item
  BY DEF FormWith
<1> QED BY <1>2, <1>5, <1>6, <1>7, WriteIs, StepStands

LEMMA WriteNothingKeeps ==
  ASSUME FormsInvariant, NEW e \in Editor, WriteNothing(e)
  PROVE  FormsInvariant' /\ AllAdvance
<1> DEFINE w == form[e]
           u == FormWith(w, "rest", w.sent, Unread, w.errors, w.savedErrors)
<1>1. FormHolds(w, fields, version) /\ IsForm(w) BY HeldIs
<1>2. /\ Set(e, [w EXCEPT !.at = "rest", !.read = Unread]) /\ w.at = "writing"
      /\ UNCHANGED <<fields, faults, version, newest>>
  BY DEF WriteNothing
<1> HIDE DEF w
<1>3. [w EXCEPT !.at = "rest", !.read = Unread] = u BY <1>1, ReadIs
<1>4. FormHolds(u, fields, version) BY <1>1, <1>2, StoredIs, MovedHolds
<1>5. Set(e, u) BY <1>2, <1>3
<1>6. u.item = w.item BY DEF FormWith
<1> QED BY <1>2, <1>4, <1>5, <1>6, FormAlone DEF w

LEMMA BackKeeps ==
  ASSUME FormsInvariant, NEW e \in Editor, Set(e, Back(form[e])),
         UNCHANGED <<fields, faults, version, newest>>
  PROVE  FormsInvariant' /\ AllAdvance
<1>1. Back(form[e]).item = form[e].item BY HeldIs, BackHolds DEF FormWith
<1> QED BY <1>1, HeldIs, BackHolds, FormAlone

LEMMA ReadForErrorsKeeps ==
  ASSUME FormsInvariant, NEW e \in Editor, ReadForErrors(e)
  PROVE  FormsInvariant' /\ AllAdvance
<1> DEFINE w == form[e]
<1>1. FormHolds(w, fields, version) /\ IsForm(w) /\ FormStands(w, fields, version)
  BY HeldIs
<1>2. w.at = "rest" /\ UNCHANGED <<fields, faults, version, newest>>
  BY DEF ReadForErrors
<1>3. CASE ErrorsChanged(w)
  <2> DEFINE u == FormWith(w, "errors", w.sent, Stored, w.errors, w.savedErrors)
  <2>1. Set(e, [w EXCEPT !.at = "errors", !.read = Stored])
    BY <1>3 DEF ReadForErrors
  <2> HIDE DEF w
  <2>2. [w EXCEPT !.at = "errors", !.read = Stored] = u BY <1>1, ReadIs
  <2>3. FormHolds(u, fields, version)
    BY <1>1, <1>2, StoredIs, MovedHolds DEF NoNewer
  <2>4. Set(e, u) BY <2>1, <2>2
  <2>5. u.item = w.item BY DEF FormWith
  <2> QED BY <1>2, <2>3, <2>4, <2>5, FormAlone DEF w
<1>4. CASE ~ErrorsChanged(w)
  <2> DEFINE u == FormWith(w, "reading", w.sent, w.read, w.errors, w.savedErrors)
  <2>1. Set(e, [w EXCEPT !.at = "reading"]) BY <1>4 DEF ReadForErrors
  <2> HIDE DEF w
  <2>2. [w EXCEPT !.at = "reading"] = u BY <1>1, AtIs
  <2>3. FormHolds(u, fields, version) BY <1>1, <1>2, MovedHolds DEF FormStands
  <2>4. Set(e, u) BY <2>1, <2>2
  <2>5. u.item = w.item BY DEF FormWith
  <2> QED BY <1>2, <2>3, <2>4, <2>5, FormAlone DEF w
<1> QED BY <1>3, <1>4

LEMMA PutErrorsKeeps ==
  ASSUME FormsInvariant, NEW e \in Editor, PutErrors(e)
  PROVE  FormsInvariant' /\ AllAdvance
<1> DEFINE w == form[e]
           u == FormWith(w, "reading", w.sent, Unread, w.errors, w.errors)
<1>1. FormHolds(w, fields, version) /\ IsForm(w) BY HeldIs
<1>2. /\ w.at = "errors" /\ fields' = fields /\ faults' = w.errors
      /\ newest' = [newest EXCEPT !.errors = w.errors]
      /\ version' \in {version, version + 1}
      /\ Set(e, [w EXCEPT !.at = "reading", !.read = Unread, !.savedErrors = w.errors])
  BY DEF PutErrors
<1>3. newest = [fields |-> fields, errors |-> faults] /\ OfFields(fields)
  BY DEF FormsInvariant
<1> HIDE DEF w
<1>4. newest' = [fields |-> fields', errors |-> faults'] BY <1>2, <1>3
<1>5. version \in Nat /\ version' \in Nat /\ version <= version'
  BY <1>2, StoredIs
<1>6. FormHolds(w, fields', version') BY <1>1, <1>2, <1>5, OthersStand
<1>7. [w EXCEPT !.at = "reading", !.read = Unread, !.savedErrors = w.errors] = u
  BY <1>1, ErrorsAre
<1>8. version \in Nat \ {0} /\ Unread.version = 0 BY StoredIs
<1>9. FormHolds(u, fields', version') BY <1>2, <1>5, <1>6, <1>8, MovedHolds
<1>10. Set(e, u) BY <1>2, <1>7
<1>11. OfFields(fields') BY <1>2, <1>3
<1>12. u.item = w.item BY DEF FormWith
<1> QED BY <1>2, <1>4, <1>5, <1>9, <1>10, <1>11, <1>12, StepStands DEF w

LEMMA ErrorsRefusedKeeps ==
  ASSUME FormsInvariant, NEW e \in Editor, ErrorsRefused(e)
  PROVE  FormsInvariant' /\ AllAdvance
<1> DEFINE w == form[e]
           u == FormWith(w, "reading", w.sent, Unread, faults, faults)
<1>1. FormHolds(w, fields, version) /\ IsForm(w) BY HeldIs
<1>2. /\ Set(e, [w EXCEPT !.at = "reading", !.read = Unread,
                          !.savedErrors = faults, !.errors = faults])
      /\ w.at = "errors" /\ UNCHANGED <<fields, faults, version, newest>>
  BY DEF ErrorsRefused
<1> HIDE DEF w
<1>3. [w EXCEPT !.at = "reading", !.read = Unread,
                !.savedErrors = faults, !.errors = faults] = u
  BY <1>1, ErrorsAre
<1>4. FormHolds(u, fields, version) BY <1>1, <1>2, StoredIs, MovedHolds
<1>5. Set(e, u) BY <1>2, <1>3
<1>6. u.item = w.item BY DEF FormWith
<1> QED BY <1>2, <1>4, <1>5, <1>6, FormAlone DEF w

(* The item read back is the new base, and what was typed meanwhile stays. *)
LEMMA ReadBackKeeps ==
  ASSUME FormsInvariant, NEW e \in Editor, ReadBack(e)
  PROVE  FormsInvariant' /\ AllAdvance
<1> DEFINE w == form[e]
           typed == TypedSince(w.draft, w.sent)
           u == [w EXCEPT !.item = Stored, !.base = Stored.fields, !.draft = typed]
           s == Shown(u)
<1>1. FormHolds(w, fields, version) /\ IsForm(w) /\ FormStands(w, fields, version)
  BY HeldIs
<1>2. /\ Set(e, Back(s)) /\ w.at = "reading"
      /\ UNCHANGED <<fields, faults, version, newest>>
  BY DEF ReadBack, Adopt
<1>3. DOMAIN typed \subseteq DOMAIN w.draft BY DEF TypedSince
<1>4. ~TypesOn => DOMAIN typed = {}
  BY <1>1, <1>2 DEF FormHolds, TypedSince
<1>5. DOMAIN w.sent \subseteq DOMAIN w.draft BY <1>1, <1>2 DEF FormStands
<1> HIDE DEF w, typed
<1>6. PICK q : q = [w EXCEPT !.item = Stored, !.base = Stored.fields] OBVIOUS
<1>7. q = [item |-> Stored, base |-> Stored.fields, draft |-> w.draft, seen |-> w.seen,
           errors |-> w.errors, savedErrors |-> w.savedErrors, at |-> w.at,
           sent |-> w.sent, read |-> w.read, probe |-> w.probe]
  BY <1>1, <1>6, RebasedIs
<1>8. IsForm(q) BY <1>7 DEF IsForm
<1>9. [q EXCEPT !.draft = typed] = u BY ONLY <1>1, <1>6 DEF IsForm, u
<1> HIDE DEF u
<1>10. /\ u.item = Stored /\ u.base = Stored.fields /\ u.draft = typed
       /\ u.seen = w.seen /\ u.at = w.at /\ u.sent = w.sent /\ u.read = w.read
       /\ u.probe = w.probe /\ IsForm(u)
  BY <1>7, <1>8, <1>9 DEF IsForm
<1>11. ~TypesOn => StandsOnSeen(u) BY <1>4, <1>10 DEF StandsOnSeen
<1>12. ~TypesOn => Sees(s) BY <1>10, <1>11, ShownSees
<1>13. /\ s.item = Stored /\ s.base = Stored.fields /\ s.draft = typed
       /\ s.probe = w.probe /\ IsForm(s)
  BY <1>10, ShownIs DEF IsForm
<1> HIDE DEF s
<1> DEFINE z == Back(s)
<1>14. z = FormWith(s, "open", NoDraft, Unread, s.errors, s.savedErrors)
  BY <1>13, BackIs
<1>15. /\ z.item = Stored /\ z.base = Stored.fields /\ z.draft = typed
       /\ z.seen = s.seen /\ z.at = "open" /\ z.read = Unread /\ z.probe = w.probe
       /\ IsForm(z)
  BY <1>13, <1>14 DEF FormWith, IsForm
<1> HIDE DEF z
<1>16. Conflicts(z) = Conflicts(s) BY <1>13, <1>15 DEF Conflicts
<1>17. ~TypesOn => Sees(z) BY <1>12, <1>13, <1>15, <1>16 DEF Sees
<1>18. OfFields(Stored.fields) BY StoredIs DEF NoNewer
<1>19. FormStands(z, fields, version)
  BY <1>1, <1>3, <1>15, <1>18, StoredIs DEF FormStands
<1>20. FormHolds(z, fields, version) BY <1>15, <1>17, <1>19 DEF FormHolds
<1>21. z.item.version >= w.item.version
  BY <1>1, <1>15, StoredIs DEF FormStands, NoNewer
<1> QED BY <1>2, <1>20, <1>21, FormAlone DEF w, z

-----------------------------------------------------------------------------

LEMMA FormsInvariantInit == FormsInit => FormsInvariant
<1> SUFFICES ASSUME FormsInit PROVE FormsInvariant
  OBVIOUS
<1>1. /\ OfFields(fields) /\ version = 1
      /\ newest = [fields |-> fields, errors |-> faults]
      /\ form = [e \in Editor |-> Opened]
  BY DEF FormsInit, OfFields
<1>2. /\ Opened.item = Stored /\ Opened.base = fields /\ Opened.draft = NoDraft
      /\ Opened.seen = [f \in Field |-> {fields[f]}] /\ Opened.at = "open"
      /\ Opened.read = Unread /\ Opened.probe = {} /\ IsForm(Opened)
  BY DEF Opened, IsForm
<1>3. Stored.fields = fields /\ Stored.version = 1 /\ Unread.version = 0
  BY <1>1 DEF Stored, Unread
<1>4. DOMAIN NoDraft = {} BY DEF NoDraft
<1>5. Conflicts(Opened) = {} BY <1>2, <1>4 DEF Conflicts, ConflictsOf
<1>6. FormStands(Opened, fields, version)
  BY <1>1, <1>2, <1>3, <1>4 DEF FormStands, NoNewer
<1>7. Sees(Opened) BY <1>2, <1>3, <1>5 DEF Sees
<1>8. FormHolds(Opened, fields, version) BY <1>2, <1>6, <1>7 DEF FormHolds
<1> QED BY <1>1, <1>8 DEF FormsInvariant

LEMMA FormsInvariantNext ==
  FormsInvariant /\ [FormsNext]_formVars => FormsInvariant' /\ AllAdvance
<1> SUFFICES ASSUME FormsInvariant, [FormsNext]_formVars PROVE FormsInvariant' /\ AllAdvance
  OBVIOUS
<1>1. CASE UNCHANGED formVars
  <2>1. FormsInvariant'
    <3>1. /\ fields' = fields /\ version' = version /\ newest' = newest
          /\ faults' = faults /\ form' = form
      BY <1>1 DEF formVars
    <3> QED BY <3>1 DEF FormsInvariant
  <2>2. \A e \in Editor : form[e].item.version \in Nat
    BY DEF FormsInvariant, FormHolds, FormStands, NoNewer
  <2>3. AllAdvance BY <1>1, <2>2 DEF formVars, AllAdvance
  <2> QED BY <2>1, <2>3
<1>2. ASSUME NEW e \in Editor, NEW f \in Field, KeepMine(e, f) PROVE FormsInvariant' /\ AllAdvance
  BY <1>2, KeepMineKeeps
<1>3. ASSUME NEW e \in Editor, NEW f \in Field, UseTheirs(e, f) PROVE FormsInvariant' /\ AllAdvance
  BY <1>3, UseTheirsKeeps
<1>4. ASSUME NEW e \in Editor, NEW f \in Field, NEW x, Type(e, f, x)
      PROVE  FormsInvariant' /\ AllAdvance
  BY <1>4, TypeKeeps
<1>5. ASSUME NEW e \in Editor, NEW x, EditErrors(e, x) PROVE FormsInvariant' /\ AllAdvance
  BY <1>5, EditErrorsKeeps
<1>6. ASSUME NEW e \in Editor, Look(e) PROVE FormsInvariant' /\ AllAdvance
  BY <1>6, LookKeeps
<1>7. ASSUME NEW e \in Editor, Arrives(e) PROVE FormsInvariant' /\ AllAdvance
  BY <1>7, ArrivesKeeps
<1>8. ASSUME NEW e \in Editor, SaveStep(e) PROVE FormsInvariant' /\ AllAdvance
  <2>1. CASE Press(e) BY <2>1, PressKeeps
  <2>2. CASE Merge(e) BY <2>2, MergeKeeps
  <2>3. CASE Write(e) BY <2>3, WriteKeeps
  <2>4. CASE WriteNothing(e) BY <2>4, WriteNothingKeeps
  <2>5. CASE SaveRefused(e) BY <2>5, BackKeeps DEF SaveRefused
  <2>6. CASE ReadForErrors(e) BY <2>6, ReadForErrorsKeeps
  <2>7. CASE PutErrors(e) BY <2>7, PutErrorsKeeps
  <2>8. CASE ErrorsRefused(e) BY <2>8, ErrorsRefusedKeeps
  <2>9. CASE ReadBack(e) BY <2>9, ReadBackKeeps
  <2>10. CASE ReadBackFails(e) BY <2>10, BackKeeps DEF ReadBackFails
  <2> QED BY <1>8, <2>1, <2>2, <2>3, <2>4, <2>5, <2>6, <2>7, <2>8, <2>9, <2>10
             DEF SaveStep
<1> QED BY <1>1, <1>2, <1>3, <1>4, <1>5, <1>6, <1>7, <1>8 DEF FormsNext

(* What the forms hold agrees with the item and its log at every step: the  *)
(* inductive invariant of the open forms (ItemEditForm.jsx).               *)
THEOREM FormsInvariantHolds == FormsSpec => []FormsInvariant
BY FormsInvariantInit, FormsInvariantNext, PTL DEF FormsSpec

(* The newest row of the log says what the item holds.                     *)
THEOREM LogTellsHolds == FormsSpec => []LogTells
<1>1. FormsInvariant => LogTells BY DEF FormsInvariant, LogTells
<1> QED BY <1>1, FormsInvariantHolds, PTL

(* A form never goes back to an older item than it holds.                  *)
THEOREM FormsOnlyAdvanceHolds == FormsSpec => FormsOnlyAdvance
<1>1. FormsInvariant /\ [FormsNext]_formVars => AllAdvance BY FormsInvariantNext
<1>2. FormsInvariant /\ [FormsNext]_formVars
        => [\A e \in Editor : form'[e].item.version >= form[e].item.version]_formVars
  BY <1>1 DEF AllAdvance
<1> QED BY <1>2, FormsInvariantHolds, PTL DEF FormsSpec, FormsOnlyAdvance

-----------------------------------------------------------------------------
(* Only a write changes the fields, and only the errors' own request the   *)
(* errors.                                                                 *)

SeenOf(e) ==
  /\ \A f \in Field : Writes(e, f) => fields[f] \in form[e].seen[f]
  /\ WritesErrors(e) => form[e].savedErrors = faults

LEMMA WriteSeen ==
  ASSUME FormsInvariant, ~TypesOn, NEW e \in Editor, Write(e), NEW d \in Editor
  PROVE  SeenOf(d)
<1>1. faults' = faults BY WriteIs
<1>2. ASSUME NEW f \in Field, Writes(d, f) PROVE fields[f] \in form[d].seen[f]
  <2> DEFINE u == FormWith(form[e], "rest", form[e].sent, Unread,
                           form[e].errors, form[e].savedErrors)
  <2>1. Set(e, u) BY WriteIs
  <2>2. form[d].at # form'[d].at BY <1>2 DEF Writes
  <2> HIDE DEF u
  <2>3. d = e BY <2>1, <2>2, OneFormMoves
  <2>4. f \in DOMAIN form[e].sent /\ fields'[f] # fields[f] BY <1>2, <2>3 DEF Writes
  <2>5. fields[f] = form[e].base[f] BY <2>4, WriteIs
  <2>6. form[e].base[f] \in form[e].seen[f]
    BY DEF FormsInvariant, FormHolds, Sees
  <2> QED BY <2>3, <2>5, <2>6
<1>3. ~WritesErrors(d) BY <1>1 DEF WritesErrors
<1> QED BY <1>2, <1>3 DEF SeenOf

LEMMA PutErrorsSeen ==
  ASSUME FormsInvariant, NEW e \in Editor, PutErrors(e), NEW d \in Editor
  PROVE  SeenOf(d)
<1>1. fields' = fields /\ faults' = form[e].errors
      /\ faults \in {form[e].savedErrors, form[e].errors}
  BY DEF PutErrors, ErrorsUnmoved
<1>2. \A f \in Field : ~Writes(d, f) BY <1>1 DEF Writes
<1>3. ASSUME WritesErrors(d) PROVE form[d].savedErrors = faults
  <2>1. form[d].at # form'[d].at /\ faults' # faults BY <1>3 DEF WritesErrors
  <2>2. PICK u : Set(e, u) BY DEF PutErrors
  <2>3. d = e BY <2>1, <2>2, OneFormMoves
  <2> QED BY <1>1, <2>1, <2>3
<1> QED BY <1>2, <1>3 DEF SeenOf

LEMMA StepsSeen ==
  ASSUME FormsInvariant, ~TypesOn, [FormsNext]_formVars, NEW d \in Editor
  PROVE  SeenOf(d)
<1>1. CASE fields' = fields /\ faults' = faults
  BY <1>1 DEF SeenOf, Writes, WritesErrors
<1>2. CASE ~(fields' = fields /\ faults' = faults)
  <2>1. PICK e \in Editor : Write(e) \/ PutErrors(e)
    <3>1. FormsNext BY <1>2 DEF formVars
    <3> QED
      BY <1>2, <3>1
      DEF FormsNext, SaveStep, Type, EditErrors, KeepMine, UseTheirs, Look, Arrives,
          Press, Merge, WriteNothing, SaveRefused, ReadForErrors, ErrorsRefused,
          ReadBack, ReadBackFails
  <2> QED BY <2>1, WriteSeen, PutErrorsSeen
<1> QED BY <1>1, <1>2

(* A save replaces only what its person has seen, where nobody goes on     *)
(* typing while a save is out.                                             *)
THEOREM NothingOverwrittenUnseenHolds ==
  ASSUME ~TypesOn
  PROVE  FormsSpec => NothingOverwrittenUnseen
<1>1. FormsInvariant /\ [FormsNext]_formVars
        => [\A e \in Editor :
              /\ \A f \in Field : Writes(e, f) => fields[f] \in form[e].seen[f]
              /\ WritesErrors(e) => form[e].savedErrors = faults]_formVars
  BY StepsSeen DEF SeenOf
<1> QED BY <1>1, FormsInvariantHolds, PTL DEF FormsSpec, NothingOverwrittenUnseen

(* Several people's edits of one item merge.                               *)
THEOREM EditsMergeHolds ==
  ASSUME ~TypesOn
  PROVE  FormsSpec => EditsMerge
BY LogTellsHolds, FormsOnlyAdvanceHolds, NothingOverwrittenUnseenHolds, PTL DEF EditsMerge

-----------------------------------------------------------------------------
(* What a person said of a coin or a note.                                   *)

Shaped(c, columns) ==
  {"value", "source"} \subseteq DOMAIN c
    /\ DOMAIN c.value = columns /\ DOMAIN c.source = columns

\* A column as it was; and every column that was a person's as it was.
Stands(c, d, k) == d.value[k] = c.value[k] /\ d.source[k] = c.source[k]
Keeps(c, d, columns) ==
  Shaped(d, columns) /\ \A k \in columns : Persons(c, k) => Stands(c, d, k)

\* An outcome that touches no column of a person's.
SparesPersons(c, out, columns) ==
  /\ out = [writes |-> out.writes, retracts |-> out.retracts]
  /\ \A k \in columns : Persons(c, k) => k \notin DOMAIN out.writes /\ k \notin out.retracts

LEMMA KeepsOn ==
    ASSUME NEW c, NEW d, NEW e, NEW columns, Keeps(c, d, columns), Keeps(d, e, columns)
    PROVE  Keeps(c, e, columns)
BY DEF Keeps, Stands, Persons, IsEmpty

LEMMA KeepsItself ==
    ASSUME NEW c, NEW columns, Shaped(c, columns)
    PROVE  Keeps(c, c, columns)
BY DEF Keeps, Stands

LEMMA PersonsAreNotFilled ==
    ASSUME NEW c, NEW k, Persons(c, k)
    PROVE  ~Fillable(c, k) /\ ~IsMine(c, k) /\ c.source[k] \in {"held", "none"}
BY DEF Persons, Fillable, IsMine

LEMMA AppliedKeeps ==
    ASSUME NEW c, NEW columns, Shaped(c, columns), NEW out, SparesPersons(c, out, columns)
    PROVE  Keeps(c, Applied(c, out), columns)
<1> DEFINE d == Applied(c, out)
           G == [k \in columns |->
                   IF k \in DOMAIN out.writes THEN out.writes[k].rule
                   ELSE IF k \in out.retracts THEN "none" ELSE c.source[k]]
           F == [k \in columns |-> After(c, out, k)]
<1>1. DOMAIN d = DOMAIN c /\ d.value = F /\ d.source = G
  BY DEF Applied, Shaped
<1>2. \A k \in columns : Persons(c, k) => F[k] = c.value[k] /\ G[k] = c.source[k]
  BY DEF SparesPersons, After
<1>3. DOMAIN F = columns /\ DOMAIN G = columns
  OBVIOUS
<1> HIDE DEF d, F, G
<1>4. Shaped(d, columns)
  BY <1>1, <1>3 DEF Shaped
<1> QED BY <1>1, <1>2, <1>4 DEF Keeps, Stands, d

LEMMA DecidedSpares ==
    ASSUME NEW c, NEW columns, NEW options, NEW rule
    PROVE  SparesPersons(c, Decided(c, options, rule), columns)
<1> DEFINE out == Decided(c, options, rule)
<1>1. /\ out = [writes |-> out.writes, retracts |-> out.retracts]
      /\ \A k : k \in DOMAIN out.writes \/ k \in out.retracts => Fillable(c, k)
  BY DEF Decided
<1> QED BY <1>1, PersonsAreNotFilled DEF SparesPersons

LEMMA TakenBackSpares ==
    ASSUME NEW c, NEW columns, NEW taken
    PROVE  SparesPersons(c, TakenBack(c, taken), columns)
<1>1. /\ TakenBack(c, taken).writes = <<>>
      /\ \A k \in TakenBack(c, taken).retracts : IsMine(c, k)
      /\ TakenBack(c, taken) = [writes |-> TakenBack(c, taken).writes,
                                retracts |-> TakenBack(c, taken).retracts]
  BY DEF TakenBack
<1>2. DOMAIN <<>> = {}
  OBVIOUS
<1> QED BY <1>1, <1>2, PersonsAreNotFilled DEF SparesPersons

\* The series is filled and taken back like any other column.
LEMMA SeriesKeeps ==
    ASSUME NEW c, NEW columns, Shaped(c, columns), "series" \in columns,
           NEW side, NEW year, NEW letter, NEW seal, NEW class
    PROVE  Keeps(c, SeriesRefreshed(c, side, year, letter, seal, class), columns)
<1>1. ASSUME NEW d, Shaped(d, columns), ~Persons(d, "series"), NEW v, NEW s
      PROVE  Keeps(d, [d EXCEPT !.value.series = v, !.source.series = s], columns)
  <2> DEFINE e == [d EXCEPT !.value.series = v, !.source.series = s]
             F == [d.value EXCEPT !["series"] = v]
             G == [d.source EXCEPT !["series"] = s]
  <2>1. DOMAIN e = DOMAIN d /\ e.value = F /\ e.source = G
    BY <1>1 DEF Shaped
  <2>2. /\ DOMAIN F = columns /\ DOMAIN G = columns
        /\ \A k \in columns : k # "series" => F[k] = d.value[k] /\ G[k] = d.source[k]
    BY <1>1 DEF Shaped
  <2> HIDE DEF e, F, G
  <2> QED BY <1>1, <2>1, <2>2 DEF Keeps, Stands, Shaped, e
<1> DEFINE lapsed == /\ c.source.series \in {"series", "suggestion"}
                     /\ ~IsEmpty(c, "series")
                     /\ SeriesUnsupported(c.value.series, side, c.facts.denomination, year,
                                          letter, class)
           after == IF lapsed THEN [c EXCEPT !.value.series = NoCode,
                                            !.source.series = "none"] ELSE c
           design == DesignOf(CandidatesFor(side, c.facts.denomination, year, letter),
                              c.facts.said, seal, {}, class)
           given == [after EXCEPT !.value.series = (CHOOSE x \in design : TRUE).code,
                                  !.source.series = "series"]
<1>2. Keeps(c, after, columns)
  <2>1. CASE lapsed
    <3>1. ~Persons(c, "series")
      BY <2>1 DEF Persons
    <3> QED BY <1>1, <2>1, <3>1
  <2>2. CASE ~lapsed
    BY <2>2, KeepsItself
  <2> QED BY <2>1, <2>2
<1>3. \/ SeriesRefreshed(c, side, year, letter, seal, class) = after
      \/ /\ SeriesRefreshed(c, side, year, letter, seal, class) = given
         /\ IsEmpty(after, "series") /\ after.source.series # "held"
  BY DEF SeriesRefreshed
<1>4. IsEmpty(after, "series") /\ after.source.series # "held" => ~Persons(after, "series")
  BY DEF Persons
<1> HIDE DEF after
<1>5. Shaped(after, columns)
  BY <1>2 DEF Keeps
<1>6. IsEmpty(after, "series") /\ after.source.series # "held" => Keeps(after, given, columns)
  BY <1>1, <1>4, <1>5
<1> HIDE DEF given
<1> QED BY <1>2, <1>3, <1>6, KeepsOn, Zenon

\* What is sent, and what is entered, leaves the rest.
LEMMA TypedKeeps ==
    ASSUME NEW c, NEW columns, Shaped(c, columns), NEW data, NEW facts
    PROVE  LET sent == [Typed(c, data) EXCEPT !.facts = facts] IN
           Shaped(sent, columns) /\ \A k \in columns \ DOMAIN data : Stands(c, sent, k)
<1> DEFINE F == [k \in columns |-> IF k \in DOMAIN data THEN data[k] ELSE c.value[k]]
           G == [k \in columns |-> IF k \notin DOMAIN data THEN c.source[k]
                                   ELSE IF data[k] = Nothing(k) THEN "held" ELSE "none"]
           d == Typed(c, data)
           e == [d EXCEPT !.facts = facts]
<1>1. DOMAIN d = DOMAIN c /\ d.value = F /\ d.source = G
  BY DEF Typed, Shaped
<1>2. /\ DOMAIN F = columns /\ DOMAIN G = columns
      /\ \A k \in columns \ DOMAIN data : F[k] = c.value[k] /\ G[k] = c.source[k]
  OBVIOUS
<1> HIDE DEF F, G, d
<1>3. DOMAIN e = DOMAIN c /\ e.value = F /\ e.source = G
  BY <1>1 DEF Shaped
<1> HIDE DEF e
<1>4. Shaped(e, columns) /\ \A k \in columns \ DOMAIN data : Stands(c, e, k)
  BY <1>2, <1>3 DEF Shaped, Stands
<1> QED BY <1>4 DEF e, d

LEMMA EnteredIsShaped ==
    ASSUME NEW c, NEW columns, Shaped(c, columns), NEW data, NEW suggested
    PROVE  Shaped(EnteredAs(c, data, suggested), columns)
BY DEF EnteredAs, Shaped

\* One pass over a coin.
LEMMA WeighedSpares ==
    ASSUME NEW c, Shaped(c, Columns), NEW out, SparesPersons(c, out, Columns)
    PROVE  SparesPersons(c, Weighed(c, out), Columns)
<1> DEFINE now == After(c, out, "fine")
           target == FineWeight(After(c, out, "gross"), After(c, out, "fineness"))
           w == Weighed(c, out)
<1>1. CASE w = out
  BY <1>1
<1>2. CASE w # out
  <2>1. /\ c.source.fine # "held" /\ "fine" \notin DOMAIN out.writes
        /\ c.source.fine = "weight" \/ now = NoWeight
        /\ \/ w = [out EXCEPT !.retracts = @ \cup {"fine"}] /\ c.source.fine = "weight"
           \/ w = [writes |-> [column \in DOMAIN out.writes \cup {"fine"} |->
                                 IF column = "fine" THEN [value |-> target, rule |-> "weight"]
                                 ELSE out.writes[column]],
                   retracts |-> out.retracts \ {"fine"}]
    BY <1>2 DEF Weighed
  <2>2. ~Persons(c, "fine")
    <3> SUFFICES ASSUME Persons(c, "fine") PROVE FALSE
      OBVIOUS
    <3>1. c.source.fine = "none" /\ ~IsEmpty(c, "fine")
      BY <2>1 DEF Persons
    <3>2. "fine" \notin out.retracts
      BY DEF SparesPersons, Columns, CompositionColumns
    <3>3. now = c.value.fine /\ c.value.fine # NoWeight
      BY <2>1, <3>1, <3>2 DEF After, IsEmpty, Nothing, Weights
    <3> QED BY <2>1, <3>1, <3>3
  <2> HIDE DEF now, target, w
  <2>3. /\ w = [writes |-> w.writes, retracts |-> w.retracts]
        /\ DOMAIN w.writes \subseteq DOMAIN out.writes \cup {"fine"}
        /\ w.retracts \subseteq out.retracts \cup {"fine"}
    BY <2>1 DEF SparesPersons
  <2>4. SparesPersons(c, w, Columns)
    BY <2>2, <2>3 DEF SparesPersons
  <2> QED BY <2>4 DEF w
<1> QED BY <1>1, <1>2

LEMMA ClassifiedKeeps ==
    ASSUME NEW c, Shaped(c, Columns)
    PROVE  Keeps(c, Classified(c), Columns)
<1>1. SparesPersons(c, CoinOutcome(c), Columns)
  <2>1. \A rows : SparesPersons(c, OutcomeOf(c, rows), Columns)
    BY DecidedSpares, TakenBackSpares DEF OutcomeOf, TakeBack, Filled
  <2> QED BY <2>1 DEF CoinOutcome
<1>2. SparesPersons(c, Weighed(c, CoinOutcome(c)), Columns)
  BY <1>1, WeighedSpares
<1> QED BY <1>2, AppliedKeeps DEF Classified

LEMMA RefreshedKeeps ==
    ASSUME NEW c, Shaped(c, Columns)
    PROVE  Keeps(c, Refreshed(c), Columns)
<1> DEFINE a == Classified(c)
           b == SeriesGiven(a)
<1>1. Keeps(c, a, Columns)
  BY ClassifiedKeeps
<1>2. Keeps(a, b, Columns)
  BY <1>1, SeriesKeeps DEF SeriesGiven, Keeps, Columns
<1>3. Keeps(c, b, Columns) /\ Shaped(b, Columns)
  BY <1>1, <1>2, KeepsOn DEF Keeps
<1>4. Keeps(b, Classified(b), Columns)
  BY <1>3, ClassifiedKeeps
<1> HIDE DEF b
<1>5. Keeps(c, Classified(b), Columns)
  BY <1>3, <1>4, KeepsOn
<1> QED BY <1>3, <1>5 DEF Refreshed, AskedAgain, b

\* What is saved of what was sent: the fine weight is emptied only where the
\* machine had worked it out.
LEMMA SaveKeepsPersons ==
    ASSUME Shaped(coin, Columns), NEW facts, NEW data, Save(facts, data)
    PROVE  /\ Shaped(coin', Columns)
           /\ \A k \in Columns \ answer'.sent : Persons(coin, k) => Stands(coin, coin', k)
<1> DEFINE sent == SentWith(coin, facts, data)
           saved == Saved(facts, data)
           refreshed == Refreshed(saved)
           result == Result(data, saved, refreshed)
<1>1. /\ answer' = [sent |-> DOMAIN data, result |-> result]
      /\ coin' = IF result = "saved" THEN refreshed ELSE coin
  BY DEF Save, SaveOf, SaveRefreshed, Answer
<1>2. answer'.sent = DOMAIN data
  BY <1>1
<1>3. CASE result # "saved"
  BY <1>1, <1>3 DEF Stands
<1>4. CASE result = "saved"
  <2>1. /\ Shaped(sent, Columns)
        /\ \A k \in Columns \ DOMAIN data : Stands(coin, sent, k)
    BY TypedKeeps DEF SentWith
  <2>2. /\ Shaped(saved, Columns)
        /\ \A k \in Columns \ DOMAIN data : Persons(coin, k) => Stands(coin, saved, k)
    <3>1. CASE ~TooFine(coin, data)
      BY <2>1, <3>1 DEF Saved
    <3>2. CASE TooFine(coin, data)
      <4>1. "fine" \notin DOMAIN data /\ coin.source.fine = "weight"
        BY <1>4, <3>2 DEF Result, WorkedOut
      <4>2. saved = Emptied(sent)
        BY <3>2 DEF Saved
      <4>3. ~Persons(coin, "fine")
        BY <4>1 DEF Persons
      <4> HIDE DEF sent, saved
      <4>4. /\ Shaped(saved, Columns)
            /\ \A k \in Columns : k # "fine" => Stands(sent, saved, k)
        BY <2>1, <4>2 DEF Emptied, Shaped, Stands
      <4> QED BY <2>1, <4>3, <4>4 DEF Stands
    <3> QED BY <3>1, <3>2
  <2> HIDE DEF sent, saved
  <2>3. Keeps(saved, refreshed, Columns)
    BY <2>2, RefreshedKeeps
  <2>4. \A k \in Columns : Stands(coin, saved, k) => (Persons(coin, k) <=> Persons(saved, k))
    BY DEF Stands, Persons, IsEmpty
  <2> HIDE DEF refreshed
  <2> QED BY <1>1, <1>2, <1>4, <2>2, <2>3, <2>4 DEF Keeps, Stands
<1> QED BY <1>3, <1>4

\* A guess is made only where a column is empty.
LEMMA GuessKeeps ==
    ASSUME NEW c, Shaped(c, Columns), NEW column \in {"gross", "fineness", "fine"},
           NEW value, NEW rule
    PROVE  Keeps(c, Guess(c, column, value, rule), Columns)
<1>1. CASE IsEmpty(c, column) /\ c.source[column] # "held" /\ value # NoWeight
  <2> DEFINE d == [c EXCEPT !.value[column] = value, !.source[column] = rule]
             F == [c.value EXCEPT ![column] = value]
             G == [c.source EXCEPT ![column] = rule]
  <2>1. Guess(c, column, value, rule) = d
    BY <1>1 DEF Guess
  <2>2. DOMAIN d = DOMAIN c /\ d.value = F /\ d.source = G
    BY DEF Shaped
  <2>3. /\ DOMAIN F = Columns /\ DOMAIN G = Columns
        /\ \A k \in Columns : k # column => F[k] = c.value[k] /\ G[k] = c.source[k]
    BY DEF Shaped
  <2>4. ~Persons(c, column)
    BY <1>1 DEF Persons
  <2> HIDE DEF d, F, G
  <2> QED BY <2>1, <2>2, <2>3, <2>4 DEF Keeps, Stands, Shaped
<1>2. CASE ~(IsEmpty(c, column) /\ c.source[column] # "held" /\ value # NoWeight)
  BY <1>2, KeepsItself DEF Guess
<1> QED BY <1>1, <1>2

LEMMA GuessedKeeps ==
    ASSUME NEW c, Shaped(c, Columns), NEW words, NEW peer
    PROVE  Keeps(c, Guessed(c, words, peer), Columns)
<1> DEFINE own == Guess(Guess(c, "fineness", words.fineness, "words"),
                        "gross", words.gross, "words")
<1>1. \A d, column, value, rule :
        column \in {"gross", "fineness", "fine"} /\ Keeps(c, d, Columns)
        => Keeps(c, Guess(d, column, value, rule), Columns)
  BY GuessKeeps, KeepsOn, Zenon DEF Keeps
<1>2. Keeps(c, own, Columns)
  BY <1>1, KeepsItself
<1> HIDE DEF own
<1>3. ASSUME NEW fineness
      PROVE  Keeps(c, FromPeers(own, fineness, peer), Columns)
  <2> DEFINE fine == IF fineness = NoWeight
                     THEN Guess(own, "fineness", peer.fineness, "peers") ELSE own
             gross == Guess(fine, "gross", peer.gross, "peers")
             both == Guess(gross, "fine", peer.fine, "peers")
  <2>1. Keeps(c, fine, Columns)
    BY <1>1, <1>2
  <2> HIDE DEF fine
  <2>2. Keeps(c, gross, Columns)
    BY <1>1, <2>1
  <2> HIDE DEF gross
  <2>3. Keeps(c, both, Columns)
    BY <1>1, <2>2
  <2> QED BY <1>2, <2>2, <2>3, Zenon DEF FromPeers, fine, gross
<1> QED BY <1>2, <1>3 DEF Guessed, own

LEMMA GuessWeightsKeepsPersons ==
    ASSUME Shaped(coin, Columns), NEW words, NEW peer, GuessWeights(words, peer)
    PROVE  Keeps(coin, coin', Columns)
<1> DEFINE g == Guessed(coin, words, peer)
<1>1. coin' = Refreshed(g)
  BY DEF GuessWeights, GuessOf, GuessRefreshed
<1>2. Keeps(coin, g, Columns)
  BY GuessedKeeps
<1>3. Keeps(g, Refreshed(g), Columns)
  BY <1>2, RefreshedKeeps DEF Keeps
<1> QED BY <1>1, <1>2, <1>3, KeepsOn

LEMMA CoinsStartShaped == DefaultsInit => Shaped(coin, Columns)
<1>1. ASSUME NEW kind, NEW facts, NEW data, NEW suggested
      PROVE  Shaped(Refreshed(EnteredAs(Blank(kind, facts), data, suggested)), Columns)
  <2>1. Shaped(Blank(kind, facts), Columns)
    BY DEF Shaped, Blank
  <2>2. Shaped(EnteredAs(Blank(kind, facts), data, suggested), Columns)
    BY <2>1, EnteredIsShaped
  <2> QED BY <2>2, RefreshedKeeps DEF Keeps
<1> QED BY <1>1 DEF DefaultsInit, Entered

\* What a step may not do to a coin.
CoinsPersonStands ==
  \A column \in Columns \ answer'.sent :
    Persons(coin, column) =>
      /\ coin'.value[column] = coin.value[column]
      /\ coin'.source[column] = coin.source[column]

LEMMA CoinsStep ==
    ASSUME Shaped(coin, Columns), [DefaultsNext]_defaultsVars
    PROVE  Shaped(coin', Columns) /\ CoinsPersonStands
<1>1. ASSUME NEW facts, NEW data, Save(facts, data)
      PROVE  Shaped(coin', Columns) /\ CoinsPersonStands
  BY <1>1, SaveKeepsPersons DEF CoinsPersonStands, Stands
<1>2. ASSUME NEW words, NEW peer, GuessWeights(words, peer)
      PROVE  Shaped(coin', Columns) /\ CoinsPersonStands
  BY <1>2, GuessWeightsKeepsPersons DEF CoinsPersonStands, Stands, Keeps
<1>3. CASE UNCHANGED defaultsVars
  BY <1>3 DEF defaultsVars, CoinsPersonStands
<1> QED BY <1>1, <1>2, <1>3 DEF DefaultsNext

\* One pass over a note.
NoteShaped(n) ==
  Shaped(n, NoteColumns) /\ "links" \in DOMAIN n /\ DOMAIN n.links = Attributes

LinkIsAPersons(n, a) == n.links[a] \in {"removed", "manual"}
KeepsLinks(n, m) ==
  /\ NoteShaped(m)
  /\ \A a \in Attributes : LinkIsAPersons(n, a) => m.links[a] = n.links[a]

LEMMA KeepsLinksOn ==
    ASSUME NEW n, NEW m, NEW o, KeepsLinks(n, m), KeepsLinks(m, o)
    PROVE  KeepsLinks(n, o)
BY DEF KeepsLinks, LinkIsAPersons

LEMMA RuleLinkKeeps ==
    ASSUME NEW link \in {"removed", "manual"}, NEW carries
    PROVE  RuleLink(link, carries) = link
BY DEF RuleLink

LEMMA BothSpare ==
    ASSUME NEW c, NEW columns, NEW a, NEW b, SparesPersons(c, a, columns),
           SparesPersons(c, b, columns)
    PROVE  SparesPersons(c, Both(a, b), columns)
<1>1. /\ Both(a, b) = [writes |-> Both(a, b).writes, retracts |-> Both(a, b).retracts]
      /\ DOMAIN Both(a, b).writes = DOMAIN a.writes \cup DOMAIN b.writes
      /\ Both(a, b).retracts = a.retracts \cup b.retracts
  BY DEF Both
<1> QED BY <1>1 DEF SparesPersons

LEMMA NoteOutcomeSpares ==
    ASSUME NEW n
    PROVE  SparesPersons(n, NoteOutcome(n), NoteColumns)
<1>1. \A type : SparesPersons(n, DistrictOutcome(n, type), NoteColumns)
  BY DecidedSpares, TakenBackSpares DEF DistrictOutcome
<1>2. \A issued : SparesPersons(n, issued, NoteColumns) =>
                    SparesPersons(n, WithDistrict(n, issued), NoteColumns)
  BY <1>1, BothSpare DEF WithDistrict
<1>3. \A issues : SparesPersons(n, NoteOutcomeOf(n, issues), NoteColumns)
  BY <1>2, DecidedSpares, TakenBackSpares DEF NoteOutcomeOf
<1> QED BY <1>3 DEF NoteOutcome

\* A rule's link to one attribute, beside the columns as they are.
LEMMA RuledKeeps ==
    ASSUME NEW n, NoteShaped(n), NEW a \in Attributes, NEW carries
    PROVE  LET m == [n EXCEPT !.links[a] = RuleLink(@, carries)] IN
           /\ m.value = n.value /\ m.source = n.source
           /\ KeepsLinks(n, m)
<1> DEFINE L == [n.links EXCEPT ![a] = RuleLink(@, carries)]
           m == [n EXCEPT !.links[a] = RuleLink(@, carries)]
<1>1. DOMAIN m = DOMAIN n /\ m.links = L /\ m.value = n.value /\ m.source = n.source
  BY DEF NoteShaped, Shaped
<1>2. /\ DOMAIN L = Attributes
      /\ \A b \in Attributes : LinkIsAPersons(n, b) => L[b] = n.links[b]
  BY RuleLinkKeeps DEF NoteShaped, LinkIsAPersons
<1> HIDE DEF L, m
<1>3. KeepsLinks(n, m)
  BY <1>1, <1>2 DEF KeepsLinks, NoteShaped, Shaped
<1> QED BY <1>1, <1>3 DEF m

\* What the columns' outcome leaves of the links.
LEMMA ColumnsKeepLinks ==
    ASSUME NEW n, NoteShaped(n), NEW m, Keeps(n, m, NoteColumns), DOMAIN m = DOMAIN n,
           m.links = n.links
    PROVE  KeepsLinks(n, m)
BY DEF KeepsLinks, NoteShaped, Keeps

LEMMA NoteClassifiedKeeps ==
    ASSUME NEW n, NoteShaped(n)
    PROVE  Keeps(n, NoteClassified(n), NoteColumns) /\ KeepsLinks(n, NoteClassified(n))
<1> DEFINE m == Applied(n, NoteOutcome(n))
           carries == Verdict(n.facts, TypeAfter(n, NoteOutcome(n))) = "always"
           o == [m EXCEPT !.links["no_motto"] = RuleLink(@, carries)]
<1>1. Keeps(n, m, NoteColumns)
  BY NoteOutcomeSpares, AppliedKeeps DEF NoteShaped
<1>2. DOMAIN m = DOMAIN n /\ m.links = n.links
  BY DEF Applied, NoteShaped
<1>3. NoteClassified(n) = o
  BY DEF NoteClassified, ClassifiedAs
<1> HIDE DEF m, carries
<1>4. KeepsLinks(n, m) /\ NoteShaped(m)
  BY <1>1, <1>2, ColumnsKeepLinks DEF KeepsLinks
<1>5. /\ o.value = m.value /\ o.source = m.source
      /\ KeepsLinks(m, o)
  BY <1>4, RuledKeeps DEF Attributes
<1>6. Keeps(n, o, NoteColumns)
  BY <1>1, <1>5 DEF Keeps, Stands, KeepsLinks, NoteShaped
<1> QED BY <1>3, <1>4, <1>5, <1>6, KeepsLinksOn

LEMMA NoteRefreshedKeeps ==
    ASSUME NEW n, NoteShaped(n)
    PROVE  Keeps(n, NoteRefreshed(n), NoteColumns) /\ KeepsLinks(n, NoteRefreshed(n))
<1> DEFINE a == NoteClassified(n)
           b == NoteSeriesGiven(a)
<1>1. Keeps(n, a, NoteColumns) /\ KeepsLinks(n, a)
  BY NoteClassifiedKeeps
<1> HIDE DEF a
<1>2. Keeps(a, b, NoteColumns)
  BY <1>1, SeriesKeeps DEF NoteSeriesGiven, Keeps, NoteColumns
<1>3. KeepsLinks(a, b)
  <2>1. NoteShaped(a)
    BY <1>1 DEF KeepsLinks
  <2>2. DOMAIN b = DOMAIN a /\ b.links = a.links
    BY <2>1 DEF NoteSeriesGiven, SeriesRefreshed, NoteShaped
  <2> QED BY <1>2, <2>1, <2>2, ColumnsKeepLinks
<1> HIDE DEF b
<1>4. Keeps(n, b, NoteColumns) /\ KeepsLinks(n, b) /\ NoteShaped(b)
  <2>1. Keeps(n, b, NoteColumns)
    BY <1>1, <1>2, KeepsOn, Zenon
  <2>2. KeepsLinks(n, b)
    BY <1>1, <1>3, KeepsLinksOn, Zenon
  <2> QED BY <2>1, <2>2, <1>3 DEF KeepsLinks
<1>5. Keeps(b, NoteClassified(b), NoteColumns) /\ KeepsLinks(b, NoteClassified(b))
  BY <1>4, NoteClassifiedKeeps
<1>6. Keeps(n, NoteClassified(b), NoteColumns) /\ KeepsLinks(n, NoteClassified(b))
  BY <1>4, <1>5, KeepsOn, KeepsLinksOn
<1> QED BY <1>4, <1>6 DEF NoteRefreshed, NoteAskedAgain, a, b

LEMMA SaveNoteKeepsPersons ==
    ASSUME NoteShaped(note), NEW facts, NEW data, NEW attributes,
           SaveNote(facts, data, attributes)
    PROVE  /\ NoteShaped(note')
           /\ \A k \in NoteColumns \ sentNote' : Persons(note, k) => Stands(note, note', k)
           /\ \A a \in Attributes \ sentNote' :
                LinkIsAPersons(note, a) => note'.links[a] = note.links[a]
<1> DEFINE with == IF attributes = {} THEN note ELSE AttributesSet(note, UNION attributes)
           sent == [Typed(with, data) EXCEPT !.facts = facts]
           refreshed == NoteRefreshed(sent)
           ruled == [refreshed EXCEPT !.links["gift"] = RuleLink(@, refreshed.facts.free)]
<1>1. /\ note' = ruled
      /\ sentNote' = DOMAIN data \cup (IF attributes = {} THEN {} ELSE Attributes)
  BY DEF SaveNote, SavedNote, GiftRuled
<1>2. /\ NoteShaped(with) /\ with.value = note.value /\ with.source = note.source
      /\ attributes = {} => with.links = note.links
  BY DEF AttributesSet, NoteShaped, Shaped
<1> HIDE DEF with
<1>3. /\ Shaped(sent, NoteColumns)
      /\ \A k \in NoteColumns \ DOMAIN data : Stands(with, sent, k)
  BY <1>2, TypedKeeps DEF NoteShaped
<1>4. NoteShaped(sent) /\ sent.links = with.links
  BY <1>2, <1>3 DEF NoteShaped, Typed
<1> HIDE DEF sent
<1>5. Keeps(sent, refreshed, NoteColumns) /\ KeepsLinks(sent, refreshed)
  BY <1>4, NoteRefreshedKeeps
<1> HIDE DEF refreshed
<1>6. NoteShaped(refreshed)
  BY <1>5 DEF KeepsLinks
<1>7. /\ ruled.value = refreshed.value /\ ruled.source = refreshed.source
      /\ KeepsLinks(refreshed, ruled)
  BY <1>6, RuledKeeps DEF Attributes
<1> HIDE DEF ruled
<1>8. NoteShaped(note') /\ KeepsLinks(sent, note')
  BY <1>1, <1>5, <1>7, KeepsLinksOn DEF KeepsLinks
<1>9. ASSUME NEW k \in NoteColumns \ sentNote', Persons(note, k)
      PROVE  Stands(note, note', k)
  <2>1. Stands(note, sent, k)
    BY <1>1, <1>2, <1>3, <1>9 DEF Stands
  <2>2. Persons(sent, k)
    BY <1>9, <2>1 DEF Stands, Persons, IsEmpty
  <2> QED BY <1>1, <1>5, <1>7, <2>1, <2>2 DEF Keeps, Stands
<1>10. ASSUME NEW a \in Attributes \ sentNote', LinkIsAPersons(note, a)
       PROVE  note'.links[a] = note.links[a]
  <2>1. attributes = {} /\ sent.links = note.links
    BY <1>1, <1>2, <1>4, <1>10
  <2> QED BY <1>8, <1>10, <2>1 DEF KeepsLinks, LinkIsAPersons
<1> QED BY <1>8, <1>9, <1>10

LEMMA NotesStartShaped == NotesInit => NoteShaped(note)
<1>1. ASSUME NEW facts, NEW data, NEW suggested, NEW codes, NEW blank,
             blank = [facts  |-> facts,
                      value  |-> [k \in NoteColumns |-> NoCode],
                      source |-> [k \in NoteColumns |-> "none"],
                      links  |-> [a \in Attributes |-> IF a \in codes THEN "manual" ELSE "none"]]
      PROVE  NoteShaped(NoteRefreshed(EnteredAs(blank, data, suggested)))
  <2> DEFINE entered == EnteredAs(blank, data, suggested)
  <2>1. Shaped(blank, NoteColumns)
    BY <1>1 DEF Shaped
  <2>2. Shaped(entered, NoteColumns)
    BY <2>1, EnteredIsShaped
  <2>3. "links" \in DOMAIN entered /\ DOMAIN entered.links = Attributes
    BY <1>1 DEF EnteredAs
  <2> HIDE DEF entered
  <2>4. NoteShaped(NoteRefreshed(entered))
    BY <2>2, <2>3, NoteRefreshedKeeps DEF NoteShaped, KeepsLinks
  <2> QED BY <2>4 DEF entered
<1> QED BY <1>1 DEF NotesInit

\* What a step may not do to a note, and to its attributes.
NotesPersonStands ==
  \A k \in NoteColumns \ sentNote' :
    Persons(note, k) => /\ note'.value[k] = note.value[k]
                        /\ note'.source[k] = note.source[k]
NotesLinksStand ==
  \A a \in Attributes \ sentNote' :
    note.links[a] \in {"removed", "manual"} => note'.links[a] = note.links[a]

LEMMA NotesStep ==
    ASSUME NoteShaped(note), [NotesNext]_noteVars
    PROVE  NoteShaped(note') /\ NotesPersonStands /\ NotesLinksStand
<1>1. ASSUME NEW facts, NEW data, NEW attributes, SaveNote(facts, data, attributes)
      PROVE  NoteShaped(note') /\ NotesPersonStands /\ NotesLinksStand
  BY <1>1, SaveNoteKeepsPersons DEF NotesPersonStands, NotesLinksStand, Stands, LinkIsAPersons
<1>2. CASE UNCHANGED noteVars
  BY <1>2 DEF noteVars, NotesPersonStands, NotesLinksStand
<1> QED BY <1>1, <1>2 DEF NotesNext

\* What a person said of a coin or of a note, a column emptied among it and an
\* attribute taken away, stands through every save that does not send it, for
\* any designs, compositions, issues, banks, facts and values
\* (classifier_defaults.py:16, item_attributes.py:8).
THEOREM PersonsWordStandsHolds == DefaultsSpec /\ NotesSpec => PersonsWordStands
<1>1. DefaultsInit => Shaped(coin, Columns)
  BY CoinsStartShaped
<1>2. Shaped(coin, Columns) /\ [DefaultsNext]_defaultsVars
        => Shaped(coin, Columns)' /\ CoinsPersonStands
  BY CoinsStep
<1>3. NotesInit => NoteShaped(note)
  BY NotesStartShaped
<1>4. NoteShaped(note) /\ [NotesNext]_noteVars
        => NoteShaped(note)' /\ NotesPersonStands /\ NotesLinksStand
  BY NotesStep
<1>5. DefaultsSpec => [][CoinsPersonStands]_defaultsVars
  BY <1>1, <1>2, PTL DEF DefaultsSpec
<1>6. NotesSpec => [][NotesPersonStands]_noteVars /\ [][NotesLinksStand]_noteVars
  BY <1>3, <1>4, PTL DEF NotesSpec
<1> QED
  BY <1>5, <1>6, PTL
  DEF PersonsWordStands, PersonsValueStands, NotePersonsValueStands, PersonsAttributesStand,
      CoinsPersonStands, NotesPersonStands, NotesLinksStand

-----------------------------------------------------------------------------
(* The merges of a vocabulary.                                               *)

Name == Value \cup Word
AnEdit ==
  [does : {"edit"}, item : Article, value : Value, to : {"held", "removed"}, read : Nat]
AMerge ==
  [does : {"merge"}, source : Value, target : Value,
   at : {"lock", "late", "hold", "move", "commit"},
   called : SUBSET Name, own : SUBSET Name,
   items : SUBSET Article, moves : SUBSET Article, log : SUBSET Article]
Mark == {"none", "held", "removed"}

VocabularyTypes ==
  /\ values \subseteq Value /\ usable \subseteq values
  /\ label \in [Value -> Name] /\ names \in [Value -> SUBSET Name]
  /\ DOMAIN became \subseteq Value
  /\ marks \in [Article -> [Value -> Mark]]
  /\ DOMAIN told = Article
  /\ edition \in [Article -> Nat]
  /\ asks \in [Request -> {AsksNothing} \cup AnEdit \cup AMerge]
  /\ DOMAIN lockedBy = Article

Marked(ms, v) == {i \in Article : ms[i][v] # "none"}

\* An edit of an item that has not changed since was asked for what it holds.
EditIsAsked(a, ms, ed) ==
  a.does = "edit" =>
    /\ a.read <= ed[a.item]
    /\ a.read = ed[a.item] /\ a.to = "removed" => ms[a.item][a.value] = "held"

\* How far a merge has come: where the items marked with its source are, and
\* which of them it holds.
MergeIsOn(r, a, vs, ms, lk) ==
  a.does = "merge" =>
    /\ a.target \in vs /\ a.source # a.target
    /\ a.at \in {"hold", "move"} => Marked(ms, a.source) \subseteq a.items
    /\ a.at \in {"move", "commit"} => \A i \in a.items : lk[i] = r
    /\ a.at = "move" => Marked(ms, a.source) \subseteq a.log
    /\ a.at = "commit" => a.moves \subseteq a.items \cap a.log

\* No value is merged away while another is merged into it.
Apart(as) ==
  \A r, s \in Request :
    as[r].does = "merge" /\ as[s].does = "merge" => as[r].source # as[s].target

VocabularyInvariant ==
  /\ VocabularyTypes
  /\ MergedLeadsOn /\ HistoryIsTrue
  /\ \A r \in Request :
       EditIsAsked(asks[r], marks, edition) /\ MergeIsOn(r, asks[r], values, marks, lockedBy)
  /\ Apart(asks)

\* What a request keeps true of another's edit, and of another's merge.
Changes(ms, ed, ms2, ed2) ==
  \A i \in Article :
    ed[i] \in Nat /\ ed2[i] \in Nat /\ ed[i] <= ed2[i] /\ (ed2[i] = ed[i] => ms2[i] = ms[i])
Spares(r, a, ms, lk, vs2, ms2, lk2) ==
  a.does = "merge" =>
    /\ a.target \in vs2
    /\ \A i \in Article :
         /\ lk[i] = r => lk2[i] = r
         /\ a.at \in {"hold", "move"} /\ ms2[i][a.source] # "none" =>
              ms[i][a.source] # "none" \/ (a.at = "hold" /\ i \in a.items)

LEMMA EditGoesOn ==
    ASSUME NEW a, a.does = "edit" => a \in AnEdit, NEW ms, NEW ed, NEW ms2, NEW ed2,
           EditIsAsked(a, ms, ed), Changes(ms, ed, ms2, ed2)
    PROVE  EditIsAsked(a, ms2, ed2)
<1> SUFFICES ASSUME a.does = "edit"
             PROVE  /\ a.read <= ed2[a.item]
                    /\ a.read = ed2[a.item] /\ a.to = "removed" => ms2[a.item][a.value] = "held"
  BY DEF EditIsAsked
<1>1. a.item \in Article /\ a.read \in Nat
  BY DEF AnEdit
<1>2. /\ a.read <= ed[a.item]
      /\ a.read = ed[a.item] /\ a.to = "removed" => ms[a.item][a.value] = "held"
  BY DEF EditIsAsked
<1>3. /\ ed[a.item] \in Nat /\ ed2[a.item] \in Nat /\ ed[a.item] <= ed2[a.item]
      /\ ed2[a.item] = ed[a.item] => ms2[a.item] = ms[a.item]
  BY <1>1 DEF Changes
<1>4. a.read = ed2[a.item] => ed2[a.item] = ed[a.item]
  BY <1>1, <1>2, <1>3
<1> QED BY <1>1, <1>2, <1>3, <1>4

LEMMA MergeGoesOn ==
    ASSUME NEW r, NEW a, a.does = "merge" => a \in AMerge, NEW vs, NEW ms, NEW lk,
           NEW vs2, NEW ms2, NEW lk2,
           MergeIsOn(r, a, vs, ms, lk), Spares(r, a, ms, lk, vs2, ms2, lk2)
    PROVE  MergeIsOn(r, a, vs2, ms2, lk2)
<1> SUFFICES ASSUME a.does = "merge"
             PROVE  MergeIsOn(r, a, vs2, ms2, lk2)
  BY DEF MergeIsOn
<1>1. a.items \in SUBSET Article
  BY DEF AMerge
<1>2. /\ a.source # a.target
      /\ a.at \in {"hold", "move"} => Marked(ms, a.source) \subseteq a.items
      /\ a.at \in {"move", "commit"} => \A i \in a.items : lk[i] = r
      /\ a.at = "move" => Marked(ms, a.source) \subseteq a.log
      /\ a.at = "commit" => a.moves \subseteq a.items \cap a.log
  BY DEF MergeIsOn
<1>3. /\ a.target \in vs2
      /\ \A i \in Article :
           /\ lk[i] = r => lk2[i] = r
           /\ a.at \in {"hold", "move"} /\ ms2[i][a.source] # "none" =>
                ms[i][a.source] # "none" \/ (a.at = "hold" /\ i \in a.items)
  BY DEF Spares
<1>4. a.at \in {"hold", "move"} => Marked(ms2, a.source) \subseteq a.items
  BY <1>2, <1>3 DEF Marked
<1>5. a.at = "move" => Marked(ms2, a.source) \subseteq a.log
  BY <1>2, <1>3 DEF Marked
<1>6. a.at \in {"move", "commit"} => \A i \in a.items : lk2[i] = r
  BY <1>1, <1>2, <1>3
<1> QED BY <1>2, <1>3, <1>4, <1>5, <1>6 DEF MergeIsOn

LEMMA ApartStays ==
    ASSUME NEW as, NEW as2, Apart(as),
           \A s \in Request : as2[s].does = "merge" =>
             /\ as[s].does = "merge" /\ as2[s].source = as[s].source
             /\ as2[s].target = as[s].target
    PROVE  Apart(as2)
BY DEF Apart

\* What a request asks.
LEMMA VocabularyAsked ==
    ASSUME VocabularyTypes, NEW r \in Request
    PROVE  /\ asks[r].does \in {"nothing", "edit", "merge"}
           /\ asks[r].does = "edit" => asks[r] \in AnEdit
           /\ asks[r].does = "merge" => asks[r] \in AMerge
           /\ asks[r] = AsksNothing <=> asks[r].does = "nothing"
<1>1. asks[r] \in {AsksNothing} \cup AnEdit \cup AMerge
  BY DEF VocabularyTypes
<1>2. CASE asks[r] = AsksNothing BY <1>2 DEF AsksNothing
<1>3. CASE asks[r] \in AnEdit
  <2>1. asks[r].does = "edit" /\ asks[r] # AsksNothing BY <1>3 DEF AnEdit, AsksNothing
  <2> QED BY <1>3, <2>1
<1>4. CASE asks[r] \in AMerge
  <2>1. asks[r].does = "merge" /\ asks[r] # AsksNothing BY <1>4 DEF AMerge, AsksNothing
  <2> QED BY <1>4, <2>1
<1> QED BY <1>1, <1>2, <1>3, <1>4

\* One request goes on, and the others are as they were: what is left to show
\* of it is of that request and of the tables.
LEMMA OneGoesOn ==
    ASSUME VocabularyInvariant, NEW r \in Request, NEW x \in {AsksNothing} \cup AnEdit \cup AMerge,
           asks' = [asks EXCEPT ![r] = x],
           Changes(marks, edition, marks', edition'),
           \A s \in Request : s # r => Spares(s, asks[s], marks, lockedBy, values', marks', lockedBy'),
           EditIsAsked(x, marks', edition'),
           MergeIsOn(r, x, values', marks', lockedBy')
    PROVE  /\ asks' \in [Request -> {AsksNothing} \cup AnEdit \cup AMerge]
           /\ \A s \in Request :
                EditIsAsked(asks'[s], marks', edition')
                /\ MergeIsOn(s, asks'[s], values', marks', lockedBy')
<1>1. asks \in [Request -> {AsksNothing} \cup AnEdit \cup AMerge]
  BY DEF VocabularyInvariant, VocabularyTypes
<1>2. /\ asks' \in [Request -> {AsksNothing} \cup AnEdit \cup AMerge]
      /\ asks'[r] = x /\ \A s \in Request : s # r => asks'[s] = asks[s]
  BY <1>1
<1>3. ASSUME NEW s \in Request, s # r
      PROVE  EditIsAsked(asks[s], marks', edition')
             /\ MergeIsOn(s, asks[s], values', marks', lockedBy')
  <2>1. /\ asks[s].does = "edit" => asks[s] \in AnEdit
        /\ asks[s].does = "merge" => asks[s] \in AMerge
    BY VocabularyAsked DEF VocabularyInvariant
  <2>2. EditIsAsked(asks[s], marks, edition) /\ MergeIsOn(s, asks[s], values, marks, lockedBy)
    BY DEF VocabularyInvariant
  <2>3. Spares(s, asks[s], marks, lockedBy, values', marks', lockedBy')
    BY <1>3
  <2> QED BY <2>1, <2>2, <2>3, EditGoesOn, MergeGoesOn, Zenon
<1> QED BY <1>2, <1>3, Zenon

\* A merge that has come further is the same one.
Same(x, g) ==
  /\ x.does = g.does /\ x.source = g.source /\ x.target = g.target
  /\ x.called = g.called /\ x.own = g.own

LEMMA MergeAt ==
    ASSUME NEW g \in AMerge, NEW a \in {"lock", "late", "hold", "move", "commit"}
    PROVE  LET x == [g EXCEPT !.at = a] IN
           /\ x \in AMerge /\ Same(x, g) /\ x.at = a
           /\ x.items = g.items /\ x.moves = g.moves /\ x.log = g.log
BY DEF AMerge, Same

LEMMA MergeItems ==
    ASSUME NEW g \in AMerge, NEW its \in SUBSET Article
    PROVE  LET x == [g EXCEPT !.items = its] IN
           /\ x \in AMerge /\ Same(x, g) /\ x.items = its
           /\ x.at = g.at /\ x.moves = g.moves /\ x.log = g.log
BY DEF AMerge, Same

LEMMA MergeMoves ==
    ASSUME NEW g \in AMerge, NEW its \in SUBSET Article
    PROVE  LET x == [g EXCEPT !.moves = its] IN
           /\ x \in AMerge /\ Same(x, g) /\ x.moves = its
           /\ x.at = g.at /\ x.items = g.items /\ x.log = g.log
BY DEF AMerge, Same

LEMMA MergeLogs ==
    ASSUME NEW g \in AMerge, NEW its \in SUBSET Article
    PROVE  LET x == [g EXCEPT !.log = its] IN
           /\ x \in AMerge /\ Same(x, g) /\ x.log = its
           /\ x.at = g.at /\ x.items = g.items /\ x.moves = g.moves
BY DEF AMerge, Same

\* A step of one request that writes no table.
LEMMA QuietKeeps ==
    ASSUME VocabularyInvariant, NEW r \in Request, NEW x \in {AsksNothing} \cup AnEdit \cup AMerge,
           UNCHANGED <<values, usable, label, names, became, marks, told, edition>>,
           asks' = [asks EXCEPT ![r] = x], DOMAIN lockedBy' = Article,
           \A s \in Request : s # r => \A i \in Article : lockedBy[i] = s => lockedBy'[i] = s,
           EditIsAsked(x, marks, edition),
           MergeIsOn(r, x, values, marks, lockedBy'),
           Apart(asks')
    PROVE  VocabularyInvariant'
<1>1. Changes(marks, edition, marks', edition')
  <2>1. \A i \in Article : edition[i] \in Nat
    BY DEF VocabularyInvariant, VocabularyTypes
  <2> QED BY <2>1 DEF Changes
<1>2. ASSUME NEW s \in Request, s # r
      PROVE  Spares(s, asks[s], marks, lockedBy, values', marks', lockedBy')
  <2>1. MergeIsOn(s, asks[s], values, marks, lockedBy)
    BY DEF VocabularyInvariant
  <2> QED BY <1>2, <2>1 DEF Spares, MergeIsOn
<1>3. /\ asks' \in [Request -> {AsksNothing} \cup AnEdit \cup AMerge]
      /\ \A s \in Request :
           EditIsAsked(asks'[s], marks', edition')
           /\ MergeIsOn(s, asks'[s], values', marks', lockedBy')
  BY <1>1, <1>2, OneGoesOn
<1>4. VocabularyTypes'
  BY <1>3, Zenon DEF VocabularyInvariant, VocabularyTypes
<1>5. MergedLeadsOn' /\ HistoryIsTrue'
  BY DEF VocabularyInvariant, MergedLeadsOn, HistoryIsTrue, HeldBy
<1> QED BY <1>3, <1>4, <1>5, Zenon DEF VocabularyInvariant

\* Who asks nothing, and what asks nothing of the tables.
LEMMA NothingAsked ==
    /\ AsksNothing \in {AsksNothing} \cup AnEdit \cup AMerge
    /\ \A ms, ed : EditIsAsked(AsksNothing, ms, ed)
    /\ \A r, vs, ms, lk : MergeIsOn(r, AsksNothing, vs, ms, lk)
BY DEF AsksNothing, EditIsAsked, MergeIsOn

LEMMA VocabularyRefusedKeeps ==
    ASSUME VocabularyInvariant, NEW r \in Request, Refused(r)
    PROVE  VocabularyInvariant'
<1>1. /\ asks' = [asks EXCEPT ![r] = AsksNothing]
      /\ lockedBy' = [i \in Article |-> IF lockedBy[i] = r THEN Unlocked ELSE lockedBy[i]]
      /\ UNCHANGED <<values, usable, label, names, became, marks, told, edition>>
  BY DEF Refused, Ends, nameVars
<1>2. Apart(asks')
  <2>1. DOMAIN asks = Request
    BY DEF VocabularyInvariant, VocabularyTypes
  <2>2. \A s \in Request : asks'[s] = IF s = r THEN AsksNothing ELSE asks[s]
    BY <1>1, <2>1
  <2>3. Apart(asks)
    BY DEF VocabularyInvariant
  <2> QED BY <2>2, <2>3, ApartStays DEF AsksNothing
<1> QED BY <1>1, <1>2, QuietKeeps, NothingAsked

LEMMA TablesKeep ==
    ASSUME VocabularyInvariant, NEW v \in Value, Retire(v) \/ Create(v)
    PROVE  VocabularyInvariant'
<1>1. /\ UNCHANGED <<names, became, marks, told, edition, asks, lockedBy>>
      /\ label' \in [Value -> Name]
      /\ values \subseteq values' /\ values' \subseteq Value /\ usable' \subseteq values'
      /\ values' \cap DOMAIN became = {}
  <2>1. values \cap DOMAIN became = {} /\ values \subseteq Value /\ usable \subseteq values
       /\ label \in [Value -> Name]
    BY DEF VocabularyInvariant, MergedLeadsOn, VocabularyTypes
  <2>2. CASE Retire(v) BY <2>1, <2>2 DEF Retire, nameVars
  <2>3. CASE Create(v) BY <2>1, <2>3 DEF Create, NotMerged, Name
  <2> QED BY <2>2, <2>3
<1>2. VocabularyTypes'
  BY <1>1, Zenon DEF VocabularyInvariant, VocabularyTypes
<1>3. MergedLeadsOn'
  BY <1>1 DEF VocabularyInvariant, MergedLeadsOn
<1>4. HistoryIsTrue'
  BY <1>1 DEF VocabularyInvariant, HistoryIsTrue, HeldBy
<1>5. ASSUME NEW s \in Request
      PROVE  MergeIsOn(s, asks[s], values', marks, lockedBy)
  <2>1. MergeIsOn(s, asks[s], values, marks, lockedBy)
    BY DEF VocabularyInvariant
  <2> QED BY <1>1, <2>1 DEF MergeIsOn
<1>6. Apart(asks) /\ \A s \in Request : EditIsAsked(asks[s], marks, edition)
  BY DEF VocabularyInvariant
<1> QED BY <1>1, <1>2, <1>3, <1>4, <1>5, <1>6, Zenon DEF VocabularyInvariant

LEMMA NamingKeeps ==
    ASSUME VocabularyInvariant, NEW v \in Value, NEW n \in Name,
           Relabel(v, n) \/ AddAlias(v, n) \/ RemoveAlias(v, n)
    PROVE  VocabularyInvariant'
<1>1. /\ UNCHANGED <<values, usable, became, marks, told, edition, asks, lockedBy>>
      /\ label' \in [Value -> Name] /\ names' \in [Value -> SUBSET Name]
  <2>1. label \in [Value -> Name] /\ names \in [Value -> SUBSET Name]
    BY DEF VocabularyInvariant, VocabularyTypes
  <2>2. CASE Relabel(v, n) BY <2>1, <2>2 DEF Relabel, GivesName
  <2>3. CASE AddAlias(v, n) BY <2>1, <2>3 DEF AddAlias, GivesName
  <2>4. CASE RemoveAlias(v, n) BY <2>1, <2>4 DEF RemoveAlias, GivesName
  <2> QED BY <2>2, <2>3, <2>4
<1>2. VocabularyTypes' /\ MergedLeadsOn' /\ HistoryIsTrue'
  BY <1>1 DEF VocabularyInvariant, VocabularyTypes, MergedLeadsOn, HistoryIsTrue, HeldBy
<1> QED BY <1>1, <1>2 DEF VocabularyInvariant

LEMMA BeginEditKeeps ==
    ASSUME VocabularyInvariant, NEW r \in Request, NEW i \in Article, NEW v \in Value,
           NEW to \in {"held", "removed"}, BeginEdit(r, i, v, to)
    PROVE  VocabularyInvariant'
<1> DEFINE x == [does |-> "edit", item |-> i, value |-> v, to |-> to, read |-> edition[i]]
<1>1. /\ asks' = [asks EXCEPT ![r] = x]
      /\ UNCHANGED <<values, usable, label, names, became, marks, told, edition, lockedBy>>
      /\ to = "removed" => marks[i][v] = "held"
  BY DEF BeginEdit, nameVars
<1>2. edition[i] \in Nat /\ DOMAIN asks = Request /\ DOMAIN lockedBy = Article
  BY DEF VocabularyInvariant, VocabularyTypes
<1>3. x \in AnEdit /\ EditIsAsked(x, marks, edition) /\ x.does = "edit"
  BY <1>1, <1>2 DEF AnEdit, EditIsAsked
<1>4. MergeIsOn(r, x, values, marks, lockedBy')
  BY <1>3 DEF MergeIsOn
<1> HIDE DEF x
<1>5. Apart(asks')
  <2>1. \A s \in Request : asks'[s] = IF s = r THEN x ELSE asks[s]
    BY <1>1, <1>2
  <2>2. Apart(asks)
    BY DEF VocabularyInvariant
  <2> QED BY <1>3, <2>1, <2>2, ApartStays
<1> QED BY <1>1, <1>2, <1>3, <1>4, <1>5, QuietKeeps

LEMMA BeginMergeKeeps ==
    ASSUME VocabularyInvariant, ~CrossMerges, NEW r \in Request \cap NotAsking,
           NEW v \in Value, NEW w \in Value, BeginMerge(r, v, w)
    PROVE  VocabularyInvariant'
<1> DEFINE x == [does |-> "merge", source |-> v, target |-> w, at |-> "lock",
                 called |-> OwnNames(v), own |-> OwnNames(w),
                 items |-> MarkedWith(v), moves |-> {}, log |-> MarkedWith(v)]
<1>1. /\ asks' = [asks EXCEPT ![r] = x]
      /\ UNCHANGED <<values, usable, label, names, became, marks, told, edition, lockedBy>>
      /\ v # w /\ w \in values /\ ~Crosses(v, w)
  BY DEF BeginMerge, nameVars
<1>2. DOMAIN asks = Request /\ DOMAIN lockedBy = Article
  BY DEF VocabularyInvariant, VocabularyTypes
<1>3. x \in AMerge /\ x.does = "merge" /\ x.source = v /\ x.target = w /\ x.at = "lock"
  <2>1. OwnNames(v) \in SUBSET Name /\ OwnNames(w) \in SUBSET Name
    BY DEF VocabularyInvariant, VocabularyTypes, OwnNames, Name
  <2> QED BY <2>1 DEF AMerge, MarkedWith
<1>4. ~Crosses(v, w)
  BY <1>1
<1> HIDE DEF x
<1>5. EditIsAsked(x, marks, edition) /\ MergeIsOn(r, x, values, marks, lockedBy')
  BY <1>1, <1>3 DEF EditIsAsked, MergeIsOn
<1>6. Apart(asks')
  <2>1. \A s \in Request : asks'[s] = IF s = r THEN x ELSE asks[s]
    BY <1>1, <1>2
  <2>2. Apart(asks)
    BY DEF VocabularyInvariant
  <2>3. \A s \in Request : asks[s].does = "merge" => v # asks[s].target /\ w # asks[s].source
    BY <1>4 DEF Crosses, Merging
  <2> QED BY <1>1, <1>3, <2>1, <2>2, <2>3 DEF Apart
<1> QED BY <1>1, <1>2, <1>3, <1>5, <1>6, QuietKeeps

LEMMA LockItemsKeeps ==
    ASSUME VocabularyInvariant, NEW r \in Request, LockItems(r)
    PROVE  VocabularyInvariant'
<1> DEFINE g == asks[r]
<1>1. /\ g \in AMerge /\ g.does = "merge" /\ DOMAIN asks = Request /\ DOMAIN lockedBy = Article
      /\ MergeIsOn(r, g, values, marks, lockedBy) /\ Apart(asks)
  BY VocabularyAsked DEF VocabularyInvariant, VocabularyTypes, LockItems
<1>2. /\ UNCHANGED <<values, usable, label, names, became, marks, told, edition>>
      /\ DOMAIN lockedBy' = Article
      /\ \A s \in Request : s # r => \A i \in Article : lockedBy[i] = s => lockedBy'[i] = s
  <2>1. CASE Holds(r, g.items)
    <3>1. \A s \in Request : s # Unlocked
      BY VocabularyAssumption DEF VocabularyAssumption, Unlocked
    <3> QED BY <1>1, <2>1, <3>1 DEF Holds, LockItems, nameVars
  <2>2. CASE UNCHANGED lockedBy
    BY <1>1, <2>2 DEF LockItems, nameVars
  <2> QED BY <2>1, <2>2 DEF LockItems
<1>3. PICK x : /\ asks' = [asks EXCEPT ![r] = x]
               /\ x \in AMerge /\ x.does = "merge" /\ x.source = g.source /\ x.target = g.target
               /\ MergeIsOn(r, x, values, marks, lockedBy')
  <2>1. CASE g.at = "lock"
    <3> DEFINE x == [g EXCEPT !.at = "late"]
    <3>1. asks' = [asks EXCEPT ![r] = x]
      BY <1>1, <2>1 DEF LockItems
    <3>2. /\ x \in AMerge /\ x.does = "merge" /\ x.source = g.source /\ x.target = g.target
          /\ x.at = "late"
      BY <1>1 DEF AMerge
    <3>3. MergeIsOn(r, x, values, marks, lockedBy')
      BY <1>1, <3>2 DEF MergeIsOn
    <3> QED BY <3>1, <3>2, <3>3
  <2>2. CASE g.at = "late"
    <3> DEFINE x == [g EXCEPT !.at = "hold", !.items = @ \cup Late(g.source)]
    <3>1. asks' = [asks EXCEPT ![r] = x]
      BY <1>1, <2>2 DEF LockItems
    <3>2. /\ x \in AMerge /\ x.does = "merge" /\ x.source = g.source /\ x.target = g.target
          /\ x.at = "hold" /\ x.items = g.items \cup MarkedWith(g.source)
      <4> DEFINE y == [g EXCEPT !.at = "hold"]
                 its == g.items \cup MarkedWith(g.source)
      <4>1. y \in AMerge /\ Same(y, g) /\ y.at = "hold" /\ y.items = g.items
        BY <1>1, MergeAt
      <4>2. its \in SUBSET Article
        BY <1>1 DEF AMerge, MarkedWith
      <4>3. x = [y EXCEPT !.items = its]
        BY DEF Late
      <4> HIDE DEF x, y, its
      <4>4. x \in AMerge /\ Same(x, y) /\ x.items = its /\ x.at = y.at
        BY <4>1, <4>2, <4>3, MergeItems
      <4> QED BY <1>1, <4>1, <4>4 DEF Same, its
    <3> HIDE DEF x
    <3>3. MergeIsOn(r, x, values, marks, lockedBy')
      BY <1>1, <3>2 DEF MergeIsOn, MarkedWith, Marked
    <3> QED BY <3>1, <3>2, <3>3
  <2>3. CASE g.at = "hold"
    <3> DEFINE x == [g EXCEPT !.at = "move", !.log = ToLog(r)]
    <3>1. asks' = [asks EXCEPT ![r] = x] /\ Holds(r, g.items)
      BY <1>1, <2>3 DEF LockItems
    <3>2. /\ x \in AMerge /\ x.does = "merge" /\ x.source = g.source /\ x.target = g.target
          /\ x.at = "move" /\ x.items = g.items /\ x.log = MarkedWith(g.source)
      <4> DEFINE y == [g EXCEPT !.at = "move"]
                 its == MarkedWith(g.source)
      <4>1. y \in AMerge /\ Same(y, g) /\ y.at = "move" /\ y.items = g.items
        BY <1>1, MergeAt
      <4>2. its \in SUBSET Article
        BY <1>1 DEF MarkedWith
      <4>3. x = [y EXCEPT !.log = its]
        BY DEF ToLog
      <4> HIDE DEF x, y, its
      <4>4. x \in AMerge /\ Same(x, y) /\ x.log = its /\ x.at = y.at /\ x.items = y.items
        BY <4>1, <4>2, <4>3, MergeLogs
      <4> QED BY <1>1, <4>1, <4>4 DEF Same, its
    <3>3. \A i \in g.items : lockedBy'[i] = r
      BY <1>1, <3>1 DEF Holds, AMerge
    <3> HIDE DEF x
    <3>4. MergeIsOn(r, x, values, marks, lockedBy')
      BY <1>1, <2>3, <3>2, <3>3 DEF MergeIsOn, MarkedWith, Marked
    <3> QED BY <3>1, <3>2, <3>4
  <2> QED BY <2>1, <2>2, <2>3 DEF LockItems
<1> HIDE DEF g
<1>4. EditIsAsked(x, marks, edition)
  BY <1>3 DEF EditIsAsked
<1>5. Apart(asks')
  <2>1. \A s \in Request : asks'[s] = IF s = r THEN x ELSE asks[s]
    BY <1>1, <1>3
  <2> QED BY <1>1, <1>3, <2>1, ApartStays DEF g
<1> QED BY <1>2, <1>3, <1>4, <1>5, QuietKeeps

LEMMA MoveRecordsKeeps ==
    ASSUME VocabularyInvariant, NEW r \in Request, MoveRecords(r)
    PROVE  VocabularyInvariant'
<1> DEFINE g == asks[r]
           x == [g EXCEPT !.at = "commit", !.moves = MarkedWith(g.source)]
<1>1. /\ g \in AMerge /\ g.does = "merge" /\ DOMAIN asks = Request /\ DOMAIN lockedBy = Article
      /\ MergeIsOn(r, g, values, marks, lockedBy) /\ Apart(asks)
  BY VocabularyAsked DEF VocabularyInvariant, VocabularyTypes, MoveRecords
<1>2. /\ UNCHANGED <<values, usable, label, names, became, marks, told, edition, lockedBy>>
      /\ asks' = [asks EXCEPT ![r] = x] /\ g.at = "move"
  BY DEF MoveRecords, nameVars
<1>3. /\ x \in AMerge /\ x.does = "merge" /\ x.source = g.source /\ x.target = g.target
      /\ x.at = "commit" /\ x.items = g.items /\ x.log = g.log
      /\ x.moves = MarkedWith(g.source)
  <2> DEFINE y == [g EXCEPT !.at = "commit"]
             its == MarkedWith(g.source)
  <2>1. /\ y \in AMerge /\ Same(y, g) /\ y.at = "commit"
        /\ y.items = g.items /\ y.log = g.log
    BY <1>1, MergeAt
  <2>2. its \in SUBSET Article
    BY <1>1 DEF MarkedWith
  <2>3. x = [y EXCEPT !.moves = its]
    OBVIOUS
  <2> HIDE DEF x, y, its
  <2>4. /\ x \in AMerge /\ Same(x, y) /\ x.moves = its /\ x.at = y.at
        /\ x.items = y.items /\ x.log = y.log
    BY <2>1, <2>2, <2>3, MergeMoves
  <2> QED BY <1>1, <2>1, <2>4 DEF Same, its
<1> HIDE DEF x
<1>4. EditIsAsked(x, marks, edition) /\ MergeIsOn(r, x, values, marks, lockedBy')
  BY <1>1, <1>2, <1>3 DEF EditIsAsked, MergeIsOn, MarkedWith, Marked
<1>5. Apart(asks')
  <2>1. \A s \in Request : asks'[s] = IF s = r THEN x ELSE asks[s]
    BY <1>1, <1>2
  <2> QED BY <1>1, <1>3, <2>1, ApartStays
<1> QED BY <1>1, <1>2, <1>3, <1>4, <1>5, QuietKeeps

\* What an item is given, no merge that is past looking for its items would miss.
LEMMA CommitEditKeeps ==
    ASSUME VocabularyInvariant, ~LateMarks, NEW r \in Request, CommitEdit(r)
    PROVE  /\ VocabularyInvariant'
           /\ values' = values /\ \A i \in Article : marks'[i] # marks[i] => edition'[i] > edition[i]
<1> DEFINE g == asks[r]
           i == g.item
           v == g.value
<1>1. /\ g \in AnEdit /\ g.does = "edit" /\ DOMAIN asks = Request /\ DOMAIN lockedBy = Article
      /\ EditIsAsked(g, marks, edition) /\ Apart(asks)
  BY VocabularyAsked DEF VocabularyInvariant, VocabularyTypes, CommitEdit
<1>2. i \in Article /\ v \in Value /\ g.to \in {"held", "removed"} /\ g.read \in Nat
  BY <1>1 DEF AnEdit
<1>3. CASE Refused(r)
  BY <1>3, VocabularyRefusedKeeps DEF Refused
<1>4. CASE ~Refused(r)
  <2>1. /\ lockedBy[i] = Unlocked /\ edition[i] = g.read /\ v \in values
        /\ (Given(v, i) => g.to # "held")
        /\ marks' = [marks EXCEPT ![i][v] = g.to]
        /\ told' = [told EXCEPT ![i] = HeldBy(marks', i)]
        /\ edition' = [edition EXCEPT ![i] = @ + 1]
        /\ Ends(r) /\ UNCHANGED <<values, usable, label, names, became>>
    BY <1>4 DEF CommitEdit, nameVars
  <2>2. marks \in [Article -> [Value -> Mark]] /\ edition \in [Article -> Nat] /\ DOMAIN told = Article
    BY DEF VocabularyInvariant, VocabularyTypes
  <2>3. g.to = "removed" => marks[i][v] = "held"
    BY <1>1, <2>1 DEF EditIsAsked
  <2> HIDE DEF i, v
  <2>4. /\ marks' \in [Article -> [Value -> Mark]]
        /\ \A j \in Article : j # i => marks'[j] = marks[j]
        /\ \A u \in Value : marks'[i][u] = IF u = v THEN g.to ELSE marks[i][u]
    <3>1. g.to \in Mark
      BY <1>2 DEF Mark
    <3>2. marks' = [marks EXCEPT ![i] = [marks[i] EXCEPT ![v] = g.to]]
      BY <2>1
    <3>3. [marks[i] EXCEPT ![v] = g.to] \in [Value -> Mark]
      BY <1>2, <2>2, <3>1
    <3> QED BY <1>2, <2>2, <3>2, <3>3
  <2>5. /\ edition' \in [Article -> Nat] /\ edition'[i] = edition[i] + 1
        /\ \A j \in Article : j # i => edition'[j] = edition[j]
    BY <1>2, <2>1, <2>2
  <2>6. Changes(marks, edition, marks', edition')
    BY <1>2, <2>2, <2>4, <2>5 DEF Changes
  <2>7. /\ asks' = [asks EXCEPT ![r] = AsksNothing]
        /\ lockedBy' = [j \in Article |-> IF lockedBy[j] = r THEN Unlocked ELSE lockedBy[j]]
    BY <2>1 DEF Ends
  <2>8. ASSUME NEW s \in Request, s # r
        PROVE  Spares(s, asks[s], marks, lockedBy, values', marks', lockedBy')
    <3> SUFFICES ASSUME asks[s].does = "merge"
                 PROVE  Spares(s, asks[s], marks, lockedBy, values', marks', lockedBy')
      BY DEF Spares
    <3>1. asks[s] \in AMerge /\ MergeIsOn(s, asks[s], values, marks, lockedBy)
      BY VocabularyAsked DEF VocabularyInvariant
    <3>2. \A j \in Article : lockedBy[j] = s => lockedBy'[j] = s
      BY <2>7, <2>8
    <3>3. asks[s].target \in values'
      BY <2>1, <3>1 DEF MergeIsOn
    <3>4. ASSUME NEW j \in Article, asks[s].at \in {"hold", "move"},
                 marks'[j][asks[s].source] # "none", marks[j][asks[s].source] = "none"
          PROVE  asks[s].at = "hold" /\ j \in asks[s].items
      <4>1. j = i /\ asks[s].source = v /\ g.to = "held"
        <5>1. asks[s].source \in Value
          BY <3>1 DEF AMerge
        <5> QED BY <1>2, <2>3, <2>4, <3>4, <5>1
      <4>2. s \in Merging
        BY DEF Merging
      <4>3. i \in asks[s].items
        BY <2>1, <3>4, <4>1, <4>2 DEF Given
      <4>4. asks[s].at = "move" => lockedBy[i] = s
        BY <3>1, <4>3 DEF MergeIsOn
      <4>5. s # Unlocked
        BY VocabularyAssumption DEF VocabularyAssumption, Unlocked
      <4> QED BY <2>1, <3>4, <4>1, <4>3, <4>4, <4>5
    <3> QED BY <3>2, <3>3, <3>4 DEF Spares
  <2>9. /\ asks' \in [Request -> {AsksNothing} \cup AnEdit \cup AMerge]
        /\ \A s \in Request :
             EditIsAsked(asks'[s], marks', edition')
             /\ MergeIsOn(s, asks'[s], values', marks', lockedBy')
    BY <2>6, <2>7, <2>8, OneGoesOn, NothingAsked
  <2>10. VocabularyTypes'
    <3>1. DOMAIN told' = Article /\ DOMAIN lockedBy' = Article
      BY <2>1, <2>2, <2>7
    <3> QED BY <2>1, <2>4, <2>5, <2>9, <3>1 DEF VocabularyInvariant, VocabularyTypes
  <2>11. MergedLeadsOn'
    BY <2>1 DEF VocabularyInvariant, MergedLeadsOn
  <2>12. HistoryIsTrue'
    <3> SUFFICES ASSUME NEW j \in Article PROVE told'[j] = HeldBy(marks', j)
      BY DEF HistoryIsTrue, HeldBy
    <3>1. CASE j = i BY <2>1, <2>2, <3>1
    <3>2. CASE j # i
      <4>1. told'[j] = told[j] /\ marks'[j] = marks[j]
        BY <2>1, <2>4, <3>2
      <4>2. told[j] = HeldBy(marks, j)
        BY DEF VocabularyInvariant, HistoryIsTrue
      <4> QED BY <4>1, <4>2 DEF HeldBy
    <3> QED BY <3>1, <3>2
  <2>13. Apart(asks')
    <3>1. \A s \in Request : asks'[s] = IF s = r THEN AsksNothing ELSE asks[s]
      BY <1>1, <2>7
    <3> QED BY <1>1, <3>1, ApartStays DEF AsksNothing
  <2>14. VocabularyInvariant'
    BY <2>9, <2>10, <2>11, <2>12, <2>13, Zenon DEF VocabularyInvariant
  <2> QED BY <1>2, <2>1, <2>2, <2>4, <2>5, <2>14
<1> QED BY <1>3, <1>4

\* An item's marks once its value is moved.
LEMMA MovedIs ==
    ASSUME NEW m \in [Value -> Mark], NEW v \in Value, NEW w \in Value, v # w
    PROVE  /\ Moved(m, v, w) \in [Value -> Mark]
           /\ Moved(m, v, w)[v] = "none"
           /\ Moved(m, v, w)[w] = "held" <=> m[v] = "held" \/ m[w] = "held"
           /\ \A u \in Value \ {v, w} : Moved(m, v, w)[u] = m[u]
BY DEF Moved, Mark

\* A merge written whole: what it moves it holds and logs.
LEMMA CommitMergeKeeps ==
    ASSUME VocabularyInvariant, NEW r \in Request, CommitMerge(r)
    PROVE  /\ VocabularyInvariant'
           /\ \A i \in Article : marks'[i] # marks[i] => edition'[i] > edition[i]
           /\ \A i \in Article, v \in values \ values' :
                /\ marks'[i][became'[v]] = "held" <=>
                     {marks[i][v], marks[i][became'[v]]} \cap {"held"} # {}
                /\ \A u \in Value \ {v, became'[v]} : marks'[i][u] = marks[i][u]
<1> DEFINE g == asks[r]
           v == g.source
           w == g.target
<1>1. /\ g \in AMerge /\ g.does = "merge" /\ DOMAIN asks = Request /\ DOMAIN lockedBy = Article
      /\ MergeIsOn(r, g, values, marks, lockedBy) /\ Apart(asks)
  BY VocabularyAsked DEF VocabularyInvariant, VocabularyTypes, CommitMerge
<1>2. /\ v \in Value /\ w \in Value /\ v # w /\ w \in values
      /\ g.moves \subseteq g.items \cap g.log /\ g.items \subseteq Article
      /\ \A j \in g.items : lockedBy[j] = r
  BY <1>1 DEF AMerge, MergeIsOn, CommitMerge
<1>3. CASE Refused(r)
  <2>1. values' = values /\ marks' = marks
    BY <1>3 DEF Refused
  <2> QED BY <1>3, <2>1, VocabularyRefusedKeeps
<1>4. CASE ~Refused(r)
  <2>1. /\ v \in values /\ MarkedWith(v) = g.moves
        /\ marks' = [j \in Article |-> IF j \in g.moves THEN Moved(marks[j], v, w) ELSE marks[j]]
        /\ told' = [j \in Article |-> IF j \in g.log THEN HeldBy(marks', j) ELSE told[j]]
        /\ edition' = [j \in Article |-> edition[j] + IF j \in g.items THEN 1 ELSE 0]
        /\ names' = [names EXCEPT ![v] = {}, ![w] = @ \cup KeptNames(r)] /\ label' = label
        /\ became' = [x \in DOMAIN became \cup {v} |-> IF x = v THEN w ELSE became[x]]
        /\ values' = values \ {v} /\ usable' = usable \ {v} /\ Ends(r)
    BY <1>4 DEF CommitMerge, nameVars
  <2>2. /\ marks \in [Article -> [Value -> Mark]] /\ edition \in [Article -> Nat]
        /\ label \in [Value -> Name] /\ names \in [Value -> SUBSET Name]
        /\ DOMAIN became \subseteq Value /\ values \subseteq Value /\ usable \subseteq values
    BY DEF VocabularyInvariant, VocabularyTypes
  <2> HIDE DEF v, w
  <2>3. \A j \in Article :
          /\ marks'[j] \in [Value -> Mark]
          /\ marks'[j][v] = "none"
          /\ marks'[j][w] = "held" <=> marks[j][v] = "held" \/ marks[j][w] = "held"
          /\ \A u \in Value \ {v, w} : marks'[j][u] = marks[j][u]
          /\ marks'[j] # marks[j] => j \in g.moves
    <3> SUFFICES ASSUME NEW j \in Article
                 PROVE  /\ marks'[j] \in [Value -> Mark]
                        /\ marks'[j][v] = "none"
                        /\ marks'[j][w] = "held" <=> marks[j][v] = "held" \/ marks[j][w] = "held"
                        /\ \A u \in Value \ {v, w} : marks'[j][u] = marks[j][u]
                        /\ marks'[j] # marks[j] => j \in g.moves
      OBVIOUS
    <3>1. marks[j] \in [Value -> Mark]
      BY <2>2
    <3>2. CASE j \in g.moves
      <4>1. marks'[j] = Moved(marks[j], v, w)
        BY <2>1, <3>2
      <4> QED BY <1>2, <3>1, <3>2, <4>1, MovedIs
    <3>3. CASE j \notin g.moves
      <4>1. marks'[j] = marks[j] /\ marks[j][v] = "none"
        BY <2>1, <3>3 DEF MarkedWith
      <4> QED BY <3>1, <4>1
    <3> QED BY <3>2, <3>3
  <2>4. edition' \in [Article -> Nat]
        /\ \A j \in Article : edition'[j] = edition[j] + IF j \in g.items THEN 1 ELSE 0
    BY <2>1, <2>2
  <2>5. /\ Changes(marks, edition, marks', edition')
        /\ \A j \in Article : marks'[j] # marks[j] => edition'[j] > edition[j]
    <3> SUFFICES ASSUME NEW j \in Article
                 PROVE  /\ edition[j] \in Nat /\ edition'[j] \in Nat /\ edition[j] <= edition'[j]
                        /\ edition'[j] = edition[j] => marks'[j] = marks[j]
                        /\ marks'[j] # marks[j] => edition'[j] > edition[j]
      BY DEF Changes
    <3>1. marks'[j] # marks[j] => j \in g.items
      BY <1>2, <2>3
    <3>2. /\ edition[j] \in Nat
          /\ edition'[j] = edition[j] + IF j \in g.items THEN 1 ELSE 0
      BY <2>2, <2>4
    <3> HIDE DEF g
    <3>3. CASE j \in g.items BY <3>2, <3>3
    <3>4. CASE j \notin g.items BY <3>1, <3>2, <3>4
    <3> QED BY <3>3, <3>4
  <2>6. /\ asks' = [asks EXCEPT ![r] = AsksNothing]
        /\ lockedBy' = [j \in Article |-> IF lockedBy[j] = r THEN Unlocked ELSE lockedBy[j]]
    BY <2>1 DEF Ends
  <2>7. ASSUME NEW s \in Request, s # r
        PROVE  Spares(s, asks[s], marks, lockedBy, values', marks', lockedBy')
    <3> SUFFICES ASSUME asks[s].does = "merge"
                 PROVE  Spares(s, asks[s], marks, lockedBy, values', marks', lockedBy')
      BY DEF Spares
    <3>1. asks[s] \in AMerge /\ MergeIsOn(s, asks[s], values, marks, lockedBy)
      BY VocabularyAsked DEF VocabularyInvariant
    <3>2. \A j \in Article : lockedBy[j] = s => lockedBy'[j] = s
      BY <2>6, <2>7
    <3>3. asks[s].target # v /\ asks[s].source # w
      BY <1>1 DEF Apart, v, w
    <3>4. asks[s].target \in values'
      BY <2>1, <3>1, <3>3 DEF MergeIsOn
    <3>5. asks[s].source \in Value
      BY <3>1 DEF AMerge
    <3>6. \A j \in Article : marks'[j][asks[s].source] # "none" =>
            marks[j][asks[s].source] # "none"
      BY <2>3, <3>3, <3>5
    <3> QED BY <3>2, <3>4, <3>6 DEF Spares
  <2>8. /\ asks' \in [Request -> {AsksNothing} \cup AnEdit \cup AMerge]
        /\ \A s \in Request :
             EditIsAsked(asks'[s], marks', edition')
             /\ MergeIsOn(s, asks'[s], values', marks', lockedBy')
    BY <2>5, <2>6, <2>7, OneGoesOn, NothingAsked
  <2>9. names' \in [Value -> SUBSET Name]
    <3>1. KeptNames(r) \subseteq Name
      BY <1>1, <1>2, <2>2 DEF KeptNames, OldNames, AMerge
    <3> QED BY <1>2, <2>1, <2>2, <3>1
  <2>10. VocabularyTypes'
    <3>1. DOMAIN told' = Article /\ DOMAIN lockedBy' = Article
      BY <2>1, <2>6
    <3>2. DOMAIN became' \subseteq Value /\ values' \subseteq Value /\ usable' \subseteq values'
      BY <1>2, <2>1, <2>2
    <3>3. marks' \in [Article -> [Value -> Mark]]
      BY <2>1, <2>3
    <3> QED BY <2>1, <2>2, <2>4, <2>8, <2>9, <3>1, <3>2, <3>3 DEF VocabularyTypes
  <2>11. MergedLeadsOn'
    <3>1. /\ w \in values' /\ w \notin DOMAIN became'
          /\ DOMAIN became' = DOMAIN became \cup {v} /\ became'[v] = w
          /\ \A x \in DOMAIN became : x # v /\ became'[x] = became[x]
      BY <1>2, <2>1 DEF VocabularyInvariant, MergedLeadsOn
    <3>2. \A x \in DOMAIN became' :
            x \notin values' /\ became'[x] \in values' \cup DOMAIN became'
      BY <2>1, <3>1 DEF VocabularyInvariant, MergedLeadsOn
    <3>3. ASSUME NEW ring \in SUBSET DOMAIN became', ring # {}
          PROVE  \E x \in ring : became'[x] \notin ring
      <4>1. CASE v \in ring BY <3>1, <4>1
      <4>2. CASE v \notin ring
        <5>1. ring \in SUBSET DOMAIN became
          BY <3>1, <4>2
        <5>2. \E x \in ring : became[x] \notin ring
          BY <3>3, <5>1 DEF VocabularyInvariant, MergedLeadsOn
        <5> QED BY <3>1, <5>1, <5>2
      <4> QED BY <4>1, <4>2
    <3> QED BY <3>2, <3>3 DEF MergedLeadsOn
  <2>12. HistoryIsTrue'
    <3> SUFFICES ASSUME NEW j \in Article PROVE told'[j] = HeldBy(marks', j)
      BY DEF HistoryIsTrue, HeldBy
    <3>1. CASE j \in g.log BY <2>1, <3>1
    <3>2. CASE j \notin g.log
      <4>1. told'[j] = told[j] /\ marks'[j] = marks[j]
        BY <1>2, <2>1, <2>3, <3>2
      <4>2. told[j] = HeldBy(marks, j)
        BY DEF VocabularyInvariant, HistoryIsTrue
      <4> QED BY <4>1, <4>2 DEF HeldBy
    <3> QED BY <3>1, <3>2
  <2>13. Apart(asks')
    <3>1. \A s \in Request : asks'[s] = IF s = r THEN AsksNothing ELSE asks[s]
      BY <1>1, <2>6
    <3> QED BY <1>1, <3>1, ApartStays DEF AsksNothing
  <2>14. VocabularyInvariant'
    BY <2>8, <2>10, <2>11, <2>12, <2>13, Zenon DEF VocabularyInvariant
  <2>15. ASSUME NEW i \in Article, NEW x \in values \ values'
         PROVE  /\ marks'[i][became'[x]] = "held" <=>
                     {marks[i][x], marks[i][became'[x]]} \cap {"held"} # {}
                /\ \A u \in Value \ {x, became'[x]} : marks'[i][u] = marks[i][u]
    <3>1. x = v /\ became'[x] = w
      BY <2>1
    <3> QED BY <2>3, <3>1
  <2> QED BY <2>5, <2>14, <2>15
<1> QED BY <1>3, <1>4

LEMMA VocabularyStarts == VocabularyInit => VocabularyInvariant
<1> SUFFICES ASSUME VocabularyInit PROVE VocabularyInvariant
  OBVIOUS
<1>1. /\ values \in SUBSET Value /\ usable = values
      /\ label = [v \in Value |-> v] /\ names = [v \in Value |-> {}]
      /\ became = [v \in {} |-> v]
      /\ marks \in [Article -> [Value -> Mark]]
      /\ told = [i \in Article |-> HeldBy(marks, i)]
      /\ edition = [i \in Article |-> 1]
      /\ asks = [r \in Request |-> AsksNothing]
      /\ lockedBy = [i \in Article |-> Unlocked]
  BY DEF VocabularyInit, Mark
<1>2. VocabularyTypes
  BY <1>1 DEF VocabularyTypes, Name
<1>3. MergedLeadsOn /\ HistoryIsTrue
  BY <1>1 DEF MergedLeadsOn, HistoryIsTrue
<1>4. \A r \in Request : asks[r] = AsksNothing
  BY <1>1
<1>5. Apart(asks)
  BY <1>4 DEF Apart, AsksNothing
<1> QED BY <1>2, <1>3, <1>4, <1>5, NothingAsked, Zenon DEF VocabularyInvariant

\* What no step does to the marks of an item.
MarksStay ==
  /\ \A i \in Article : marks'[i] # marks[i] => edition'[i] > edition[i]
  /\ \A i \in Article, v \in values \ values' :
       LET w == became'[v] IN
       /\ marks'[i][w] = "held" <=> {marks[i][v], marks[i][w]} \cap {"held"} # {}
       /\ \A u \in Value \ {v, w} : marks'[i][u] = marks[i][u]

LEMMA VocabularyStep ==
    ASSUME VocabularyInvariant, ~CrossMerges, ~LateMarks, [VocabularyNext]_vocabularyVars
    PROVE  VocabularyInvariant' /\ MarksStay
<1>1. ASSUME NEW v \in Value, Retire(v) \/ Create(v)
      PROVE  VocabularyInvariant' /\ MarksStay
  <2>1. marks' = marks /\ values \subseteq values'
    BY <1>1 DEF Retire, Create
  <2> QED BY <1>1, <2>1, TablesKeep DEF MarksStay
<1>8. ASSUME NEW v \in Value, NEW n \in Value \cup Word,
             Relabel(v, n) \/ AddAlias(v, n) \/ RemoveAlias(v, n)
      PROVE  VocabularyInvariant' /\ MarksStay
  <2>1. marks' = marks /\ values' = values /\ n \in Name
    BY <1>8 DEF Relabel, AddAlias, RemoveAlias, GivesName, Name
  <2> QED BY <1>8, <2>1, NamingKeeps DEF MarksStay
<1>2. ASSUME NEW r \in NotAsking, NEW i \in Article, NEW v \in Value,
             NEW to \in {"held", "removed"}, BeginEdit(r, i, v, to)
      PROVE  VocabularyInvariant' /\ MarksStay
  <2>1. marks' = marks /\ values' = values /\ r \in Request
    BY <1>2 DEF BeginEdit, NotAsking
  <2> QED BY <1>2, <2>1, BeginEditKeeps DEF MarksStay
<1>3. ASSUME NEW r \in NotAsking, NEW v \in Value, NEW w \in Value, BeginMerge(r, v, w)
      PROVE  VocabularyInvariant' /\ MarksStay
  <2>1. marks' = marks /\ values' = values /\ r \in Request \cap NotAsking
    BY <1>3 DEF BeginMerge, NotAsking
  <2> QED BY <1>3, <2>1, BeginMergeKeeps DEF MarksStay
<1>4. ASSUME NEW r \in Request, CommitEdit(r)
      PROVE  VocabularyInvariant' /\ MarksStay
  BY <1>4, CommitEditKeeps DEF MarksStay
<1>5. ASSUME NEW r \in Request, LockItems(r) \/ MoveRecords(r)
      PROVE  VocabularyInvariant' /\ MarksStay
  <2>1. marks' = marks /\ values' = values
    BY <1>5 DEF LockItems, MoveRecords
  <2> QED BY <1>5, <2>1, LockItemsKeeps, MoveRecordsKeeps DEF MarksStay
<1>6. ASSUME NEW r \in Request, CommitMerge(r)
      PROVE  VocabularyInvariant' /\ MarksStay
  BY <1>6, CommitMergeKeeps DEF MarksStay
<1>7. CASE UNCHANGED vocabularyVars
  <2>1. UNCHANGED <<values, usable, label, names, became, marks, told, edition, asks, lockedBy>>
    BY <1>7 DEF vocabularyVars, nameVars
  <2>2. VocabularyInvariant'
    BY <2>1 DEF VocabularyInvariant, VocabularyTypes, MergedLeadsOn, HistoryIsTrue, HeldBy
  <2> QED BY <2>1, <2>2 DEF MarksStay
<1> QED BY <1>1, <1>2, <1>3, <1>4, <1>5, <1>6, <1>7, <1>8 DEF VocabularyNext

\* What a merge planned with is what its two values are called still.
CalledAsPlanned ==
  \A r \in Request :
    asks[r].does = "merge" =>
      /\ asks[r].source \in values \cup DOMAIN became
      /\ asks[r].called = OwnNames(asks[r].source) /\ asks[r].own = OwnNames(asks[r].target)

\* What no step does to the names of a value merged away.
NamesStay ==
  \A v \in values \ values' :
    NamesOf(v) \subseteq names'[became'[v]] \cup TooLong \cup Owned(values)'

\* The values stay or are known as merged, those being merged keep their labels,
\* and the merges under way are the same ones.
LEMMA CalledGoesOn ==
    ASSUME VocabularyInvariant, CalledAsPlanned,
           values \cup DOMAIN became \subseteq values' \cup DOMAIN became',
           \A r \in Request : asks'[r].does = "merge" =>
             /\ asks[r].does = "merge"
             /\ asks'[r].source = asks[r].source /\ asks'[r].target = asks[r].target
             /\ asks'[r].called = asks[r].called /\ asks'[r].own = asks[r].own
             /\ label'[asks[r].source] = label[asks[r].source]
             /\ label'[asks[r].target] = label[asks[r].target]
    PROVE  CalledAsPlanned'
BY DEF CalledAsPlanned, OwnNames

LEMMA NamesStep ==
    ASSUME VocabularyInvariant, CalledAsPlanned, ~LateLabels, [VocabularyNext]_vocabularyVars
    PROVE  CalledAsPlanned' /\ NamesStay
<1>1. /\ asks \in [Request -> {AsksNothing} \cup AnEdit \cup AMerge]
      /\ label \in [Value -> Name] /\ DOMAIN names = Value /\ DOMAIN asks = Request
      /\ \A r \in Request : asks[r].does = "merge" =>
            /\ asks[r].target \in values /\ asks[r].source # asks[r].target
            /\ asks[r] \in AMerge
  BY VocabularyAsked DEF VocabularyInvariant, VocabularyTypes, MergeIsOn
<1>2. ASSUME NEW v \in Value, Retire(v) PROVE CalledAsPlanned' /\ NamesStay
  <2>1. UNCHANGED <<values, became, label, asks>>
    BY <1>2 DEF Retire, nameVars
  <2> QED BY <2>1, CalledGoesOn DEF NamesStay
<1>3. ASSUME NEW v \in Value, Create(v) PROVE CalledAsPlanned' /\ NamesStay
  <2>1. /\ v \notin values \cup DOMAIN became /\ values' = values \cup {v}
        /\ UNCHANGED <<became, asks>>
        /\ \A x \in Value \ {v} : label'[x] = label[x]
    BY <1>1, <1>3 DEF Create, NotMerged
  <2>2. ASSUME NEW r \in Request, asks[r].does = "merge"
        PROVE  /\ label'[asks[r].source] = label[asks[r].source]
               /\ label'[asks[r].target] = label[asks[r].target]
    <3>1. asks[r].source # v /\ asks[r].target # v
      BY <1>1, <2>1, <2>2 DEF CalledAsPlanned
    <3>2. asks[r].source \in Value /\ asks[r].target \in Value
      BY <1>1, <2>2 DEF AMerge
    <3> QED BY <2>1, <3>1, <3>2
  <2> QED BY <2>1, <2>2, CalledGoesOn DEF NamesStay
<1>4. ASSUME NEW v \in Value, NEW n \in Value \cup Word,
             Relabel(v, n) \/ AddAlias(v, n) \/ RemoveAlias(v, n)
      PROVE  CalledAsPlanned' /\ NamesStay
  <2>1. UNCHANGED <<values, became, asks>>
    BY <1>4 DEF Relabel, AddAlias, RemoveAlias, GivesName
  <2>2. ASSUME NEW r \in Request, asks[r].does = "merge"
        PROVE  /\ label'[asks[r].source] = label[asks[r].source]
               /\ label'[asks[r].target] = label[asks[r].target]
    <3>1. asks[r].source \in Value /\ asks[r].target \in Value
      BY <1>1, <2>2 DEF AMerge
    <3>2. CASE Relabel(v, n)
      <4>1. v \notin {asks[r].source, asks[r].target}
        BY <2>2, <3>2 DEF Relabel, Merging
      <4> QED BY <1>1, <3>1, <3>2, <4>1 DEF Relabel
    <3>3. CASE AddAlias(v, n) \/ RemoveAlias(v, n)
      BY <3>3 DEF AddAlias, RemoveAlias
    <3> QED BY <1>4, <3>2, <3>3
  <2> QED BY <2>1, <2>2, CalledGoesOn DEF NamesStay
<1>5. ASSUME NEW r \in Request, NEW i \in Article, NEW v \in Value,
             NEW to \in {"held", "removed"}, BeginEdit(r, i, v, to)
      PROVE  CalledAsPlanned' /\ NamesStay
  <2>1. UNCHANGED <<values, became, label>>
    BY <1>5 DEF BeginEdit, nameVars
  <2>2. \A s \in Request : (s = r /\ asks'[s].does = "edit") \/ asks'[s] = asks[s]
    BY <1>1, <1>5 DEF BeginEdit
  <2> QED BY <2>1, <2>2, CalledGoesOn DEF NamesStay
<1>6. ASSUME NEW r \in Request, NEW v \in Value, NEW w \in Value, BeginMerge(r, v, w)
      PROVE  CalledAsPlanned' /\ NamesStay
  <2>1. UNCHANGED <<values, became, label>> /\ v \in values
    BY <1>6 DEF BeginMerge, nameVars
  <2>2. /\ asks'[r].source = v /\ asks'[r].target = w
        /\ asks'[r].called = OwnNames(v) /\ asks'[r].own = OwnNames(w)
        /\ \A s \in Request \ {r} : asks'[s] = asks[s]
    BY <1>1, <1>6 DEF BeginMerge
  <2> QED BY <2>1, <2>2 DEF NamesStay, CalledAsPlanned, OwnNames
<1>7. ASSUME NEW r \in Request, LockItems(r) \/ MoveRecords(r)
      PROVE  CalledAsPlanned' /\ NamesStay
  <2>1. UNCHANGED <<values, became, label>> /\ asks[r].does = "merge"
    BY <1>7 DEF LockItems, MoveRecords, nameVars
  <2>2. /\ asks'[r].source = asks[r].source /\ asks'[r].target = asks[r].target
        /\ asks'[r].called = asks[r].called /\ asks'[r].own = asks[r].own
        /\ \A s \in Request \ {r} : asks'[s] = asks[s]
    <3>1. asks[r] \in AMerge
      BY <1>1, <2>1
    <3>2. CASE asks[r].at = "lock"
      BY <1>1, <1>7, <3>1, <3>2 DEF LockItems, MoveRecords, AMerge
    <3>3. CASE asks[r].at = "late"
      BY <1>1, <1>7, <3>1, <3>3 DEF LockItems, MoveRecords, AMerge
    <3>4. CASE asks[r].at = "hold"
      BY <1>1, <1>7, <3>1, <3>4 DEF LockItems, MoveRecords, AMerge
    <3>5. CASE asks[r].at = "move"
      BY <1>1, <1>7, <3>1, <3>5 DEF LockItems, MoveRecords, AMerge
    <3> QED BY <1>7, <3>2, <3>3, <3>4, <3>5 DEF LockItems, MoveRecords
  <2>3. \A s \in Request : asks'[s].does = "merge" => asks[s].does = "merge"
    BY <2>1, <2>2
  <2> QED BY <2>1, <2>2, <2>3, CalledGoesOn DEF NamesStay
<1>8. ASSUME NEW r \in Request,
             Refused(r) \/ (CommitEdit(r) /\ ~Refused(r))
      PROVE  CalledAsPlanned' /\ NamesStay
  <2>1. UNCHANGED <<values, became, label>> /\ Ends(r)
    BY <1>8 DEF Refused, CommitEdit, nameVars
  <2>2. \A s \in Request : asks'[s] = IF s = r THEN AsksNothing ELSE asks[s]
    BY <1>1, <2>1 DEF Ends
  <2> QED BY <2>1, <2>2, CalledGoesOn DEF NamesStay, AsksNothing
<1>9. ASSUME NEW r \in Request, CommitMerge(r), ~Refused(r)
      PROVE  CalledAsPlanned' /\ NamesStay
  <2> DEFINE v == asks[r].source
             w == asks[r].target
  <2>1. /\ v \in Value /\ w \in Value /\ v # w /\ w \in values
        /\ asks[r].called = OwnNames(v) /\ asks[r].own = OwnNames(w)
    BY <1>1, <1>9 DEF CommitMerge, AMerge, CalledAsPlanned
  <2>2. /\ names' = [names EXCEPT ![v] = {}, ![w] = @ \cup KeptNames(r)] /\ label' = label
        /\ became' = [x \in DOMAIN became \cup {v} |-> IF x = v THEN w ELSE became[x]]
        /\ values' = values \ {v} /\ Ends(r)
    BY <1>9 DEF CommitMerge
  <2> HIDE DEF v, w
  <2>3. \A s \in Request : asks'[s] = IF s = r THEN AsksNothing ELSE asks[s]
    BY <1>1, <2>2 DEF Ends
  <2>4. CalledAsPlanned'
    BY <2>2, <2>3, CalledGoesOn DEF AsksNothing
  <2>5. ASSUME NEW x \in values \ values', NEW n \in NamesOf(x)
        PROVE  n \in names'[became'[x]] \cup TooLong \cup Owned(values)'
    <3>1. x = v /\ became'[x] = w /\ KeptNames(r) \subseteq names'[w] /\ w \in values'
      BY <1>1, <2>1, <2>2
    <3>2. n \in OldNames(r)
      BY <2>1, <2>5, <3>1 DEF OldNames, NamesOf, v
    <3>3. CASE n \in KeptNames(r) BY <3>1, <3>3
    <3>4. CASE n \in OwnNames(w)
      BY <2>2, <3>1, <3>4 DEF Owned, OwnNames
    <3>5. CASE n \in Owned(values \ {v})
      BY <2>2, <3>5 DEF Owned, OwnNames
    <3> QED BY <2>1, <3>2, <3>3, <3>4, <3>5 DEF KeptNames, v
  <2> QED BY <2>4, <2>5 DEF NamesStay
<1>10. CASE UNCHANGED vocabularyVars
  <2>1. UNCHANGED <<values, became, label, asks>>
    BY <1>10 DEF vocabularyVars, nameVars
  <2> QED BY <2>1, CalledGoesOn DEF NamesStay
<1> QED
  BY <1>2, <1>3, <1>4, <1>5, <1>6, <1>7, <1>8, <1>9, <1>10
  DEF VocabularyNext, NotAsking

\* Merging loses nothing, however many values, items, names and requests there
\* are, as long as no merge crosses another, no item is given a value after a merge
\* looked for the items that hold it, and no value is renamed while it is merged
\* (reference_merge.py).
THEOREM MergesLoseNothingHolds ==
    ASSUME ~CrossMerges, ~LateMarks, ~LateLabels
    PROVE  VocabularySpec => MergesLoseNothing
<1>1. VocabularyInit => VocabularyInvariant
  BY VocabularyStarts
<1>2. VocabularyInvariant /\ [VocabularyNext]_vocabularyVars
        => VocabularyInvariant' /\ MarksStay
  BY VocabularyStep
<1>3. VocabularyInvariant => MergedLeadsOn /\ HistoryIsTrue
  BY DEF VocabularyInvariant
<1>4. VocabularyInit => CalledAsPlanned
  BY DEF VocabularyInit, CalledAsPlanned, AsksNothing
<1>5. VocabularyInvariant /\ CalledAsPlanned /\ [VocabularyNext]_vocabularyVars
        => CalledAsPlanned' /\ NamesStay
  BY NamesStep
<1> QED
  BY <1>1, <1>2, <1>3, <1>4, <1>5, PTL
  DEF VocabularySpec, MergesLoseNothing, NothingChangesUnseen, MergeKeepsWhatIsHeld,
      NamesAreKept, MarksStay, NamesStay
=================================================================================
