----------------------------- MODULE Purchases -----------------------------
(***************************************************************************)
(* The lists purchases are entered from -- vendors, sellers, storage       *)
(* locations -- and the purchases themselves, kept by several clerks at    *)
(* once, with the clean-up that merges vendors running beside them         *)
(* (routers/acquisitions.py, vendor_cleanup.py).  The three lists are kept *)
(* alike, so a behaviour is about one of them.  A record names an entry:   *)
(* a purchase or a sales platform a vendor, a purchase a seller, an item   *)
(* or a past move a location.                                              *)
(***************************************************************************)
EXTENDS Integers, FiniteSets

CONSTANTS
  Label,       \* what the rows of the list are named
  Folded,      \* [Label -> ...]: a label, case aside
  Clerk,       \* the requests
  Typed,       \* the numbers typed for a purchase; 0 is a number left blank
  MaxEntry, MaxRecord, MaxNumber       \* bounds

VARIABLES
  list,        \* the list the behaviour is about
  entry,       \* each entry's label, or Gone
  record,      \* each record, or Missing
  ask,         \* what each clerk has asked and had checked
  numbering,   \* who holds the numbering lock: clerks, one at most
  pass         \* the clean-up

PurchasesAssumption ==
  /\ MaxEntry \in Nat /\ MaxRecord \in Nat /\ MaxNumber \in Nat
  /\ Typed \subseteq Nat
  /\ "gone" \notin Label

ASSUME PurchasesAssumption

purchaseVars == <<list, entry, record, ask, numbering, pass>>

Entry == 1..MaxEntry
RecordId == 1..MaxRecord

Gone == "gone"
Unnumbered == 0                      \* what is not a purchase
Missing == [of |-> 0, number |-> Unnumbered, issued |-> FALSE]
NoNumber == [number |-> Unnumbered, issued |-> FALSE]
Asking(op, e, l, r, given) ==
  [op |-> op, entry |-> e, label |-> l, record |-> r, given |-> given]
NoAsking == Asking("idle", 0, Gone, 0, NoNumber)
NoPass == [from |-> 0, into |-> 0, moving |-> {}]

Listed == {e \in Entry : entry[e] # Gone}
Held == {r \in RecordId : record[r] # Missing}
Naming(e) == {r \in Held : record[r].of = e}
Numbered(e) == {r \in Naming(e) : record[r].number # Unnumbered}

\* Mutant: the names are compared as they are typed.
TakenAsTyped(l, others) == \E e \in others \cap Listed : entry[e] = l

Taken(l, others) == \E e \in others \cap Listed : Folded[entry[e]] = Folded[l]

Duplicate(v, n, others) ==
  n # Unnumbered /\ \E r \in others \cap Naming(v) : record[r].number = n

PurchasesInit ==
  /\ list \in {"vendors", "sellers", "locations"}
  /\ entry = [e \in Entry |-> Gone] /\ record = [r \in RecordId |-> Missing]
  /\ ask = [c \in Clerk |-> NoAsking] /\ numbering = {} /\ pass = NoPass

\* The ids a new row may take, the first of them.
FreeEntries ==
  {e \in Entry : entry[e] = Gone /\ \A c \in Clerk : ask[c].entry = e => ask[c].op # "add"}
FreeRecords ==
  {r \in RecordId : record[r] = Missing /\ \A c \in Clerk : ask[c].record # r}
First(ids, id) == id \in ids /\ \A i \in ids : id <= i

-----------------------------------------------------------------------------
(* A REQUEST reads and checks, then commits: what a unique index or a      *)
(* foreign key refuses by then is a 409, and nothing is written.           *)

Asks(c, a) == ask' = [ask EXCEPT ![c] = a]
Answered(c) ==
  ask' = [ask EXCEPT ![c] = NoAsking] /\ numbering' = numbering \ {c}

Add(c, e, l) ==
  /\ First(FreeEntries, e) /\ ~Taken(l, Entry)
  /\ Asks(c, Asking("add", e, l, 0, NoNumber))
  /\ UNCHANGED <<list, entry, record, numbering, pass>>

Rename(c, e, l) ==
  /\ e \in Listed /\ ~Taken(l, Entry \ {e})
  /\ Asks(c, Asking("rename", e, l, 0, NoNumber))
  /\ UNCHANGED <<list, entry, record, numbering, pass>>

Remove(c, e) ==
  /\ e \in Listed /\ Naming(e) = {}
  /\ Asks(c, Asking("delete", e, Gone, 0, NoNumber))
  /\ UNCHANGED <<list, entry, record, numbering, pass>>

CreateVendor(c, e, l) == list = "vendors" /\ Add(c, e, l)
UpdateVendor(c, e, l) == list = "vendors" /\ Rename(c, e, l)
DeleteVendor(c, e) == list = "vendors" /\ Remove(c, e)
CreateSeller(c, e, l) == list = "sellers" /\ Add(c, e, l)
UpdateSeller(c, e, l) == list = "sellers" /\ Rename(c, e, l)
DeleteSeller(c, e) == list = "sellers" /\ Remove(c, e)
CreateLocation(c, e, l) == list = "locations" /\ Add(c, e, l)
UpdateLocation(c, e, l) == list = "locations" /\ Rename(c, e, l)
DeleteLocation(c, e) == list = "locations" /\ Remove(c, e)

\* Mutant: the next number counts the vendor's purchases alone.
NextOfVendor(v) ==
  CHOOSE n \in 1..(MaxNumber + 1) :
    /\ \A r \in Numbered(v) : record[r].number < n
    /\ n = 1 \/ \E r \in Numbered(v) : record[r].number = n - 1

\* The next generated number, above every number held.
NextNumber(v) ==
  CHOOSE n \in 1..(MaxNumber + 1) :
    /\ \A r \in Held : record[r].number < n
    /\ n = 1 \/ \E r \in Held : record[r].number = n - 1

\* Mutant: no lock is taken to issue a number.
FreeAlways == TRUE

NumberingFree == numbering = {}

\* The number a save gives: as typed, or issued when it is left blank, under
\* a lock held to the end of the request.
NumberGiven(v, typed) ==
  [number |-> IF typed = Unnumbered THEN NextNumber(v) ELSE typed,
   issued |-> typed = Unnumbered]

Numbers(c, typed) ==
  IF typed = Unnumbered THEN NumberingFree /\ numbering' = numbering \cup {c}
  ELSE UNCHANGED numbering

CreatePurchaseOrder(c, r, e, typed) ==
  LET given == NumberGiven(e, typed) IN
  /\ list = "vendors" /\ e \in Listed /\ First(FreeRecords, r)
  /\ given.number <= MaxNumber /\ ~Duplicate(e, given.number, RecordId)
  /\ Numbers(c, typed)
  /\ Asks(c, Asking("file", e, Gone, r, given))
  /\ UNCHANGED <<list, entry, record, pass>>

UpdatePurchaseOrder(c, r, typed) ==
  LET v == record[r].of
      given == NumberGiven(v, typed)
  IN
  /\ list = "vendors" /\ r \in Held /\ record[r].number # Unnumbered
  /\ given.number <= MaxNumber /\ ~Duplicate(v, given.number, RecordId \ {r})
  /\ Numbers(c, typed)
  /\ Asks(c, Asking("renumber", v, Gone, r, given))
  /\ UNCHANGED <<list, entry, record, pass>>

\* What else names an entry: a platform its vendor, a purchase its seller,
\* an item or a move its location.
NameEntry(c, r, e) ==
  /\ e \in Listed /\ First(FreeRecords, r)
  /\ Asks(c, Asking("file", e, Gone, r, NoNumber))
  /\ UNCHANGED <<list, entry, record, numbering, pass>>

\* Rows the clean-up has written and not yet committed are waited for.
Waits(a) ==
  \/ a.op = "renumber" /\ a.record \in pass.moving
  \/ /\ a.op \in {"file", "renumber"} /\ pass.moving # {}
     /\ (IF a.op = "file" THEN a.entry ELSE record[a.record].of) = pass.into
     /\ \E r \in pass.moving : record[r].number = a.given.number
  \/ a.op = "delete" /\ pass.moving # {} /\ a.entry = pass.into

\* Mutant: a vendor's numbers have no unique index.
NamesAreUnique(a) ==
  a.op \in {"add", "rename"} => ~Taken(a.label, Entry \ {a.entry})

\* The unique indexes: the lists' names, and a vendor's order numbers.
IndexAllows(a) ==
  CASE a.op \in {"add", "rename"} -> ~Taken(a.label, Entry \ {a.entry})
    [] a.op = "file" -> ~Duplicate(a.entry, a.given.number, RecordId)
    [] a.op = "renumber" ->
         ~Duplicate(record[a.record].of, a.given.number, RecordId \ {a.record})
    [] OTHER -> TRUE

\* Mutant: an entry goes although a record names it by now.
RowIsThere(a) == a.op \in {"file", "rename"} => entry[a.entry] # Gone

\* The foreign keys, and the row an update is of.
KeysAllow(a) ==
  /\ a.op \in {"file", "rename"} => entry[a.entry] # Gone
  /\ a.op = "delete" => Naming(a.entry) = {}

Commit(c) ==
  LET a == ask[c] IN
  /\ a # NoAsking /\ ~Waits(a) /\ IndexAllows(a) /\ KeysAllow(a)
  /\ entry' = CASE a.op \in {"add", "rename"} -> [entry EXCEPT ![a.entry] = a.label]
                [] a.op = "delete" -> [entry EXCEPT ![a.entry] = Gone]
                [] OTHER -> entry
  /\ record' =
       IF a.op \notin {"file", "renumber"} THEN record
       ELSE [record EXCEPT ![a.record] =
               [of |-> IF a.op = "file" THEN a.entry ELSE @.of,
                number |-> a.given.number, issued |-> a.given.issued]]
  /\ Answered(c)
  /\ UNCHANGED <<list, pass>>

RolledBack(c) ==
  LET a == ask[c] IN
  /\ a # NoAsking /\ ~Waits(a) /\ ~(IndexAllows(a) /\ KeysAllow(a))
  /\ Answered(c)
  /\ UNCHANGED <<list, entry, record, pass>>

-----------------------------------------------------------------------------
(* THE CLEAN-UP, in one transaction: a merge moves the purchases, and the  *)
(* vendor left empty goes; then a rename.  Anything refused rolls all of   *)
(* it back, and so does a run without --commit.                            *)

\* Refused where a platform sells through it, or both have a number; the
\* UPDATE takes the purchases the vendor has now.
Merge(from, into) ==
  LET taken == Numbered(from) IN
  /\ list = "vendors" /\ pass = NoPass
  /\ {from, into} \subseteq Listed /\ from # into
  /\ Naming(from) = taken
  /\ \A r \in taken : ~Duplicate(into, record[r].number, RecordId)
  /\ pass' = [from |-> from, into |-> into, moving |-> taken]
  /\ UNCHANGED <<list, entry, record, ask, numbering>>

\* Mutant: the vendor goes with what it was given meanwhile.
EndsRegardless(l) == entry[pass.into] # Gone

\* Nothing is left on the vendor, and the name the other is given is free.
CanEnd(l) ==
  /\ Naming(pass.from) \subseteq pass.moving
  /\ (pass.moving # {} \/ l # Gone) => entry[pass.into] # Gone
  /\ l # Gone => ~Taken(l, Entry \ {pass.from, pass.into})

\* The vendor merged away goes, and the other is renamed, if it is to be.
End(l) ==
  /\ pass # NoPass /\ CanEnd(l)
  /\ record' = [r \in RecordId |->
                  IF r \in pass.moving THEN [record[r] EXCEPT !.of = pass.into]
                  ELSE record[r]]
  /\ entry' = [e \in Entry |->
                 CASE e = pass.from -> Gone
                   [] e = pass.into /\ l # Gone -> l
                   [] OTHER -> entry[e]]
  /\ pass' = NoPass
  /\ UNCHANGED <<list, ask, numbering>>

EndRolledBack ==
  /\ pass # NoPass /\ pass' = NoPass
  /\ UNCHANGED <<list, entry, record, ask, numbering>>

AtLeisure == {c \in Clerk : ask[c] = NoAsking}

PurchasesNext ==
  \/ \E c \in AtLeisure, e \in Entry :
       \/ \E l \in Label :
            \/ CreateVendor(c, e, l) \/ UpdateVendor(c, e, l)
            \/ CreateSeller(c, e, l) \/ UpdateSeller(c, e, l)
            \/ CreateLocation(c, e, l) \/ UpdateLocation(c, e, l)
       \/ DeleteVendor(c, e) \/ DeleteSeller(c, e) \/ DeleteLocation(c, e)
       \/ \E r \in RecordId :
            \/ NameEntry(c, r, e)
            \/ \E n \in Typed : CreatePurchaseOrder(c, r, e, n)
  \/ \E c \in AtLeisure, r \in RecordId, n \in Typed :
       UpdatePurchaseOrder(c, r, n)
  \/ \E c \in Clerk \ AtLeisure :
       \/ Commit(c) \/ RolledBack(c)
  \/ \E from, into \in Entry : Merge(from, into)
  \/ \E l \in Label \cup {Gone} : End(l)
  \/ EndRolledBack

PurchasesSpec == PurchasesInit /\ [][PurchasesNext]_purchaseVars

-----------------------------------------------------------------------------
(* PROPERTIES.                                                             *)

\* Two entries of a list never have one name, case aside (uq_vendor_name).
NamesDiffer ==
  \A e, d \in Listed : e # d => Folded[entry[e]] # Folded[entry[d]]

\* What a record names is in the list.
NamedIsListed == \A r \in Held : record[r].of \in Listed

\* A vendor's purchases differ in number, and the issued numbers of all of
\* them do: "two purchases created at once cannot both take the same next
\* number" (acquisitions.py:79).
NumbersDiffer ==
  \A r, s \in Held :
    /\ r # s /\ record[r].number # Unnumbered /\ record[r].number = record[s].number
    => record[r].of # record[s].of /\ ~(record[r].issued /\ record[s].issued)

\* A purchase once recorded is never lost, keeps its number through a merge,
\* and changes its vendor only with everything its vendor had.
PurchasesKeep ==
  [][\A r \in Held :
       /\ r \in Held'
       /\ record'[r].of # record[r].of =>
            /\ record'[r].number = record[r].number
            /\ entry'[record[r].of] = Gone]_purchaseVars

\* The lists and the purchases hold together under clerks and a clean-up.
PurchasesStand == [](NamesDiffer /\ NamedIsListed /\ NumbersDiffer) /\ PurchasesKeep
=============================================================================
