---------------------------- MODULE ItemRecords ----------------------------
(***************************************************************************)
(* What is written beside an item when its status, its place or its cost   *)
(* changes: the two histories (lifecycle_writes.py), which the item's      *)
(* History page reads back (item_history.py), and the shares of its cost   *)
(* that the pieces of a split carry (splitting.py, allocation.py).         *)
(*                                                                         *)
(* Several requests handle one item at once.  Each reads the row, perhaps  *)
(* takes its lock and reads it again, and writes; an UPDATE names the      *)
(* version it read.  Whether a live offer holds the item decides which of  *)
(* them lock; the offers themselves are the shop's (Offering).             *)
(***************************************************************************)
EXTENDS Integers, Sequences, FiniteSets, FiniteSetsExt

CONSTANTS
  Handler,     \* the requests under way at once
  Receipt,     \* the statuses a receipt may record; "received" is one
  Shelf,       \* the places of the collection's own
  Price,       \* what a lot may cost, in cents
  Corrected,   \* what its cost may be corrected to
  Postage,     \* what its shipping may
  Division,    \* the splits asked for: a mode, and each piece's count and value
  MaxSent,     \* bound: the fields one edit sends
  MaxRowVersion

\* Money is in cents, what is recorded of a receipt is a status, and a split
\* asks for two pieces or more (schemas.py, SplitRequest).
ASSUME ItemRecordsAssumption ==
  /\ Price \cup Corrected \cup Postage \subseteq Nat
  /\ "none" \notin Receipt
  /\ \A d \in Division :
       /\ d.parts \in Seq([count : Nat, value : Nat])
       /\ Len(d.parts) >= 2

VARIABLES
  holding,     \* the item's row
  statusMoves, \* item_status_history: from, to
  placeMoves,  \* location_history: to
  offerLive,   \* a live offer holds the item
  rowLock,     \* who has locked the row: one request at most
  handling,    \* the requests
  pieces       \* what the item was split into

itemRecordVars ==
  <<holding, statusMoves, placeMoves, offerLive, rowLock, handling, pieces>>

Unsent == "unsent"           \* a field the request leaves alone
UnsentPrice == -1
NoStatus == "none"
NoPlace == "nowhere"
House == "house"             \* the consigned location of an auction house
Place == Shelf \cup {NoPlace, House}

NoDivision == [mode |-> "none", parts |-> <<>>]
Sends(op, s, p, c, token) ==
  [op |-> op, status |-> s, place |-> p, cost |-> c, token |-> token,
   division |-> NoDivision]
Resting == [asked |-> Sends("none", Unsent, Unsent, UnsentPrice, "none"),
            step |-> "none", base |-> <<>>, read |-> <<>>]

-----------------------------------------------------------------------------
(* MONEY.  allocate(): every share is rounded down, and the cents left go  *)
(* one at a time to the largest remainders, the earlier part first.        *)

Total(w) == MapThenSumSet(LAMBDA i : w[i], DOMAIN w)

\* An equal split is by the piece, a relative one by its value; pieces worth
\* nothing weigh the same.
Weights(d) ==
  LET w == [i \in DOMAIN d.parts |->
              d.parts[i].count * (IF d.mode = "relative" THEN d.parts[i].value ELSE 1)]
  IN IF Total(w) = 0 THEN [i \in DOMAIN w |-> 1] ELSE w

\* Mutant: each share is rounded to the nearest cent.
NearestShares(total, w) ==
  [i \in DOMAIN w |-> (2 * total * w[i] + Total(w)) \div (2 * Total(w))]

\* The parts before i in the order the cents go in.
Ahead(left, i) ==
  {j \in DOMAIN left : left[j] > left[i] \/ (left[j] = left[i] /\ j < i)}

Allocate(total, w) ==
  LET floor == [i \in DOMAIN w |-> (total * w[i]) \div Total(w)]
      left == [i \in DOMAIN w |-> (total * w[i]) % Total(w)]
      cents == total - Total(floor)
  IN [i \in DOMAIN w |->
        floor[i] + (IF Cardinality(Ahead(left, i)) < cents THEN 1 ELSE 0)]

-----------------------------------------------------------------------------
(* THE HISTORIES: the only writers of the two columns write their rows.    *)

Opening(s) == <<[from |-> NoStatus, to |-> s]>>

\* Mutant: a status sent again is recorded again.
StatusMoveAnyway(was, s) == <<[from |-> was, to |-> s]>>

\* set_status: what the session holds is what the item comes from.
StatusMove(was, s) == IF s = was THEN <<>> ELSE <<[from |-> was, to |-> s]>>

\* set_location: a row says only where the item went.
PlaceMove(was, p) == IF p = was THEN <<>> ELSE <<p>>

\* The history page reads where an item came from off the row before.
PlaceEvents(rows) ==
  [n \in DOMAIN rows |-> [from |-> IF n = 1 THEN NoPlace ELSE rows[n - 1], to |-> rows[n]]]

\* Mutant: a piece's place is inherited as its other columns are.
PieceInheriting(lot, cost, postage) ==
  [status |-> lot.status, place |-> lot.place, cost |-> cost, postage |-> postage,
   statuses |-> Opening(lot.status), places |-> <<>>]

\* A piece opens its own histories, in its lot's status and place.
PieceRow(lot, cost, postage) ==
  [status |-> lot.status, place |-> lot.place, cost |-> cost, postage |-> postage,
   statuses |-> Opening(lot.status), places |-> PlaceMove(NoPlace, lot.place)]

PiecesOf(lot, d) ==
  LET w == Weights(d)
      costs == Allocate(lot.cost, w)
      postages == Allocate(lot.postage, w)
  IN [i \in DOMAIN w |-> PieceRow(lot, costs[i], postages[i])]

\* create_item: the place, then the opening row, of a row never there before.
ItemRecordsInit ==
  \E s \in {"ordered", "received"}, p \in Shelf \cup {NoPlace}, c \in Price, ship \in Postage :
    /\ holding = [status |-> s, place |-> p, cost |-> c, postage |-> ship,
                  version |-> 1, split |-> FALSE]
    /\ statusMoves = Opening(s) /\ placeMoves = PlaceMove(NoPlace, p)
    /\ offerLive = FALSE /\ rowLock = {} /\ pieces = <<>>
    /\ handling = [h \in Handler |-> Resting]

-----------------------------------------------------------------------------
(* A REQUEST reads the row.                                                *)

NobodyLocks == rowLock = {}
Begin(h, a, step) ==
  /\ handling' = [handling EXCEPT ![h] =
                    [asked |-> a, step |-> step, read |-> holding,
                     base |-> IF a.token = "none" THEN <<>> ELSE holding]]
  /\ UNCHANGED <<holding, statusMoves, placeMoves, offerLive, rowLock, pieces>>
Handled(h) == handling' = [handling EXCEPT ![h] = Resting]

\* The status is another than the item's, and an offer holds it.
StandingChanges(s) == s # Unsent /\ s # holding.status /\ offerLive
LocksIf(locks) == IF locks THEN "lock" ELSE "write"

\* An arrival is recorded once, with its place; any other outcome takes the
\* rows its offers stand on first.
ReceiveItems(h, s, p) ==
  /\ ~holding.split
  /\ s = "received" => holding.status # s
  /\ s # "received" => p = Unsent
  /\ Begin(h, Sends("receive", s, p, UnsentPrice, "none"), LocksIf(s # "received"))

BulkEdit(h, s, p) ==
  Begin(h, Sends("edit", s, p, UnsentPrice, "none"), LocksIf(StandingChanges(s)))

\* An edit says what it began from: a version, or each field it changes.  One
\* that takes no lock is held to all it read by the version its UPDATE names.
UpdateItem(h, s, p, c, token) ==
  Begin(h, Sends("edit", s, p, c, IF StandingChanges(s) THEN token ELSE "none"),
        LocksIf(StandingChanges(s)))

\* An auction's coins go to its house, and come back when they are removed
\* or unsold, which ends their offer.
Consign(h) ==
  offerLive /\ Begin(h, Sends("consign", Unsent, House, UnsentPrice, "none"), "write")
ReturnFromConsignment(h, p) ==
  /\ offerLive /\ holding.place = House
  /\ Begin(h, Sends("return", Unsent, p, UnsentPrice, "none"), "write")

SplitLot(h, d) ==
  Begin(h, [Sends("split", Unsent, Unsent, UnsentPrice, "none") EXCEPT !.division = d],
        "lock")

\* The shop puts the item on offer and takes it off, under its row lock.
Offered ==
  /\ NobodyLocks /\ ~offerLive /\ holding.status = "received" /\ ~holding.split
  /\ offerLive' = TRUE
  /\ \E v \in {holding.version, holding.version + 1} :
       v <= MaxRowVersion /\ holding' = [holding EXCEPT !.version = v]
  /\ UNCHANGED <<statusMoves, placeMoves, rowLock, handling, pieces>>

OfferEnds ==
  /\ NobodyLocks /\ offerLive /\ offerLive' = FALSE
  /\ holding.version < MaxRowVersion
  /\ holding' = [holding EXCEPT !.version = @ + 1]
  /\ UNCHANGED <<statusMoves, placeMoves, rowLock, handling, pieces>>

-----------------------------------------------------------------------------
(* THE LOCK: lock_for_sale and a split's refresh read the row again, and   *)
(* the edit's token is asked again of what is read.                        *)

Differs(a, b, r) ==
  \/ a.status # Unsent /\ r.status \notin {b.status, a.status}
  \/ a.place # Unsent /\ r.place \notin {b.place, a.place}
  \/ a.cost # UnsentPrice /\ r.cost \notin {b.cost, a.cost}

\* Mutant: the token is asked of the row as it was first read.
HeldToItsFirstRead(a, b, r) == TRUE

StillMeant(a, b, r) ==
  CASE a.token = "none" -> TRUE
    [] r.version = b.version -> TRUE
    [] a.token = "version" -> FALSE
    [] OTHER -> ~Differs(a, b, r)

Lock(h) ==
  LET g == handling[h]
      row == holding
  IN
  /\ g.step = "lock" /\ NobodyLocks
  /\ IF StillMeant(g.asked, g.base, row) /\ ~(g.asked.op = "split" /\ row.split)
     THEN /\ rowLock' = {h}
          /\ handling' = [handling EXCEPT ![h].step = "write", ![h].read = row]
     ELSE Handled(h) /\ UNCHANGED rowLock
  /\ UNCHANGED <<holding, statusMoves, placeMoves, offerLive, pieces>>

-----------------------------------------------------------------------------
(* THE WRITE, of the row as the request last read it.                      *)

With(row, a) ==
  [row EXCEPT !.status = IF a.status = Unsent THEN @ ELSE a.status,
              !.place = IF a.place = Unsent THEN @ ELSE a.place,
              !.cost = IF a.cost = UnsentPrice THEN @ ELSE a.cost,
              !.split = @ \/ a.op = "split"]

\* Mutant: the UPDATE names no version.
WritesAnyVersion(read, row) == TRUE

VersionHolds(read, row) == read.version = row.version

EndsOffers(h) ==
  \/ handling[h].asked.op \in {"return", "split"}
  \/ h \in rowLock

\* Mutant: the ending reads the row again before the status is flushed.
LosesTheStatus(h, written) ==
  IF EndsOffers(h) /\ offerLive THEN [written EXCEPT !.status = holding.status]
  ELSE written

\* Flushed first: the ending, which reads the row again, reads what was
\* written.
AfterEnding(h, written) == written

Write(h) ==
  LET g == handling[h]
      written == With(g.read, g.asked)
  IN
  /\ g.step = "write" /\ rowLock \subseteq {h}
  /\ (written # g.read => VersionHolds(g.read, holding))
  /\ IF written = g.read THEN UNCHANGED holding
     ELSE /\ holding.version < MaxRowVersion
          /\ holding' = [AfterEnding(h, written) EXCEPT !.version = holding.version + 1]
  /\ statusMoves' = statusMoves \o StatusMove(g.read.status, written.status)
  /\ placeMoves' = placeMoves \o PlaceMove(g.read.place, written.place)
  /\ offerLive' = (offerLive /\ ~EndsOffers(h))
  /\ pieces' = IF g.asked.op = "split" THEN pieces \o PiecesOf(g.read, g.asked.division)
               ELSE pieces
  /\ rowLock' = rowLock \ {h}
  /\ Handled(h)

\* Another commit landed since the row was read, or the offer is an
\* auction's to end, or the lot that offers it is not held: nothing is
\* written.
WriteRefused(h) ==
  LET g == handling[h] IN
  /\ g.step = "write" /\ rowLock \subseteq {h}
  /\ \/ ~VersionHolds(g.read, holding) /\ With(g.read, g.asked) # g.read
     \/ h \in rowLock /\ offerLive
  /\ rowLock' = rowLock \ {h} /\ Handled(h)
  /\ UNCHANGED <<holding, statusMoves, placeMoves, offerLive, pieces>>

\* The edits that send a few of the three fields.
FieldsSent(e) ==
  (IF e.status = Unsent THEN {} ELSE {"status"})
    \cup (IF e.place = Unsent THEN {} ELSE {"place"})
    \cup (IF e.cost = UnsentPrice THEN {} ELSE {"cost"})
EditsAsked ==
  {e \in [status : Receipt \cup {"ordered", Unsent}, place : Shelf \cup {NoPlace, Unsent},
          cost : Corrected \cup {UnsentPrice}] :
     Cardinality(FieldsSent(e)) \in 1..MaxSent}

AtRest == {h \in Handler : handling[h] = Resting}

ItemRecordsNext ==
  \/ \E h \in AtRest :
       \/ \E s \in Receipt, p \in Shelf \cup {Unsent} : ReceiveItems(h, s, p)
       \/ \E e \in EditsAsked :
            \/ e.cost = UnsentPrice /\ BulkEdit(h, e.status, e.place)
            \/ \E token \in {"version", "base"} :
                 UpdateItem(h, e.status, e.place, e.cost, token)
       \/ Consign(h)
       \/ \E p \in Shelf : ReturnFromConsignment(h, p)
       \/ \E d \in Division : SplitLot(h, d)
  \/ \E h \in Handler \ AtRest :
       \/ Lock(h) \/ Write(h) \/ WriteRefused(h)
  \/ Offered \/ OfferEnds

ItemRecordsSpec == ItemRecordsInit /\ [][ItemRecordsNext]_itemRecordVars

-----------------------------------------------------------------------------
(* PROPERTIES.                                                             *)

\* The moves lead from the start to where the item is, each from where the
\* one before ended, to somewhere else.
Leads(events, start, end) ==
  LET at(n) == IF n = 0 THEN start ELSE events[n].to IN
  /\ \A n \in DOMAIN events : events[n].from = at(n - 1) /\ events[n].to # at(n - 1)
  /\ at(Len(events)) = end

\* The histories an item's page reads back lead from nothing to the status and
\* the place its row holds: "so that 'when did this actually arrive' survives
\* a later correction" (lifecycle_writes.py:4), and none asserts "a transition
\* the item never made" (routers/inventory.py:683).  A piece's do too.
StatusesTell == Leads(statusMoves, NoStatus, holding.status)
PlacesTell == Leads(PlaceEvents(placeMoves), NoPlace, holding.place)
PiecesTell ==
  \A n \in DOMAIN pieces :
    /\ Leads(pieces[n].statuses, NoStatus, pieces[n].status)
    /\ Leads(PlaceEvents(pieces[n].places), NoPlace, pieces[n].place)

\* A share is within a cent of its proportion.
Proportional(shares, total, w) ==
  \A i \in DOMAIN w :
    LET off == shares[i] * Total(w) - total * w[i]
    IN off < Total(w) /\ -off < Total(w)

\* A lot is split once, and its pieces carry what the lot costs then, to the
\* cent (splitting.py: split "twice over, and the cost basis allocated
\* twice over"), each in proportion, and are where it is.
PiecesCarryTheLot ==
  [][pieces' # pieces =>
       /\ pieces = <<>> /\ ~holding.split /\ holding'.split /\ ~offerLive'
       /\ Total([n \in DOMAIN pieces' |-> pieces'[n].cost]) = holding.cost
       /\ Total([n \in DOMAIN pieces' |-> pieces'[n].postage]) = holding.postage
       /\ \A n \in DOMAIN pieces' :
            pieces'[n].status = holding.status /\ pieces'[n].place = holding.place
       /\ \E h \in Handler :
            LET w == Weights(handling[h].asked.division) IN
            /\ handling[h].asked.op = "split" /\ DOMAIN pieces' = DOMAIN w
            /\ Proportional([n \in DOMAIN pieces' |-> pieces'[n].cost], holding.cost, w)
    ]_itemRecordVars

\* What a token covers is not overwritten unseen, the row lock's second read
\* notwithstanding: a save changes a field only from what its caller saw.
NothingOverwrittenUnderTheLock ==
  [][\A h \in Handler :
       /\ handling[h].step = "write" /\ handling'[h] = Resting /\ holding' # holding
       /\ handling[h].asked.token # "none"
       => ~Differs(handling[h].asked, handling[h].base, holding)]_itemRecordVars

\* The records of an item say what happened to it.
RecordsTrue ==
  /\ [](StatusesTell /\ PlacesTell /\ PiecesTell)
  /\ PiecesCarryTheLot /\ NothingOverwrittenUnderTheLock
=============================================================================
