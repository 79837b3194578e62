------------------------------ MODULE SaleLocks ------------------------------
(***************************************************************************)
(* The requests of the shop as concurrent transactions.  Shop takes each   *)
(* request as one step; here a request reads, waits for the row locks of   *)
(* offering_writes.lock_for_sale one row at a time, and writes when it     *)
(* holds them, while others do the same (docs/specs/lock-order-design.md). *)
(*                                                                         *)
(* PostgreSQL runs a transaction at READ COMMITTED: a statement reads what *)
(* is committed when it starts, a row lock is held to the end, and the     *)
(* writes of a transaction appear together at its commit.                  *)
(***************************************************************************)
EXTENDS Shop, Sequences

CONSTANTS
    Txn,         \* the transactions running at the same time, a request each
    Scenarios,   \* the requests they may make, and the sequences of requests
                 \* that may be made one at a time before them
    Id           \* the primary key of a row; ids order the locks of one kind

Row == Order \cup Lot \cup Item \cup Listing

ASSUME RowsApart ==
    /\ Order \cap (Lot \cup Item \cup Listing) = {}
    /\ Lot \cap (Item \cup Listing) = {}
    /\ Item \cap Listing = {}

ASSUME IdsAreKeys ==
    /\ Id \in [Row -> Nat]
    /\ \A r, s \in Row : Id[r] = Id[s] => r = s

\* What may be asked of the shop: bodies and paths that name rows and codes.
Requests ==
    [kind : {"create lot", "delete lot"}, lot : Lot]
    \cup [kind : {"add member", "remove member"}, lot : Lot, item : Item]
    \cup [kind : {"offer"}, listing : Listing, item : Item, venue : Platforms]
    \cup [kind : {"offer lot"}, listing : Listing, lot : Lot, venue : Platforms]
    \cup [kind : {"end"}, listing : Listing]
    \cup [kind : {"checkout", "revise"}, order : Order, listings : SUBSET Listing]
    \cup [kind : {"sale"}, order : Order, listing : Listing]
    \cup [kind : {"status"}, order : Order, to : Statuses]
    \cup [kind : {"receive", "loss", "split", "delete item"}, item : Item]
    \cup [kind : {"edit", "bulk"}, item : Item, to : {"received", "away"},
          filed : Dispositions]

ASSUME ScenariosAreRequests ==
    \A scene \in Scenarios :
        scene.requests \subseteq Requests /\ scene.histories \subseteq Seq(Requests)

\* "Lot rows, then items, then listings", an order row before them all.
KindOf(r) == CASE r \in Order -> 0 [] r \in Lot -> 1 [] r \in Item -> 2 [] OTHER -> 3

Precedes(r, s) ==
    KindOf(r) < KindOf(s) \/ (KindOf(r) = KindOf(s) /\ Id[r] < Id[s])

VARIABLES
    request,   \* what each transaction was asked to do
    past,      \* the requests still to be made before the transactions start
    stage,
    todo,      \* rows the statement under way has still to lock
    held,      \* rows locked
    plan,      \* what the unlocked reads chose
    moved      \* the item row an edit read without a lock has a newer version

lockVars == <<stage, todo, held, plan, moved>>
allVars == <<vars, request, past, lockVars>>

Ended == {"committed", "refused", "failed", "lost"}
Stage == Ended \cup {"new", "first", "chosen", "known", "lots", "items", "listings",
                     "late", "update", "decided"}

NoPlan == [named |-> {}, items |-> {}, ended |-> {}, before |-> <<>>]

LotsOf(L) == {k \in Lot : \E l \in L : subject[l] = k}

-----------------------------------------------------------------------------
(* The requests, made alone and made in a transaction.                     *)

\* A request made with nobody else about: a step of the shop.
Alone(r) ==
    \/ r.kind = "create lot" /\ CreateLot(r.lot)
    \/ r.kind = "delete lot" /\ DeleteLot(r.lot)
    \/ r.kind = "add member" /\ AddMember(r.lot, r.item)
    \/ r.kind = "remove member" /\ RemoveMember(r.lot, r.item)
    \/ r.kind = "offer" /\ OfferItem(r.listing, r.item, r.venue)
    \/ r.kind = "offer lot" /\ OfferLot(r.listing, r.lot, r.venue)
    \/ r.kind = "end" /\ (EndListing(r.listing) \/ EndListingAgain(r.listing))
    \/ r.kind = "checkout" /\ PlaceOrder(r.order, r.listings)
    \/ r.kind = "sale" /\ RecordSale(r.order, r.listing)
    \/ r.kind = "status" /\ SetOrderStatus(r.order, r.to)
    \/ r.kind = "revise" /\ ReviseOrder(r.order, r.listings)
    \/ r.kind = "receive" /\ ReceiveItem(r.item)
    \/ r.kind = "loss" /\ RecordLoss(r.item)
    \/ r.kind \in {"edit", "bulk"} /\ EditStanding(r.item, r.to, r.filed)
    \/ r.kind = "split" /\ SplitItem(r.item)
    \/ r.kind = "delete item" /\ DeleteItem(r.item)

\* What transaction t writes.  A status change was allowed before its locks
\* were taken; an edit that saw no offer took none and ends none; the orders of
\* a listing that ends meanwhile are asked, those of one seen ended are not.
Effect(t) ==
    LET r == request[t]
    IN  CASE r.kind = "status" -> ApplyStatus(r.order, r.to)
          [] r.kind \in {"edit", "bulk"} ->
                WriteStanding(r.item, r.to, r.filed,
                    IF plan[t].named = {} THEN {} ELSE OffersHolding({r.item}))
          [] r.kind = "end" ->
                \/ EndListing(r.listing)
                \/ /\ EndListingAgain(r.listing)
                   /\ plan[t].ended = {} => OrdersHoldingStock(r.listing) = {}
          [] OTHER -> Alone(r)

\* The row a request inserts, under a key of its own.
Inserted(r) ==
    CASE r.kind \in {"offer", "offer lot"} -> {r.listing}
      [] r.kind \in {"checkout", "sale"} -> {r.order}
      [] r.kind = "create lot" -> {r.lot}
      [] OTHER -> {}

\* Mutant: the order, or the lot, is read without its row.
FirstRowForgotten(r) == IF r.kind \in {"split", "delete item"} THEN {r.item} ELSE {}

\* The row each request locks before it reads: the order, the lot whose
\* members it needs, the item it splits or deletes.
FirstRow(r) ==
    CASE r.kind \in {"status", "revise"} -> {r.order}
      [] r.kind \in {"offer lot", "add member", "remove member", "delete lot"} -> {r.lot}
      [] r.kind \in {"split", "delete item"} -> {r.item}
      [] OTHER -> {}

\* Mutant: a split does not ask about the offered lot.
AllowsAnySplit(r) ==
    CASE r.kind = "status" -> MaySetStatus(r.order, r.to)
      [] r.kind = "revise" -> MayRevise(r.order)
      [] r.kind = "offer lot" -> Assembling(r.lot) /\ members[r.lot] # {}
      [] r.kind \in {"add member", "remove member", "delete lot"} -> Assembling(r.lot)
      [] r.kind = "split" -> Here(r.item) /\ ~SoldThisItem(r.item)
      [] r.kind \in {"end", "sale"} -> listingStatus[r.listing] # "unused"
      [] OTHER -> TRUE

\* What is decided on the first row, before any other is locked.
AllowedAtFirst(r) ==
    CASE r.kind = "status" -> MaySetStatus(r.order, r.to)
      [] r.kind = "revise" -> MayRevise(r.order)
      [] r.kind = "offer lot" -> Assembling(r.lot) /\ members[r.lot] # {}
      [] r.kind \in {"add member", "remove member", "delete lot"} -> Assembling(r.lot)
      [] r.kind = "split" ->
            Here(r.item) /\ ~SoldThisItem(r.item) /\ ~InOfferedLot(r.item)
      [] r.kind \in {"end", "sale"} -> listingStatus[r.listing] # "unused"
      [] OTHER -> TRUE

ChangesStanding(r) == <<r.to, r.filed>> # <<itemStatus[r.item], disposition[r.item]>>

\* The listings a request gives lock_for_sale.
Named(r) ==
    CASE r.kind = "checkout" -> r.listings
      [] r.kind \in {"sale", "end"} -> {r.listing}
      [] r.kind = "status" -> Lines(r.order)
      [] r.kind = "revise" -> Lines(r.order) \cup r.listings
      [] r.kind = "loss" -> OffersHolding({r.item})
      [] r.kind \in {"edit", "bulk"} ->
            IF ChangesStanding(r) THEN OffersHolding({r.item}) ELSE {}
      [] r.kind = "split" -> {l \in Listing : subject[l] = r.item /\ Live(l)}
      [] OTHER -> {}

\* The items it gives lock_for_sale.
Given(r) ==
    CASE r.kind \in {"loss", "edit", "bulk", "offer"} -> {r.item}
      [] r.kind = "offer lot" -> members[r.lot]
      [] OTHER -> {}

\* Requests that end offers lock what an ending touches (including_paused).
Reached(r, l) ==
    IF r.kind \in {"end", "loss", "edit", "bulk", "split"}
    THEN AffectedItems({l})
    ELSE OfferedItems(l)

\* A request that takes no lock pass, and the row it locks or updates instead.
TakesNoPass(r) ==
    \/ r.kind \in {"create lot", "receive", "add member", "remove member", "delete lot",
                   "delete item"}
    \/ r.kind \in {"edit", "bulk"} /\ Named(r) = {}
    \/ r.kind = "status" /\ ~ReturnsStock(r.order, r.to)

UpdatedRow(r) == IF r.kind \in {"receive", "edit", "bulk", "add member"} THEN {r.item} ELSE {}

\* Mutant: an edit asks for no version.
NeverOptimistic(t) == FALSE

\* An item row written only over the version it was read with: by the UPDATE
\* itself, and in an edit that sends the editor's version also under the lock,
\* which reads the row again.
Optimistic(t) ==
    \/ request[t].kind \in {"receive", "edit"}
    \/ request[t].kind = "bulk" /\ plan[t].named = {}

\* Mutant: nobody asks whether a lot joined after its rows were chosen.
NoLotAsked(t) == FALSE

\* refuse_if_lot_unheld, asked by the requests that end, or take further passes
\* over, offers they did not name.
LotUnheld(t) ==
    /\ request[t].kind \in {"loss", "edit", "bulk", "offer"}
    /\ ~(LotsOf(OffersHolding({request[t].item})) \subseteq held[t])

\* The offers a request ends once it has been through its refusals.
Ending(r) ==
    CASE r.kind = "checkout" -> {l \in LotsSoldOut(r.listings) : Live(l)}
      [] r.kind = "revise" -> {l \in LotsSoldOut(r.listings \ Lines(r.order)) : Live(l)}
      [] r.kind = "sale" -> {l \in {r.listing} : listingStatus[l] = "active"}
      [] r.kind \in {"loss", "edit", "bulk"} -> OffersHolding({r.item})
      [] OTHER -> {}

\* The rows of the passes that follow the first: an end_offer for each offer
\* the request ends, or the offer's own.
LaterRows(t) ==
    LET r == request[t]
        items == AffectedItems(Ending(r)) \cup (IF r.kind = "offer" THEN {r.item} ELSE {})
        offers == Ending(r) \cup OffersHolding(items)
    IN  LotsOf(offers) \cup items \cup offers

-----------------------------------------------------------------------------
(* One transaction, statement by statement.                                *)

\* Every item is in hand at first; the histories take it from there.
LockInit ==
    /\ Init
    /\ itemStatus = [i \in Item |-> "received"]
    /\ \E scene \in Scenarios :
        /\ request \in [Txn -> scene.requests]
        /\ past \in scene.histories
    /\ \A t, u \in Txn : t # u => Inserted(request[t]) \cap Inserted(request[u]) = {}
    /\ stage = [t \in Txn |-> "new"]
    /\ todo = [t \in Txn |-> {}]
    /\ held = [t \in Txn |-> {}]
    /\ plan = [t \in Txn |-> NoPlan]
    /\ moved = [t \in Txn |-> FALSE]

\* The next request of the history.
MakeHistory ==
    /\ past # <<>>
    /\ Alone(Head(past))
    /\ past' = Tail(past)
    /\ UNCHANGED <<request, lockVars>>

\* Transaction t goes on to the stage `to`, whose statement locks `rows`.
GoTo(t, to, rows) ==
    /\ stage' = [stage EXCEPT ![t] = to]
    /\ todo' = [todo EXCEPT ![t] = rows \ held[t]]

Leave(t, as) ==
    /\ stage' = [stage EXCEPT ![t] = as]
    /\ todo' = [todo EXCEPT ![t] = {}]
    /\ held' = [held EXCEPT ![t] = {}]

\* t has run the statement of stage s and holds its rows.
Through(t, s) == stage[t] = s /\ todo[t] = {}

Start(t) ==
    /\ past = <<>>
    /\ stage[t] = "new"
    /\ GoTo(t, "first", FirstRow(request[t]))
    /\ UNCHANGED <<vars, request, past, held, plan, moved>>

NextRow(t) == CHOOSE r \in todo[t] : \A s \in todo[t] \ {r} : Precedes(r, s)

Free(r, t) == \A u \in Txn \ {t} : r \notin held[u]

\* A statement FOR UPDATE takes its rows one by one in id order, waiting for
\* each.
LockRow(t) ==
    /\ todo[t] # {}
    /\ Free(NextRow(t), t)
    /\ held' = [held EXCEPT ![t] = @ \cup {NextRow(t)}]
    /\ todo' = [todo EXCEPT ![t] = @ \ {NextRow(t)}]
    /\ UNCHANGED <<vars, request, past, stage, plan, moved>>

\* The reads before the lock pass: what the request names and gives.
Choose(t) ==
    LET r == request[t]
    IN  /\ Through(t, "first")
        /\ AllowedAtFirst(r)
        /\ plan' = [plan EXCEPT ![t] =
              [named |-> Named(r), items |-> Given(r),
               ended |-> {l \in Named(r) : listingStatus[l] = "ended"}, before |-> @.before]]
        /\ moved' = [moved EXCEPT ![t] = FALSE]
        /\ IF TakesNoPass(r) THEN GoTo(t, "update", UpdatedRow(r)) ELSE GoTo(t, "chosen", {})
        /\ UNCHANGED <<vars, request, past, held>>

\* lock_for_sale reads, without a lock, the items each named listing it finds
\* reaches ...
ReadItems(t) ==
    LET found == {l \in plan[t].named : listingStatus[l] # "unused"}
        before == [l \in found |-> Reached(request[t], l)]
    IN  /\ Through(t, "chosen")
        /\ plan' = [plan EXCEPT ![t] =
              [named |-> @.named, items |-> @.items \cup UNION {before[l] : l \in found},
               ended |-> @.ended, before |-> before]]
        /\ GoTo(t, "known", {})
        /\ UNCHANGED <<vars, request, past, held, moved>>

\* ... and the lots of the listings named and of every offer of those items.
LockLots(t) ==
    /\ Through(t, "known")
    /\ GoTo(t, "lots", LotsOf(plan[t].named \cup OffersHolding(plan[t].items)))
    /\ UNCHANGED <<vars, request, past, held, plan, moved>>

\* Mutant: the items are read and not locked.
LockNoItems(t) ==
    /\ Through(t, "lots")
    /\ GoTo(t, "items", {})
    /\ UNCHANGED <<vars, request, past, held, plan, moved>>

LockItems(t) ==
    /\ Through(t, "lots")
    /\ GoTo(t, "items", plan[t].items)
    /\ UNCHANGED <<vars, request, past, held, plan, moved>>

\* The listings are found now that the items are held; an id named that is
\* nobody's yet finds no row.
LockListings(t) ==
    /\ Through(t, "items")
    /\ GoTo(t, "listings",
            {l \in plan[t].named : listingStatus[l] # "unused"} \cup OffersHolding(plan[t].items))
    /\ UNCHANGED <<vars, request, past, held, plan, moved>>

\* _refuse_if_changed: a listing found then, and still on offer, reaches other
\* items than it did.
SetChanged(t) ==
    \E l \in DOMAIN plan[t].before : Live(l) /\ Reached(request[t], l) # plan[t].before[l]

\* _lock_listings: an id that found no row is refused.
Unknown(t) == ~(plan[t].named \subseteq held[t])

\* LockSetChanged, which no router answers: the request fails.
Fail(t) ==
    /\ Through(t, "listings")
    /\ SetChanged(t) \/ LotUnheld(t)
    /\ Leave(t, "failed")
    /\ UNCHANGED <<vars, request, past, plan, moved>>

LockAgain(t) ==
    /\ Through(t, "listings")
    /\ ~SetChanged(t) /\ ~LotUnheld(t) /\ ~Unknown(t)
    /\ GoTo(t, "late", LaterRows(t))
    /\ UNCHANGED <<vars, request, past, held, plan, moved>>

\* The row has a newer version: StaleDataError, or _recheck_under_the_lock.
Stale(t) == Optimistic(t) /\ moved[t]

Locked(t) == Through(t, "late") \/ Through(t, "update")

\* Under its locks the request reads what decides it.
Decide(t) ==
    /\ Locked(t)
    /\ ENABLED Effect(t)
    /\ GoTo(t, "decided", {})
    /\ UNCHANGED <<vars, request, past, held, plan, moved>>

NewVersion(i) ==
    itemStatus'[i] # itemStatus[i] \/ gone'[i] # gone[i] \/ disposition'[i] # disposition[i]

\* It writes and commits.  An item row written is a new version of it, unless
\* no column changed.
Commit(t) ==
    /\ stage[t] = "decided"
    /\ ~Stale(t)
    /\ Effect(t)
    /\ Leave(t, "committed")
    /\ moved' = [u \in Txn |->
          moved[u] \/ (request[u].kind \in {"receive", "edit", "bulk"} /\ NewVersion(request[u].item))]
    /\ UNCHANGED <<request, past, plan>>

\* A refusal before the pass, under the locks or of a stale version: a 4xx,
\* nothing written.
Refuse(t) ==
    /\ \/ Through(t, "first") /\ ~AllowedAtFirst(request[t])
       \/ Through(t, "listings") /\ Unknown(t) /\ ~SetChanged(t)
       \/ Locked(t) /\ ~ENABLED Effect(t)
       \/ stage[t] = "decided" /\ Stale(t)
    /\ Leave(t, "refused")
    /\ UNCHANGED <<vars, request, past, plan, moved>>

\* The connection is lost, or the process ends: PostgreSQL rolls back.
Lose(t) ==
    /\ stage[t] \notin Ended \cup {"new"}
    /\ Leave(t, "lost")
    /\ UNCHANGED <<vars, request, past, plan, moved>>

GoOn(t) ==
    \/ Start(t) \/ Choose(t) \/ ReadItems(t)
    \/ LockRow(t) \/ LockLots(t) \/ LockItems(t) \/ LockListings(t) \/ LockAgain(t)
    \/ Fail(t) \/ Decide(t) \/ Commit(t) \/ Refuse(t)

AllOver == (\A t \in Txn : stage[t] \in Ended) /\ UNCHANGED allVars

LockNext ==
    \/ MakeHistory
    \/ \E t \in Txn : GoOn(t) \/ Lose(t)
    \/ AllOver

LockSpec == LockInit /\ [][LockNext]_allVars

\* A server runs the request it has accepted, and PostgreSQL hands a released
\* row to a transaction that waits for it.
FairLockSpec == LockSpec /\ WF_allVars(MakeHistory) /\ \A t \in Txn : WF_allVars(GoOn(t))

-----------------------------------------------------------------------------
LockTypeOK ==
    /\ TypeOK
    /\ stage \in [Txn -> Stage]
    /\ todo \in [Txn -> SUBSET Row]
    /\ held \in [Txn -> SUBSET Row]
    /\ moved \in [Txn -> BOOLEAN]

\* Every row a transaction still waits for comes after every row it holds, in
\* its first pass and in the passes its endings take.
LocksInOrder ==
    \A t \in Txn, r \in Row, s \in Row : r \in held[t] /\ s \in todo[t] => Precedes(r, s)

Waiting(t) == todo[t] # {} /\ ~Free(NextRow(t), t)

\* Not everyone who waits, waits for someone who waits: there is no deadlock
\* for PostgreSQL to find.
NoDeadlock ==
    \A W \in SUBSET Txn : W # {} =>
        \E t \in W : ~Waiting(t) \/ \A u \in W : u # t => NextRow(t) \notin held[u]

RowOf(r) ==
    CASE r \in Item -> <<itemStatus[r], gone[r], disposition[r]>>
      [] r \in Lot -> <<lotStatus[r], members[r]>>
      [] r \in Listing -> <<listingStatus[r], pausedBy[r], quantity[r], claim[r]>>
      [] OTHER -> <<orderStatus[r], share[r], everShipped[r], refund[r]>>

Exists(r) ==
    CASE r \in Item -> TRUE
      [] r \in Lot -> lotStatus[r] # "absent"
      [] r \in Listing -> listingStatus[r] # "unused"
      [] OTHER -> orderStatus[r] # "none"

\* A row is written only by a transaction that locked it first, however the
\* row came into what the request touches: a member's paused listing, a lot
\* sold out, an item that comes home.
LockedBeforeWritten ==
    [][past = <<>> => \A r \in Row :
           Exists(r) /\ RowOf(r)' # RowOf(r) => \E t \in Txn : r \in held[t] \ held'[t]]_allVars

\* What a request decided under its locks still holds when it writes: every row
\* its refusals read is held, or is fixed by the rows that are.
DecisionsStand ==
    \A t \in Txn : stage[t] = "decided" /\ ~Stale(t) => ENABLED Effect(t)

\* Each commit is a request of the shop made alone, so that what Shop promises
\* about requests in turn holds of requests at the same time.
AsIfAlone == [][Next]_vars

\* Every request is answered.
EveryRequestEnds == \A t \in Txn : <>(stage[t] \in Ended)

\* Stock never goes back to a listing that has ended: "the transition is
\* refused rather than half-performed" (routers/orders.py, _no_stock_to_return).
NoPhantomStock ==
    [][\A l \in Listing : listingStatus[l] = "ended" => quantity'[l] <= quantity[l]]_allVars
=============================================================================
