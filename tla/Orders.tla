-------------------------------- MODULE Orders --------------------------------
(***************************************************************************)
(* Sales orders: checkout, a sale recorded from another platform, the      *)
(* revision of an order and its walk through the statuses                  *)
(* (backend/app/order_writes.py, sales_writes.py, routers/orders.py).      *)
(*                                                                         *)
(* An offer is one unit (routers/offers.py refuses any other quantity), so *)
(* an order's line is one unit of its listing.                             *)
(***************************************************************************)
EXTENDS Offering

Editable == {"pending", "paid"}

\* The status a recorded sale starts at, by the kind of its platform.
FirstStatus(v) ==
    CASE v = "store" -> "pending"
      [] v = "market" -> "paid"
      [] v = "house" -> "delivered"

\* Mutant: a listing with nothing left passes.
NoShortfall(L) == \A l \in L : quantity[l] >= 0

InStock(L) == \A l \in L : quantity[l] >= 1

SoldOutBy(L) == {l \in L : quantity[l] = 1}

BackOnSale(L) == {l \in L : quantity[l] = 0 /\ listingStatus[l] = "active"}

ItemsOf(L) == UNION {OfferedItems(l) : l \in L}

\* What the stock changes of a transaction file its items as.
Filed(taken, given) ==
    [i \in Item |-> IF i \in ItemsOf(SoldOutBy(taken)) THEN "sold"
                    ELSE IF i \in ItemsOf(BackOnSale(given)) THEN "listed"
                    ELSE disposition[i]]

Restock(taken, given) ==
    quantity' = [l \in Listing |-> IF l \in taken THEN quantity[l] - 1
                                   ELSE IF l \in given THEN quantity[l] + 1
                                   ELSE quantity[l]]

LotsSoldOut(L) == {l \in SoldOutBy(L) : subject[l] \in Lot}

\* A new line covers what its listing offers that moment; a line that is kept
\* covers what it did when it was written.
SharesAfter(o, taken, given) ==
    [l \in Listing |-> IF l \in taken THEN OfferedItems(l)
                       ELSE IF l \in given THEN {}
                       ELSE share[o][l]]

\* Order o takes a unit of each listing of `taken`, gives one back to each of
\* `given`, and ends the listings E as sold.
MoveLines(o, taken, given, E) ==
    /\ share' = [share EXCEPT ![o] = SharesAfter(o, taken, given)]
    /\ Restock(taken, given)
    /\ EndOffers(E, TRUE, Filed(taken, given))
    /\ UNCHANGED <<itemStatus, gone, subject, venue>>

OnSaleInShop(L) == \A l \in L : SellableInShop(l)

\* A new order for one unit of each listing of L, ending the listings E sold.
NewOrder(o, L, v, E) ==
    /\ orderStatus[o] = "none"
    /\ L # {}
    /\ InStock(L)
    /\ orderStatus' = [orderStatus EXCEPT ![o] = FirstStatus(v)]
    /\ orderVenue' = [orderVenue EXCEPT ![o] = v]
    /\ MoveLines(o, L, {}, E)
    /\ UNCHANGED <<everShipped, refund, stockBack>>

\* POST /orders.  A lot bought in the shop is sold as one group: its listing
\* ends with the sale, where an item's stays up to take returned stock.
PlaceOrder(o, L) ==
    /\ OnSaleInShop(L)
    /\ NewOrder(o, L, "store", LotsSoldOut(L))

\* POST /listings/{id}/sale.
RecordSale(o, l) ==
    /\ venue[l] \in Outside
    /\ listingStatus[l] = "active"
    /\ OfferedItems(l) # {}
    /\ NewOrder(o, {l}, venue[l], {l})

-----------------------------------------------------------------------------
(* PATCH /orders/{id}: any status to any other, but for the refusals.      *)

ReturnsStock(o, to) ==
    /\ to \in StockReturning
    /\ orderStatus[o] \notin NoStockReturn
    /\ ~everShipped[o]

NoStockToReturn(o) ==
    \/ orderVenue[o] # "store"
    \/ \E l \in Lines(o) : listingStatus[l] = "ended"

\* Mutant: a refund's row is read without asking whether the order had shipped.
WriteStatusForgettingShipment(o, to) ==
    /\ orderStatus' = [orderStatus EXCEPT ![o] = to]
    /\ everShipped' = [everShipped EXCEPT ![o] = @ \/ to \in Shipped]
    /\ refund' = [refund EXCEPT ![o] =
          IF to # "refunded" THEN @
          ELSE IF orderStatus[o] \notin NoStockReturn THEN "returned"
          ELSE "kept"]

WriteStatus(o, to) ==
    /\ orderStatus' = [orderStatus EXCEPT ![o] = to]
    /\ everShipped' = [everShipped EXCEPT ![o] = @ \/ to \in Shipped]
    /\ refund' = [refund EXCEPT ![o] =
          IF to # "refunded" THEN @
          ELSE IF orderStatus[o] \notin NoStockReturn /\ ~everShipped[o] THEN "returned"
          ELSE "kept"]

\* Mutants: a refunded order is revived; a cancelled order is revived.
MayReviveRefunded(o, to) ==
    /\ orderStatus[o] \notin {"none", "cancelled", to}
    /\ ReturnsStock(o, to) => ~NoStockToReturn(o)
MayReviveCancelled(o, to) ==
    /\ orderStatus[o] \notin {"none", to}
    /\ ReturnsStock(o, to) => ~NoStockToReturn(o)
    /\ ~(orderStatus[o] = "refunded" /\ to \notin StockReturning /\ refund[o] = "returned")

MaySetStatus(o, to) ==
    /\ orderStatus[o] \notin {"none", "cancelled", to}
    /\ ReturnsStock(o, to) => ~NoStockToReturn(o)
    /\ ~(orderStatus[o] = "refunded" /\ to \notin StockReturning /\ refund[o] = "returned")

\* The write itself.  The refusals above are decided before return_stock takes
\* its locks, so the two halves are apart for SaleLocks to interleave.
ApplyStatus(o, to) ==
    /\ WriteStatus(o, to)
    /\ LET given == IF ReturnsStock(o, to) THEN Lines(o) ELSE {}
       IN  /\ stockBack' = [stockBack EXCEPT ![o] = @ \/ given # {}]
           /\ Restock({}, given)
           /\ disposition' = Filed({}, given)
    /\ UNCHANGED <<orderVenue, share, itemStatus, gone, lotVars,
                   listingStatus, subject, venue, pausedBy, claim>>

SetOrderStatus(o, to) == MaySetStatus(o, to) /\ ApplyStatus(o, to)

-----------------------------------------------------------------------------
(* PUT /orders/{id}: the order's complete desired contents.                *)

MayRevise(o) == orderStatus[o] \in Editable /\ ~everShipped[o]

\* An order of another platform's takes no stock here.
MayTake(o, taken) == taken # {} => orderVenue[o] = "store"

\* What is taken is on sale and in stock; what is given back has a listing to
\* go back to.
MayMove(taken, given) ==
    /\ OnSaleInShop(taken)
    /\ InStock(taken)
    /\ \A l \in given : listingStatus[l] # "ended"

ReviseOrder(o, L) ==
    LET taken == L \ Lines(o)
        given == Lines(o) \ L
    IN  /\ MayRevise(o)
        /\ L # {}
        /\ taken \cup given # {}
        /\ MayTake(o, taken)
        /\ MayMove(taken, given)
        /\ MoveLines(o, taken, given, LotsSoldOut(taken))
        /\ UNCHANGED <<orderStatus, orderVenue, everShipped, refund, stockBack>>
=============================================================================
