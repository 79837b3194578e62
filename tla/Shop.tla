--------------------------------- MODULE Shop ---------------------------------
(***************************************************************************)
(* The whole sales side: every request that writes an offer, a lot, an     *)
(* order or an item's standing, in any order, and what must be true of the *)
(* rows between them.                                                      *)
(***************************************************************************)
EXTENDS LotAssembly, Orders, ItemEdits

CONSTANTS
    Platforms,      \* the venues a request may offer on
    Dispositions,   \* the dispositions a manager may file an item as
    Statuses        \* the statuses an order may be set to

ASSUME RequestsNameRealCodes ==
    /\ Platforms \subseteq Venue
    /\ Dispositions \subseteq Disposition
    /\ Statuses \subseteq OrderStatus

\* The places of CoinPromise are not orders.
ASSUME PlacesApart == {"home", "on sale"} \cap Order = {}

LotRequest ==
    \E k \in Lot :
        \/ CreateLot(k)
        \/ DeleteLot(k)
        \/ \E i \in Item : AddMember(k, i) \/ RemoveMember(k, i)

OfferRequest ==
    \E l \in Listing :
        \/ \E i \in Item, v \in Platforms : OfferItem(l, i, v)
        \/ \E k \in Lot, v \in Platforms : OfferLot(l, k, v)
        \/ EndListing(l) \/ EndListingAgain(l)

OrderRequest ==
    \E o \in Order :
        \/ \E L \in SUBSET Listing : PlaceOrder(o, L)
        \/ \E l \in Listing : RecordSale(o, l)
        \/ \E to \in Statuses : SetOrderStatus(o, to)
        \/ \E L \in SUBSET Listing : ReviseOrder(o, L)

ItemRequest ==
    \E i \in Item :
        \/ ReceiveItem(i)
        \/ RecordLoss(i)
        \/ \E s \in {"received", "away"}, d \in Dispositions : EditStanding(i, s, d)
        \/ SplitItem(i)
        \/ DeleteItem(i)

Next == LotRequest \/ OfferRequest \/ OrderRequest \/ ItemRequest

Spec == Init /\ [][Next]_vars

-----------------------------------------------------------------------------
(* Offers and claims.                                                      *)

\* The claim rows of a listing say what its status says: active while it is
\* up, paused while it is set aside, released once it has ended.  _move_claims
\* writes the one and _set_status the other, over many paths.
ClaimFollowsListing ==
    \A l \in Listing, i \in Item :
        claim[l][i] # "none" =>
            claim[l][i] = CASE listingStatus[l] = "active" -> "active"
                            [] listingStatus[l] = "paused" -> "paused"
                            [] OTHER -> "released"

\* A coin is on sale in at most one place: no two active listings name it,
\* through a claim or directly.  The unique index uq_offer_claim_active sees
\* only the claims; pausing, the lot freeze and the refusals do the rest.
OneOffer ==
    \A l, m \in Listing, i \in Item :
        /\ listingStatus[l] = "active" /\ Names(l, i)
        /\ listingStatus[m] = "active" /\ Names(m, i)
        => l = m

\* Nothing is set aside for ever: a paused listing is the shop's listing of
\* one item, and the listing it is paused for is active and names that item,
\* so that its ending brings the paused one back or ends it.
PausedIsWaiting ==
    \A l \in Listing :
        IF listingStatus[l] = "paused"
        THEN /\ venue[l] = "store"
             /\ subject[l] \in Item
             /\ pausedBy[l] \in Listing
             /\ listingStatus[pausedBy[l]] = "active"
             /\ Names(pausedBy[l], subject[l])
        ELSE pausedBy[l] = NoOne

\* Nothing is on sale that is not in hand: a live listing names only items
\* that are received, whole and not deleted.  A receipt, an edit, a split and
\* a deletion each reach it by a different path.
OfferedIsInHand ==
    \A l \in Listing, i \in Item : Live(l) /\ Names(l, i) => ~NotOurs(i)

\* A live listing with stock sells only items filed as listed, so that a coin
\* a shopper can buy is never filed as held or as sold.
ForSaleIsFiledListed ==
    \A l \in Listing :
        Live(l) /\ quantity[l] > 0 => \A i \in OfferedItems(l) : disposition[i] = "listed"

\* An ended offer is history: it is never revived, and its claims never hold
\* an item again, whatever pauses, resumes or ends around it.
EndedIsFinal ==
    [][\A l \in Listing : listingStatus[l] = "ended" =>
           /\ listingStatus'[l] = "ended"
           /\ claim'[l] = claim[l]]_vars

\* No request leaves an item filed as listed by taking away the last listing
\* that offered it (end_offer's disposition loop, or the sale's own write).
NoOrphanListed ==
    [][\A i \in Item :
           /\ OffersHolding({i}) # {}
           /\ OffersHolding({i})' = {}
           => disposition'[i] # "listed"]_vars

(* Lots.                                                                   *)

\* A lot's status, its memberships and its listing agree: an offered lot has
\* one live listing, whose held claims are its members; any other lot has
\* none; a sold or dissolved lot has let every member go; and no item is in
\* two lots.
LotMatchesOffer ==
    /\ \A k \in Lot :
          LET live == {l \in Listing : Live(l) /\ subject[l] = k}
          IN  /\ lotStatus[k] = "offered" => Cardinality(live) = 1
              /\ lotStatus[k] # "offered" => live = {}
              /\ \A l \in live : members[k] = {i \in Item : claim[l][i] \in HeldBy}
              /\ lotStatus[k] \in {"absent", "sold", "dissolved"} => members[k] = {}
    /\ \A j, k \in Lot : j # k => members[j] \cap members[k] = {}

\* A finished lot keeps the fate it had: one sold in the shop is not rewritten
\* to dissolved by a later ending of its listing or of a member's offers.
LotFateIsFinal ==
    [][\A k \in Lot : lotStatus[k] \in {"sold", "dissolved"} =>
           lotStatus'[k] = lotStatus[k]]_vars

(* Orders.                                                                 *)

HasLeft(o) == everShipped[o] \/ FirstStatus(orderVenue[o]) \in Shipped

\* Orders that took a unit of a listing and never gave it back; one whose coins
\* have left has nothing to give.
Keepers(l) == {o \in Order : l \in Lines(o) /\ (HasLeft(o) \/ ~stockBack[o])}

\* The one unit of a listing is on its shelf or in exactly one order: no unit
\* is sold twice, returned twice or lost, whatever the order's walk through
\* cancellation, refund, shipping and correction.
StockConserved ==
    \A l \in Listing : listingStatus[l] # "unused" =>
        quantity[l] + Cardinality(Keepers(l)) = 1

\* A coin promised to an order that may still give it back is not for sale
\* under any listing, and is in no second such order.
NoDoubleSale ==
    \A o \in Order : HoldsStock(o) /\ ~HasLeft(o) =>
        /\ \A l \in Listing :
              Live(l) /\ quantity[l] > 0 => OfferedItems(l) \cap OrderItems(o) = {}
        /\ \A p \in Order :
              p # o /\ HoldsStock(p) /\ ~HasLeft(p) => OrderItems(p) \cap OrderItems(o) = {}

\* "A listing whose stock an order holds cannot become paused afterwards"
\* (routers/orders.py, _no_stock_to_return), which is why a cancellation asks
\* only whether the listing has ended.
HeldStockIsNotPaused ==
    \A l \in Listing : OrdersHoldingStock(l) # {} => listingStatus[l] # "paused"

\* The history row a refund leaves tells whether its stock went back, so that
\* a refunded order is revived only when it still has its coins.
RefundTellsItsStock ==
    \A o \in Order : orderStatus[o] = "refunded" =>
        (refund[o] = "returned" <=> stockBack[o])

\* An order whose stock went back stays closed: it is never again one that
\* could ship the coins it gave up.
ReturnedStaysClosed ==
    \A o \in Order : stockBack[o] => orderStatus[o] \in StockReturning

\* An order's stock goes back once or never, whatever walk its statuses take:
\* its history tells which, and its listings are fit to take it.
StockGoesBackOnce == RefundTellsItsStock /\ ReturnedStaysClosed /\ HeldStockIsNotPaused

-----------------------------------------------------------------------------
(* What a shopper and a manager may rely on, coin by coin.                 *)

Promised(i, o) == HoldsStock(o) /\ ~HasLeft(o) /\ i \in OrderItems(o)

\* A coin set aside is on sale wherever it is set aside for.
ForSale(i) == \E l \in Listing : Live(l) /\ quantity[l] > 0 /\ i \in OfferedItems(l)

Place ==
    [i \in Item |-> IF \E o \in Order : Promised(i, o)
                    THEN CHOOSE o \in Order : Promised(i, o)
                    ELSE IF ForSale(i) THEN "on sale" ELSE "home"]

Coin == INSTANCE CoinPromise WITH place <- Place

\* Every request of the shop is one step of the promise, or none: checkout,
\* revision, cancellation, edits and lots included.
KeepsPromises == Coin!Spec
=============================================================================
