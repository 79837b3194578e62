------------------------------ MODULE SaleState ------------------------------
(***************************************************************************)
(* The rows of the database that decide whether a coin may be sold, and    *)
(* the questions every writer asks of them: what an item's disposition is, *)
(* which listings hold it, which lot it is a member of, which orders hold  *)
(* it.  backend/app/models/sales.py declares the rows; offering_writes,    *)
(* lot_writes, order_writes and sale_state ask the questions.              *)
(*                                                                         *)
(* An action of the modules that extend this one is one request: the code  *)
(* runs a request in one transaction that locks every row it is about to   *)
(* decide on before it reads it for the decision.                          *)
(***************************************************************************)
EXTENDS Integers, FiniteSets

CONSTANTS
    Item,        \* inventory items: one record, one coin or one set of coins
    Listing,     \* ids of the rows of `listing`
    Lot,         \* ids of the rows of `sales_lot`
    Order,       \* ids of the rows of `sales_order`
    NoOne,       \* the NULL of a foreign key
    OldListing   \* [Listing -> Item \cup {NoOne}]: the listings made before
                 \* claims existed, and the item each of them offers

ASSUME SubjectsApart ==
    /\ Item \cap Lot = {}
    /\ NoOne \notin Item \cup Lot \cup Listing

\* A claimless listing was made by a shop that offered a coin only once.
ASSUME OldListingsApart ==
    /\ OldListing \in [Listing -> Item \cup {NoOne}]
    /\ \A l, m \in Listing :
          OldListing[l] = OldListing[m] => l = m \/ OldListing[l] = NoOne

Venue == {"store", "market", "house"}
Outside == Venue \ {"store"}

ListingStatus == {"unused", "active", "paused", "ended"}
OnOffer == {"active", "paused"}

ClaimState == {"none", "active", "paused", "released"}
HeldBy == {"active", "paused"}

LotStatus == {"absent", "assembling", "offered", "sold", "dissolved"}

Disposition ==
    {"held", "listed", "sold", "shipped", "delivered", "returned_by_buyer"}
SoldAway == {"sold", "shipped", "delivered"}

OrderStatus ==
    {"pending", "paid", "packed", "shipped", "delivered", "cancelled", "refunded"}
Open == {"pending", "paid", "packed"}
Shipped == {"packed", "shipped", "delivered"}
StockReturning == {"cancelled", "refunded"}
NoStockReturn == Shipped \cup StockReturning

VARIABLES
    itemStatus,    \* item_status: "received", or "away" for every other code
    gone,          \* whether split_at or deleted_at is set
    disposition,
    listingStatus, subject, venue, quantity, pausedBy,   \* rows of listing
    claim,         \* the state of the offer_claim row of a listing and an item
    lotStatus,
    members,       \* sales_lot_item rows whose released_at is NULL
    orderStatus, orderVenue,
    share,         \* the sales_order_item_share rows of an order's line, {} for no line
    everShipped,   \* what ever_shipped reads in sales_order_change
    refund,        \* what _refund_returned_stock reads there
    stockBack      \* history variable: return_stock ran for this order

itemVars == <<itemStatus, gone, disposition>>
listingVars == <<listingStatus, subject, venue, quantity, pausedBy, claim>>
lotVars == <<lotStatus, members>>
orderVars == <<orderStatus, orderVenue, share, everShipped, refund, stockBack>>
vars == <<itemVars, listingVars, lotVars, orderVars>>

TypeOK ==
    /\ itemStatus \in [Item -> {"received", "away"}]
    /\ gone \in [Item -> {"no", "split", "deleted"}]
    /\ disposition \in [Item -> Disposition]
    /\ listingStatus \in [Listing -> ListingStatus]
    /\ subject \in [Listing -> Item \cup Lot \cup {NoOne}]
    /\ venue \in [Listing -> Venue]
    /\ quantity \in [Listing -> Nat]
    /\ pausedBy \in [Listing -> Listing \cup {NoOne}]
    /\ claim \in [Listing -> [Item -> ClaimState]]
    /\ lotStatus \in [Lot -> LotStatus]
    /\ members \in [Lot -> SUBSET Item]
    /\ orderStatus \in [Order -> OrderStatus \cup {"none"}]
    /\ orderVenue \in [Order -> Venue]
    /\ share \in [Order -> [Listing -> SUBSET Item]]
    /\ everShipped \in [Order -> BOOLEAN]
    /\ refund \in [Order -> {"none", "returned", "kept"}]
    /\ stockBack \in [Order -> BOOLEAN]

IsOld(l) == OldListing[l] # NoOne

(***************************************************************************)
(* A database with items received or still under way, none of them sold,   *)
(* and the claimless shop listings an earlier release left on sale.        *)
(***************************************************************************)
Init ==
    /\ itemStatus \in [Item -> {"received", "away"}]
    /\ \A l \in Listing : IsOld(l) => itemStatus[OldListing[l]] = "received"
    /\ gone = [i \in Item |-> "no"]
    /\ disposition = [i \in Item |->
          IF \E l \in Listing : OldListing[l] = i THEN "listed" ELSE "held"]
    /\ listingStatus = [l \in Listing |-> IF IsOld(l) THEN "active" ELSE "unused"]
    /\ subject = OldListing
    /\ venue = [l \in Listing |-> "store"]
    /\ quantity = [l \in Listing |-> IF IsOld(l) THEN 1 ELSE 0]
    /\ pausedBy = [l \in Listing |-> NoOne]
    /\ claim = [l \in Listing |-> [i \in Item |-> "none"]]
    /\ lotStatus = [k \in Lot |-> "absent"]
    /\ members = [k \in Lot |-> {}]
    /\ orderStatus = [o \in Order |-> "none"]
    /\ orderVenue = [o \in Order |-> "store"]
    /\ share = [o \in Order |-> [l \in Listing |-> {}]]
    /\ everShipped = [o \in Order |-> FALSE]
    /\ refund = [o \in Order |-> "none"]
    /\ stockBack = [o \in Order |-> FALSE]

-----------------------------------------------------------------------------
(* Listings and claims.                                                    *)

Live(l) == listingStatus[l] \in OnOffer

\* A listing names an item as its own subject or through a held claim.
Names(l, i) == subject[l] = i \/ claim[l][i] \in HeldBy

\* Mutants: a lot's members overlooked; old listings overlooked; ended offers
\* taken for live ones.
OffersOfItemOnly(S) == {l \in Listing : Live(l) /\ subject[l] \in S}
OffersByClaimOnly(S) ==
    {l \in Listing : Live(l) /\ \E i \in S : claim[l][i] \in HeldBy}
OffersEverHolding(S) ==
    {l \in Listing : listingStatus[l] # "unused" /\ \E i \in S : Names(l, i)}

OffersHolding(S) == {l \in Listing : Live(l) /\ \E i \in S : Names(l, i)}

\* What a listing sells: its item, or the open members of its lot.
OfferedItems(l) ==
    CASE subject[l] \in Item -> {subject[l]}
      [] subject[l] \in Lot -> members[subject[l]]
      [] OTHER -> {}

EverOffered(i) == \E l \in Listing : subject[l] = i \/ claim[l][i] # "none"

SellableInShop(l) == venue[l] = "store" /\ listingStatus[l] = "active"

(* Items and lots.                                                         *)

NotOurs(i) == gone[i] # "no" \/ itemStatus[i] # "received"

InOpenLot(i) == \E k \in Lot : i \in members[k]

InOfferedLot(i) == \E k \in Lot : i \in members[k] /\ lotStatus[k] = "offered"

(* Orders.                                                                 *)

Lines(o) == {l \in Listing : share[o][l] # {}}

OrderItems(o) == UNION {share[o][l] : l \in Listing}

OrdersHolding(i) == {o \in Order : orderStatus[o] \in Open /\ i \in OrderItems(o)}

HoldsStock(o) ==
    /\ orderStatus[o] \notin NoStockReturn \cup {"none"}
    /\ ~everShipped[o]

OrdersHoldingStock(l) == {o \in Order : HoldsStock(o) /\ l \in Lines(o)}

SoldThisItem(i) ==
    \E o \in Order, l \in Listing :
        share[o][l] # {} /\ (subject[l] = i \/ i \in share[o][l])
=============================================================================
