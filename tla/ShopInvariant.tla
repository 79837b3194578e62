----------------------------- MODULE ShopInvariant -----------------------------
(***************************************************************************)
(* The inductive invariants of the shop.  That a coin is on sale in at     *)
(* most one place is not inductive alone: that an ending brings back only  *)
(* one listing of a coin depends on which listings may be set aside, for   *)
(* whom, and on what the claims of a listing may name (OfferInv).  That    *)
(* the unit of a listing is in one place depends on what a line may name,  *)
(* on which orders may still give their lines back, and on the history     *)
(* rows that tell whether they did (OrderInv).                             *)
(***************************************************************************)
EXTENDS Shop

-----------------------------------------------------------------------------
(* Offers and lots.                                                        *)

\* The listing of an item claims that item and no other.
ClaimsOwnItem ==
    \A l \in Listing, i \in Item :
        subject[l] \in Item /\ claim[l][i] \in HeldBy => i = subject[l]

LiveOffersSomething ==
    \A l \in Listing : Live(l) => subject[l] # NoOne

\* A lot is offered once, and an item is listed once in the shop, even when
\* that listing is set aside.
OnePerSubject ==
    \A l, m \in Listing :
        /\ Live(l) /\ Live(m)
        /\ subject[l] = subject[m]
        /\ subject[l] \in Lot \/ (venue[l] = "store" /\ venue[m] = "store")
        => l = m

LotListingHoldsMembers ==
    \A l \in Listing : Live(l) /\ subject[l] \in Lot =>
        /\ lotStatus[subject[l]] = "offered"
        /\ members[subject[l]] = {i \in Item : claim[l][i] \in HeldBy}

OfferedLotIsListed ==
    \A k \in Lot : lotStatus[k] = "offered" =>
        \E l \in Listing : Live(l) /\ subject[l] = k

FinishedLotIsEmpty ==
    \A k \in Lot : lotStatus[k] \in {"absent", "sold", "dissolved"} => members[k] = {}

OneLotPerItem ==
    \A j, k \in Lot : j # k => members[j] \cap members[k] = {}

\* The offers and the lots of the shop agree, in the form every request keeps:
\* what Offering's and LotAssembly's writers may rely on when they start.
OfferInv ==
    /\ ClaimFollowsListing
    /\ PausedIsWaiting
    /\ OneOffer
    /\ ClaimsOwnItem
    /\ LiveOffersSomething
    /\ OnePerSubject
    /\ LotListingHoldsMembers
    /\ OfferedLotIsListed
    /\ FinishedLotIsEmpty
    /\ OneLotPerItem

-----------------------------------------------------------------------------
(* Orders and the stock they hold.                                         *)

\* A line is of a listing that was offered and covers what it sold.  Only an
\* item's listing outlives its sale, and only a sale made in the shop.
LinesAreSold ==
    \A o \in Order, l \in Listing : share[o][l] # {} =>
        /\ listingStatus[l] # "unused"
        /\ subject[l] \in Item => share[o][l] = {subject[l]}
        /\ subject[l] \notin Item \/ orderVenue[o] # "store" => listingStatus[l] = "ended"

\* An order has lines from its first day, and no history before it.
PlacedHasLines ==
    \A o \in Order :
        IF orderStatus[o] = "none"
        THEN /\ \A l \in Listing : share[o][l] = {}
             /\ ~everShipped[o] /\ refund[o] = "none" /\ ~stockBack[o]
        ELSE \E l \in Listing : share[o][l] # {}

\* That an order's coins have left is on record, whatever its status is now;
\* so is a refund, and one that kept the coins is of an order that had left.
LeavingIsKnown ==
    \A o \in Order :
        /\ orderStatus[o] \in Shipped \/ refund[o] = "kept" => HasLeft(o)
        /\ orderStatus[o] = "refunded" => refund[o] # "none"

\* Only an order that never left has given its stock back.
ReturnedNeverLeft == \A o \in Order : stockBack[o] => ~HasLeft(o)

\* The unit of a listing is on its shelf, or one order keeps it.
UnitInOnePlace ==
    \A l \in Listing : listingStatus[l] # "unused" =>
        \/ quantity[l] = 1 /\ \A o \in Order : share[o][l] = {} \/ stockBack[o]
        \/ /\ quantity[l] = 0
           /\ \E o \in Order :
                 /\ share[o][l] # {} /\ ~stockBack[o]
                 /\ \A p \in Order : share[p][l] # {} /\ ~stockBack[p] => p = o

OfferedLotHasMembers == \A k \in Lot : lotStatus[k] = "offered" => members[k] # {}

\* An order that may still give its coins back, so that they are promised to it.
Holds(o) == HoldsStock(o) /\ ~HasLeft(o)

\* No two lines of such an order cover one coin.
LinesApart ==
    \A o \in Order, l, m \in Listing :
        Holds(o) /\ l # m => share[o][l] \cap share[o][m] = {}

\* No coin of such an order is for sale, and no other such order has it.
PromisedIsNotForSale ==
    \A o \in Order, l, m \in Listing :
        Holds(o) /\ Live(m) /\ quantity[m] > 0 => OfferedItems(m) \cap share[o][l] = {}
PromisedOnce ==
    \A o, p \in Order, l, m \in Listing :
        Holds(o) /\ Holds(p) /\ o # p => share[o][l] \cap share[p][m] = {}

\* What may be said of orders between any two requests, in the form every
\* request keeps, given OfferInv.
OrderInv ==
    /\ LinesAreSold
    /\ PlacedHasLines
    /\ LeavingIsKnown
    /\ ReturnedStaysClosed
    /\ ReturnedNeverLeft
    /\ RefundTellsItsStock
    /\ HeldStockIsNotPaused
    /\ UnitInOnePlace
    /\ OfferedLotHasMembers
    /\ LinesApart
    /\ PromisedIsNotForSale
    /\ PromisedOnce
=============================================================================
