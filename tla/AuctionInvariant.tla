--------------------------- MODULE AuctionInvariant ---------------------------
(***************************************************************************)
(* The inductive invariant of the auctions.  It stands on those of the     *)
(* shop, which every transition of an auction keeps.                       *)
(***************************************************************************)
EXTENDS Auctions

\* A listing is a lot of one auction at most.
LotsApart ==
    \A a, b \in Auction : a # b => auctionLots[a] \cap auctionLots[b] = {}

LotsAreFinite == \A a \in Auction : IsFiniteSet(auctionLots[a])

\* Until its auction is settled a lot is up, and from then on it has ended.
LotsFollowAuction ==
    \A a \in Auction, l \in Listing : l \in auctionLots[a] =>
        IF auctionStatus[a] = "settled" THEN listingStatus[l] = "ended"
        ELSE /\ listingStatus[l] = "active"
             /\ venue[l] = auctionVenue[a]
             /\ subject[l] \in Lot

NoLotsOutside ==
    \A a \in Auction : auctionStatus[a] \in {"absent", "cancelled"} => auctionLots[a] = {}

\* Custody begins with the consignment and is over with the auction.
CustodyIsBetween ==
    \A a \in Auction : consignedOn[a] => auctionStatus[a] \in {"consigned", "closed"}

ResultsAreOfEnded == \A l \in Listing : result[l] # "none" => listingStatus[l] = "ended"

\* A settlement gave every lot its result, and one order a line of each lot sold.
SettledHasOrders ==
    \A a \in Auction, l \in Listing :
        auctionStatus[a] = "settled" /\ l \in auctionLots[a] =>
            /\ result[l] # "none"
            /\ result[l] = "sold" =>
                  \E o \in Order : /\ share[o][l] # {}
                                   /\ \A p \in Order : share[p][l] # {} => p = o
            /\ result[l] # "sold" => \A o \in Order : share[o][l] = {}

\* What may be said of the auctions between any two requests, in the form every
\* request keeps, given OfferInv and OrderInv.
AuctionInv ==
    /\ LotsApart
    /\ LotsAreFinite
    /\ LotsFollowAuction
    /\ NoLotsOutside
    /\ CustodyIsBetween
    /\ ResultsAreOfEnded
    /\ SettledHasOrders
    /\ NoCoinStranded
=============================================================================
