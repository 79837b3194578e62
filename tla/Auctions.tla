------------------------------- MODULE Auctions -------------------------------
(***************************************************************************)
(* Auctions over the shop (backend/app/auctions.py, routers/auctions.py).  *)
(* A lot of an auction is an auction-format listing of a sales lot, and an *)
(* auction alone ends or sells it: the requests of Shop that would are     *)
(* refused (auction_holding.auction_ids_by_listing).                       *)
(***************************************************************************)
EXTENDS ShopInvariant, SettlementGrid, SequencesExt

CONSTANTS
    Auction,       \* ids of the rows of `auction`
    Hosts,         \* the platforms an auction may run on
    Bidders        \* the buyers' names a settlement may give

ASSUME AuctionsOutside == Hosts \subseteq Outside
ASSUME BiddersAreNames == Bidders \subseteq Name

AuctionStatus ==
    {"absent", "draft", "scheduled", "consigned", "closed", "settled", "cancelled"}
Over == {"settled", "cancelled"}

VARIABLES
    auctionStatus,
    auctionVenue,    \* its platform, set when it is created
    consignedOn,     \* whether auction.consigned_on is set
    auctionLots,     \* the listings of the auction_lot rows
    result,          \* auction_lot.result, kept by a settlement
    atHouse          \* items whose storage location is the house's

auctionVars == <<auctionStatus, auctionVenue, consignedOn, auctionLots, result, atHouse>>
auctionShopVars == <<vars, auctionVars>>

AuctionTypeOK ==
    /\ TypeOK
    /\ auctionStatus \in [Auction -> AuctionStatus]
    /\ auctionVenue \in [Auction -> Outside]
    /\ consignedOn \in [Auction -> BOOLEAN]
    /\ auctionLots \in [Auction -> SUBSET Listing]
    /\ result \in [Listing -> Result \cup {"none"}]
    /\ atHouse \subseteq Item

AuctionInit ==
    /\ Init
    /\ auctionStatus = [a \in Auction |-> "absent"]
    /\ auctionVenue = [a \in Auction |-> "house"]
    /\ consignedOn = [a \in Auction |-> FALSE]
    /\ auctionLots = [a \in Auction |-> {}]
    /\ result = [l \in Listing |-> "none"]
    /\ atHouse = {}

InAuction(l) == \E a \in Auction : l \in auctionLots[a]

-----------------------------------------------------------------------------
(* The life of an auction.                                                 *)

\* Never on the own store, which sells through checkout.
CreateAuction(a, v) ==
    /\ auctionStatus[a] = "absent"
    /\ auctionVenue' = [auctionVenue EXCEPT ![a] = v]
    /\ auctionStatus' = [auctionStatus EXCEPT ![a] = "draft"]
    /\ UNCHANGED <<vars, consignedOn, auctionLots, result, atHouse>>

\* A sales lot is put on offer and given a number in the auction.
AddLot(a, l, k) ==
    /\ auctionStatus[a] \in {"draft", "scheduled"}
    /\ OfferLot(l, k, auctionVenue[a])
    /\ auctionLots' = [auctionLots EXCEPT ![a] = @ \cup {l}]
    /\ UNCHANGED <<auctionStatus, auctionVenue, consignedOn, result, atHouse>>

\* A single coin is first made the only member of a sales lot of its own.
AddCoin(a, l, k, i) ==
    /\ auctionStatus[a] \in {"draft", "scheduled"}
    /\ lotStatus[k] = "absent"
    /\ ~InOpenLot(i)
    /\ ~Partial(i)
    /\ OfferRows(l, k, {i}, auctionVenue[a])
    /\ lotStatus' = [lotStatus EXCEPT ![k] = "offered"]
    /\ members' = [members EXCEPT ![k] = {i}]
    /\ auctionLots' = [auctionLots EXCEPT ![a] = @ \cup {l}]
    /\ UNCHANGED <<auctionStatus, auctionVenue, consignedOn, result, atHouse>>

\* Mutant: a lot may be taken out of an auction that is over.
RemovableUntilCancelled(a) == auctionStatus[a] \notin {"absent", "cancelled"}

Removable(a) == auctionStatus[a] \in {"draft", "scheduled", "consigned"}

\* The request says where consigned coins are brought back to.  The row is
\* deleted, its number free again, its offer ended.
RemoveLot(a, l, backTo) ==
    /\ Removable(a)
    /\ l \in auctionLots[a]
    /\ consignedOn[a] => backTo
    /\ atHouse' = IF consignedOn[a] THEN atHouse \ OfferedItems(l) ELSE atHouse
    /\ EndOffers({l}, FALSE, disposition)
    /\ auctionLots' = [auctionLots EXCEPT ![a] = @ \ {l}]
    /\ UNCHANGED <<auctionStatus, auctionVenue, consignedOn, result>>
    /\ UNCHANGED <<itemStatus, gone, subject, venue, quantity, orderVars>>

Schedule(a) ==
    /\ auctionStatus[a] = "draft"
    /\ auctionStatus' = [auctionStatus EXCEPT ![a] = "scheduled"]
    /\ UNCHANGED <<vars, auctionVenue, consignedOn, auctionLots, result, atHouse>>

\* Only a house takes custody: every coin of every lot goes to its location.
Consign(a) ==
    /\ auctionVenue[a] = "house"
    /\ auctionStatus[a] = "scheduled"
    /\ auctionStatus' = [auctionStatus EXCEPT ![a] = "consigned"]
    /\ consignedOn' = [consignedOn EXCEPT ![a] = TRUE]
    /\ atHouse' = atHouse \cup ItemsOf(auctionLots[a])
    /\ UNCHANGED <<vars, auctionVenue, auctionLots, result>>

\* The house keeps the coins: the status moves, the custody does not.
Close(a) ==
    /\ auctionStatus[a] \in {"scheduled", "consigned"}
    /\ auctionStatus' = [auctionStatus EXCEPT ![a] = "closed"]
    /\ UNCHANGED <<vars, auctionVenue, consignedOn, auctionLots, result, atHouse>>

\* Mutant: custody is read off the status, which closing has moved on.
CancelByStatus(a, backTo) ==
    /\ auctionStatus[a] \notin Over \cup {"absent"}
    /\ auctionStatus[a] = "consigned" => backTo
    /\ atHouse' = IF auctionStatus[a] = "consigned"
                  THEN atHouse \ ItemsOf(auctionLots[a]) ELSE atHouse
    /\ EndOffers(auctionLots[a], FALSE, disposition)
    /\ auctionLots' = [auctionLots EXCEPT ![a] = {}]
    /\ consignedOn' = [consignedOn EXCEPT ![a] = FALSE]
    /\ auctionStatus' = [auctionStatus EXCEPT ![a] = "cancelled"]
    /\ UNCHANGED <<auctionVenue, result>>
    /\ UNCHANGED <<itemStatus, gone, subject, venue, quantity, orderVars>>

\* Every lot is removed as RemoveLot removes one, from any status but the last
\* two.
Cancel(a, backTo) ==
    /\ auctionStatus[a] \notin Over \cup {"absent"}
    /\ consignedOn[a] => backTo
    /\ atHouse' = IF consignedOn[a] THEN atHouse \ ItemsOf(auctionLots[a]) ELSE atHouse
    /\ EndOffers(auctionLots[a], FALSE, disposition)
    /\ auctionLots' = [auctionLots EXCEPT ![a] = {}]
    /\ consignedOn' = [consignedOn EXCEPT ![a] = FALSE]
    /\ auctionStatus' = [auctionStatus EXCEPT ![a] = "cancelled"]
    /\ UNCHANGED <<auctionVenue, result>>
    /\ UNCHANGED <<itemStatus, gone, subject, venue, quantity, orderVars>>

-----------------------------------------------------------------------------
(* Settlement.                                                             *)

\* The listings S sell and U come back, in one transaction: what S had paused
\* ends with it, what U had paused comes back.
SettledStatus(S, U) ==
    [l \in Listing |-> IF l \in S \cup U \cup PausedBy(S) THEN "ended"
                       ELSE IF l \in PausedBy(U) THEN "active"
                       ELSE listingStatus[l]]

SettledClaim(S, U) ==
    [l \in Listing |-> [i \in Item |->
        IF l \in S \cup U \cup PausedBy(S) THEN Moved(l, i, "released")
        ELSE IF l \in PausedBy(U) THEN Moved(l, i, "active")
        ELSE claim[l][i]]]

\* Mutant: the sale of one lot is taken for a sale of the auction.
NobodyHome(S, U) ==
    IF S # {} THEN {}
    ELSE {i \in AffectedItems(U) : disposition[i] = "listed"
            /\ ~StillOffered(i, SettledStatus(S, U), SettledClaim(S, U))}

HomeUnsold(S, U) ==
    {i \in AffectedItems(U) :
        /\ disposition[i] = "listed" /\ i \notin ItemsOf(S)
        /\ ~StillOffered(i, SettledStatus(S, U), SettledClaim(S, U))}

SettleListings(S, U) ==
    LET lots(L) == {k \in Lot : \E l \in L : subject[l] = k}
    IN  /\ listingStatus' = SettledStatus(S, U)
        /\ claim' = SettledClaim(S, U)
        /\ pausedBy' = [l \in Listing |->
              IF l \in S \cup U \cup PausedBy(S \cup U) THEN NoOne ELSE pausedBy[l]]
        /\ Restock(S, {})
        /\ disposition' = [i \in Item |-> IF i \in ItemsOf(S) THEN "sold"
                              ELSE IF i \in HomeUnsold(S, U) THEN "held"
                              ELSE disposition[i]]
        /\ lotStatus' = [k \in Lot |-> IF k \in lots(S) THEN "sold"
                             ELSE IF k \in lots(U) THEN "dissolved" ELSE lotStatus[k]]
        /\ members' = [k \in Lot |-> IF k \in lots(S \cup U) THEN {} ELSE members[k]]

\* Mutant: every order of the settlement is given every lot sold.
BoughtByAnyone(o, orderOf, groups) == UNION groups

BoughtOn(o, orderOf, groups) == UNION {g \in groups : orderOf[g] = o}

\* An order for each group of lots one buyer bought.
SettleOrders(a, orderOf, groups) ==
    LET new == {orderOf[g] : g \in groups}
    IN  /\ \A o \in new : orderStatus[o] = "none"
        /\ orderStatus' = [o \in Order |->
              IF o \in new THEN FirstStatus(auctionVenue[a]) ELSE orderStatus[o]]
        /\ orderVenue' = [o \in Order |->
              IF o \in new THEN auctionVenue[a] ELSE orderVenue[o]]
        /\ share' = [o \in Order |-> IF o \in new
              THEN [l \in Listing |-> IF l \in BoughtOn(o, orderOf, groups) THEN OfferedItems(l) ELSE {}]
              ELSE share[o]]
        /\ UNCHANGED <<everShipped, refund, stockBack>>

\* A grid with one line a lot; the grids refused are checked on their own.
GridFor(a, results, buyers) ==
    LET rows == SetToSeq(auctionLots[a])
    IN  [n \in DOMAIN rows |->
            [lot |-> rows[n], result |-> results[rows[n]], buyer |-> buyers[rows[n]],
             hammer |-> IF results[rows[n]] = "sold" THEN "money" ELSE "none"]]

Settle(a, results, buyers, orderOf, backTo) ==
    LET lines == GridFor(a, results, buyers)
        lots == auctionLots[a]
        sold == SoldLots(lots, lines)
    IN  /\ auctionStatus[a] = "closed"
        /\ GridProblems(lots, lines, <<>>, auctionVenue[a] # "house",
                        consignedOn[a], backTo) = {}
        /\ \A l \in sold : listingStatus[l] = "active" /\ quantity[l] >= 1
        /\ SettleOrders(a, orderOf, BuyerGroups(lots, lines))
        /\ SettleListings(sold, lots \ sold)
        /\ result' = [l \in Listing |-> IF l \in lots THEN results[l] ELSE result[l]]
        /\ atHouse' = IF consignedOn[a] THEN atHouse \ ItemsOf(lots \ sold) ELSE atHouse
        /\ consignedOn' = [consignedOn EXCEPT ![a] = FALSE]
        /\ auctionStatus' = [auctionStatus EXCEPT ![a] = "settled"]
        /\ UNCHANGED <<auctionVenue, auctionLots, itemStatus, gone, subject, venue>>

SettleRequest(a) ==
    \E results \in [auctionLots[a] -> Result], buyers \in [auctionLots[a] -> Bidders],
       backTo \in BOOLEAN :
        LET lines == GridFor(a, results, buyers)
            groups == BuyerGroups(auctionLots[a], lines)
        IN  /\ auctionStatus[a] = "closed"
            /\ \E orderOf \in [groups -> Order] :
                  /\ \A g, h \in groups : orderOf[g] = orderOf[h] => g = h
                  /\ Settle(a, results, buyers, orderOf, backTo)

AuctionRequest ==
    \E a \in Auction :
        \/ \E v \in Hosts : CreateAuction(a, v)
        \/ Schedule(a) \/ Consign(a) \/ Close(a)
        \/ \E l \in Listing, k \in Lot :
              AddLot(a, l, k) \/ \E i \in Item : AddCoin(a, l, k, i)
        \/ \E backTo \in BOOLEAN :
              Cancel(a, backTo) \/ \E l \in Listing : RemoveLot(a, l, backTo)
        \/ SettleRequest(a)

-----------------------------------------------------------------------------
(* The shop's own requests, which leave an auction's lots to the auction.  *)

\* Mutant: ending an offer asks nothing about auctions.
EndAnyOffer(l) == EndListing(l) \/ EndListingAgain(l)

EndOwnOffer(l) == ~InAuction(l) /\ (EndListing(l) \/ EndListingAgain(l))

SellOwnOffer(o, l) == ~InAuction(l) /\ RecordSale(o, l)

\* Mutant: an ending by receipt or edit asks nothing about auctions.
NothingAsked(i) == TRUE

NotInAuction(i) == \A l \in OffersHolding({i}) : ~InAuction(l)

StandingRequest(i) ==
    \/ ReceiveItem(i)
    \/ NotInAuction(i) /\ RecordLoss(i)
    \/ \E s \in {"received", "away"}, d \in Dispositions :
          NotInAuction(i) /\ EditStanding(i, s, d)
    \/ SplitItem(i)
    \/ DeleteItem(i)

ShopRequest ==
    /\ \/ LotRequest
       \/ \E l \in Listing :
             \/ \E i \in Item, v \in Platforms : OfferItem(l, i, v)
             \/ \E k \in Lot, v \in Platforms : OfferLot(l, k, v)
             \/ EndOwnOffer(l)
             \/ \E o \in Order : SellOwnOffer(o, l)
       \/ \E o \in Order :
             \/ \E L \in SUBSET Listing : PlaceOrder(o, L) \/ ReviseOrder(o, L)
             \/ \E to \in Statuses : SetOrderStatus(o, to)
       \/ \E i \in Item : StandingRequest(i)
    /\ UNCHANGED auctionVars

AuctionNext == AuctionRequest \/ ShopRequest

AuctionSpec == AuctionInit /\ [][AuctionNext]_auctionShopVars

-----------------------------------------------------------------------------
\* No orphaned lot: the rows of an auction that is not over are active offers,
\* on its platform, of sales lots that are offered, so that consigning moves
\* every coin of it and settling can sell every lot.
LotsAreOnOffer ==
    \A a \in Auction, l \in Listing :
        l \in auctionLots[a] /\ auctionStatus[a] # "settled" =>
            /\ listingStatus[l] = "active"
            /\ venue[l] = auctionVenue[a]
            /\ subject[l] \in Lot
            /\ lotStatus[subject[l]] = "offered"
            /\ quantity[l] = 1

\* Custody: a coin at a house is in a lot of an auction whose coins are still
\* out, or was sold by one; and while they are out every coin of every lot is
\* there.  No coin is stranded by a removal, a cancellation or a settlement.
NoCoinStranded ==
    /\ \A i \in atHouse :
          \/ \E a \in Auction : consignedOn[a] /\ i \in ItemsOf(auctionLots[a])
          \/ \E a \in Auction, l \in Listing, o \in Order :
                l \in auctionLots[a] /\ result[l] = "sold" /\ i \in share[o][l]
    /\ \A a \in Auction : consignedOn[a] => ItemsOf(auctionLots[a]) \subseteq atHouse

\* A settled auction is settled whole: every lot has its result, a sold lot is
\* on exactly one order and any other on none, and nothing of it is on offer.
SettledWhole ==
    \A a \in Auction, l \in Listing :
        auctionStatus[a] = "settled" /\ l \in auctionLots[a] =>
            /\ listingStatus[l] = "ended"
            /\ result[l] # "none"
            /\ Cardinality({o \in Order : l \in Lines(o)}) =
                  IF result[l] = "sold" THEN 1 ELSE 0

\* Coins that came back unsold are not left filed as listed, nor a sold lot's as
\* anything but sold, by the settlement that ends their offers.
SettlementFilesItems ==
    [][\A a \in Auction : auctionStatus[a] # "settled" /\ auctionStatus'[a] = "settled" =>
          \A l \in auctionLots[a], i \in Item : i \in OfferedItems(l) =>
              IF result'[l] = "sold" THEN disposition'[i] = "sold"
              ELSE disposition'[i] = "listed" <=> OffersHolding({i})' # {}]_auctionShopVars

\* An auction that is over stays over, keeps its rows and results, and what it
\* sold stays sold: nothing ends, removes or settles it again.
OverIsFinal ==
    [][\A a \in Auction : auctionStatus[a] \in Over =>
          /\ auctionStatus'[a] = auctionStatus[a]
          /\ auctionLots'[a] = auctionLots[a]
          /\ \A l \in auctionLots[a] : result'[l] = result[l]]_auctionShopVars

\* A settlement files every coin by its result, and nothing changes it after.
SettlementIsFinal == SettlementFilesItems /\ OverIsFinal
=============================================================================
