----------------------------- MODULE OfferProofs -----------------------------
(*****************************************************************************)
(* What holds of the shop's rows, and of offers: every row keeps its type,   *)
(* and a coin is on sale in at most one place, proved for every set of items,*)
(* listings, lots and orders.  OfferInv is shown to be kept by the two       *)
(* writers of listings, an ending and an offer, and then by every request.   *)
(*****************************************************************************)
EXTENDS ShopInvariant, FiniteSetTheorems, TLAPS

-----------------------------------------------------------------------------
(* Types.                                                                  *)

LEMMA MovedType ==
    ASSUME TypeOK, NEW l \in Listing, NEW i \in Item, NEW to \in ClaimState
    PROVE  Moved(l, i, to) \in ClaimState
BY DEF TypeOK, Moved

LEMMA FirstStatusType ==
    ASSUME NEW v \in Venue
    PROVE  FirstStatus(v) \in OrderStatus
BY DEF Venue, FirstStatus, OrderStatus

LEMMA FiledType ==
    ASSUME TypeOK, NEW T, NEW G
    PROVE  Filed(T, G) \in [Item -> Disposition]
BY DEF TypeOK, Filed, Disposition

LEMMA OfferedItemsType ==
    ASSUME TypeOK, NEW l \in Listing
    PROVE  OfferedItems(l) \in SUBSET Item
<1>1. CASE subject[l] \in Item
  BY <1>1, SubjectsApart DEF OfferedItems
<1>2. CASE subject[l] \in Lot
  BY <1>2, SubjectsApart DEF OfferedItems, TypeOK
<1>3. CASE subject[l] \notin Item \cup Lot
  BY <1>3 DEF OfferedItems
<1> QED BY <1>1, <1>2, <1>3

LEMMA RestockType ==
    ASSUME TypeOK, NEW T \in SUBSET Listing, NEW G \in SUBSET Listing,
           InStock(T), Restock(T, G)
    PROVE  quantity' \in [Listing -> Nat]
<1>1. \A l \in Listing : quantity[l] \in Nat
  BY DEF TypeOK
<1>2. \A l \in T : quantity[l] - 1 \in Nat
  BY <1>1 DEF InStock
<1>3. \A l \in G : quantity[l] + 1 \in Nat
  BY <1>1
<1> QED BY <1>1, <1>2, <1>3 DEF Restock

\* What an ending writes is well typed.
LEMMA EndOffersType ==
    ASSUME TypeOK, NEW E \in SUBSET Listing, NEW sold \in BOOLEAN,
           NEW filed \in [Item -> Disposition], EndOffers(E, sold, filed)
    PROVE  /\ listingStatus' \in [Listing -> ListingStatus]
           /\ pausedBy' \in [Listing -> Listing \cup {NoOne}]
           /\ claim' \in [Listing -> [Item -> ClaimState]]
           /\ disposition' \in [Item -> Disposition]
           /\ lotStatus' \in [Lot -> LotStatus]
           /\ members' \in [Lot -> SUBSET Item]
<1> DEFINE home == ComingHome(E, sold, filed)
           ended == ClaimAfter(E, sold)
<1>1. listingStatus' \in [Listing -> ListingStatus]
  BY DEF TypeOK, EndOffers, StatusAfter, ListingStatus
<1>2. pausedBy' \in [Listing -> Listing \cup {NoOne}]
  BY DEF TypeOK, EndOffers
<1>3. ended \in [Listing -> [Item -> ClaimState]]
  <2>1. \A l \in Listing, i \in Item : claim[l][i] \in ClaimState
    BY DEF TypeOK
  <2>2. \A l \in Listing, i \in Item :
            Moved(l, i, "released") \in ClaimState /\ Moved(l, i, "active") \in ClaimState
    BY MovedType DEF ClaimState
  <2> QED BY <2>1, <2>2 DEF ClaimAfter
<1>4. claim' \in [Listing -> [Item -> ClaimState]]
  <2>1. claim' = [l \in Listing |-> [i \in Item |->
              IF i \in home /\ ended[l][i] \in HeldBy THEN "released" ELSE ended[l][i]]]
    BY DEF EndOffers
  <2> HIDE DEF home, ended
  <2> QED BY <1>3, <2>1 DEF ClaimState
<1>5. disposition' \in [Item -> Disposition]
  <2>1. disposition' = [i \in Item |-> IF i \in home THEN "held" ELSE filed[i]]
    BY DEF EndOffers
  <2> HIDE DEF home
  <2> QED BY <2>1 DEF Disposition
<1>6. lotStatus' \in [Lot -> LotStatus]
  BY DEF TypeOK, EndOffers, LotStatus
<1>7. members' \in [Lot -> SUBSET Item]
  BY DEF TypeOK, EndOffers
<1> QED BY <1>1, <1>2, <1>4, <1>5, <1>6, <1>7

\* An offer writes well-typed rows.
LEMMA OfferType ==
    ASSUME TypeOK, NEW l \in Listing, NEW subj \in Item \cup Lot,
           NEW S \in SUBSET Item, NEW v \in Venue, OfferRows(l, subj, S, v),
           lotStatus' \in [Lot -> LotStatus], members' \in [Lot -> SUBSET Item]
    PROVE  TypeOK'
<1>1. listingStatus' \in [Listing -> ListingStatus]
  BY DEF TypeOK, OfferRows, ListingStatus
<1>2. pausedBy' \in [Listing -> Listing \cup {NoOne}]
  BY DEF TypeOK, OfferRows
<1>3. claim' \in [Listing -> [Item -> ClaimState]]
  <2>1. \A m \in Listing, i \in Item :
            claim[m][i] \in ClaimState /\ Moved(m, i, "paused") \in ClaimState
    BY MovedType DEF TypeOK, ClaimState
  <2> QED BY <2>1 DEF OfferRows, ClaimState
<1>4. disposition' \in [Item -> Disposition]
  BY DEF TypeOK, OfferRows, Disposition
<1>5. /\ subject' \in [Listing -> Item \cup Lot \cup {NoOne}]
      /\ venue' \in [Listing -> Venue]
      /\ quantity' \in [Listing -> Nat]
  BY DEF TypeOK, OfferRows
<1> QED BY <1>1, <1>2, <1>3, <1>4, <1>5 DEF TypeOK, OfferRows, orderVars

LEMMA SharesType ==
    ASSUME TypeOK, NEW o \in Order, NEW T \in SUBSET Listing, NEW G \in SUBSET Listing
    PROVE  [share EXCEPT ![o] = SharesAfter(o, T, G)] \in [Order -> [Listing -> SUBSET Item]]
BY OfferedItemsType DEF TypeOK, SharesAfter

LEMMA NewOrderType ==
    ASSUME TypeOK, NEW o \in Order, NEW L \in SUBSET Listing, NEW v \in Venue,
           NEW E \in SUBSET Listing, NewOrder(o, L, v, E)
    PROVE  TypeOK'
<1>1. quantity' \in [Listing -> Nat]
  <2>1. InStock(L) /\ Restock(L, {})
    BY DEF NewOrder, MoveLines
  <2> QED BY <2>1, RestockType
<1>2. EndOffers(E, TRUE, Filed(L, {})) /\ Filed(L, {}) \in [Item -> Disposition]
  BY FiledType DEF NewOrder, MoveLines
<1>3. /\ listingStatus' \in [Listing -> ListingStatus]
      /\ pausedBy' \in [Listing -> Listing \cup {NoOne}]
      /\ claim' \in [Listing -> [Item -> ClaimState]]
      /\ disposition' \in [Item -> Disposition]
      /\ lotStatus' \in [Lot -> LotStatus]
      /\ members' \in [Lot -> SUBSET Item]
  BY <1>2, EndOffersType
<1>4. orderStatus' \in [Order -> OrderStatus \cup {"none"}]
  <2>1. FirstStatus(v) \in OrderStatus
    BY FirstStatusType
  <2>2. orderStatus' = [orderStatus EXCEPT ![o] = FirstStatus(v)]
    BY DEF NewOrder
  <2> QED BY <2>1, <2>2 DEF TypeOK
<1>5. orderVenue' \in [Order -> Venue]
  BY DEF TypeOK, NewOrder
<1>6. share' \in [Order -> [Listing -> SUBSET Item]]
  BY SharesType DEF NewOrder, MoveLines
<1> QED BY <1>1, <1>3, <1>4, <1>5, <1>6 DEF TypeOK, NewOrder, MoveLines

\* Every step keeps the rows well typed.
LEMMA TypeStep ==
    ASSUME TypeOK, [Next]_vars
    PROVE  TypeOK'
<1>1. ASSUME NEW k \in Lot, CreateLot(k) \/ DeleteLot(k)
      PROVE  TypeOK'
  <2>1. lotStatus' \in [Lot -> LotStatus]
    BY <1>1 DEF TypeOK, CreateLot, DeleteLot, LotStatus
  <2>2. members' \in [Lot -> SUBSET Item]
    BY <1>1 DEF TypeOK, CreateLot, DeleteLot
  <2>3. UNCHANGED <<itemVars, listingVars, orderVars>>
    BY <1>1 DEF CreateLot, DeleteLot
  <2> QED BY <2>1, <2>2, <2>3 DEF TypeOK, itemVars, listingVars, orderVars
<1>2. ASSUME NEW k \in Lot, NEW i \in Item, AddMember(k, i) \/ RemoveMember(k, i)
      PROVE  TypeOK'
  <2>1. members' \in [Lot -> SUBSET Item]
    <3>1. members \in [Lot -> SUBSET Item]
      BY DEF TypeOK
    <3>2. CASE AddMember(k, i)
      BY <3>1, <3>2 DEF AddMember
    <3>3. CASE RemoveMember(k, i)
      BY <3>1, <3>3 DEF RemoveMember
    <3> QED BY <1>2, <3>2, <3>3
  <2>2. UNCHANGED <<lotStatus, itemVars, listingVars, orderVars>>
    BY <1>2 DEF AddMember, RemoveMember
  <2> QED BY <2>1, <2>2 DEF TypeOK, itemVars, listingVars, orderVars
<1>3. ASSUME NEW l \in Listing, NEW i \in Item, NEW v \in Platforms, OfferItem(l, i, v)
      PROVE  TypeOK'
  <2>1. v \in Venue /\ Offer(l, i, {i}, v) /\ lotStatus' \in [Lot -> LotStatus]
    BY <1>3, RequestsNameRealCodes DEF OfferItem, TypeOK
  <2> QED BY <2>1, OfferType DEF Offer, TypeOK
<1>4. ASSUME NEW l \in Listing, NEW k \in Lot, NEW v \in Platforms, OfferLot(l, k, v)
      PROVE  TypeOK'
  <2>1. /\ v \in Venue
        /\ members[k] \in SUBSET Item
        /\ Offer(l, k, members[k], v)
        /\ lotStatus' \in [Lot -> LotStatus]
    BY <1>4, RequestsNameRealCodes DEF OfferLot, TypeOK, LotStatus
  <2> QED BY <2>1, OfferType DEF Offer, TypeOK
<1>5. ASSUME NEW l \in Listing, EndListing(l)
      PROVE  TypeOK'
  <2>1. EndOffers({l}, FALSE, disposition) /\ disposition \in [Item -> Disposition]
    BY <1>5 DEF EndListing, TypeOK
  <2>2. /\ listingStatus' \in [Listing -> ListingStatus]
        /\ pausedBy' \in [Listing -> Listing \cup {NoOne}]
        /\ claim' \in [Listing -> [Item -> ClaimState]]
        /\ disposition' \in [Item -> Disposition]
        /\ lotStatus' \in [Lot -> LotStatus]
        /\ members' \in [Lot -> SUBSET Item]
    BY <2>1, EndOffersType
  <2> QED BY <1>5, <2>2 DEF EndListing, TypeOK, orderVars
<1>6. ASSUME NEW o \in Order, NEW L \in SUBSET Listing, PlaceOrder(o, L)
      PROVE  TypeOK'
  <2>1. /\ NewOrder(o, L, "store", LotsSoldOut(L))
        /\ LotsSoldOut(L) \in SUBSET Listing
        /\ "store" \in Venue
    BY <1>6 DEF PlaceOrder, LotsSoldOut, SoldOutBy, Venue
  <2> QED BY <2>1, NewOrderType
<1>7. ASSUME NEW o \in Order, NEW l \in Listing, RecordSale(o, l)
      PROVE  TypeOK'
  <2>1. NewOrder(o, {l}, venue[l], {l}) /\ venue[l] \in Venue
    BY <1>7 DEF RecordSale, TypeOK
  <2> QED BY <2>1, NewOrderType
<1>8. ASSUME NEW o \in Order, NEW to \in Statuses, SetOrderStatus(o, to)
      PROVE  TypeOK'
  <2> DEFINE given == IF ReturnsStock(o, to) THEN Lines(o) ELSE {}
  <2>1. /\ WriteStatus(o, to)
        /\ stockBack' = [stockBack EXCEPT ![o] = @ \/ given # {}]
        /\ Restock({}, given)
        /\ disposition' = Filed({}, given)
        /\ UNCHANGED <<orderVenue, share, itemStatus, gone, lotVars,
                       listingStatus, subject, venue, pausedBy, claim>>
    BY <1>8 DEF SetOrderStatus, ApplyStatus
  <2>2. given \in SUBSET Listing
    BY DEF Lines
  <2> HIDE DEF given
  <2>3. quantity' \in [Listing -> Nat]
    BY <2>1, <2>2, RestockType DEF InStock
  <2>4. disposition' \in [Item -> Disposition]
    BY <2>1, FiledType
  <2>5. /\ orderStatus' \in [Order -> OrderStatus \cup {"none"}]
        /\ everShipped' \in [Order -> BOOLEAN]
        /\ refund' \in [Order -> {"none", "returned", "kept"}]
    <3>1. to \in OrderStatus
      BY RequestsNameRealCodes
    <3> QED BY <2>1, <3>1 DEF TypeOK, WriteStatus
  <2>6. stockBack' \in [Order -> BOOLEAN]
    BY <2>1 DEF TypeOK
  <2> QED BY <2>1, <2>3, <2>4, <2>5, <2>6 DEF TypeOK, lotVars
<1>9. ASSUME NEW o \in Order, NEW L \in SUBSET Listing, ReviseOrder(o, L)
      PROVE  TypeOK'
  <2> DEFINE taken == L \ Lines(o)
             given == Lines(o) \ L
             E == LotsSoldOut(taken)
  <2>1. /\ InStock(taken)
        /\ share' = [share EXCEPT ![o] = SharesAfter(o, taken, given)]
        /\ Restock(taken, given)
        /\ EndOffers(E, TRUE, Filed(taken, given))
        /\ UNCHANGED <<orderStatus, orderVenue, everShipped, refund, stockBack,
                       itemStatus, gone, subject, venue>>
    BY <1>9 DEF ReviseOrder, MayMove, MoveLines
  <2>2. taken \in SUBSET Listing /\ given \in SUBSET Listing /\ E \in SUBSET Listing
    BY DEF Lines, LotsSoldOut, SoldOutBy
  <2> HIDE DEF taken, given, E
  <2>3. Filed(taken, given) \in [Item -> Disposition]
    BY FiledType
  <2>4. /\ listingStatus' \in [Listing -> ListingStatus]
        /\ pausedBy' \in [Listing -> Listing \cup {NoOne}]
        /\ claim' \in [Listing -> [Item -> ClaimState]]
        /\ disposition' \in [Item -> Disposition]
        /\ lotStatus' \in [Lot -> LotStatus]
        /\ members' \in [Lot -> SUBSET Item]
    BY <2>1, <2>2, <2>3, EndOffersType
  <2>5. quantity' \in [Listing -> Nat]
    BY <2>1, <2>2, RestockType
  <2>6. share' \in [Order -> [Listing -> SUBSET Item]]
    BY <2>1, <2>2, SharesType
  <2> QED BY <2>1, <2>4, <2>5, <2>6 DEF TypeOK
<1>10. ASSUME NEW i \in Item, ReceiveItem(i) \/ DeleteItem(i)
       PROVE  TypeOK'
  <2>1. itemStatus' \in [Item -> {"received", "away"}]
    BY <1>10 DEF TypeOK, ReceiveItem, DeleteItem
  <2>2. gone' \in [Item -> {"no", "split", "deleted"}]
    BY <1>10 DEF TypeOK, ReceiveItem, DeleteItem
  <2>3. UNCHANGED <<disposition, listingVars, lotVars, orderVars>>
    BY <1>10 DEF ReceiveItem, DeleteItem
  <2> QED BY <2>1, <2>2, <2>3 DEF TypeOK, listingVars, lotVars, orderVars
<1>11. ASSUME NEW E \in SUBSET Listing,
              NEW filed \in [Item -> Disposition], EndOffers(E, FALSE, filed),
              itemStatus' \in [Item -> {"received", "away"}],
              gone' \in [Item -> {"no", "split", "deleted"}],
              UNCHANGED <<subject, venue, quantity, orderVars>>
       PROVE  TypeOK'
  <2>1. /\ listingStatus' \in [Listing -> ListingStatus]
        /\ pausedBy' \in [Listing -> Listing \cup {NoOne}]
        /\ claim' \in [Listing -> [Item -> ClaimState]]
        /\ disposition' \in [Item -> Disposition]
        /\ lotStatus' \in [Lot -> LotStatus]
        /\ members' \in [Lot -> SUBSET Item]
    BY <1>11, EndOffersType
  <2> QED BY <1>11, <2>1 DEF TypeOK, orderVars
<1>12. ASSUME NEW i \in Item, RecordLoss(i)
       PROVE  TypeOK'
  <2>1. OffersHolding({i}) \in SUBSET Listing /\ disposition \in [Item -> Disposition]
    BY DEF OffersHolding, TypeOK
  <2> QED BY <1>11, <1>12, <2>1 DEF RecordLoss, TypeOK
<1>13. ASSUME NEW i \in Item, NEW s \in {"received", "away"}, NEW d \in Dispositions,
              EditStanding(i, s, d)
       PROVE  TypeOK'
  <2>1. OffersHolding({i}) \in SUBSET Listing
    BY DEF OffersHolding
  <2>2. [disposition EXCEPT ![i] = d] \in [Item -> Disposition]
    BY RequestsNameRealCodes DEF TypeOK
  <2> QED BY <1>11, <1>13, <2>1, <2>2 DEF EditStanding, WriteStanding, TypeOK
<1>14. ASSUME NEW i \in Item, SplitItem(i)
       PROVE  TypeOK'
  <2>1. /\ {l \in Listing : subject[l] = i /\ Live(l)} \in SUBSET Listing
        /\ disposition \in [Item -> Disposition]
    BY DEF TypeOK
  <2> QED BY <1>11, <1>14, <2>1 DEF SplitItem, TypeOK
<1>15. ASSUME NEW l \in Listing, EndListingAgain(l)
       PROVE  TypeOK'
  <2>1. disposition' \in [Item -> Disposition]
    BY <1>15 DEF EndListingAgain, TypeOK, Disposition
  <2>2. claim' \in [Listing -> [Item -> ClaimState]]
    BY <1>15, ZenonT(40) DEF EndListingAgain, TypeOK, ClaimState
  <2> QED BY <1>15, <2>1, <2>2 DEF EndListingAgain, TypeOK, lotVars, orderVars
<1>16. CASE UNCHANGED vars
  BY <1>16 DEF TypeOK, vars, itemVars, listingVars, lotVars, orderVars
<1> QED BY <1>1, <1>2, <1>3, <1>4, <1>5, <1>6, <1>7, <1>8, <1>9, <1>10, <1>12, <1>13,
           <1>14, <1>15, <1>16 DEF Next, LotRequest, OfferRequest, OrderRequest, ItemRequest

LEMMA TypeInit ==
    ASSUME Init
    PROVE  TypeOK
<1>1. OldListing \in [Listing -> Item \cup {NoOne}]
  BY OldListingsApart
<1> QED BY <1>1 DEF Init, TypeOK, Disposition, ListingStatus, Venue, ClaimState,
                    LotStatus, OrderStatus

\* The rows of the shop keep their types: no request writes a status its column
\* has no code for, a stock below zero or a membership of something else than
\* items (models/sales.py; order_writes.py refuses stock below zero).
THEOREM TypeCorrect == Spec => []TypeOK
<1>1. Init => TypeOK
  BY TypeInit
<1>2. TypeOK /\ [Next]_vars => TypeOK'
  BY TypeStep
<1> QED BY <1>1, <1>2, PTL DEF Spec

-----------------------------------------------------------------------------
\* The rows OfferInv speaks of.
offerVars == <<listingStatus, subject, venue, pausedBy, claim, lotStatus, members>>

-----------------------------------------------------------------------------
(* An ending.                                                              *)

\* What an ending does to the status of one listing.
LEMMA EndingStatus ==
    ASSUME NEW E \in SUBSET Listing, NEW sold \in BOOLEAN, NEW filed,
           EndOffers(E, sold, filed), NEW l \in Listing
    PROVE  /\ l \in Closing(E, sold) => listingStatus'[l] = "ended"
           /\ l \in Resuming(E, sold) => listingStatus'[l] = "active"
           /\ l \notin Closing(E, sold) \cup Resuming(E, sold) =>
                 listingStatus'[l] = listingStatus[l]
           /\ pausedBy'[l] = IF l \in E \cup PausedBy(E) THEN NoOne ELSE pausedBy[l]
<1>1. listingStatus' = StatusAfter(E, sold)
  BY DEF EndOffers
<1>2. /\ l \in Closing(E, sold) => listingStatus'[l] = "ended"
      /\ l \in Resuming(E, sold) => listingStatus'[l] = "active"
      /\ l \notin Closing(E, sold) \cup Resuming(E, sold) =>
            listingStatus'[l] = listingStatus[l]
  BY <1>1 DEF StatusAfter, Closing, Resuming, PausedBy
<1>3. pausedBy'[l] = IF l \in E \cup PausedBy(E) THEN NoOne ELSE pausedBy[l]
  BY DEF EndOffers
<1> QED BY <1>2, <1>3

\* An ending never makes a listing live.
LEMMA EndingNeverRevives ==
    ASSUME NEW E \in SUBSET Listing, NEW sold \in BOOLEAN, NEW filed,
           EndOffers(E, sold, filed), NEW l \in Listing, listingStatus'[l] \in OnOffer
    PROVE  listingStatus[l] \in OnOffer /\ l \notin Closing(E, sold)
<1>1. /\ l \in Closing(E, sold) => listingStatus'[l] = "ended"
      /\ l \notin Closing(E, sold) \cup Resuming(E, sold) =>
            listingStatus'[l] = listingStatus[l]
  BY EndingStatus
<1> QED BY <1>1 DEF OnOffer, Resuming, PausedBy

\* What an ending does to one claim: the claims that still hold something after
\* it did so before, or are those of the listing's own item; the claims of a
\* listing that stays live are not released with the items that come home.
LEMMA EndingClaim ==
    ASSUME NEW E \in SUBSET Listing, NEW sold \in BOOLEAN, NEW filed,
           EndOffers(E, sold, filed), UNCHANGED subject,
           NEW l \in Listing, NEW i \in Item
    PROVE  /\ claim'[l][i] \in HeldBy => claim[l][i] \in HeldBy \/ subject[l] = i
           /\ listingStatus'[l] \in OnOffer => claim'[l][i] = ClaimAfter(E, sold)[l][i]
           /\ claim'[l][i] \in {ClaimAfter(E, sold)[l][i], "released"}
           /\ claim'[l][i] # ClaimAfter(E, sold)[l][i] =>
                 ClaimAfter(E, sold)[l][i] \in HeldBy
<1> DEFINE home == ComingHome(E, sold, filed)
           ended == ClaimAfter(E, sold)
<1>1. listingStatus' = StatusAfter(E, sold)
  BY DEF EndOffers
<1>2. claim'[l][i] =
          IF i \in home /\ ended[l][i] \in HeldBy THEN "released" ELSE ended[l][i]
  BY DEF EndOffers
<1>3. ended[l][i] \in HeldBy => claim[l][i] \in HeldBy \/ subject[l] = i
  BY DEF ClaimAfter, Moved, HeldBy
<1>4. i \in home => ~StillOffered(i, StatusAfter(E, sold), ended)
  BY DEF ComingHome
<1>5. listingStatus'[l] \in OnOffer /\ i \in home => ended[l][i] \notin HeldBy
  BY <1>1, <1>4 DEF StillOffered, Live
<1> HIDE DEF home
<1> QED BY <1>2, <1>3, <1>5 DEF HeldBy

\* A listing that stays live keeps the items it names.
LEMMA EndingKeepsNames ==
    ASSUME NEW E \in SUBSET Listing, NEW sold \in BOOLEAN, NEW filed,
           EndOffers(E, sold, filed), UNCHANGED subject,
           NEW l \in Listing, listingStatus'[l] \in OnOffer, NEW i \in Item
    PROVE  subject'[l] = i \/ claim'[l][i] \in HeldBy <=> Names(l, i)
<1>1. claim'[l][i] = ClaimAfter(E, sold)[l][i]
  BY EndingClaim
<1>2. l \notin Closing(E, sold)
  BY EndingNeverRevives
<1>3. claim'[l][i] = IF l \in Resuming(E, sold) THEN Moved(l, i, "active") ELSE claim[l][i]
  BY <1>1, <1>2 DEF ClaimAfter
<1> QED BY <1>3 DEF Names, Moved, HeldBy

\* The shop listings an ending brings back, or ends with it.
LEMMA EndingPaused ==
    ASSUME TypeOK, OfferInv, NEW E \in SUBSET Listing, NEW sold \in BOOLEAN, NEW filed,
           EndOffers(E, sold, filed), UNCHANGED <<subject, venue>>,
           NEW l \in Listing
    PROVE  /\ listingStatus'[l] = "paused" =>
                 listingStatus[l] = "paused" /\ l \notin E \cup PausedBy(E)
           /\ listingStatus'[l] = "active" =>
                 \/ listingStatus[l] = "active" /\ l \notin E
                 \/ l \in PausedBy(E) /\ ~sold
<1>1. /\ l \in Closing(E, sold) => listingStatus'[l] = "ended"
      /\ l \in Resuming(E, sold) => listingStatus'[l] = "active"
      /\ l \notin Closing(E, sold) \cup Resuming(E, sold) =>
            listingStatus'[l] = listingStatus[l]
  BY EndingStatus
<1>2. CASE sold
  BY <1>1, <1>2 DEF Closing, Resuming
<1>3. CASE ~sold
  BY <1>1, <1>3 DEF Closing, Resuming
<1> QED BY <1>2, <1>3

LEMMA EndingKeepsClaims ==
    ASSUME TypeOK, OfferInv, NEW E \in SUBSET Listing, NEW sold \in BOOLEAN, NEW filed,
           EndOffers(E, sold, filed), UNCHANGED <<subject, venue>>
    PROVE  ClaimFollowsListing'
<1> SUFFICES ASSUME NEW l \in Listing, NEW i \in Item, claim'[l][i] # "none"
             PROVE  claim'[l][i] = CASE listingStatus'[l] = "active" -> "active"
                                     [] listingStatus'[l] = "paused" -> "paused"
                                     [] OTHER -> "released"
  BY DEF ClaimFollowsListing
<1> DEFINE c == ClaimAfter(E, sold)[l][i]
<1>0. /\ claim[l][i] \in ClaimState
      /\ listingStatus[l] \in ListingStatus
      /\ claim[l][i] # "none" =>
            /\ listingStatus[l] = "active" => claim[l][i] = "active"
            /\ listingStatus[l] = "paused" => claim[l][i] = "paused"
            /\ listingStatus[l] \notin OnOffer => claim[l][i] = "released"
  <2>1. claim[l][i] \in ClaimState /\ listingStatus[l] \in ListingStatus
    BY DEF TypeOK
  <2>2. ClaimFollowsListing
    BY DEF OfferInv
  <2>3. claim[l][i] # "none" =>
            claim[l][i] = CASE listingStatus[l] = "active" -> "active"
                            [] listingStatus[l] = "paused" -> "paused"
                            [] OTHER -> "released"
    BY <2>2 DEF ClaimFollowsListing
  <2> QED BY <2>1, <2>3 DEF OnOffer
<1>1. /\ l \in Closing(E, sold) => listingStatus'[l] = "ended"
      /\ l \in Resuming(E, sold) => listingStatus'[l] = "active"
      /\ l \notin Closing(E, sold) \cup Resuming(E, sold) =>
            listingStatus'[l] = listingStatus[l]
      /\ listingStatus'[l] \in OnOffer => claim'[l][i] = c
      /\ claim'[l][i] \in {c, "released"}
      /\ claim'[l][i] # c => c \in HeldBy
  BY EndingStatus, EndingClaim
<1>2. c = IF l \in Closing(E, sold) THEN Moved(l, i, "released")
          ELSE IF l \in Resuming(E, sold) THEN Moved(l, i, "active")
          ELSE claim[l][i]
  BY DEF ClaimAfter
<1> HIDE DEF c
<1>3. CASE l \in Closing(E, sold)
  <2>1. Moved(l, i, "released") \in {"none", "released"}
    BY <1>0 DEF Moved, HeldBy, ClaimState
  <2> QED BY <1>1, <1>2, <1>3, <2>1 DEF HeldBy
<1>4. CASE l \in Resuming(E, sold) /\ l \notin Closing(E, sold)
  <2>1. listingStatus[l] = "paused"
    BY <1>4 DEF Resuming, PausedBy
  <2>2. Moved(l, i, "active") \in {"none", "active"}
    BY <1>0, <2>1 DEF Moved, HeldBy, ClaimState
  <2>3. claim'[l][i] = c
    BY <1>1, <1>4 DEF Live, OnOffer
  <2> QED BY <1>1, <1>2, <1>4, <2>2, <2>3
<1>5. CASE l \notin Closing(E, sold) \cup Resuming(E, sold)
  <2>1. c = claim[l][i] /\ listingStatus'[l] = listingStatus[l]
    BY <1>1, <1>2, <1>5
  <2>2. CASE listingStatus[l] \in OnOffer
    BY <1>0, <1>1, <2>1, <2>2 DEF Live, OnOffer
  <2>3. CASE listingStatus[l] \notin OnOffer
    BY <1>0, <1>1, <2>1, <2>3 DEF OnOffer, HeldBy
  <2> QED BY <2>2, <2>3
<1> QED BY <1>3, <1>4, <1>5

LEMMA EndingKeepsPaused ==
    ASSUME TypeOK, OfferInv, NEW E \in SUBSET Listing, NEW sold \in BOOLEAN, NEW filed,
           EndOffers(E, sold, filed), UNCHANGED <<subject, venue>>
    PROVE  PausedIsWaiting'
<1> SUFFICES ASSUME NEW l \in Listing
             PROVE  IF listingStatus'[l] = "paused"
                    THEN /\ venue'[l] = "store"
                         /\ subject'[l] \in Item
                         /\ pausedBy'[l] \in Listing
                         /\ listingStatus'[pausedBy'[l]] = "active"
                         /\ Names(pausedBy[l], subject[l])'
                    ELSE pausedBy'[l] = NoOne
  BY DEF PausedIsWaiting
<1>1. pausedBy'[l] = IF l \in E \cup PausedBy(E) THEN NoOne ELSE pausedBy[l]
  BY EndingStatus
<1>2. CASE listingStatus'[l] = "paused"
  <2>1. listingStatus[l] = "paused" /\ l \notin E \cup PausedBy(E)
    BY <1>2, EndingPaused
  <2> DEFINE p == pausedBy[l]
  <2>2. /\ venue[l] = "store"
        /\ subject[l] \in Item
        /\ p \in Listing
        /\ listingStatus[p] = "active"
        /\ Names(p, subject[l])
    BY <2>1 DEF OfferInv, PausedIsWaiting
  <2>3. p \notin E
    BY <2>1 DEF PausedBy
  <2>4. p \notin Closing(E, sold) \cup Resuming(E, sold)
    BY <2>2, <2>3 DEF Closing, Resuming, PausedBy
  <2>5. pausedBy'[l] = p
    BY <1>1, <2>1
  <2> HIDE DEF p
  <2>6. listingStatus'[p] = "active"
    BY <2>2, <2>4, EndingStatus
  <2>7. subject'[p] = subject[l] \/ claim'[p][subject[l]] \in HeldBy
    BY <2>2, <2>6, EndingKeepsNames DEF OnOffer
  <2> QED BY <1>2, <2>2, <2>5, <2>6, <2>7 DEF Names
<1>3. CASE listingStatus'[l] # "paused"
  <2>1. CASE l \in E \cup PausedBy(E)
    BY <1>1, <1>3, <2>1
  <2>2. CASE l \notin E \cup PausedBy(E)
    <3>1. l \notin Closing(E, sold) \cup Resuming(E, sold)
      BY <2>2 DEF Closing, Resuming
    <3>2. listingStatus[l] # "paused"
      BY <1>3, <3>1, EndingStatus
    <3>3. pausedBy[l] = NoOne
      BY <3>2 DEF OfferInv, PausedIsWaiting
    <3> QED BY <1>1, <1>3, <2>2, <3>3
  <2> QED BY <2>1, <2>2
<1> QED BY <1>2, <1>3

\* An ending brings back at most one listing of a coin, and only one that was
\* set aside for the listing that ends.
LEMMA EndingKeepsOneOffer ==
    ASSUME TypeOK, OfferInv, NEW E \in SUBSET Listing, NEW sold \in BOOLEAN, NEW filed,
           EndOffers(E, sold, filed), UNCHANGED <<subject, venue>>
    PROVE  OneOffer'
<1> SUFFICES ASSUME NEW l \in Listing, NEW m \in Listing, NEW i \in Item,
                    listingStatus'[l] = "active", Names(l, i)',
                    listingStatus'[m] = "active", Names(m, i)'
             PROVE  l = m
  BY DEF OneOffer
<1>1. Names(l, i) /\ Names(m, i)
  BY EndingKeepsNames DEF Names, OnOffer
<1>2. ASSUME NEW p \in Listing, p \in PausedBy(E), Names(p, i)
      PROVE  /\ listingStatus[p] = "paused"
             /\ venue[p] = "store"
             /\ subject[p] = i
             /\ pausedBy[p] \in E
             /\ listingStatus[pausedBy[p]] = "active"
             /\ Names(pausedBy[p], i)
  <2>1. listingStatus[p] = "paused" /\ pausedBy[p] \in E
    BY <1>2 DEF PausedBy
  <2>2. /\ venue[p] = "store"
        /\ subject[p] \in Item
        /\ listingStatus[pausedBy[p]] = "active"
        /\ Names(pausedBy[p], subject[p])
    BY <2>1 DEF OfferInv, PausedIsWaiting
  <2>3. subject[p] = i
    BY <1>2, <2>2 DEF Names, OfferInv, ClaimsOwnItem
  <2> QED BY <2>1, <2>2, <2>3
<1>3. ASSUME NEW p \in Listing, NEW q \in Listing, p \in PausedBy(E), Names(p, i),
             listingStatus[q] = "active", q \notin E, Names(q, i)
      PROVE  FALSE
  <2>1. /\ pausedBy[p] \in E
        /\ listingStatus[pausedBy[p]] = "active"
        /\ Names(pausedBy[p], i)
    BY <1>2, <1>3
  <2> QED BY <1>3, <2>1 DEF OfferInv, OneOffer
<1>4. /\ (listingStatus[l] = "active" /\ l \notin E) \/ l \in PausedBy(E)
      /\ (listingStatus[m] = "active" /\ m \notin E) \/ m \in PausedBy(E)
  BY EndingPaused
<1>5. CASE listingStatus[l] = "active" /\ listingStatus[m] = "active"
  BY <1>1, <1>5 DEF OfferInv, OneOffer
<1>6. CASE l \in PausedBy(E) /\ m \in PausedBy(E)
  <2>1. /\ Live(l) /\ Live(m)
        /\ subject[l] = i /\ subject[m] = i
        /\ venue[l] = "store" /\ venue[m] = "store"
    BY <1>1, <1>2, <1>6 DEF Live, OnOffer
  <2> QED BY <2>1 DEF OfferInv, OnePerSubject
<1> QED BY <1>1, <1>3, <1>4, <1>5, <1>6

\* A lot's listing is the only one offering it, so ending other listings leaves
\* the lot and its members alone.
LEMMA EndingKeepsLots ==
    ASSUME TypeOK, OfferInv, NEW E \in SUBSET Listing, NEW sold \in BOOLEAN, NEW filed,
           \A l \in E : Live(l),
           EndOffers(E, sold, filed), UNCHANGED <<subject, venue>>
    PROVE  /\ LotListingHoldsMembers'
           /\ OfferedLotIsListed'
           /\ FinishedLotIsEmpty'
           /\ OneLotPerItem'
<1> DEFINE lots == {k \in Lot : \E l \in E : subject[l] = k}
<1>1. \A k \in Lot :
          /\ lotStatus'[k] = IF k \in lots THEN (IF sold THEN "sold" ELSE "dissolved")
                             ELSE lotStatus[k]
          /\ members'[k] = IF k \in lots THEN {} ELSE members[k]
  BY DEF EndOffers
<1>2. LotListingHoldsMembers'
  <2> SUFFICES ASSUME NEW l \in Listing, listingStatus'[l] \in OnOffer, subject[l] \in Lot
               PROVE  /\ lotStatus'[subject[l]] = "offered"
                      /\ members'[subject[l]] = {i \in Item : claim'[l][i] \in HeldBy}
    BY DEF LotListingHoldsMembers, Live
  <2>1. Live(l) /\ l \notin E
    <3>1. listingStatus[l] \in OnOffer /\ l \notin Closing(E, sold)
      BY EndingNeverRevives
    <3> QED BY <3>1 DEF Live, Closing
  <2>2. /\ lotStatus[subject[l]] = "offered"
        /\ members[subject[l]] = {i \in Item : claim[l][i] \in HeldBy}
    BY <2>1 DEF OfferInv, LotListingHoldsMembers
  <2>3. subject[l] \notin lots
    BY <2>1 DEF OfferInv, OnePerSubject
  <2>4. \A i \in Item : claim'[l][i] \in HeldBy <=> claim[l][i] \in HeldBy
    <3> TAKE i \in Item
    <3>1. subject[l] # i
      BY SubjectsApart
    <3>2. subject'[l] = i \/ claim'[l][i] \in HeldBy <=> Names(l, i)
      BY EndingKeepsNames
    <3> QED BY <3>1, <3>2 DEF Names
  <2> QED BY <1>1, <2>2, <2>3, <2>4
<1>3. OfferedLotIsListed'
  <2> SUFFICES ASSUME NEW k \in Lot, lotStatus'[k] = "offered"
               PROVE  \E l \in Listing : listingStatus'[l] \in OnOffer /\ subject'[l] = k
    BY DEF OfferedLotIsListed, Live
  <2>1. k \notin lots /\ lotStatus[k] = "offered"
    BY <1>1
  <2>2. PICK l \in Listing : Live(l) /\ subject[l] = k
    BY <2>1 DEF OfferInv, OfferedLotIsListed
  <2>3. l \notin E /\ listingStatus[l] # "paused"
    BY <2>1, <2>2, SubjectsApart DEF OfferInv, PausedIsWaiting
  <2>4. l \notin Closing(E, sold) \cup Resuming(E, sold)
    BY <2>3 DEF Closing, Resuming, PausedBy
  <2>5. listingStatus'[l] = listingStatus[l]
    <3>1. listingStatus' = StatusAfter(E, sold)
      BY DEF EndOffers
    <3> QED BY <2>4, <3>1 DEF StatusAfter
  <2> QED BY <2>2, <2>5 DEF Live
<1>4. FinishedLotIsEmpty'
  BY <1>1 DEF OfferInv, FinishedLotIsEmpty
<1>5. OneLotPerItem'
  BY <1>1 DEF OfferInv, OneLotPerItem
<1> QED BY <1>2, <1>3, <1>4, <1>5

\* Every writer that ends offers keeps the invariant.
LEMMA EndingKeeps ==
    ASSUME TypeOK, OfferInv, NEW E \in SUBSET Listing, NEW sold \in BOOLEAN, NEW filed,
           \A l \in E : Live(l),
           EndOffers(E, sold, filed), UNCHANGED <<subject, venue>>
    PROVE  OfferInv'
<1>1. \A l \in Listing : listingStatus'[l] \in OnOffer => listingStatus[l] \in OnOffer
  BY EndingNeverRevives
<1>2. ClaimsOwnItem'
  <2>1. \A l \in Listing, i \in Item :
            claim'[l][i] \in HeldBy => claim[l][i] \in HeldBy \/ subject[l] = i
    BY EndingClaim
  <2> QED BY <2>1 DEF OfferInv, ClaimsOwnItem
<1>3. LiveOffersSomething'
  BY <1>1 DEF OfferInv, LiveOffersSomething, Live
<1>4. OnePerSubject'
  BY <1>1 DEF OfferInv, OnePerSubject, Live
<1> QED BY <1>2, <1>3, <1>4, EndingKeepsClaims, EndingKeepsPaused, EndingKeepsOneOffer,
           EndingKeepsLots DEF OfferInv

-----------------------------------------------------------------------------
(* An offer.                                                               *)

\* The listings an offer sets aside are the shop's, each of one item that the
\* offer names.
LEMMA Displaced ==
    ASSUME TypeOK, OfferInv, NEW l \in Listing, NEW subj \in Item \cup Lot,
           NEW S \in SUBSET Item, NEW v \in Venue, OfferRows(l, subj, S, v),
           NEW m \in OffersHolding(S)
    PROVE  /\ m \in Listing /\ m # l
           /\ Live(m)
           /\ venue[m] = "store"
           /\ subject[m] \in S
           /\ v = "store" => subj \in Lot
<1>1. m \in Listing /\ Live(m)
  BY DEF OffersHolding
<1>2. PICK i \in S : Names(m, i)
  BY DEF OffersHolding
<1>3. venue[m] = "store" /\ (v = "store" => subj \in Lot)
  <2>1. m \in OffersHolding({i})
    BY <1>1, <1>2 DEF OffersHolding
  <2>2. FreeFor(i, v, subj \in Lot)
    BY DEF OfferRows
  <2> QED BY <2>1, <2>2 DEF FreeFor
<1>4. subject[m] \notin Lot
  <2> SUFFICES ASSUME subject[m] \in Lot
               PROVE  FALSE
    OBVIOUS
  <2>1. claim[m][i] \in HeldBy
    BY <1>2, SubjectsApart DEF Names
  <2>2. lotStatus[subject[m]] = "offered" /\ i \in members[subject[m]]
    BY <1>1, <2>1 DEF OfferInv, LotListingHoldsMembers
  <2>3. InOfferedLot(i)
    BY <2>2 DEF InOfferedLot
  <2> QED BY <2>3 DEF OfferRows, Offerable
<1>5. subject[m] \in Item
  BY <1>1, <1>4 DEF OfferInv, LiveOffersSomething, TypeOK
<1>6. subject[m] = i
  BY <1>1, <1>2, <1>5 DEF Names, OfferInv, ClaimsOwnItem
<1>7. m # l
  BY <1>1 DEF OfferRows, Live, OnOffer
<1> QED BY <1>1, <1>3, <1>6, <1>7

\* What an offer writes to its own listing, to another, and to a claim.
LEMMA OfferWrites ==
    ASSUME TypeOK, OfferInv, NEW l \in Listing, NEW subj \in Item \cup Lot,
           NEW S \in SUBSET Item, NEW v \in Venue, OfferRows(l, subj, S, v)
    PROVE  /\ listingStatus[l] = "unused" /\ l \notin OffersHolding(S)
           /\ listingStatus'[l] = "active" /\ subject'[l] = subj /\ venue'[l] = v
           /\ pausedBy'[l] = NoOne
<1>1. listingStatus[l] = "unused" /\ l \notin OffersHolding(S)
  BY DEF OfferRows, OffersHolding, Live, OnOffer
<1>2. pausedBy[l] = NoOne
  BY <1>1 DEF OfferInv, PausedIsWaiting
<1> QED BY <1>1, <1>2 DEF OfferRows, TypeOK

LEMMA OfferWritesOther ==
    ASSUME TypeOK, NEW l \in Listing, NEW subj, NEW S, NEW v, OfferRows(l, subj, S, v),
           NEW m \in Listing, m # l
    PROVE  /\ subject'[m] = subject[m] /\ venue'[m] = venue[m]
           /\ listingStatus'[m] = IF m \in OffersHolding(S) THEN "paused"
                                  ELSE listingStatus[m]
           /\ pausedBy'[m] = IF m \in OffersHolding(S) THEN l ELSE pausedBy[m]
BY DEF OfferRows, TypeOK

LEMMA OfferWritesClaim ==
    ASSUME NEW l \in Listing, NEW subj, NEW S, NEW v, OfferRows(l, subj, S, v),
           NEW m \in Listing, NEW i \in Item
    PROVE  claim'[m][i] = IF m = l THEN (IF i \in S THEN "active" ELSE "none")
                          ELSE IF m \in OffersHolding(S) THEN Moved(m, i, "paused")
                          ELSE claim[m][i]
BY DEF OfferRows

LEMMA OfferKeepsClaims ==
    ASSUME TypeOK, OfferInv, NEW l \in Listing, NEW subj \in Item \cup Lot,
           NEW S \in SUBSET Item, NEW v \in Venue, OfferRows(l, subj, S, v)
    PROVE  ClaimFollowsListing'
<1> SUFFICES ASSUME NEW m \in Listing, NEW i \in Item, claim'[m][i] # "none"
             PROVE  claim'[m][i] = CASE listingStatus'[m] = "active" -> "active"
                                     [] listingStatus'[m] = "paused" -> "paused"
                                     [] OTHER -> "released"
  BY DEF ClaimFollowsListing
<1>1. claim[m][i] # "none" =>
          claim[m][i] = CASE listingStatus[m] = "active" -> "active"
                          [] listingStatus[m] = "paused" -> "paused"
                          [] OTHER -> "released"
  BY DEF OfferInv, ClaimFollowsListing
<1>2. CASE m = l
  <2>1. listingStatus'[m] = "active" /\ claim'[m][i] \in {"active", "none"}
    BY <1>2, OfferWrites, OfferWritesClaim
  <2> QED BY <2>1
<1>3. CASE m # l /\ m \in OffersHolding(S)
  <2>1. listingStatus'[m] = "paused" /\ claim'[m][i] = Moved(m, i, "paused")
    BY <1>3, OfferWritesOther, OfferWritesClaim
  <2>2. claim[m][i] \in {"none", "active", "paused"}
    BY <1>1, <1>3 DEF OffersHolding, Live, OnOffer
  <2>3. Moved(m, i, "paused") \in {"none", "paused"}
    BY <2>2 DEF Moved, HeldBy
  <2> QED BY <2>1, <2>3
<1>4. CASE m # l /\ m \notin OffersHolding(S)
  <2>1. listingStatus'[m] = listingStatus[m] /\ claim'[m][i] = claim[m][i]
    BY <1>4, OfferWritesOther, OfferWritesClaim
  <2> QED BY <1>1, <2>1
<1> QED BY <1>2, <1>3, <1>4

\* What a listing names after an offer it named before, and the new listing
\* names only what it offers.
LEMMA OfferNames ==
    ASSUME TypeOK, OfferInv, NEW l \in Listing, NEW subj \in Item \cup Lot,
           NEW S \in SUBSET Item, NEW v \in Venue, OfferRows(l, subj, S, v),
           subj \in Item => S = {subj},
           NEW m \in Listing, NEW i \in Item
    PROVE  /\ m # l => (Names(m, i)' <=> Names(m, i))
           /\ m = l => (Names(m, i)' <=> i \in S)
<1>1. CASE m = l
  <2>1. subject'[l] = subj /\ claim'[l][i] = IF i \in S THEN "active" ELSE "none"
    BY OfferWrites, OfferWritesClaim
  <2> QED BY <1>1, <2>1 DEF Names, HeldBy
<1>2. CASE m # l /\ m \in OffersHolding(S)
  <2>1. subject'[m] = subject[m] /\ claim'[m][i] = Moved(m, i, "paused")
    BY <1>2, OfferWritesOther, OfferWritesClaim
  <2> QED BY <1>2, <2>1 DEF Names, Moved, HeldBy
<1>3. CASE m # l /\ m \notin OffersHolding(S)
  <2>1. subject'[m] = subject[m] /\ claim'[m][i] = claim[m][i]
    BY <1>3, OfferWritesOther, OfferWritesClaim
  <2> QED BY <1>3, <2>1 DEF Names
<1> QED BY <1>1, <1>2, <1>3

LEMMA OfferKeepsPaused ==
    ASSUME TypeOK, OfferInv, NEW l \in Listing, NEW subj \in Item \cup Lot,
           NEW S \in SUBSET Item, NEW v \in Venue, OfferRows(l, subj, S, v),
           subj \in Item => S = {subj}
    PROVE  PausedIsWaiting'
<1> SUFFICES ASSUME NEW m \in Listing
             PROVE  IF listingStatus'[m] = "paused"
                    THEN /\ venue'[m] = "store"
                         /\ subject'[m] \in Item
                         /\ pausedBy'[m] \in Listing
                         /\ listingStatus'[pausedBy'[m]] = "active"
                         /\ Names(pausedBy[m], subject[m])'
                    ELSE pausedBy'[m] = NoOne
  BY DEF PausedIsWaiting
<1>1. CASE m = l
  <2>1. listingStatus'[l] = "active" /\ pausedBy'[l] = NoOne
    BY OfferWrites
  <2> QED BY <1>1, <2>1
<1>2. CASE m \in OffersHolding(S)
  <2>1. /\ listingStatus'[m] = "paused" /\ pausedBy'[m] = l
        /\ listingStatus'[l] = "active"
        /\ m # l => subject'[m] = subject[m] /\ venue'[m] = venue[m]
    BY <1>2, OfferWrites, OfferWritesOther
  <2>2. m # l /\ venue[m] = "store" /\ subject[m] \in S
    BY <1>2, Displaced
  <2>3. subject'[l] = subject[m] \/ claim'[l][subject[m]] \in HeldBy
    BY <2>2, OfferNames DEF Names
  <2> QED BY <2>1, <2>2, <2>3 DEF Names
<1>3. CASE m # l /\ m \notin OffersHolding(S) /\ listingStatus[m] = "paused"
  <2> DEFINE p == pausedBy[m]
  <2>1. /\ listingStatus'[m] = "paused" /\ pausedBy'[m] = p
        /\ subject'[m] = subject[m] /\ venue'[m] = venue[m]
    BY <1>3, OfferWritesOther
  <2>2. /\ venue[m] = "store"
        /\ subject[m] \in Item
        /\ p \in Listing
        /\ listingStatus[p] = "active"
        /\ Names(p, subject[m])
    BY <1>3 DEF OfferInv, PausedIsWaiting
  <2> HIDE DEF p
  <2>3. p # l
    BY <2>2 DEF OfferRows
  <2>4. p \notin OffersHolding(S)
    <3> SUFFICES ASSUME p \in OffersHolding(S)
                 PROVE  FALSE
      OBVIOUS
    <3>1. venue[p] = "store" /\ subject[p] \in Item
      BY Displaced
    <3>2. subject[p] = subject[m]
      BY <2>2, <3>1 DEF Names, OfferInv, ClaimsOwnItem
    <3>3. Live(p) /\ Live(m)
      BY <1>3, <2>2 DEF Live, OnOffer
    <3>4. p = m
      BY <2>2, <3>1, <3>2, <3>3 DEF OfferInv, OnePerSubject
    <3> QED BY <1>3, <2>2, <3>4
  <2>5. listingStatus'[p] = "active"
    BY <2>2, <2>3, <2>4, OfferWritesOther
  <2>6. subject'[p] = subject[m] \/ claim'[p][subject[m]] \in HeldBy
    BY <2>2, <2>3, OfferNames, ZenonT(40) DEF Names
  <2> QED BY <2>1, <2>2, <2>5, <2>6 DEF Names
<1>4. CASE m # l /\ m \notin OffersHolding(S) /\ listingStatus[m] # "paused"
  <2>1. listingStatus'[m] = listingStatus[m] /\ pausedBy'[m] = pausedBy[m]
    BY <1>4, OfferWritesOther
  <2>2. pausedBy[m] = NoOne
    BY <1>4 DEF OfferInv, PausedIsWaiting
  <2> QED BY <1>4, <2>1, <2>2
<1> QED BY <1>1, <1>2, <1>3, <1>4

LEMMA OfferKeepsOneOffer ==
    ASSUME TypeOK, OfferInv, NEW l \in Listing, NEW subj \in Item \cup Lot,
           NEW S \in SUBSET Item, NEW v \in Venue, OfferRows(l, subj, S, v),
           subj \in Item => S = {subj}
    PROVE  OneOffer'
<1>1. ASSUME NEW m \in Listing, NEW i \in Item, m # l,
             listingStatus'[m] = "active", Names(m, i)'
      PROVE  listingStatus[m] = "active" /\ m \notin OffersHolding(S) /\ Names(m, i)
  <2>1. m \notin OffersHolding(S) /\ listingStatus[m] = "active"
    BY <1>1, OfferWritesOther
  <2>2. Names(m, i)
    BY <1>1, OfferNames
  <2> QED BY <2>1, <2>2
<1>2. ASSUME NEW m \in Listing, NEW i \in Item, m # l,
             listingStatus'[m] = "active", Names(m, i)', Names(l, i)'
      PROVE  FALSE
  <2>1. i \in S
    BY <1>2, OfferNames
  <2>2. listingStatus[m] = "active" /\ m \notin OffersHolding(S) /\ Names(m, i)
    BY <1>1, <1>2
  <2> QED BY <2>1, <2>2 DEF OffersHolding, Live, OnOffer
<1> SUFFICES ASSUME NEW a \in Listing, NEW b \in Listing, NEW i \in Item,
                    listingStatus'[a] = "active", Names(a, i)',
                    listingStatus'[b] = "active", Names(b, i)'
             PROVE  a = b
  BY DEF OneOffer
<1>3. CASE a # l /\ b # l
  <2>1. /\ listingStatus[a] = "active" /\ Names(a, i)
        /\ listingStatus[b] = "active" /\ Names(b, i)
    BY <1>1, <1>3
  <2> QED BY <2>1 DEF OfferInv, OneOffer
<1>4. CASE a = l /\ b # l
  BY <1>2, <1>4
<1>5. CASE a # l /\ b = l
  BY <1>2, <1>5
<1> QED BY <1>3, <1>4, <1>5

LEMMA OfferKeepsSubjects ==
    ASSUME TypeOK, OfferInv, NEW l \in Listing, NEW subj \in Item \cup Lot,
           NEW S \in SUBSET Item, NEW v \in Venue, OfferRows(l, subj, S, v),
           subj \in Item => S = {subj},
           subj \in Lot => lotStatus[subj] # "offered"
    PROVE  /\ ClaimsOwnItem'
           /\ LiveOffersSomething'
           /\ OnePerSubject'
<1>1. ClaimsOwnItem'
  <2> SUFFICES ASSUME NEW m \in Listing, NEW i \in Item,
                      subject'[m] \in Item, claim'[m][i] \in HeldBy
               PROVE  i = subject'[m]
    BY DEF ClaimsOwnItem
  <2>1. CASE m = l
    <3>1. subject'[l] = subj /\ claim'[l][i] = IF i \in S THEN "active" ELSE "none"
      BY OfferWrites, OfferWritesClaim
    <3> QED BY <2>1, <3>1 DEF HeldBy
  <2>2. CASE m # l
    <3>1. subject'[m] = subject[m]
      BY <2>2, OfferWritesOther
    <3>2. Names(m, i)
      BY <2>2, OfferNames DEF Names
    <3> QED BY <3>1, <3>2 DEF Names, OfferInv, ClaimsOwnItem
  <2> QED BY <2>1, <2>2
<1>2. ASSUME NEW m \in Listing, m # l, listingStatus'[m] \in OnOffer
      PROVE  Live(m) /\ subject'[m] = subject[m] /\ venue'[m] = venue[m]
  <2>1. subject'[m] = subject[m] /\ venue'[m] = venue[m]
    BY <1>2, OfferWritesOther
  <2>2. m \notin OffersHolding(S) => listingStatus'[m] = listingStatus[m]
    BY <1>2, OfferWritesOther
  <2>3. m \in OffersHolding(S) => Live(m)
    BY DEF OffersHolding
  <2> QED BY <1>2, <2>1, <2>2, <2>3 DEF Live
<1>3. subject'[l] = subj /\ venue'[l] = v
  BY OfferWrites
<1>4. LiveOffersSomething'
  <2> SUFFICES ASSUME NEW m \in Listing, listingStatus'[m] \in OnOffer
               PROVE  subject'[m] # NoOne
    BY DEF LiveOffersSomething, Live
  <2>1. CASE m = l
    BY <1>3, <2>1, SubjectsApart
  <2>2. CASE m # l
    BY <1>2, <2>2 DEF OfferInv, LiveOffersSomething
  <2> QED BY <2>1, <2>2
<1>5. ASSUME NEW m \in Listing, m # l, listingStatus'[m] \in OnOffer,
             subject'[m] = subj, subj \in Lot \/ (venue'[m] = "store" /\ v = "store")
      PROVE  FALSE
  <2>1. Live(m) /\ subject[m] = subj /\ venue'[m] = venue[m]
    BY <1>2, <1>5
  <2>2. CASE subj \in Lot
    BY <2>1, <2>2 DEF OfferInv, LotListingHoldsMembers
  <2>3. CASE subj \notin Lot
    <3>1. S = {subj} /\ m \in OffersHolding(S)
      BY <2>1, <2>3 DEF OffersHolding, Names
    <3> QED BY <1>5, <2>3, <3>1, Displaced
  <2> QED BY <2>2, <2>3
<1>6. OnePerSubject'
  <2> SUFFICES ASSUME NEW a \in Listing, NEW b \in Listing,
                      listingStatus'[a] \in OnOffer, listingStatus'[b] \in OnOffer,
                      subject'[a] = subject'[b],
                      \/ subject'[a] \in Lot
                      \/ venue'[a] = "store" /\ venue'[b] = "store"
               PROVE  a = b
    BY DEF OnePerSubject, Live
  <2>1. CASE a # l /\ b # l
    <3>1. /\ Live(a) /\ subject'[a] = subject[a] /\ venue'[a] = venue[a]
          /\ Live(b) /\ subject'[b] = subject[b] /\ venue'[b] = venue[b]
      BY <1>2, <2>1
    <3> QED BY <3>1 DEF OfferInv, OnePerSubject
  <2>2. CASE a = l /\ b # l
    BY <1>3, <1>5, <2>2
  <2>3. CASE a # l /\ b = l
    BY <1>3, <1>5, <2>3
  <2> QED BY <2>1, <2>2, <2>3
<1> QED BY <1>1, <1>4, <1>6

\* What a request that offers `subj`, holding S, writes of the lots: nothing for
\* an item; a lot is assembled, or made of the one coin it offers.
LotTaken(subj, S) ==
    /\ subj \in Item => S = {subj} /\ UNCHANGED lotVars
    /\ subj \in Lot =>
          /\ lotStatus[subj] \in {"absent", "assembling"}
          /\ lotStatus' = [lotStatus EXCEPT ![subj] = "offered"]
          /\ members' = [members EXCEPT ![subj] = S]
          /\ \A k \in Lot : k # subj => members[k] \cap S = {}

LEMMA OfferKeepsLots ==
    ASSUME TypeOK, OfferInv, NEW l \in Listing, NEW subj \in Item \cup Lot,
           NEW S \in SUBSET Item, NEW v \in Venue, OfferRows(l, subj, S, v),
           LotTaken(subj, S)
    PROVE  /\ LotListingHoldsMembers'
           /\ OfferedLotIsListed'
           /\ FinishedLotIsEmpty'
           /\ OneLotPerItem'
<1>1. \A k \in Lot : members'[k] = IF k = subj THEN S ELSE members[k]
  BY SubjectsApart DEF TypeOK, LotTaken, lotVars
<1>2. \A k \in Lot : lotStatus'[k] = IF k = subj THEN "offered" ELSE lotStatus[k]
  BY SubjectsApart DEF TypeOK, LotTaken, lotVars
<1>3. listingStatus'[l] = "active" /\ subject'[l] = subj
  BY OfferWrites
<1>4. LotListingHoldsMembers'
  <2> SUFFICES ASSUME NEW m \in Listing, listingStatus'[m] \in OnOffer, subject'[m] \in Lot
               PROVE  /\ lotStatus'[subject'[m]] = "offered"
                      /\ members'[subject'[m]] = {i \in Item : claim'[m][i] \in HeldBy}
    BY DEF LotListingHoldsMembers, Live
  <2>1. CASE m = l
    <3>1. \A i \in Item : claim'[l][i] \in HeldBy <=> i \in S
      BY OfferWritesClaim DEF HeldBy
    <3>2. subj \in Lot /\ members'[subj] = S
      BY <1>1, <1>3, <2>1
    <3> QED BY <1>2, <1>3, <2>1, <3>1, <3>2
  <2>2. CASE m # l
    <3>1. subject'[m] = subject[m]
      BY <2>2, OfferWritesOther
    <3>2. m \notin OffersHolding(S)
      BY <3>1, Displaced, SubjectsApart
    <3>3. /\ listingStatus'[m] = listingStatus[m]
          /\ \A i \in Item : claim'[m][i] = claim[m][i]
      BY <2>2, <3>2, OfferWritesOther, OfferWritesClaim
    <3>4. /\ lotStatus[subject[m]] = "offered"
          /\ members[subject[m]] = {i \in Item : claim[m][i] \in HeldBy}
      BY <3>1, <3>3 DEF OfferInv, LotListingHoldsMembers, Live
    <3>5. subject[m] # subj
      BY <3>1, <3>4 DEF LotTaken
    <3> QED BY <1>1, <1>2, <3>1, <3>3, <3>4, <3>5
  <2> QED BY <2>1, <2>2
<1>5. OfferedLotIsListed'
  <2> SUFFICES ASSUME NEW k \in Lot, lotStatus'[k] = "offered"
               PROVE  \E m \in Listing : listingStatus'[m] \in OnOffer /\ subject'[m] = k
    BY DEF OfferedLotIsListed, Live
  <2>1. CASE k = subj
    BY <1>3, <2>1 DEF OnOffer
  <2>2. CASE k # subj
    <3>1. PICK m \in Listing : Live(m) /\ subject[m] = k
      BY <1>2, <2>2 DEF OfferInv, OfferedLotIsListed
    <3>2. m # l
      BY <3>1 DEF OfferRows, Live, OnOffer
    <3>3. subject'[m] = subject[m]
      BY <3>2, OfferWritesOther
    <3>4. m \notin OffersHolding(S)
      BY <3>1, Displaced, SubjectsApart
    <3>5. listingStatus'[m] = listingStatus[m]
      BY <3>2, <3>4, OfferWritesOther
    <3> QED BY <3>1, <3>3, <3>5 DEF Live
  <2> QED BY <2>1, <2>2
<1>6. FinishedLotIsEmpty'
  BY <1>1, <1>2 DEF OfferInv, FinishedLotIsEmpty
<1>7. OneLotPerItem'
  BY <1>1 DEF OfferInv, OneLotPerItem, LotTaken
<1> QED BY <1>4, <1>5, <1>6, <1>7

\* Every offer keeps the invariant.
LEMMA OfferKeeps ==
    ASSUME TypeOK, OfferInv, NEW l \in Listing, NEW subj \in Item \cup Lot,
           NEW S \in SUBSET Item, NEW v \in Venue, OfferRows(l, subj, S, v),
           LotTaken(subj, S)
    PROVE  OfferInv'
<1>1. /\ subj \in Item => S = {subj}
      /\ subj \in Lot => lotStatus[subj] # "offered"
  BY DEF LotTaken
<1> QED BY <1>1, OfferKeepsClaims, OfferKeepsPaused, OfferKeepsOneOffer, OfferKeepsSubjects,
           OfferKeepsLots DEF OfferInv

\* The shop's own offers write the lots as an offer must.
LEMMA OfferTakesItem ==
    ASSUME NEW l, NEW i \in Item, NEW v, Offer(l, i, {i}, v), lotStatus' = lotStatus
    PROVE  OfferRows(l, i, {i}, v) /\ LotTaken(i, {i})
BY SubjectsApart DEF Offer, LotTaken, lotVars

LEMMA OfferTakesLot ==
    ASSUME TypeOK, OneLotPerItem, NEW l, NEW k \in Lot, NEW v, Offer(l, k, members[k], v),
           lotStatus[k] = "assembling", lotStatus' = [lotStatus EXCEPT ![k] = "offered"]
    PROVE  OfferRows(l, k, members[k], v) /\ LotTaken(k, members[k])
<1>1. OfferRows(l, k, members[k], v) /\ members' = members
  BY DEF Offer
<1>2. members = [members EXCEPT ![k] = members[k]]
  BY DEF TypeOK
<1>3. \A j \in Lot : j # k => members[j] \cap members[k] = {}
  BY DEF OneLotPerItem
<1> QED BY <1>1, <1>2, <1>3, SubjectsApart DEF LotTaken

-----------------------------------------------------------------------------
(* Every request.                                                          *)

\* Assembling a lot touches no offer.
LEMMA AssemblyKeeps ==
    ASSUME TypeOK, OfferInv, LotRequest
    PROVE  OfferInv'
<1>1. UNCHANGED <<listingStatus, subject, venue, pausedBy, claim>>
  BY DEF LotRequest, CreateLot, DeleteLot, AddMember, RemoveMember, listingVars
<1>2. PICK k \in Lot : \/ CreateLot(k)
                       \/ DeleteLot(k)
                       \/ \E i \in Item : AddMember(k, i) \/ RemoveMember(k, i)
  BY DEF LotRequest
<1> DEFINE OnlyThisLot ==
             /\ lotStatus[k] # "offered" /\ lotStatus'[k] \in {"assembling", "absent"}
             /\ lotStatus'[k] = "absent" => members'[k] = {}
             /\ members'[k] \subseteq members[k] \cup {i \in Item : ~InOpenLot(i)}
             /\ \A j \in Lot : j # k => lotStatus'[j] = lotStatus[j] /\ members'[j] = members[j]
<1>3. OnlyThisLot
  <2>1. CASE CreateLot(k)
    BY <2>1 DEF CreateLot, TypeOK
  <2>2. CASE DeleteLot(k)
    BY <2>2 DEF DeleteLot, Assembling, TypeOK
  <2>3. ASSUME NEW i \in Item, AddMember(k, i)
        PROVE  OnlyThisLot
    BY <2>3 DEF AddMember, Assembling, TypeOK
  <2>4. ASSUME NEW i \in Item, RemoveMember(k, i)
        PROVE  OnlyThisLot
    BY <2>4 DEF RemoveMember, Assembling, TypeOK
  <2> QED BY <1>2, <2>1, <2>2, <2>3, <2>4
<1>4. /\ ClaimFollowsListing' /\ PausedIsWaiting' /\ OneOffer' /\ ClaimsOwnItem'
      /\ LiveOffersSomething' /\ OnePerSubject'
  BY <1>1 DEF OfferInv, ClaimFollowsListing, PausedIsWaiting, OneOffer, ClaimsOwnItem,
              LiveOffersSomething, OnePerSubject, Live, Names
<1>5. LotListingHoldsMembers'
  <2> SUFFICES ASSUME NEW l \in Listing, Live(l), subject[l] \in Lot
               PROVE  /\ lotStatus'[subject[l]] = "offered"
                      /\ members'[subject[l]] = {i \in Item : claim[l][i] \in HeldBy}
    BY <1>1 DEF LotListingHoldsMembers, Live
  <2>1. /\ lotStatus[subject[l]] = "offered"
        /\ members[subject[l]] = {i \in Item : claim[l][i] \in HeldBy}
    BY DEF OfferInv, LotListingHoldsMembers
  <2> QED BY <1>3, <2>1
<1>6. OfferedLotIsListed'
  BY <1>1, <1>3 DEF OfferInv, OfferedLotIsListed, Live
<1>7. FinishedLotIsEmpty'
  BY <1>3 DEF OfferInv, FinishedLotIsEmpty
<1>8. OneLotPerItem'
  BY <1>3 DEF OfferInv, OneLotPerItem, InOpenLot
<1> QED BY <1>4, <1>5, <1>6, <1>7, <1>8 DEF OfferInv

LEMMA UntouchedKeeps ==
    ASSUME OfferInv, UNCHANGED offerVars
    PROVE  OfferInv'
BY DEF offerVars, OfferInv, ClaimFollowsListing, PausedIsWaiting, OneOffer, ClaimsOwnItem,
       LiveOffersSomething, OnePerSubject, LotListingHoldsMembers, OfferedLotIsListed,
       FinishedLotIsEmpty, OneLotPerItem, Live, Names

\* Ending an ended listing again finds no claim to release: one that still
\* held an item would be a live listing's, and the item would not come home.
LEMMA EndingAgainKeeps ==
    ASSUME TypeOK, ClaimFollowsListing, NEW l \in Listing, EndListingAgain(l)
    PROVE  UNCHANGED offerVars
<1> DEFINE home == ComingHome({l}, FALSE, disposition)
<1>1. ASSUME NEW m \in Listing, NEW i \in Item, claim[m][i] \in HeldBy
      PROVE  i \notin home
  <2>1. listingStatus[m] \in OnOffer /\ m # l
    BY <1>1 DEF ClaimFollowsListing, HeldBy, OnOffer, EndListingAgain
  <2>2. StatusAfter({l}, FALSE)[m] \in OnOffer
    BY <2>1 DEF StatusAfter, Closing, Resuming, OnOffer
  <2>3. ClaimAfter({l}, FALSE)[m][i] \in HeldBy
    BY <1>1, <2>1 DEF ClaimAfter, Closing, Resuming, Moved, HeldBy
  <2> QED BY <2>2, <2>3 DEF ComingHome, StillOffered
<1> HIDE DEF home
<1>2. claim' = [m \in Listing |-> [i \in Item |->
          IF i \in home /\ claim[m][i] \in HeldBy THEN "released" ELSE claim[m][i]]]
  BY DEF EndListingAgain, home
<1>3. claim' = [m \in Listing |-> [i \in Item |-> claim[m][i]]]
  BY <1>1, <1>2
<1>4. claim' = claim
  BY <1>3 DEF TypeOK
<1> QED BY <1>4 DEF EndListingAgain, lotVars, offerVars

\* A request that may write a listing either ends live listings, offers one, or
\* leaves every offer and every lot alone.
LEMMA ListingWriters ==
    ASSUME TypeOK, ClaimFollowsListing, OfferRequest \/ OrderRequest \/ ItemRequest
    PROVE  \/ \E E \in SUBSET Listing, sold \in BOOLEAN, filed \in [Item -> Disposition] :
                 /\ \A l \in E : Live(l)
                 /\ EndOffers(E, sold, filed)
                 /\ UNCHANGED <<subject, venue>>
           \/ \E l \in Listing, i \in Item, v \in Venue :
                 Offer(l, i, {i}, v) /\ lotStatus' = lotStatus
           \/ \E l \in Listing, k \in Lot, v \in Venue :
                 /\ Offer(l, k, members[k], v)
                 /\ lotStatus[k] = "assembling"
                 /\ lotStatus' = [lotStatus EXCEPT ![k] = "offered"]
           \/ UNCHANGED offerVars
<1> DEFINE Ends == \E E \in SUBSET Listing, sold \in BOOLEAN, filed \in [Item -> Disposition] :
                       /\ \A l \in E : Live(l)
                       /\ EndOffers(E, sold, filed)
                       /\ UNCHANGED <<subject, venue>>
<1>1. ASSUME NEW l \in Listing, EndListing(l)
      PROVE  Ends
  <2>1. /\ {l} \in SUBSET Listing /\ \A m \in {l} : Live(m)
        /\ disposition \in [Item -> Disposition]
        /\ EndOffers({l}, FALSE, disposition) /\ UNCHANGED <<subject, venue>>
    BY <1>1 DEF EndListing, TypeOK
  <2> QED BY <2>1
<1>2. ASSUME NEW o \in Order, NEW L \in SUBSET Listing, PlaceOrder(o, L)
      PROVE  Ends
  <2>1. /\ LotsSoldOut(L) \in SUBSET Listing /\ \A m \in LotsSoldOut(L) : Live(m)
        /\ Filed(L, {}) \in [Item -> Disposition]
        /\ EndOffers(LotsSoldOut(L), TRUE, Filed(L, {})) /\ UNCHANGED <<subject, venue>>
    BY <1>2, FiledType DEF PlaceOrder, NewOrder, MoveLines, OnSaleInShop, LotsSoldOut,
                           SoldOutBy, SellableInShop, Live, OnOffer
  <2> QED BY <2>1
<1>3. ASSUME NEW o \in Order, NEW l \in Listing, RecordSale(o, l)
      PROVE  Ends
  <2>1. /\ {l} \in SUBSET Listing /\ \A m \in {l} : Live(m)
        /\ Filed({l}, {}) \in [Item -> Disposition]
        /\ EndOffers({l}, TRUE, Filed({l}, {})) /\ UNCHANGED <<subject, venue>>
    BY <1>3, FiledType DEF RecordSale, NewOrder, MoveLines, Live, OnOffer
  <2> QED BY <2>1
<1>4. ASSUME NEW o \in Order, NEW L \in SUBSET Listing, ReviseOrder(o, L)
      PROVE  Ends
  <2> DEFINE taken == L \ Lines(o)
             given == Lines(o) \ L
  <2>1. /\ \A l \in taken : SellableInShop(l)
        /\ EndOffers(LotsSoldOut(taken), TRUE, Filed(taken, given))
        /\ UNCHANGED <<subject, venue>>
    BY <1>4 DEF ReviseOrder, MayMove, MoveLines, OnSaleInShop
  <2>2. taken \in SUBSET Listing
    OBVIOUS
  <2> HIDE DEF taken, given
  <2>3. /\ LotsSoldOut(taken) \in SUBSET Listing /\ \A m \in LotsSoldOut(taken) : Live(m)
        /\ Filed(taken, given) \in [Item -> Disposition]
    BY <2>1, <2>2, FiledType DEF LotsSoldOut, SoldOutBy, SellableInShop, Live, OnOffer
  <2> QED BY <2>1, <2>3
<1>5. ASSUME NEW i \in Item, RecordLoss(i)
      PROVE  Ends
  <2>1. /\ OffersHolding({i}) \in SUBSET Listing /\ \A m \in OffersHolding({i}) : Live(m)
        /\ disposition \in [Item -> Disposition]
        /\ EndOffers(OffersHolding({i}), FALSE, disposition) /\ UNCHANGED <<subject, venue>>
    BY <1>5 DEF RecordLoss, OffersHolding, TypeOK
  <2> QED BY <2>1
<1>6. ASSUME NEW i \in Item, NEW s \in {"received", "away"}, NEW d \in Dispositions,
             EditStanding(i, s, d)
      PROVE  Ends
  <2>1. /\ OffersHolding({i}) \in SUBSET Listing /\ \A m \in OffersHolding({i}) : Live(m)
        /\ [disposition EXCEPT ![i] = d] \in [Item -> Disposition]
        /\ EndOffers(OffersHolding({i}), FALSE, [disposition EXCEPT ![i] = d])
        /\ UNCHANGED <<subject, venue>>
    BY <1>6, RequestsNameRealCodes DEF EditStanding, WriteStanding, OffersHolding, TypeOK
  <2> QED BY <2>1
<1>7. ASSUME NEW i \in Item, SplitItem(i)
      PROVE  Ends
  <2> DEFINE E == {l \in Listing : subject[l] = i /\ Live(l)}
  <2>1. /\ E \in SUBSET Listing /\ \A m \in E : Live(m)
        /\ disposition \in [Item -> Disposition]
        /\ EndOffers(E, FALSE, disposition) /\ UNCHANGED <<subject, venue>>
    BY <1>7 DEF SplitItem, TypeOK
  <2> HIDE DEF E
  <2> QED BY <2>1
<1>8. ASSUME NEW o \in Order, NEW to \in Statuses, SetOrderStatus(o, to)
      PROVE  UNCHANGED offerVars
  BY <1>8 DEF SetOrderStatus, ApplyStatus, lotVars, offerVars
<1>9. ASSUME NEW i \in Item, ReceiveItem(i) \/ DeleteItem(i)
      PROVE  UNCHANGED offerVars
  BY <1>9 DEF ReceiveItem, DeleteItem, listingVars, lotVars, offerVars
<1>10. ASSUME NEW l \in Listing, NEW i \in Item, NEW v \in Platforms, OfferItem(l, i, v)
       PROVE  v \in Venue /\ Offer(l, i, {i}, v) /\ lotStatus' = lotStatus
  BY <1>10, RequestsNameRealCodes DEF OfferItem
<1>11. ASSUME NEW l \in Listing, NEW k \in Lot, NEW v \in Platforms, OfferLot(l, k, v)
       PROVE  /\ v \in Venue
              /\ Offer(l, k, members[k], v)
              /\ lotStatus[k] = "assembling"
              /\ lotStatus' = [lotStatus EXCEPT ![k] = "offered"]
  BY <1>11, RequestsNameRealCodes DEF OfferLot
<1> HIDE DEF Ends
<1>12. CASE OfferRequest
  <2>1. ASSUME NEW l \in Listing, EndListingAgain(l)
        PROVE  UNCHANGED offerVars
    BY <2>1, EndingAgainKeeps
  <2> QED BY <1>1, <1>10, <1>11, <1>12, <2>1 DEF OfferRequest, Ends
<1>13. CASE OrderRequest
  <2>1. Ends \/ UNCHANGED offerVars
    BY <1>2, <1>3, <1>4, <1>8, <1>13 DEF OrderRequest
  <2> QED BY <2>1 DEF Ends
<1>14. CASE ItemRequest
  <2>1. Ends \/ UNCHANGED offerVars
    BY <1>5, <1>6, <1>7, <1>9, <1>14 DEF ItemRequest
  <2> QED BY <2>1 DEF Ends
<1> QED BY <1>12, <1>13, <1>14

LEMMA OfferStep ==
    ASSUME TypeOK, OfferInv, [Next]_vars
    PROVE  OfferInv'
<1>1. CASE LotRequest
  BY <1>1, AssemblyKeeps
<1>2. CASE OfferRequest \/ OrderRequest \/ ItemRequest
  <2> ClaimFollowsListing
    BY DEF OfferInv
  <2>1. ASSUME NEW E \in SUBSET Listing, NEW sold \in BOOLEAN, NEW filed \in [Item -> Disposition],
               \A l \in E : Live(l), EndOffers(E, sold, filed), UNCHANGED <<subject, venue>>
        PROVE  OfferInv'
    BY <2>1, EndingKeeps
  <2>2. ASSUME NEW l \in Listing, NEW i \in Item, NEW v \in Venue,
               Offer(l, i, {i}, v), lotStatus' = lotStatus
        PROVE  OfferInv'
    <3>1. i \in Item \cup Lot /\ {i} \in SUBSET Item
      OBVIOUS
    <3>2. OfferRows(l, i, {i}, v) /\ LotTaken(i, {i})
      BY <2>2, OfferTakesItem
    <3> QED BY <3>1, <3>2, OfferKeeps
  <2>3. ASSUME NEW l \in Listing, NEW k \in Lot, NEW v \in Venue,
               Offer(l, k, members[k], v), lotStatus[k] = "assembling",
               lotStatus' = [lotStatus EXCEPT ![k] = "offered"]
        PROVE  OfferInv'
    <3>1. k \in Item \cup Lot /\ members[k] \in SUBSET Item
      BY DEF TypeOK
    <3>2. OfferRows(l, k, members[k], v) /\ LotTaken(k, members[k])
      BY <2>3, OfferTakesLot DEF OfferInv
    <3> QED BY <3>1, <3>2, OfferKeeps
  <2> QED BY <1>2, <2>1, <2>2, <2>3, ListingWriters, UntouchedKeeps
<1>3. CASE UNCHANGED vars
  <2>1. UNCHANGED offerVars
    BY <1>3 DEF vars, listingVars, lotVars, offerVars
  <2> QED BY <2>1, UntouchedKeeps
<1> QED BY <1>1, <1>2, <1>3 DEF Next

LEMMA OfferInit ==
    ASSUME Init
    PROVE  OfferInv
<1>1. \A l \in Listing : Live(l) <=> IsOld(l)
  BY DEF Init, Live, OnOffer
<1>2. \A l \in Listing, i \in Item : claim[l][i] = "none" /\ (Names(l, i) <=> OldListing[l] = i)
  BY DEF Init, Names, HeldBy
<1>3. \A l \in Listing : OldListing[l] \in Item \cup {NoOne} /\ subject[l] = OldListing[l]
  BY OldListingsApart DEF Init
<1>4. \A l \in Listing : listingStatus[l] # "paused" /\ pausedBy[l] = NoOne
  BY DEF Init
<1>5. \A k \in Lot : lotStatus[k] = "absent" /\ members[k] = {}
  BY DEF Init
<1>6. ClaimFollowsListing
  BY <1>2 DEF ClaimFollowsListing
<1>7. PausedIsWaiting
  BY <1>4 DEF PausedIsWaiting
<1>8. OneOffer
  <2> SUFFICES ASSUME NEW l \in Listing, NEW m \in Listing, NEW i \in Item,
                      Names(l, i), Names(m, i)
               PROVE  l = m
    BY DEF OneOffer
  <2>1. OldListing[l] = i /\ OldListing[m] = i /\ i # NoOne
    BY <1>2, SubjectsApart
  <2> QED BY <2>1, OldListingsApart
<1>9. ClaimsOwnItem
  BY <1>2 DEF ClaimsOwnItem, HeldBy
<1>10. LiveOffersSomething
  BY <1>1, <1>3 DEF LiveOffersSomething, IsOld
<1>11. OnePerSubject
  BY <1>1, <1>3, OldListingsApart DEF OnePerSubject, IsOld
<1>12. LotListingHoldsMembers
  BY <1>3, SubjectsApart DEF LotListingHoldsMembers
<1>13. OfferedLotIsListed
  BY <1>5 DEF OfferedLotIsListed
<1>14. FinishedLotIsEmpty
  BY <1>5 DEF FinishedLotIsEmpty
<1>15. OneLotPerItem
  BY <1>5 DEF OneLotPerItem
<1> QED BY <1>6, <1>7, <1>8, <1>9, <1>10, <1>11, <1>12, <1>13, <1>14, <1>15 DEF OfferInv

\* The inductive invariant of the offers and the lots holds of every reachable
\* database, whatever the requests and their order.
THEOREM OffersAgree == Spec => []OfferInv
<1>1. Init => TypeOK /\ OfferInv
  BY TypeInit, OfferInit
<1>2. TypeOK /\ OfferInv /\ [Next]_vars => (TypeOK /\ OfferInv)'
  BY TypeStep, OfferStep
<1> QED BY <1>1, <1>2, PTL DEF Spec

\* A coin is on sale in at most one place (offering_writes.py, offer and _end).
THEOREM OneOfferHolds == Spec => []OneOffer
<1>1. OfferInv => OneOffer
  BY DEF OfferInv
<1> QED BY <1>1, OffersAgree, PTL

\* The claims of a listing say what its status says (offering_writes.py,
\* _set_status and _move_claims).
THEOREM ClaimFollowsListingHolds == Spec => []ClaimFollowsListing
<1>1. OfferInv => ClaimFollowsListing
  BY DEF OfferInv
<1> QED BY <1>1, OffersAgree, PTL

\* A listing set aside is set aside for a listing that is up and names its item,
\* so some ending will bring it back or end it (offering_writes.py,
\* _store_listings_to_pause and _end).
THEOREM PausedIsWaitingHolds == Spec => []PausedIsWaiting
<1>1. OfferInv => PausedIsWaiting
  BY DEF OfferInv
<1> QED BY <1>1, OffersAgree, PTL

\* A lot, its memberships and its one listing agree (lot_writes.py against
\* offering_writes.py, _end).
THEOREM LotMatchesOfferHolds == Spec => []LotMatchesOffer
<1>1. OfferInv => LotMatchesOffer
  <2> SUFFICES ASSUME OfferInv
               PROVE  LotMatchesOffer
    OBVIOUS
  <2>1. ASSUME NEW k \in Lot
        PROVE  LET live == {l \in Listing : Live(l) /\ subject[l] = k}
               IN  /\ lotStatus[k] = "offered" => Cardinality(live) = 1
                   /\ lotStatus[k] # "offered" => live = {}
                   /\ \A l \in live : members[k] = {i \in Item : claim[l][i] \in HeldBy}
                   /\ lotStatus[k] \in {"absent", "sold", "dissolved"} => members[k] = {}
    <3> DEFINE live == {l \in Listing : Live(l) /\ subject[l] = k}
    <3>1. lotStatus[k] = "offered" => Cardinality(live) = 1
      <4> SUFFICES ASSUME lotStatus[k] = "offered"
                   PROVE  Cardinality(live) = 1
        OBVIOUS
      <4>1. PICK l \in Listing : Live(l) /\ subject[l] = k
        BY DEF OfferInv, OfferedLotIsListed
      <4>2. live = {l}
        BY <4>1 DEF OfferInv, OnePerSubject
      <4> QED BY <4>2, FS_Singleton
    <3>2. lotStatus[k] # "offered" => live = {}
      BY DEF OfferInv, LotListingHoldsMembers
    <3>3. \A l \in live : members[k] = {i \in Item : claim[l][i] \in HeldBy}
      BY DEF OfferInv, LotListingHoldsMembers
    <3>4. lotStatus[k] \in {"absent", "sold", "dissolved"} => members[k] = {}
      BY DEF OfferInv, FinishedLotIsEmpty
    <3> QED BY <3>1, <3>2, <3>3, <3>4
  <2>2. \A j, k \in Lot : j # k => members[j] \cap members[k] = {}
    BY DEF OfferInv, OneLotPerItem
  <2> QED BY <2>1, <2>2 DEF LotMatchesOffer
<1> QED BY <1>1, OffersAgree, PTL

-----------------------------------------------------------------------------
(* What no request undoes.                                                 *)

LEMMA EndingIsFinal ==
    ASSUME TypeOK, OfferInv, NEW E \in SUBSET Listing, NEW sold \in BOOLEAN, NEW filed,
           \A l \in E : Live(l),
           EndOffers(E, sold, filed), UNCHANGED <<subject, venue>>,
           NEW l \in Listing, listingStatus[l] = "ended"
    PROVE  listingStatus'[l] = "ended" /\ claim'[l] = claim[l]
<1>1. l \notin Closing(E, sold) \cup Resuming(E, sold)
  BY DEF Closing, Resuming, PausedBy, Live, OnOffer
<1>2. listingStatus'[l] = "ended"
  BY <1>1, EndingStatus
<1>3. ASSUME NEW i \in Item
      PROVE  claim'[l][i] = claim[l][i]
  <2>1. ClaimAfter(E, sold)[l][i] = claim[l][i]
    BY <1>1 DEF ClaimAfter
  <2>2. claim[l][i] \notin HeldBy
    BY DEF OfferInv, ClaimFollowsListing, HeldBy
  <2> QED BY <2>1, <2>2, EndingClaim
<1>4. claim'[l] = [i \in Item |-> claim'[l][i]]
  BY DEF EndOffers
<1>5. claim[l] = [i \in Item |-> claim[l][i]]
  BY DEF TypeOK
<1> QED BY <1>2, <1>3, <1>4, <1>5

LEMMA OfferIsFinal ==
    ASSUME TypeOK, OfferInv, NEW l \in Listing, NEW subj \in Item \cup Lot,
           NEW S \in SUBSET Item, NEW v \in Venue, OfferRows(l, subj, S, v),
           NEW m \in Listing, listingStatus[m] = "ended"
    PROVE  listingStatus'[m] = "ended" /\ claim'[m] = claim[m]
<1>1. m # l /\ m \notin OffersHolding(S)
  BY DEF OfferRows, OffersHolding, Live, OnOffer
<1>2. listingStatus'[m] = "ended"
  BY <1>1, OfferWritesOther
<1>3. claim'[m] = [i \in Item |-> claim[m][i]]
  BY <1>1 DEF OfferRows
<1>4. claim[m] \in [Item -> ClaimState]
  BY DEF TypeOK
<1> QED BY <1>2, <1>3, <1>4

\* An ended offer is never revived and its claims never hold an item again
\* (offering_writes.py, _set_status and _move_claims).
THEOREM EndedIsFinalHolds == Spec => EndedIsFinal
<1>1. ASSUME TypeOK, OfferInv, [Next]_vars, NEW l \in Listing, listingStatus[l] = "ended"
      PROVE  listingStatus'[l] = "ended" /\ claim'[l] = claim[l]
  <2>1. CASE LotRequest
    <3>1. UNCHANGED <<listingStatus, claim>>
      BY <2>1 DEF LotRequest, CreateLot, DeleteLot, AddMember, RemoveMember, listingVars
    <3> QED BY <1>1, <3>1
  <2>2. CASE OfferRequest \/ OrderRequest \/ ItemRequest
    <3> ClaimFollowsListing
      BY <1>1 DEF OfferInv
    <3>1. CASE UNCHANGED offerVars
      BY <1>1, <3>1 DEF offerVars
    <3>2. ASSUME NEW m \in Listing, NEW k \in Lot, NEW v \in Venue, Offer(m, k, members[k], v)
          PROVE  listingStatus'[l] = "ended" /\ claim'[l] = claim[l]
      <4>1. k \in Item \cup Lot /\ members[k] \in SUBSET Item
        BY <1>1 DEF TypeOK
      <4> QED BY <1>1, <3>2, <4>1, OfferIsFinal DEF Offer
    <3>3. ASSUME NEW m \in Listing, NEW i \in Item, NEW v \in Venue, Offer(m, i, {i}, v)
          PROVE  listingStatus'[l] = "ended" /\ claim'[l] = claim[l]
      <4>1. i \in Item \cup Lot /\ {i} \in SUBSET Item
        OBVIOUS
      <4> QED BY <1>1, <3>3, <4>1, OfferIsFinal DEF Offer
    <3> QED BY <1>1, <2>2, <3>1, <3>2, <3>3, ListingWriters, EndingIsFinal
  <2>3. CASE UNCHANGED vars
    BY <1>1, <2>3 DEF vars, listingVars
  <2> QED BY <1>1, <2>1, <2>2, <2>3 DEF Next
<1>2. TypeOK /\ OfferInv /\ [Next]_vars =>
          [\A l \in Listing : listingStatus[l] = "ended" =>
               /\ listingStatus'[l] = "ended"
               /\ claim'[l] = claim[l]]_vars
  BY <1>1
<1> QED BY <1>2, TypeCorrect, OffersAgree, PTL DEF Spec, EndedIsFinal

\* A finished lot keeps the fate it had: only a live listing decides it, and a
\* finished lot has none (offering_writes.py, _end).
THEOREM LotFateIsFinalHolds == Spec => LotFateIsFinal
<1>1. ASSUME TypeOK, OfferInv, [Next]_vars, NEW k \in Lot, lotStatus[k] \in {"sold", "dissolved"}
      PROVE  lotStatus'[k] = lotStatus[k]
  <2>1. CASE LotRequest
    <3>1. PICK j \in Lot : \/ CreateLot(j)
                           \/ DeleteLot(j)
                           \/ \E i \in Item : AddMember(j, i) \/ RemoveMember(j, i)
      BY <2>1 DEF LotRequest
    <3>2. CASE CreateLot(j)
      BY <1>1, <3>2 DEF CreateLot, TypeOK
    <3>3. CASE DeleteLot(j)
      BY <1>1, <3>3 DEF DeleteLot, Assembling, TypeOK
    <3>4. CASE \E i \in Item : AddMember(j, i) \/ RemoveMember(j, i)
      BY <1>1, <3>4 DEF AddMember, RemoveMember
    <3> QED BY <3>1, <3>2, <3>3, <3>4
  <2>2. CASE OfferRequest \/ OrderRequest \/ ItemRequest
    <3> ClaimFollowsListing
      BY <1>1 DEF OfferInv
    <3>1. ASSUME NEW E \in SUBSET Listing, NEW sold \in BOOLEAN, NEW filed,
                 \A l \in E : Live(l), EndOffers(E, sold, filed)
          PROVE  lotStatus'[k] = lotStatus[k]
      <4>1. \A l \in E : subject[l] # k
        BY <1>1, <3>1 DEF OfferInv, LotListingHoldsMembers
      <4> QED BY <3>1, <4>1 DEF EndOffers
    <3>2. CASE UNCHANGED offerVars
      BY <3>2 DEF offerVars
    <3>3. ASSUME NEW j \in Lot, lotStatus[j] = "assembling",
                 lotStatus' = [lotStatus EXCEPT ![j] = "offered"]
          PROVE  lotStatus'[k] = lotStatus[k]
      BY <1>1, <3>3 DEF TypeOK
    <3> QED BY <1>1, <2>2, <3>1, <3>2, <3>3, ListingWriters
  <2>3. CASE UNCHANGED vars
    BY <2>3 DEF vars, lotVars
  <2> QED BY <1>1, <2>1, <2>2, <2>3 DEF Next
<1>2. TypeOK /\ OfferInv /\ [Next]_vars =>
          [\A k \in Lot : lotStatus[k] \in {"sold", "dissolved"} =>
               lotStatus'[k] = lotStatus[k]]_vars
  BY <1>1
<1> QED BY <1>2, TypeCorrect, OffersAgree, PTL DEF Spec, LotFateIsFinal
==============================================================================
