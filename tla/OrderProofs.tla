------------------------------ MODULE OrderProofs ------------------------------
(***************************************************************************)
(* Stock is conserved, a promised coin is not for sale, and stock goes     *)
(* back once, proved for every set of items, listings, lots and orders.    *)
(* A request is one of four things to an order's rows: it leaves them and  *)
(* the shelves alone, it offers something, it moves lines (a sale or a     *)
(* revision), or it sets a status.                                         *)
(***************************************************************************)
EXTENDS OfferProofs

-----------------------------------------------------------------------------
(* What a listing sells.                                                   *)

LEMMA WhatIsOffered ==
    ASSUME NEW l \in Listing
    PROVE  /\ subject[l] \in Item => OfferedItems(l) = {subject[l]}
           /\ subject[l] \in Lot => OfferedItems(l) = members[subject[l]]
BY SubjectsApart DEF OfferedItems

\* A live listing sells the items it names.
LEMMA OfferedIsNamed ==
    ASSUME TypeOK, OfferInv, NEW l \in Listing, Live(l), NEW i \in Item
    PROVE  i \in OfferedItems(l) <=> Names(l, i)
<1>1. CASE subject[l] \in Item
  <2>1. OfferedItems(l) = {subject[l]}
    BY <1>1, WhatIsOffered
  <2>2. claim[l][i] \in HeldBy => i = subject[l]
    BY <1>1 DEF OfferInv, ClaimsOwnItem
  <2> QED BY <2>1, <2>2 DEF Names
<1>2. CASE subject[l] \in Lot
  <2>1. subject[l] \notin Item /\ subject[l] # i
    BY <1>2, SubjectsApart
  <2>2. OfferedItems(l) = members[subject[l]]
    BY <1>2, WhatIsOffered
  <2>3. members[subject[l]] = {j \in Item : claim[l][j] \in HeldBy}
    BY <1>2 DEF OfferInv, LotListingHoldsMembers
  <2> QED BY <2>1, <2>2, <2>3 DEF Names
<1>3. subject[l] \in Item \cup Lot
  BY DEF TypeOK, OfferInv, LiveOffersSomething
<1> QED BY <1>1, <1>2, <1>3

\* It sells something.
LEMMA LiveOffersACoin ==
    ASSUME TypeOK, OfferInv, OfferedLotHasMembers, NEW l \in Listing, Live(l)
    PROVE  OfferedItems(l) # {}
<1>1. subject[l] \in Item \cup Lot
  BY DEF TypeOK, OfferInv, LiveOffersSomething
<1>2. subject[l] \in Lot => members[subject[l]] # {}
  BY DEF OfferInv, LotListingHoldsMembers, OfferedLotHasMembers
<1> QED BY <1>1, <1>2, WhatIsOffered

\* The listings a sale leaves on offer sell no coin of those it sold from: one
\* set aside for a sold listing of the coin is closed with it.
LEMMA SaleClosesCoins ==
    ASSUME TypeOK, OfferInv, NEW T \in SUBSET Listing, NEW E \in SUBSET T, NEW filed,
           \A l \in T : listingStatus[l] = "active",
           \A l \in T \ E : subject[l] \in Item /\ venue[l] = "store",
           EndOffers(E, TRUE, filed),
           NEW l \in T, NEW m \in Listing \ T, listingStatus'[m] \in OnOffer,
           NEW i \in Item, i \in OfferedItems(l)
    PROVE  i \notin OfferedItems(m)
<1> SUFFICES ASSUME i \in OfferedItems(m)
             PROVE  FALSE
  OBVIOUS
<1>1. Live(m) /\ m \notin E \cup PausedBy(E)
  <2>1. E \in SUBSET Listing
    OBVIOUS
  <2>2. listingStatus[m] \in OnOffer /\ m \notin Closing(E, TRUE)
    BY <2>1, EndingNeverRevives
  <2> QED BY <2>2 DEF Live, Closing
<1>2. Live(l) /\ listingStatus[l] = "active" /\ l \in Listing
  BY DEF Live, OnOffer
<1>3. Names(l, i) /\ Names(m, i)
  BY <1>1, <1>2, OfferedIsNamed
<1>4. listingStatus[m] # "active"
  BY <1>2, <1>3 DEF OfferInv, OneOffer
<1>5. listingStatus[m] = "paused"
  BY <1>1, <1>4 DEF Live, OnOffer
<1> DEFINE p == pausedBy[m]
<1>6. /\ venue[m] = "store"
      /\ subject[m] \in Item
      /\ p \in Listing /\ listingStatus[p] = "active" /\ Names(p, subject[m])
  BY <1>5 DEF OfferInv, PausedIsWaiting
<1>7. subject[m] = i
  BY <1>3, <1>6 DEF Names, OfferInv, ClaimsOwnItem
<1>8. p = l
  BY <1>2, <1>3, <1>6, <1>7 DEF OfferInv, OneOffer
<1>9. l \notin E
  BY <1>1, <1>5, <1>8 DEF PausedBy
<1>10. subject[l] = i /\ venue[l] = "store"
  BY <1>3, <1>9 DEF Names, OfferInv, ClaimsOwnItem
<1>11. l = m
  BY <1>1, <1>2, <1>6, <1>7, <1>10 DEF OfferInv, OnePerSubject
<1> QED BY <1>11

-----------------------------------------------------------------------------
(* Requests that move no stock.                                            *)

\* A request that writes no order and no stock, revives nothing and adds
\* nothing to what a listing sells.
LEMMA QuietKeeps ==
    ASSUME TypeOK, OrderInv, UNCHANGED <<quantity, subject, orderVars>>,
           \A l \in Listing :
               /\ listingStatus[l] = "ended" => listingStatus'[l] = "ended"
               /\ listingStatus'[l] = "unused" <=> listingStatus[l] = "unused"
               /\ listingStatus'[l] = "paused" => listingStatus[l] = "paused"
               /\ listingStatus'[l] \in OnOffer => Live(l),
           \A l \in Listing : subject[l] \in Lot /\ listingStatus'[l] \in OnOffer =>
               members'[subject[l]] \subseteq members[subject[l]],
           OfferedLotHasMembers'
    PROVE  OrderInv'
<1>1. LinesAreSold'
  BY DEF OrderInv, LinesAreSold, orderVars
<1>2. PlacedHasLines' /\ LeavingIsKnown' /\ ReturnedStaysClosed' /\ ReturnedNeverLeft'
      /\ RefundTellsItsStock'
  BY DEF OrderInv, PlacedHasLines, LeavingIsKnown, ReturnedStaysClosed, ReturnedNeverLeft,
         RefundTellsItsStock, HasLeft, orderVars
<1>3. HeldStockIsNotPaused'
  BY DEF OrderInv, HeldStockIsNotPaused, OrdersHoldingStock, HoldsStock, Lines, orderVars
<1>4. UnitInOnePlace'
  BY DEF OrderInv, UnitInOnePlace, orderVars
<1>5. LinesApart' /\ PromisedOnce'
  BY DEF OrderInv, LinesApart, PromisedOnce, Holds, HoldsStock, HasLeft, orderVars
<1>6. PromisedIsNotForSale'
  <2> SUFFICES ASSUME NEW o \in Order, NEW l \in Listing, NEW m \in Listing,
                      Holds(o), listingStatus'[m] \in OnOffer, quantity[m] > 0
               PROVE  OfferedItems(m)' \cap share[o][l] = {}
    BY DEF PromisedIsNotForSale, Holds, HoldsStock, HasLeft, Live, orderVars
  <2>1. Live(m)
    OBVIOUS
  <2>2. OfferedItems(m)' \subseteq OfferedItems(m)
    BY SubjectsApart DEF OfferedItems
  <2>3. OfferedItems(m) \cap share[o][l] = {}
    BY <2>1 DEF OrderInv, PromisedIsNotForSale
  <2> QED BY <2>2, <2>3
<1> QED BY <1>1, <1>2, <1>3, <1>4, <1>5, <1>6 DEF OrderInv

\* An ending that is no sale moves no stock.
LEMMA EndingIsQuiet ==
    ASSUME TypeOK, OfferInv, OrderInv, NEW E \in SUBSET Listing, NEW filed,
           \A l \in E : Live(l), EndOffers(E, FALSE, filed),
           UNCHANGED <<subject, venue, quantity, orderVars>>
    PROVE  OrderInv'
<1>1. ASSUME NEW l \in Listing
      PROVE  /\ listingStatus[l] = "ended" => listingStatus'[l] = "ended"
             /\ listingStatus'[l] = "unused" <=> listingStatus[l] = "unused"
             /\ listingStatus'[l] = "paused" => listingStatus[l] = "paused"
             /\ listingStatus'[l] \in OnOffer => Live(l)
  <2>1. listingStatus'[l] \in OnOffer => Live(l)
    BY EndingNeverRevives DEF Live
  <2>2. listingStatus[l] = "ended" => listingStatus'[l] = "ended"
    BY EndingIsFinal
  <2>3. listingStatus'[l] = "paused" => listingStatus[l] = "paused"
    BY EndingPaused
  <2>4. listingStatus'[l] = "unused" <=> listingStatus[l] = "unused"
    BY EndingStatus DEF Closing, Resuming, PausedBy, Live, OnOffer
  <2> QED BY <2>1, <2>2, <2>3, <2>4
<1>2. \A k \in Lot : members'[k] \subseteq members[k]
  BY DEF EndOffers
<1>3. OfferedLotHasMembers'
  BY DEF EndOffers, OrderInv, OfferedLotHasMembers
<1> QED BY <1>1, <1>2, <1>3, QuietKeeps

-----------------------------------------------------------------------------
(* A sale, or a revision.                                                  *)

\* Order o, new or open to revision, takes a unit of each listing of T and
\* gives one back to each of G, and the listings E of T end as sold.
Moves(o, T, G, E) ==
    /\ T \in SUBSET Listing /\ G \in SUBSET Listing /\ E \in SUBSET T
    /\ \A l \in T : listingStatus[l] = "active" /\ quantity[l] >= 1 /\ share[o][l] = {}
    /\ \A l \in G : listingStatus[l] # "ended" /\ share[o][l] # {}
    /\ \A l \in T \ E : subject[l] \in Item /\ venue[l] = "store" /\ orderVenue'[o] = "store"
    /\ MoveLines(o, T, G, E)
    /\ UNCHANGED <<everShipped, refund, stockBack>>
    /\ \A p \in Order : p # o =>
          orderStatus'[p] = orderStatus[p] /\ orderVenue'[p] = orderVenue[p]
    /\ \/ /\ orderStatus[o] = "none" /\ G = {} /\ T # {}
          /\ orderVenue'[o] \in Venue /\ orderStatus'[o] = FirstStatus(orderVenue'[o])
       \/ /\ orderStatus[o] \in Editable /\ ~everShipped[o]
          /\ orderStatus'[o] = orderStatus[o] /\ orderVenue'[o] = orderVenue[o]
          /\ T # {} \/ \E l \in Listing \ G : share[o][l] # {}

\* What it writes, row by row.
LEMMA MovesWrites ==
    ASSUME TypeOK, NEW o \in Order, NEW T, NEW G, NEW E,
           Moves(o, T, G, E), NEW l \in Listing
    PROVE  /\ share'[o][l] = IF l \in T THEN OfferedItems(l)
                             ELSE IF l \in G THEN {} ELSE share[o][l]
           /\ \A p \in Order : p # o => share'[p][l] = share[p][l]
           /\ quantity'[l] = IF l \in T THEN quantity[l] - 1
                             ELSE IF l \in G THEN quantity[l] + 1 ELSE quantity[l]
           /\ listingStatus[l] = "ended" => listingStatus'[l] = "ended"
           /\ l \in E => listingStatus'[l] = "ended"
           /\ listingStatus'[l] = "unused" <=> listingStatus[l] = "unused"
           /\ listingStatus'[l] = "paused" => listingStatus[l] = "paused"
           /\ listingStatus'[l] \in OnOffer => Live(l)
           /\ subject'[l] = subject[l] /\ \A k \in Lot : members'[k] \subseteq members[k]
<1>1. MoveLines(o, T, G, E) /\ E \in SUBSET Listing /\ subject' = subject
  BY DEF Moves, MoveLines
<1>2. share' = [share EXCEPT ![o] = SharesAfter(o, T, G)] /\ Restock(T, G)
  BY <1>1 DEF MoveLines
<1>3. EndOffers(E, TRUE, Filed(T, G))
  BY <1>1 DEF MoveLines
<1>4. /\ share'[o][l] = IF l \in T THEN OfferedItems(l)
                        ELSE IF l \in G THEN {} ELSE share[o][l]
      /\ \A p \in Order : p # o => share'[p][l] = share[p][l]
  BY <1>2 DEF TypeOK, SharesAfter
<1>5. quantity'[l] = IF l \in T THEN quantity[l] - 1
                     ELSE IF l \in G THEN quantity[l] + 1 ELSE quantity[l]
  BY <1>2 DEF Restock
<1>6. listingStatus'[l] = IF l \in E \cup PausedBy(E) THEN "ended" ELSE listingStatus[l]
  BY <1>3 DEF EndOffers, StatusAfter, Closing, Resuming
<1>7. l \in E => listingStatus[l] = "active"
  BY DEF Moves
<1>8. l \in PausedBy(E) => listingStatus[l] = "paused"
  BY DEF PausedBy
<1>9. \A k \in Lot : members'[k] \subseteq members[k]
  BY <1>3 DEF EndOffers
<1> QED BY <1>1, <1>4, <1>5, <1>6, <1>7, <1>8, <1>9 DEF Live, OnOffer

\* What it says of the order itself: it has given nothing back and its coins
\* have not left, so that a line it can give up is of coins promised to it.
LEMMA MovesOrder ==
    ASSUME TypeOK, OrderInv, NEW o \in Order, NEW T, NEW G, NEW E,
           Moves(o, T, G, E)
    PROVE  /\ ~stockBack[o] /\ ~everShipped[o]
           /\ orderStatus[o] = "none" => \A l \in Listing : share[o][l] = {}
           /\ orderStatus[o] = "none" \/ HoldsStock(o)
           /\ orderStatus[o] # "none" =>
                 orderStatus'[o] = orderStatus[o] /\ orderVenue'[o] = orderVenue[o]
           /\ G # {} => Holds(o)
           /\ \A l \in Listing : share[o][l] # {} => orderVenue'[o] = orderVenue[o]
           /\ orderStatus'[o] \in {"pending", "paid", "delivered"}
           /\ orderStatus'[o] = "delivered" => FirstStatus(orderVenue'[o]) \in Shipped
<1>1. ~stockBack[o]
  BY DEF Moves, OrderInv, PlacedHasLines, ReturnedStaysClosed, Editable, StockReturning
<1>2. orderStatus[o] = "none" => ~everShipped[o] /\ \A l \in Listing : share[o][l] = {}
  BY DEF OrderInv, PlacedHasLines
<1>3. orderStatus[o] = "none" \/ HoldsStock(o)
  BY DEF Moves, Editable, HoldsStock, NoStockReturn, Shipped, StockReturning
<1>4. orderStatus[o] # "none" =>
          /\ orderStatus[o] \in Editable /\ ~everShipped[o]
          /\ orderStatus'[o] = orderStatus[o] /\ orderVenue'[o] = orderVenue[o]
  BY DEF Moves
<1>5. G # {} => Holds(o)
  <2> SUFFICES ASSUME NEW l \in G
               PROVE  Holds(o)
    OBVIOUS
  <2>1. share[o][l] # {} /\ listingStatus[l] # "ended" /\ l \in Listing
    BY DEF Moves
  <2>2. orderVenue[o] = "store"
    BY <2>1 DEF OrderInv, LinesAreSold
  <2>3. HoldsStock(o) /\ ~everShipped[o]
    BY <1>2, <1>3, <1>4, <2>1
  <2> QED BY <2>2, <2>3 DEF Holds, HasLeft, FirstStatus, Shipped
<1>6. \A l \in Listing : share[o][l] # {} => orderVenue'[o] = orderVenue[o]
  BY <1>2, <1>4
<1>7. orderStatus'[o] \in {"pending", "paid", "delivered"}
  BY DEF Moves, Editable, FirstStatus, Venue
<1>8. orderStatus'[o] = "delivered" => FirstStatus(orderVenue'[o]) \in Shipped
  BY DEF Moves, Editable, FirstStatus, Venue, Shipped
<1> QED BY <1>1, <1>2, <1>3, <1>4, <1>5, <1>6, <1>7, <1>8

\* The rows of the other orders stay as they are.
LEMMA MovesOthers ==
    ASSUME TypeOK, NEW o \in Order, NEW T, NEW G, NEW E, Moves(o, T, G, E),
           NEW p \in Order, p # o
    PROVE  /\ orderStatus'[p] = orderStatus[p] /\ orderVenue'[p] = orderVenue[p]
           /\ everShipped'[p] = everShipped[p] /\ refund'[p] = refund[p]
           /\ stockBack'[p] = stockBack[p]
BY DEF Moves

\* The history of the orders.
LEMMA MovesKeepsHistory ==
    ASSUME TypeOK, OrderInv, NEW o \in Order, NEW T, NEW G, NEW E,
           Moves(o, T, G, E)
    PROVE  /\ LeavingIsKnown' /\ ReturnedStaysClosed' /\ ReturnedNeverLeft'
           /\ RefundTellsItsStock'
<1>1. UNCHANGED <<everShipped, refund, stockBack>> /\ ~stockBack[o]
  BY MovesOrder DEF Moves
<1>2. LeavingIsKnown'
  <2> SUFFICES ASSUME NEW p \in Order
               PROVE  /\ orderStatus'[p] \in Shipped \/ refund'[p] = "kept" => HasLeft(p)'
                      /\ orderStatus'[p] = "refunded" => refund'[p] # "none"
    BY DEF LeavingIsKnown
  <2>1. CASE p = o
    <3>1. refund[o] = "kept" => HasLeft(o) /\ orderStatus[o] # "none"
      BY DEF OrderInv, LeavingIsKnown, PlacedHasLines
    <3>2. refund[o] = "kept" => HasLeft(o)'
      BY <1>1, <3>1 DEF Moves, HasLeft
    <3>3. orderStatus'[o] \in Shipped => HasLeft(o)'
      BY MovesOrder DEF Shipped, HasLeft
    <3>4. orderStatus'[o] # "refunded"
      BY MovesOrder
    <3> QED BY <1>1, <2>1, <3>2, <3>3, <3>4
  <2>2. CASE p # o
    BY <2>2, MovesOthers DEF OrderInv, LeavingIsKnown, HasLeft
  <2> QED BY <2>1, <2>2
<1>3. ReturnedStaysClosed'
  <2> SUFFICES ASSUME NEW p \in Order, stockBack'[p]
               PROVE  orderStatus'[p] \in StockReturning
    BY DEF ReturnedStaysClosed
  <2>1. p # o /\ stockBack[p]
    BY <1>1
  <2> QED BY <2>1, MovesOthers DEF OrderInv, ReturnedStaysClosed
<1>4. ReturnedNeverLeft'
  <2> SUFFICES ASSUME NEW p \in Order, stockBack'[p]
               PROVE  ~HasLeft(p)'
    BY DEF ReturnedNeverLeft
  <2>1. p # o /\ stockBack[p]
    BY <1>1
  <2> QED BY <2>1, MovesOthers DEF OrderInv, ReturnedNeverLeft, HasLeft
<1>5. RefundTellsItsStock'
  <2> SUFFICES ASSUME NEW p \in Order, orderStatus'[p] = "refunded"
               PROVE  refund'[p] = "returned" <=> stockBack'[p]
    BY DEF RefundTellsItsStock
  <2>1. p # o
    BY MovesOrder
  <2> QED BY <2>1, MovesOthers DEF OrderInv, RefundTellsItsStock
<1> QED BY <1>2, <1>3, <1>4, <1>5

\* The lines, and the unit of each listing.
LEMMA MovesKeepsLines ==
    ASSUME TypeOK, OfferInv, OrderInv, NEW o \in Order, NEW T, NEW G, NEW E,
           Moves(o, T, G, E)
    PROVE  /\ LinesAreSold' /\ PlacedHasLines' /\ HeldStockIsNotPaused'
           /\ UnitInOnePlace' /\ OfferedLotHasMembers'
<1>1. UNCHANGED <<subject, venue, everShipped, refund, stockBack>>
  BY DEF Moves, MoveLines
<1>2. ASSUME NEW l \in T
      PROVE  /\ l \in Listing /\ Live(l) /\ OfferedItems(l) # {}
             /\ listingStatus[l] = "active" /\ quantity[l] = 1 /\ share[o][l] = {}
             /\ \A p \in Order : share[p][l] = {} \/ stockBack[p]
  <2>1. l \in Listing /\ listingStatus[l] = "active" /\ quantity[l] >= 1 /\ share[o][l] = {}
    BY DEF Moves
  <2>2. Live(l)
    BY <2>1 DEF Live, OnOffer
  <2>3. OfferedItems(l) # {}
    BY <2>1, <2>2, LiveOffersACoin DEF OrderInv
  <2>4. quantity[l] = 1 /\ \A p \in Order : share[p][l] = {} \/ stockBack[p]
    BY <2>1 DEF OrderInv, UnitInOnePlace
  <2> QED BY <2>1, <2>2, <2>3, <2>4
<1>3. LinesAreSold'
  <2> SUFFICES ASSUME NEW p \in Order, NEW l \in Listing, share'[p][l] # {}
               PROVE  /\ listingStatus'[l] # "unused"
                      /\ subject[l] \in Item => share'[p][l] = {subject[l]}
                      /\ subject[l] \notin Item \/ orderVenue'[p] # "store" =>
                            listingStatus'[l] = "ended"
    BY <1>1 DEF LinesAreSold
  <2>1. CASE p = o /\ l \in T
    <3>1. share'[o][l] = OfferedItems(l)
      BY <2>1, MovesWrites
    <3>2. subject[l] \in Item => OfferedItems(l) = {subject[l]}
      BY WhatIsOffered
    <3>3. subject[l] \notin Item \/ orderVenue'[o] # "store" => l \in E
      BY <2>1 DEF Moves
    <3>4. listingStatus[l] # "unused"
      BY <1>2, <2>1
    <3> QED BY <2>1, <3>1, <3>2, <3>3, <3>4, MovesWrites
  <2>2. CASE ~(p = o /\ l \in T)
    <3>1. share'[p][l] = share[p][l] /\ orderVenue'[p] = orderVenue[p]
      BY <2>2, MovesWrites, MovesOrder, MovesOthers
    <3>2. /\ listingStatus[l] # "unused"
          /\ subject[l] \in Item => share[p][l] = {subject[l]}
          /\ subject[l] \notin Item \/ orderVenue[p] # "store" => listingStatus[l] = "ended"
      BY <3>1 DEF OrderInv, LinesAreSold
    <3> QED BY <3>1, <3>2, MovesWrites
  <2> QED BY <2>1, <2>2
<1>4. PlacedHasLines'
  <2> SUFFICES ASSUME NEW p \in Order
               PROVE  IF orderStatus'[p] = "none"
                      THEN /\ \A l \in Listing : share'[p][l] = {}
                           /\ ~everShipped'[p] /\ refund'[p] = "none" /\ ~stockBack'[p]
                      ELSE \E l \in Listing : share'[p][l] # {}
    BY DEF PlacedHasLines
  <2>1. CASE p = o
    <3>1. orderStatus'[o] # "none"
      BY MovesOrder
    <3>2. CASE T # {}
      <4>1. PICK l \in T : TRUE
        BY <3>2
      <4>2. share'[o][l] # {}
        BY <1>2, <4>1, MovesWrites
      <4> QED BY <1>2, <2>1, <3>1, <4>1, <4>2
    <3>3. CASE T = {}
      <4>1. PICK l \in Listing \ G : share[o][l] # {}
        BY <3>3 DEF Moves
      <4>2. share'[o][l] # {}
        BY <3>3, <4>1, MovesWrites
      <4> QED BY <2>1, <3>1, <4>1, <4>2
    <3> QED BY <3>2, <3>3
  <2>2. CASE p # o
    <3>1. \A l \in Listing : share'[p][l] = share[p][l]
      BY <2>2, MovesWrites
    <3> QED BY <2>2, <3>1, MovesOthers DEF OrderInv, PlacedHasLines
  <2> QED BY <2>1, <2>2
<1>5. HeldStockIsNotPaused'
  <2> SUFFICES ASSUME NEW l \in Listing, NEW p \in Order, HoldsStock(p)', share'[p][l] # {},
                      listingStatus'[l] = "paused"
               PROVE  FALSE
    BY DEF HeldStockIsNotPaused, OrdersHoldingStock, Lines, HoldsStock
  <2>1. listingStatus[l] = "paused"
    BY MovesWrites
  <2>2. l \notin T
    BY <1>2, <2>1
  <2>3. share[p][l] # {}
    BY <2>2, MovesWrites
  <2>4. HoldsStock(p)
    <3>1. CASE p = o
      BY <2>3, <3>1, MovesOrder
    <3>2. CASE p # o
      BY <3>2, MovesOthers DEF HoldsStock
    <3> QED BY <3>1, <3>2
  <2>5. p \in OrdersHoldingStock(l)
    BY <2>3, <2>4 DEF OrdersHoldingStock, Lines
  <2> QED BY <2>1, <2>5 DEF OrderInv, HeldStockIsNotPaused
<1>6. UnitInOnePlace'
  <2> SUFFICES ASSUME NEW l \in Listing, listingStatus'[l] # "unused"
               PROVE  \/ /\ quantity'[l] = 1
                         /\ \A p \in Order : share'[p][l] = {} \/ stockBack[p]
                      \/ /\ quantity'[l] = 0
                         /\ \E p \in Order :
                               /\ share'[p][l] # {} /\ ~stockBack[p]
                               /\ \A q \in Order : share'[q][l] # {} /\ ~stockBack[q] => q = p
    BY <1>1 DEF UnitInOnePlace
  <2>1. listingStatus[l] # "unused"
    BY MovesWrites
  <2>2. /\ ~stockBack[o]
        /\ \A p \in Order : p # o => share'[p][l] = share[p][l]
    BY MovesWrites, MovesOrder
  <2>3. CASE l \in T
    <3>1. quantity'[l] = 0 /\ share'[o][l] # {}
      BY <1>2, <2>3, MovesWrites
    <3>2. \A q \in Order : share'[q][l] # {} /\ ~stockBack[q] => q = o
      BY <1>2, <2>2, <2>3
    <3> QED BY <2>2, <3>1, <3>2
  <2>4. CASE l \in G \ T
    <3>1. share[o][l] # {}
      BY <2>4 DEF Moves
    <3>2. quantity[l] = 0 /\ \A q \in Order : share[q][l] # {} /\ ~stockBack[q] => q = o
      BY <2>1, <2>2, <3>1 DEF OrderInv, UnitInOnePlace
    <3>3. quantity'[l] = 1 /\ share'[o][l] = {}
      BY <2>4, <3>2, MovesWrites
    <3> QED BY <2>2, <3>2, <3>3
  <2>5. CASE l \notin T \cup G
    <3>1. quantity'[l] = quantity[l] /\ \A p \in Order : share'[p][l] = share[p][l]
      BY <2>2, <2>5, MovesWrites
    <3> QED BY <2>1, <3>1 DEF OrderInv, UnitInOnePlace
  <2> QED BY <2>3, <2>4, <2>5
<1>7. OfferedLotHasMembers'
  BY DEF Moves, MoveLines, EndOffers, OrderInv, OfferedLotHasMembers
<1> QED BY <1>3, <1>4, <1>5, <1>6, <1>7

\* The coins promised to each order.
LEMMA MovesKeepsPromises ==
    ASSUME TypeOK, OfferInv, OrderInv, NEW o \in Order, NEW T, NEW G, NEW E,
           Moves(o, T, G, E)
    PROVE  LinesApart' /\ PromisedIsNotForSale' /\ PromisedOnce'
<1>1. ASSUME NEW l \in T
      PROVE  /\ l \in Listing /\ Live(l) /\ listingStatus[l] = "active" /\ quantity[l] = 1
  <2>1. l \in Listing /\ listingStatus[l] = "active" /\ quantity[l] >= 1
    BY DEF Moves
  <2>2. quantity[l] = 1
    BY <2>1 DEF OrderInv, UnitInOnePlace
  <2> QED BY <2>1, <2>2 DEF Live, OnOffer
\* An order's own line, or a promised coin, is not among what is taken.
<1>2. ASSUME NEW p \in Order, Holds(p), NEW l \in Listing, NEW t \in T
      PROVE  OfferedItems(t) \cap share[p][l] = {}
  BY <1>1, <1>2 DEF OrderInv, PromisedIsNotForSale
<1>3. ASSUME Holds(o)', NEW l \in Listing, NEW t \in T, l \notin T
      PROVE  OfferedItems(t) \cap share[o][l] = {}
  <2>1. Holds(o) \/ share[o][l] = {}
    BY <1>3, MovesOrder DEF Moves, Holds, HoldsStock, HasLeft
  <2> QED BY <1>2, <2>1
\* A listing given a unit back sells the coin of the line that goes.
<1>4. ASSUME NEW l \in G
      PROVE  /\ l \in Listing /\ l \notin T /\ Holds(o)
             /\ OfferedItems(l) = share[o][l]
             /\ listingStatus[l] = "active"
  <2>1. l \in Listing /\ share[o][l] # {} /\ listingStatus[l] # "ended"
    BY DEF Moves
  <2>2. l \notin T
    BY <2>1 DEF Moves
  <2>3. Holds(o) /\ HoldsStock(o)
    BY MovesOrder DEF Holds
  <2>4. /\ subject[l] \in Item /\ share[o][l] = {subject[l]}
        /\ listingStatus[l] # "unused"
    BY <2>1 DEF OrderInv, LinesAreSold
  <2>5. OfferedItems(l) = share[o][l]
    BY <2>1, <2>4, WhatIsOffered
  <2>6. listingStatus[l] # "paused"
    BY <2>1, <2>3 DEF OrderInv, HeldStockIsNotPaused, OrdersHoldingStock, Lines
  <2>7. listingStatus[l] \in ListingStatus
    BY <2>1 DEF TypeOK
  <2> QED BY <2>1, <2>2, <2>3, <2>4, <2>5, <2>6, <2>7 DEF ListingStatus
<1>5. LinesApart'
  <2> SUFFICES ASSUME NEW p \in Order, NEW l \in Listing, NEW m \in Listing,
                      Holds(p)', l # m
               PROVE  share'[p][l] \cap share'[p][m] = {}
    BY DEF LinesApart, Holds, HoldsStock, HasLeft
  <2>1. CASE p # o
    <3>1. Holds(p) /\ share'[p][l] = share[p][l] /\ share'[p][m] = share[p][m]
      BY <2>1, MovesWrites, MovesOthers DEF Holds, HoldsStock, HasLeft
    <3> QED BY <3>1 DEF OrderInv, LinesApart
  <2>2. CASE p = o
    <3>1. CASE l \in T /\ m \in T
      <4>1. /\ share'[o][l] = OfferedItems(l) /\ share'[o][m] = OfferedItems(m)
        BY <3>1, MovesWrites
      <4>2. OfferedItems(l) \in SUBSET Item
        BY OfferedItemsType
      <4>3. ASSUME NEW i \in Item, i \in OfferedItems(l), i \in OfferedItems(m)
            PROVE  FALSE
        <5>1. Names(l, i) /\ Names(m, i)
          BY <1>1, <3>1, <4>3, OfferedIsNamed
        <5> QED BY <1>1, <3>1, <5>1 DEF OfferInv, OneOffer
      <4> QED BY <2>2, <4>1, <4>2, <4>3
    <3>2. CASE l \in T /\ m \notin T
      <4>1. share'[o][l] = OfferedItems(l) /\ share'[o][m] \subseteq share[o][m]
        BY <3>2, MovesWrites
      <4> QED BY <1>3, <2>2, <3>2, <4>1
    <3>3. CASE l \notin T /\ m \in T
      <4>1. share'[o][m] = OfferedItems(m) /\ share'[o][l] \subseteq share[o][l]
        BY <3>3, MovesWrites
      <4> QED BY <1>3, <2>2, <3>3, <4>1
    <3>4. CASE l \notin T /\ m \notin T
      <4>1. share'[o][l] \subseteq share[o][l] /\ share'[o][m] \subseteq share[o][m]
        BY <3>4, MovesWrites
      <4>2. Holds(o) \/ share[o][l] = {}
        BY <2>2, MovesOrder DEF Moves, Holds, HoldsStock, HasLeft
      <4>3. share[o][l] \cap share[o][m] = {}
        BY <4>2 DEF OrderInv, LinesApart
      <4> QED BY <2>2, <4>1, <4>3
    <3> QED BY <3>1, <3>2, <3>3, <3>4
  <2> QED BY <2>1, <2>2
<1>6. PromisedIsNotForSale'
  <2> SUFFICES ASSUME NEW p \in Order, NEW l \in Listing, NEW m \in Listing,
                      Holds(p)', listingStatus'[m] \in OnOffer, quantity'[m] > 0
               PROVE  OfferedItems(m)' \cap share'[p][l] = {}
    BY DEF PromisedIsNotForSale, Holds, HoldsStock, HasLeft, Live
  <2>1. Live(m) /\ OfferedItems(m)' \subseteq OfferedItems(m)
    <3>1. /\ Live(m) /\ subject'[m] = subject[m]
          /\ \A k \in Lot : members'[k] \subseteq members[k]
      BY MovesWrites
    <3> QED BY <3>1, SubjectsApart DEF OfferedItems
  <2>2. m \notin T
    <3> SUFFICES ASSUME m \in T
                 PROVE  FALSE
      OBVIOUS
    <3>1. quantity'[m] = quantity[m] - 1 /\ quantity[m] = 1
      BY <1>1, MovesWrites
    <3> QED BY <3>1
  <2>3. OfferedItems(m) \cap share'[p][l] = {}
    <3>1. CASE p # o
      <4>1. Holds(p) /\ share'[p][l] = share[p][l]
        BY <3>1, MovesWrites, MovesOthers DEF Holds, HoldsStock, HasLeft
      <4>2. CASE m \in G
        BY <1>4, <3>1, <4>1, <4>2 DEF OrderInv, PromisedOnce
      <4>3. CASE m \notin G
        <5>1. quantity[m] > 0
          BY <2>2, <4>3, MovesWrites
        <5> QED BY <2>1, <4>1, <5>1 DEF OrderInv, PromisedIsNotForSale
      <4> QED BY <4>2, <4>3
    <3>2. CASE p = o /\ l \in T
      <4>1. share'[o][l] = OfferedItems(l) /\ OfferedItems(l) \in SUBSET Item
        BY <3>2, MovesWrites, OfferedItemsType
      <4>2. /\ T \in SUBSET Listing /\ E \in SUBSET T
            /\ \A t \in T : listingStatus[t] = "active"
            /\ \A t \in T \ E : subject[t] \in Item /\ venue[t] = "store"
            /\ EndOffers(E, TRUE, Filed(T, G))
        BY DEF Moves, MoveLines
      <4>3. \A i \in Item : i \in OfferedItems(l) => i \notin OfferedItems(m)
        BY <2>2, <3>2, <4>2, SaleClosesCoins
      <4> QED BY <3>2, <4>1, <4>3
    <3>3. CASE p = o /\ l \notin T
      <4>1. share'[o][l] = IF l \in G THEN {} ELSE share[o][l]
        BY <3>3, MovesWrites
      <4>2. CASE m \in G
        <5>1. l \notin G => l # m
          BY <4>2
        <5> QED BY <1>4, <3>3, <4>1, <4>2, <5>1 DEF OrderInv, LinesApart
      <4>3. CASE m \notin G
        <5>1. quantity[m] > 0
          BY <2>2, <4>3, MovesWrites
        <5>2. Holds(o) \/ share[o][l] = {}
          BY <3>3, MovesOrder DEF Moves, Holds, HoldsStock, HasLeft
        <5> QED BY <2>1, <3>3, <4>1, <5>1, <5>2 DEF OrderInv, PromisedIsNotForSale
      <4> QED BY <4>2, <4>3
    <3> QED BY <3>1, <3>2, <3>3
  <2> QED BY <2>1, <2>3
<1>7. PromisedOnce'
  <2>1. ASSUME NEW p \in Order, NEW l \in Listing, NEW m \in Listing,
               Holds(o)', Holds(p), p # o
        PROVE  share'[o][l] \cap share[p][m] = {}
    <3>1. CASE l \in T
      <4>1. share'[o][l] = OfferedItems(l)
        BY <3>1, MovesWrites
      <4> QED BY <1>2, <2>1, <3>1, <4>1
    <3>2. CASE l \notin T
      <4>1. share'[o][l] \subseteq share[o][l]
        BY <3>2, MovesWrites
      <4>2. Holds(o) \/ share[o][l] = {}
        BY <2>1, MovesOrder DEF Moves, Holds, HoldsStock, HasLeft
      <4> QED BY <2>1, <4>1, <4>2 DEF OrderInv, PromisedOnce
    <3> QED BY <3>1, <3>2
  <2> SUFFICES ASSUME NEW p \in Order, NEW q \in Order, NEW l \in Listing, NEW m \in Listing,
                      Holds(p)', Holds(q)', p # q
               PROVE  share'[p][l] \cap share'[q][m] = {}
    BY DEF PromisedOnce, Holds, HoldsStock, HasLeft
  <2>2. CASE p = o
    <3>1. Holds(q) /\ share'[q][m] = share[q][m]
      BY <2>2, MovesWrites, MovesOthers DEF Holds, HoldsStock, HasLeft
    <3> QED BY <2>1, <2>2, <3>1
  <2>3. CASE q = o
    <3>1. Holds(p) /\ share'[p][l] = share[p][l]
      BY <2>3, MovesWrites, MovesOthers DEF Holds, HoldsStock, HasLeft
    <3> QED BY <2>1, <2>3, <3>1
  <2>4. CASE p # o /\ q # o
    <3>1. /\ Holds(p) /\ share'[p][l] = share[p][l]
          /\ Holds(q) /\ share'[q][m] = share[q][m]
      BY <2>4, MovesWrites, MovesOthers DEF Holds, HoldsStock, HasLeft
    <3> QED BY <3>1 DEF OrderInv, PromisedOnce
  <2> QED BY <2>2, <2>3, <2>4
<1> QED BY <1>5, <1>6, <1>7

LEMMA MovesKeeps ==
    ASSUME TypeOK, OfferInv, OrderInv, NEW o \in Order, NEW T, NEW G, NEW E,
           Moves(o, T, G, E)
    PROVE  OrderInv'
BY MovesKeepsHistory, MovesKeepsLines, MovesKeepsPromises DEF OrderInv

-----------------------------------------------------------------------------
(* An offer.                                                               *)

\* A coin promised to an order is refused, so an offer neither sets aside the
\* listing an order bought from nor sells what it bought.
LEMMA OfferedIsFree ==
    ASSUME TypeOK, OrderInv, NEW l, NEW subj, NEW S \in SUBSET Item, NEW v,
           OfferRows(l, subj, S, v), NEW o \in Order, HoldsStock(o), NEW m \in Listing
    PROVE  S \cap share[o][m] = {}
<1> SUFFICES ASSUME NEW i \in S, i \in share[o][m]
             PROVE  FALSE
  OBVIOUS
<1>1. orderStatus[o] \in Open
  BY DEF HoldsStock, TypeOK, OrderStatus, Open, NoStockReturn, Shipped, StockReturning
<1>2. i \in OrderItems(o)
  BY DEF OrderItems
<1>3. OrdersHolding(i) # {}
  BY <1>1, <1>2 DEF OrdersHolding
<1>4. Offerable(i)
  BY DEF OfferRows
<1> QED BY <1>3, <1>4 DEF Offerable, SaleRefused

LEMMA OfferKeepsOrders ==
    ASSUME TypeOK, OfferInv, OrderInv, NEW l \in Listing, NEW subj \in Item \cup Lot,
           NEW S \in SUBSET Item, NEW v \in Venue, OfferRows(l, subj, S, v),
           LotTaken(subj, S), S # {}
    PROVE  OrderInv'
<1>1. UNCHANGED orderVars
  BY DEF OfferRows
<1>2. /\ listingStatus[l] = "unused" /\ listingStatus'[l] = "active"
      /\ subject'[l] = subj /\ quantity'[l] = 1
  BY OfferWrites DEF OfferRows, TypeOK
<1>3. ASSUME NEW m \in Listing, m # l
      PROVE  /\ subject'[m] = subject[m] /\ quantity'[m] = quantity[m]
             /\ listingStatus'[m] = IF m \in OffersHolding(S) THEN "paused"
                                    ELSE listingStatus[m]
  BY <1>3, OfferWritesOther DEF OfferRows, TypeOK
<1>4. \A m \in OffersHolding(S) : m \in Listing /\ Live(m) /\ subject[m] \in S
  BY Displaced
<1>5. \A o \in Order : share[o][l] = {}
  BY <1>2 DEF OrderInv, LinesAreSold
<1>6. LinesAreSold'
  <2> SUFFICES ASSUME NEW o \in Order, NEW m \in Listing, share[o][m] # {}
               PROVE  /\ listingStatus'[m] # "unused"
                      /\ subject'[m] \in Item => share[o][m] = {subject'[m]}
                      /\ subject'[m] \notin Item \/ orderVenue[o] # "store" =>
                            listingStatus'[m] = "ended"
    BY <1>1 DEF LinesAreSold, orderVars
  <2>1. m # l
    BY <1>5
  <2>2. /\ listingStatus[m] # "unused"
        /\ subject[m] \in Item => share[o][m] = {subject[m]}
        /\ subject[m] \notin Item \/ orderVenue[o] # "store" => listingStatus[m] = "ended"
    BY DEF OrderInv, LinesAreSold
  <2>3. listingStatus[m] = "ended" => m \notin OffersHolding(S)
    BY DEF OffersHolding, Live, OnOffer
  <2> QED BY <1>3, <2>1, <2>2, <2>3
<1>7. PlacedHasLines' /\ LeavingIsKnown' /\ ReturnedStaysClosed' /\ ReturnedNeverLeft'
      /\ RefundTellsItsStock'
  BY <1>1 DEF OrderInv, PlacedHasLines, LeavingIsKnown, ReturnedStaysClosed,
              ReturnedNeverLeft, RefundTellsItsStock, HasLeft, orderVars
<1>8. HeldStockIsNotPaused'
  <2> SUFFICES ASSUME NEW m \in Listing, NEW o \in Order, HoldsStock(o), share[o][m] # {},
                      listingStatus'[m] = "paused"
               PROVE  FALSE
    BY <1>1 DEF HeldStockIsNotPaused, OrdersHoldingStock, Lines, HoldsStock, orderVars
  <2>1. m # l
    BY <1>5
  <2>2. listingStatus[m] # "paused"
    BY DEF OrderInv, HeldStockIsNotPaused, OrdersHoldingStock, Lines
  <2>3. m \in OffersHolding(S)
    BY <1>3, <2>1, <2>2
  <2>4. share[o][m] = {subject[m]} /\ subject[m] \in S
    BY <1>4, <2>3 DEF OrderInv, LinesAreSold
  <2> QED BY <2>4, OfferedIsFree
<1>9. UnitInOnePlace'
  <2> SUFFICES ASSUME NEW m \in Listing, listingStatus'[m] # "unused"
               PROVE  \/ quantity'[m] = 1 /\ \A o \in Order : share[o][m] = {} \/ stockBack[o]
                      \/ /\ quantity'[m] = 0
                         /\ \E o \in Order :
                               /\ share[o][m] # {} /\ ~stockBack[o]
                               /\ \A p \in Order : share[p][m] # {} /\ ~stockBack[p] => p = o
    BY <1>1 DEF UnitInOnePlace, orderVars
  <2>1. CASE m = l
    BY <1>2, <1>5, <2>1
  <2>2. CASE m # l
    <3>1. quantity'[m] = quantity[m]
      BY <1>3, <2>2
    <3>2. listingStatus[m] # "unused"
      BY <1>3, <2>2 DEF OffersHolding, Live, OnOffer
    <3> QED BY <3>1, <3>2 DEF OrderInv, UnitInOnePlace
  <2> QED BY <2>1, <2>2
<1>10. OfferedLotHasMembers'
  <2> SUFFICES ASSUME NEW k \in Lot, lotStatus'[k] = "offered"
               PROVE  members'[k] # {}
    BY DEF OfferedLotHasMembers
  <2>1. /\ lotStatus'[k] = IF k = subj THEN "offered" ELSE lotStatus[k]
        /\ members'[k] = IF k = subj THEN S ELSE members[k]
    BY SubjectsApart DEF TypeOK, LotTaken, lotVars
  <2> QED BY <2>1 DEF OrderInv, OfferedLotHasMembers
<1>11. LinesApart' /\ PromisedOnce'
  BY <1>1 DEF OrderInv, LinesApart, PromisedOnce, Holds, HoldsStock, HasLeft, orderVars
<1>12. PromisedIsNotForSale'
  <2> SUFFICES ASSUME NEW o \in Order, NEW n \in Listing, NEW m \in Listing,
                      Holds(o), listingStatus'[m] \in OnOffer, quantity'[m] > 0
               PROVE  OfferedItems(m)' \cap share[o][n] = {}
    BY <1>1 DEF PromisedIsNotForSale, Holds, HoldsStock, HasLeft, Live, orderVars
  <2>1. CASE m = l
    <3>1. OfferedItems(l)' = S
      BY <1>2, SubjectsApart DEF OfferedItems, LotTaken, TypeOK
    <3> QED BY <2>1, <3>1, OfferedIsFree DEF Holds
  <2>2. CASE m # l
    <3>1. Live(m) /\ quantity[m] > 0
      BY <1>3, <1>4, <2>2 DEF Live
    <3>2. subject[m] \in Lot => members'[subject[m]] = members[subject[m]]
      BY <3>1, SubjectsApart DEF OfferInv, LotListingHoldsMembers, LotTaken, lotVars, TypeOK
    <3>3. OfferedItems(m)' = OfferedItems(m)
      BY <1>3, <2>2, <3>2, SubjectsApart DEF OfferedItems
    <3> QED BY <3>1, <3>3 DEF OrderInv, PromisedIsNotForSale
  <2> QED BY <2>1, <2>2
<1> QED BY <1>6, <1>7, <1>8, <1>9, <1>10, <1>11, <1>12 DEF OrderInv

-----------------------------------------------------------------------------
(* A status.                                                               *)

\* What an order is before it takes a status: one whose stock may come back
\* holds it, and one that is open again after the step never gave it back.
LEMMA StatusOrder ==
    ASSUME TypeOK, OrderInv, NEW o \in Order, NEW to \in OrderStatus, SetOrderStatus(o, to)
    PROVE  /\ orderStatus[o] \notin {"none", "cancelled"}
           /\ HasLeft(o) => HasLeft(o)'
           /\ HasLeft(o)' <=> HasLeft(o) \/ to \in Shipped
           /\ ReturnsStock(o, to) =>
                 /\ Holds(o) /\ ~HasLeft(o)' /\ ~stockBack[o]
                 /\ \A l \in Listing : share[o][l] # {} => listingStatus[l] # "ended"
           /\ Holds(o)' => Holds(o)
           /\ stockBack'[o] <=> stockBack[o] \/ ReturnsStock(o, to)
           /\ stockBack[o] => to \in StockReturning /\ refund'[o] = refund[o]
<1>1. /\ orderStatus[o] \notin {"none", "cancelled", to}
      /\ ReturnsStock(o, to) => ~NoStockToReturn(o)
      /\ ~(orderStatus[o] = "refunded" /\ to \notin StockReturning /\ refund[o] = "returned")
  BY DEF SetOrderStatus, MaySetStatus
<1>2. /\ orderStatus'[o] = to /\ orderVenue' = orderVenue
      /\ everShipped'[o] = (everShipped[o] \/ to \in Shipped)
      /\ refund'[o] = IF to # "refunded" THEN refund[o]
                      ELSE IF orderStatus[o] \notin NoStockReturn /\ ~everShipped[o]
                           THEN "returned" ELSE "kept"
      /\ stockBack'[o] = (stockBack[o] \/ (IF ReturnsStock(o, to) THEN Lines(o) ELSE {}) # {})
  BY DEF SetOrderStatus, ApplyStatus, WriteStatus, TypeOK
<1>3. \E l \in Listing : share[o][l] # {}
  BY <1>1 DEF OrderInv, PlacedHasLines
<1>4. HasLeft(o)' <=> HasLeft(o) \/ to \in Shipped
  BY <1>2 DEF HasLeft
<1>5. stockBack'[o] <=> stockBack[o] \/ ReturnsStock(o, to)
  <2>1. Lines(o) # {}
    BY <1>3 DEF Lines
  <2> QED BY <1>2, <2>1 DEF TypeOK
<1>6. stockBack[o] => orderStatus[o] = "refunded" /\ refund[o] = "returned"
  BY <1>1 DEF OrderInv, ReturnedStaysClosed, RefundTellsItsStock, StockReturning
<1>7. stockBack[o] => to \in StockReturning /\ refund'[o] = refund[o]
  BY <1>1, <1>2, <1>6
<1>8. ReturnsStock(o, to) =>
          /\ Holds(o) /\ ~HasLeft(o)' /\ ~stockBack[o]
          /\ \A l \in Listing : share[o][l] # {} => listingStatus[l] # "ended"
  <2> SUFFICES ASSUME ReturnsStock(o, to)
               PROVE  /\ Holds(o) /\ ~HasLeft(o)' /\ ~stockBack[o]
                      /\ \A l \in Listing : share[o][l] # {} => listingStatus[l] # "ended"
    OBVIOUS
  <2>1. /\ to \in StockReturning /\ orderStatus[o] \notin NoStockReturn /\ ~everShipped[o]
    BY DEF ReturnsStock
  <2>2. /\ orderVenue[o] = "store"
        /\ \A l \in Listing : share[o][l] # {} => listingStatus[l] # "ended"
    BY <1>1 DEF NoStockToReturn, Lines
  <2>3. ~HasLeft(o) /\ to \notin Shipped
    BY <2>1, <2>2 DEF HasLeft, FirstStatus, Shipped, StockReturning
  <2>4. Holds(o)
    BY <1>1, <2>1, <2>3 DEF Holds, HoldsStock
  <2>5. ~stockBack[o]
    BY <1>6, <2>1 DEF NoStockReturn, StockReturning
  <2> QED BY <1>4, <2>2, <2>3, <2>4, <2>5
<1>9. Holds(o)' => Holds(o)
  <2> SUFFICES ASSUME Holds(o)'
               PROVE  Holds(o)
    OBVIOUS
  <2>1. ~HasLeft(o) /\ ~everShipped[o] /\ to \notin NoStockReturn
    BY <1>2, <1>4 DEF Holds, HoldsStock, TypeOK
  <2>2. orderStatus[o] \notin Shipped /\ refund[o] # "kept"
    BY <2>1 DEF OrderInv, LeavingIsKnown
  <2>3. orderStatus[o] # "refunded"
    <3>1. refund[o] \in {"none", "returned", "kept"}
      BY DEF TypeOK
    <3> QED BY <1>1, <2>1, <2>2, <3>1 DEF OrderInv, LeavingIsKnown, NoStockReturn
  <2> QED BY <1>1, <2>1, <2>2, <2>3 DEF Holds, HoldsStock, NoStockReturn, StockReturning
<1> QED BY <1>1, <1>4, <1>5, <1>7, <1>8, <1>9

LEMMA StatusOthers ==
    ASSUME TypeOK, NEW o \in Order, NEW to, SetOrderStatus(o, to), NEW p \in Order, p # o
    PROVE  /\ orderStatus'[p] = orderStatus[p] /\ orderVenue'[p] = orderVenue[p]
           /\ everShipped'[p] = everShipped[p] /\ refund'[p] = refund[p]
           /\ stockBack'[p] = stockBack[p]
           /\ Holds(p)' <=> Holds(p)
           /\ HoldsStock(p)' <=> HoldsStock(p)
           /\ HasLeft(p)' <=> HasLeft(p)
<1>1. /\ orderStatus'[p] = orderStatus[p] /\ orderVenue'[p] = orderVenue[p]
      /\ everShipped'[p] = everShipped[p] /\ refund'[p] = refund[p]
      /\ stockBack'[p] = stockBack[p]
  BY DEF SetOrderStatus, ApplyStatus, WriteStatus, TypeOK
<1> QED BY <1>1 DEF Holds, HoldsStock, HasLeft

LEMMA StatusKeepsHistory ==
    ASSUME TypeOK, OrderInv, NEW o \in Order, NEW to \in OrderStatus, SetOrderStatus(o, to)
    PROVE  /\ PlacedHasLines' /\ LeavingIsKnown' /\ ReturnedStaysClosed'
           /\ ReturnedNeverLeft' /\ RefundTellsItsStock'
<1>1. /\ orderStatus'[o] = to /\ UNCHANGED <<orderVenue, share>>
      /\ everShipped'[o] = (everShipped[o] \/ to \in Shipped)
      /\ refund'[o] = IF to # "refunded" THEN refund[o]
                      ELSE IF orderStatus[o] \notin NoStockReturn /\ ~everShipped[o]
                           THEN "returned" ELSE "kept"
  BY DEF SetOrderStatus, ApplyStatus, WriteStatus, TypeOK
<1>2. PlacedHasLines'
  <2> SUFFICES ASSUME NEW p \in Order
               PROVE  IF orderStatus'[p] = "none"
                      THEN /\ \A l \in Listing : share[p][l] = {}
                           /\ ~everShipped'[p] /\ refund'[p] = "none" /\ ~stockBack'[p]
                      ELSE \E l \in Listing : share[p][l] # {}
    BY <1>1 DEF PlacedHasLines
  <2>1. CASE p = o
    BY <1>1, <2>1, StatusOrder DEF OrderInv, PlacedHasLines, OrderStatus
  <2>2. CASE p # o
    BY <2>2, StatusOthers DEF OrderInv, PlacedHasLines
  <2> QED BY <2>1, <2>2
<1>3. LeavingIsKnown'
  <2> SUFFICES ASSUME NEW p \in Order
               PROVE  /\ orderStatus'[p] \in Shipped \/ refund'[p] = "kept" => HasLeft(p)'
                      /\ orderStatus'[p] = "refunded" => refund'[p] # "none"
    BY DEF LeavingIsKnown
  <2>1. CASE p = o
    <3>1. orderStatus[o] \in Shipped \/ refund[o] = "kept" => HasLeft(o)
      BY DEF OrderInv, LeavingIsKnown
    <3>2. everShipped[o] => HasLeft(o)
      BY DEF HasLeft
    <3>3. CASE to # "refunded"
      BY <1>1, <2>1, <3>1, <3>3, StatusOrder
    <3>4. CASE to = "refunded"
      <4>1. refund'[o] = "kept" => orderStatus[o] \in NoStockReturn \/ everShipped[o]
        BY <1>1, <3>4
      <4>2. orderStatus[o] \in NoStockReturn => orderStatus[o] \in Shipped
        BY <3>4, StatusOrder DEF NoStockReturn, StockReturning, SetOrderStatus, MaySetStatus
      <4>3. refund'[o] = "kept" => HasLeft(o)'
        BY <3>1, <3>2, <4>1, <4>2, StatusOrder
      <4> QED BY <1>1, <2>1, <3>4, <4>3 DEF Shipped
    <3> QED BY <3>3, <3>4
  <2>2. CASE p # o
    BY <2>2, StatusOthers DEF OrderInv, LeavingIsKnown
  <2> QED BY <2>1, <2>2
<1>4. ReturnedStaysClosed'
  <2> SUFFICES ASSUME NEW p \in Order, stockBack'[p]
               PROVE  orderStatus'[p] \in StockReturning
    BY DEF ReturnedStaysClosed
  <2>1. CASE p = o
    BY <1>1, <2>1, StatusOrder DEF ReturnsStock
  <2>2. CASE p # o
    BY <2>2, StatusOthers DEF OrderInv, ReturnedStaysClosed
  <2> QED BY <2>1, <2>2
<1>5. ReturnedNeverLeft'
  <2> SUFFICES ASSUME NEW p \in Order, stockBack'[p]
               PROVE  ~HasLeft(p)'
    BY DEF ReturnedNeverLeft
  <2>1. CASE p = o
    <3>1. stockBack[o] => ~HasLeft(o) /\ to \notin Shipped
      BY StatusOrder DEF OrderInv, ReturnedNeverLeft, StockReturning, Shipped
    <3> QED BY <2>1, <3>1, StatusOrder
  <2>2. CASE p # o
    BY <2>2, StatusOthers DEF OrderInv, ReturnedNeverLeft
  <2> QED BY <2>1, <2>2
<1>6. RefundTellsItsStock'
  <2> SUFFICES ASSUME NEW p \in Order, orderStatus'[p] = "refunded"
               PROVE  refund'[p] = "returned" <=> stockBack'[p]
    BY DEF RefundTellsItsStock
  <2>1. CASE p = o
    <3>1. to = "refunded"
      BY <1>1, <2>1
    <3>2. ReturnsStock(o, to) <=> orderStatus[o] \notin NoStockReturn /\ ~everShipped[o]
      BY <3>1 DEF ReturnsStock, StockReturning
    <3>3. ~stockBack[o]
      BY <3>1 DEF OrderInv, ReturnedStaysClosed, StockReturning, SetOrderStatus, MaySetStatus
    <3> QED BY <1>1, <2>1, <3>1, <3>2, <3>3, StatusOrder
  <2>2. CASE p # o
    BY <2>2, StatusOthers DEF OrderInv, RefundTellsItsStock
  <2> QED BY <2>1, <2>2
<1> QED BY <1>2, <1>3, <1>4, <1>5, <1>6

LEMMA StatusKeeps ==
    ASSUME TypeOK, OfferInv, OrderInv, NEW o \in Order, NEW to \in OrderStatus,
           SetOrderStatus(o, to)
    PROVE  OrderInv'
<1> DEFINE given == IF ReturnsStock(o, to) THEN Lines(o) ELSE {}
<1>1. UNCHANGED <<orderVenue, share, lotVars, listingStatus, subject>>
  BY DEF SetOrderStatus, ApplyStatus
<1>2. ASSUME NEW l \in Listing
      PROVE  quantity'[l] = IF l \in given THEN quantity[l] + 1 ELSE quantity[l]
  BY DEF SetOrderStatus, ApplyStatus, Restock
<1>3. LinesAreSold' /\ OfferedLotHasMembers'
  BY <1>1 DEF OrderInv, LinesAreSold, OfferedLotHasMembers, lotVars
<1>4. HeldStockIsNotPaused'
  <2> SUFFICES ASSUME NEW l \in Listing, NEW p \in Order, HoldsStock(p)', share[p][l] # {},
                      listingStatus[l] = "paused"
               PROVE  FALSE
    BY <1>1 DEF HeldStockIsNotPaused, OrdersHoldingStock, Lines, HoldsStock
  <2>1. orderVenue[p] = "store"
    BY DEF OrderInv, LinesAreSold
  <2>2. Holds(p)'
    BY <1>1, <2>1 DEF Holds, HasLeft, HoldsStock, FirstStatus, Shipped
  <2>3. HoldsStock(p)
    BY <2>2, StatusOrder, StatusOthers DEF Holds
  <2>4. p \in OrdersHoldingStock(l)
    BY <2>3 DEF OrdersHoldingStock, Lines
  <2> QED BY <2>4 DEF OrderInv, HeldStockIsNotPaused
<1>5. ASSUME NEW l \in given
      PROVE  /\ l \in Listing /\ share[o][l] # {} /\ OfferedItems(l) = share[o][l]
             /\ Holds(o) /\ ~stockBack[o] /\ stockBack'[o] /\ ReturnsStock(o, to)
             /\ listingStatus[l] # "unused"
  <2>1. l \in Listing /\ share[o][l] # {} /\ ReturnsStock(o, to)
    BY DEF Lines
  <2>2. subject[l] \in Item /\ share[o][l] = {subject[l]} /\ listingStatus[l] # "unused"
    BY <2>1, StatusOrder DEF OrderInv, LinesAreSold
  <2> QED BY <2>1, <2>2, StatusOrder, WhatIsOffered
<1> HIDE DEF given
<1>6. UnitInOnePlace'
  <2> SUFFICES ASSUME NEW l \in Listing, listingStatus[l] # "unused"
               PROVE  \/ quantity'[l] = 1 /\ \A p \in Order : share[p][l] = {} \/ stockBack'[p]
                      \/ /\ quantity'[l] = 0
                         /\ \E p \in Order :
                               /\ share[p][l] # {} /\ ~stockBack'[p]
                               /\ \A q \in Order : share[q][l] # {} /\ ~stockBack'[q] => q = p
    BY <1>1 DEF UnitInOnePlace
  <2>1. \A p \in Order : p # o => stockBack'[p] = stockBack[p]
    BY StatusOthers
  <2>2. CASE l \in given
    <3>1. share[o][l] # {} /\ ~stockBack[o] /\ stockBack'[o]
      BY <1>5, <2>2
    <3>2. quantity[l] = 0 /\ \A q \in Order : share[q][l] # {} /\ ~stockBack[q] => q = o
      BY <3>1 DEF OrderInv, UnitInOnePlace
    <3>3. quantity'[l] = 1
      BY <1>2, <2>2, <3>2
    <3> QED BY <2>1, <3>1, <3>2, <3>3
  <2>3. CASE l \notin given
    <3>1. quantity'[l] = quantity[l]
      BY <1>2, <2>3
    <3>2. share[o][l] # {} => (stockBack'[o] <=> stockBack[o])
      BY <2>3, StatusOrder DEF given, Lines
    <3>3. \A p \in Order : share[p][l] # {} => (stockBack'[p] <=> stockBack[p])
      BY <2>1, <3>2
    <3> QED BY <3>1, <3>3 DEF OrderInv, UnitInOnePlace
  <2> QED BY <2>2, <2>3
<1>7. \A p \in Order : Holds(p)' => Holds(p)
  BY StatusOrder, StatusOthers
<1>8. LinesApart' /\ PromisedOnce'
  <2>1. ASSUME NEW p \in Order, NEW l \in Listing, NEW m \in Listing, Holds(p)', l # m
        PROVE  share[p][l] \cap share[p][m] = {}
    BY <1>7, <2>1 DEF OrderInv, LinesApart
  <2>2. ASSUME NEW p \in Order, NEW q \in Order, NEW l \in Listing, NEW m \in Listing,
               Holds(p)', Holds(q)', p # q
        PROVE  share[p][l] \cap share[q][m] = {}
    BY <1>7, <2>2 DEF OrderInv, PromisedOnce
  <2> QED BY <1>1, <2>1, <2>2 DEF LinesApart, PromisedOnce, Holds, HoldsStock, HasLeft
<1>9. PromisedIsNotForSale'
  <2> SUFFICES ASSUME NEW p \in Order, NEW l \in Listing, NEW m \in Listing,
                      Holds(p)', Live(m), quantity'[m] > 0
               PROVE  OfferedItems(m) \cap share[p][l] = {}
    BY <1>1 DEF PromisedIsNotForSale, Holds, HoldsStock, HasLeft, Live, OfferedItems, lotVars
  <2>1. Holds(p)
    BY <1>7
  <2>2. CASE m \in given
    <3>1. p # o
      BY <1>5, <2>2 DEF Holds, HoldsStock, ReturnsStock, SetOrderStatus, ApplyStatus,
                        WriteStatus, TypeOK, NoStockReturn
    <3> QED BY <1>5, <2>1, <2>2, <3>1 DEF OrderInv, PromisedOnce
  <2>3. CASE m \notin given
    BY <1>2, <2>1, <2>3 DEF OrderInv, PromisedIsNotForSale
  <2> QED BY <2>2, <2>3
<1> QED BY <1>3, <1>4, <1>6, <1>8, <1>9, StatusKeepsHistory DEF OrderInv

-----------------------------------------------------------------------------
(* Every request.                                                          *)

\* What is bought in the shop and does not end with the sale is an item's listing.
LEMMA KeptListing ==
    ASSUME TypeOK, OfferInv, OrderInv, NEW T \in SUBSET Listing,
           OnSaleInShop(T), InStock(T), NEW l \in T
    PROVE  /\ listingStatus[l] = "active" /\ quantity[l] = 1 /\ venue[l] = "store"
           /\ l \notin LotsSoldOut(T) => subject[l] \in Item
<1>1. listingStatus[l] = "active" /\ venue[l] = "store" /\ quantity[l] >= 1 /\ l \in Listing
  BY DEF OnSaleInShop, SellableInShop, InStock
<1>2. quantity[l] = 1
  BY <1>1 DEF OrderInv, UnitInOnePlace
<1>3. subject[l] \in Item \cup Lot
  BY <1>1 DEF TypeOK, OfferInv, LiveOffersSomething, Live, OnOffer
<1>4. l \notin LotsSoldOut(T) => subject[l] \notin Lot
  BY <1>2 DEF LotsSoldOut, SoldOutBy
<1> QED BY <1>1, <1>2, <1>3, <1>4

\* Checkout, a recorded sale and a revision move lines.
LEMMA PlacingMoves ==
    ASSUME TypeOK, OfferInv, OrderInv, NEW o \in Order, NEW L \in SUBSET Listing,
           PlaceOrder(o, L)
    PROVE  Moves(o, L, {}, LotsSoldOut(L)) /\ LotsSoldOut(L) \in SUBSET L
<1>1. OnSaleInShop(L) /\ NewOrder(o, L, "store", LotsSoldOut(L))
  BY DEF PlaceOrder
<1>2. /\ orderStatus[o] = "none" /\ L # {} /\ InStock(L)
      /\ orderStatus' = [orderStatus EXCEPT ![o] = FirstStatus("store")]
      /\ orderVenue' = [orderVenue EXCEPT ![o] = "store"]
      /\ MoveLines(o, L, {}, LotsSoldOut(L))
      /\ UNCHANGED <<everShipped, refund, stockBack>>
  BY <1>1 DEF NewOrder
<1>3. \A l \in Listing : share[o][l] = {}
  BY <1>2 DEF OrderInv, PlacedHasLines
<1>4. /\ orderStatus'[o] = FirstStatus("store") /\ orderVenue'[o] = "store"
      /\ \A p \in Order : p # o =>
            orderStatus'[p] = orderStatus[p] /\ orderVenue'[p] = orderVenue[p]
  BY <1>2 DEF TypeOK
<1>5. \A l \in L : /\ listingStatus[l] = "active" /\ quantity[l] >= 1 /\ venue[l] = "store"
                   /\ l \notin LotsSoldOut(L) => subject[l] \in Item
  BY <1>1, <1>2, KeptListing
<1>6. LotsSoldOut(L) \in SUBSET L
  BY DEF LotsSoldOut, SoldOutBy
<1> QED BY <1>2, <1>3, <1>4, <1>5, <1>6 DEF Moves, Venue

LEMMA RecordingMoves ==
    ASSUME TypeOK, OrderInv, NEW o \in Order, NEW l \in Listing, RecordSale(o, l)
    PROVE  Moves(o, {l}, {}, {l})
<1>1. /\ listingStatus[l] = "active" /\ orderStatus[o] = "none" /\ InStock({l})
      /\ orderStatus' = [orderStatus EXCEPT ![o] = FirstStatus(venue[l])]
      /\ orderVenue' = [orderVenue EXCEPT ![o] = venue[l]]
      /\ MoveLines(o, {l}, {}, {l})
      /\ UNCHANGED <<everShipped, refund, stockBack>>
  BY DEF RecordSale, NewOrder
<1>2. share[o][l] = {}
  BY <1>1 DEF OrderInv, PlacedHasLines
<1>3. /\ orderStatus'[o] = FirstStatus(venue[l]) /\ orderVenue'[o] = venue[l]
      /\ venue[l] \in Venue
      /\ \A p \in Order : p # o =>
            orderStatus'[p] = orderStatus[p] /\ orderVenue'[p] = orderVenue[p]
  BY <1>1 DEF TypeOK
<1>4. quantity[l] >= 1
  BY <1>1 DEF InStock
<1> QED BY <1>1, <1>2, <1>3, <1>4 DEF Moves

LEMMA RevisionMoves ==
    ASSUME TypeOK, OfferInv, OrderInv, NEW o \in Order, NEW L \in SUBSET Listing,
           ReviseOrder(o, L)
    PROVE  LET taken == L \ Lines(o)
           IN  /\ Moves(o, taken, Lines(o) \ L, LotsSoldOut(taken))
               /\ LotsSoldOut(taken) \in SUBSET taken
<1> DEFINE taken == L \ Lines(o)
           given == Lines(o) \ L
<1>1. /\ orderStatus[o] \in Editable /\ ~everShipped[o] /\ L # {}
      /\ taken # {} => orderVenue[o] = "store"
      /\ OnSaleInShop(taken) /\ InStock(taken)
      /\ \A l \in given : listingStatus[l] # "ended"
      /\ MoveLines(o, taken, given, LotsSoldOut(taken))
      /\ UNCHANGED <<orderStatus, orderVenue, everShipped, refund, stockBack>>
  BY DEF ReviseOrder, MayRevise, MayTake, MayMove
<1>2. \A l \in taken : share[o][l] = {}
  BY DEF Lines
<1>3. \A l \in given : share[o][l] # {}
  BY DEF Lines
<1>4. taken # {} \/ \E l \in Listing \ given : share[o][l] # {}
  BY <1>1 DEF Lines
<1>5. taken \in SUBSET Listing /\ given \in SUBSET Listing
  BY DEF Lines
<1> HIDE DEF taken, given
<1>6. \A l \in taken : /\ listingStatus[l] = "active" /\ quantity[l] >= 1
                       /\ venue[l] = "store"
                       /\ l \notin LotsSoldOut(taken) => subject[l] \in Item
  BY <1>1, <1>5, KeptListing
<1>7. LotsSoldOut(taken) \in SUBSET taken
  BY DEF LotsSoldOut, SoldOutBy
<1>8. Moves(o, taken, given, LotsSoldOut(taken))
  BY <1>1, <1>2, <1>3, <1>4, <1>5, <1>6, <1>7 DEF Moves
<1> QED BY <1>7, <1>8 DEF taken, given

\* Assembling a lot changes no lot on offer.
LEMMA AssemblyIsQuiet ==
    ASSUME TypeOK, OfferInv, OrderInv, LotRequest
    PROVE  OrderInv'
<1>1. UNCHANGED <<listingStatus, subject, quantity, orderVars>>
  BY DEF LotRequest, CreateLot, DeleteLot, AddMember, RemoveMember, listingVars
<1>2. PICK k \in Lot : \/ CreateLot(k)
                       \/ DeleteLot(k)
                       \/ \E i \in Item : AddMember(k, i) \/ RemoveMember(k, i)
  BY DEF LotRequest
<1>3. /\ lotStatus[k] # "offered" /\ lotStatus'[k] # "offered"
      /\ \A j \in Lot : j # k => lotStatus'[j] = lotStatus[j] /\ members'[j] = members[j]
  <2>1. CASE CreateLot(k) \/ DeleteLot(k)
    BY <2>1 DEF CreateLot, DeleteLot, Assembling, TypeOK
  <2>2. ASSUME NEW i \in Item, AddMember(k, i) \/ RemoveMember(k, i)
        PROVE  /\ lotStatus[k] = "assembling" /\ lotStatus' = lotStatus
               /\ \A j \in Lot : j # k => members'[j] = members[j]
    BY <2>2 DEF AddMember, RemoveMember, Assembling, TypeOK
  <2> QED BY <1>2, <2>1, <2>2
<1>4. ASSUME NEW l \in Listing, subject[l] \in Lot, listingStatus'[l] \in OnOffer
      PROVE  members'[subject[l]] \subseteq members[subject[l]]
  <2>1. Live(l)
    BY <1>1, <1>4 DEF Live
  <2>2. lotStatus[subject[l]] = "offered"
    BY <1>4, <2>1 DEF OfferInv, LotListingHoldsMembers
  <2> QED BY <1>3, <1>4, <2>2
<1>5. OfferedLotHasMembers'
  BY <1>3 DEF OrderInv, OfferedLotHasMembers
<1> QED BY <1>1, <1>4, <1>5, QuietKeeps DEF Live

\* A request that puts something on offer.
Offers(l, subj, S, v) ==
    /\ Offer(l, subj, S, v)
    /\ subj \in Item => S = {subj} /\ lotStatus' = lotStatus
    /\ subj \in Lot => /\ S = members[subj] /\ S # {}
                       /\ lotStatus[subj] = "assembling"
                       /\ lotStatus' = [lotStatus EXCEPT ![subj] = "offered"]

LEMMA OffersTake ==
    ASSUME TypeOK, OneLotPerItem, NEW l, NEW subj \in Item \cup Lot, NEW S, NEW v,
           Offers(l, subj, S, v)
    PROVE  OfferRows(l, subj, S, v) /\ LotTaken(subj, S) /\ S # {}
<1>1. CASE subj \in Item
  <2>1. Offer(l, subj, {subj}, v) /\ lotStatus' = lotStatus /\ S = {subj}
    BY <1>1 DEF Offers
  <2> QED BY <1>1, <2>1, OfferTakesItem
<1>2. CASE subj \in Lot
  <2>1. /\ Offer(l, subj, members[subj], v) /\ S = members[subj] /\ S # {}
        /\ lotStatus[subj] = "assembling"
        /\ lotStatus' = [lotStatus EXCEPT ![subj] = "offered"]
    BY <1>2 DEF Offers
  <2> QED BY <1>2, <2>1, OfferTakesLot
<1> QED BY <1>1, <1>2

\* A request that ends the listings E without a sale, and changes the standing
\* or the filing only of items that no other listing offers.
Withdraws(E, filed) ==
    /\ \A l \in E : Live(l)
    /\ EndOffers(E, FALSE, filed)
    /\ UNCHANGED <<subject, venue, quantity, orderVars>>
    /\ \A l \in Listing \ E, i \in Item : Live(l) /\ Names(l, i) =>
          /\ filed[i] = disposition[i]
          /\ itemStatus'[i] = itemStatus[i] /\ gone'[i] = gone[i]

\* A request that leaves every row of a sale alone, and the standing of what is
\* on offer.
Rests ==
    /\ UNCHANGED <<disposition, listingVars, lotVars, orderVars>>
    /\ \A l \in Listing, i \in Item : Names(l, i) =>
          /\ itemStatus[i] = "received" => itemStatus'[i] = "received"
          /\ gone'[i] = gone[i]

LEMMA OfferRequestKinds ==
    ASSUME TypeOK, OfferRequest
    PROVE  \/ \E l \in Listing, subj \in Item \cup Lot, S \in SUBSET Item, v \in Venue :
                 Offers(l, subj, S, v)
           \/ \E E \in SUBSET Listing, filed \in [Item -> Disposition] : Withdraws(E, filed)
           \/ \E l \in Listing : EndListingAgain(l)
<1> DEFINE Offering ==
      \E l \in Listing, subj \in Item \cup Lot, S \in SUBSET Item, v \in Venue :
          Offers(l, subj, S, v)
<1> DEFINE Withdrawing ==
      \E E \in SUBSET Listing, filed \in [Item -> Disposition] : Withdraws(E, filed)
<1>1. ASSUME NEW l \in Listing, NEW i \in Item, NEW v \in Platforms, OfferItem(l, i, v)
      PROVE  Offering
  <2>1. Offers(l, i, {i}, v)
    BY <1>1, SubjectsApart DEF OfferItem, Offers
  <2> QED BY <2>1, RequestsNameRealCodes
<1>2. ASSUME NEW l \in Listing, NEW k \in Lot, NEW v \in Platforms, OfferLot(l, k, v)
      PROVE  Offering
  <2>1. Offers(l, k, members[k], v)
    BY <1>2, SubjectsApart DEF OfferLot, Offers
  <2>2. members[k] \in SUBSET Item
    BY DEF TypeOK
  <2> QED BY <2>1, <2>2, RequestsNameRealCodes
<1>3. ASSUME NEW l \in Listing, EndListing(l)
      PROVE  Withdrawing
  <2>1. Withdraws({l}, disposition) /\ disposition \in [Item -> Disposition]
    BY <1>3 DEF EndListing, Withdraws, TypeOK
  <2> QED BY <2>1
<1> HIDE DEF Offering, Withdrawing
<1>4. Offering \/ Withdrawing \/ \E l \in Listing : EndListingAgain(l)
  BY <1>1, <1>2, <1>3 DEF OfferRequest
<1> QED BY <1>4 DEF Offering, Withdrawing

LEMMA OrderRequestKinds ==
    ASSUME TypeOK, OfferInv, OrderInv, OrderRequest
    PROVE  \/ \E o \in Order, T, G \in SUBSET Listing : \E E \in SUBSET T : Moves(o, T, G, E)
           \/ \E o \in Order, to \in OrderStatus : SetOrderStatus(o, to)
<1> DEFINE Moving ==
      \E o \in Order, T, G \in SUBSET Listing : \E E \in SUBSET T : Moves(o, T, G, E)
<1>1. ASSUME NEW o \in Order, NEW L \in SUBSET Listing, PlaceOrder(o, L)
      PROVE  Moving
  <2>1. Moves(o, L, {}, LotsSoldOut(L)) /\ LotsSoldOut(L) \in SUBSET L
    BY <1>1, PlacingMoves
  <2> QED BY <2>1
<1>2. ASSUME NEW o \in Order, NEW l \in Listing, RecordSale(o, l)
      PROVE  Moving
  <2>1. Moves(o, {l}, {}, {l})
    BY <1>2, RecordingMoves
  <2> QED BY <2>1
<1>3. ASSUME NEW o \in Order, NEW L \in SUBSET Listing, ReviseOrder(o, L)
      PROVE  Moving
  <2> DEFINE taken == L \ Lines(o)
             given == Lines(o) \ L
  <2>1. /\ Moves(o, taken, given, LotsSoldOut(taken))
        /\ LotsSoldOut(taken) \in SUBSET taken
        /\ taken \in SUBSET Listing /\ given \in SUBSET Listing
    BY <1>3, RevisionMoves DEF Lines
  <2> HIDE DEF taken, given
  <2> QED BY <2>1
<1> HIDE DEF Moving
<1>4. Moving \/ \E o \in Order, to \in OrderStatus : SetOrderStatus(o, to)
  BY <1>1, <1>2, <1>3, RequestsNameRealCodes DEF OrderRequest
<1> QED BY <1>4 DEF Moving

LEMMA ItemRequestKinds ==
    ASSUME TypeOK, OfferInv, ItemRequest
    PROVE  \/ \E E \in SUBSET Listing, filed \in [Item -> Disposition] : Withdraws(E, filed)
           \/ Rests
<1>1. ASSUME NEW i \in Item, ReceiveItem(i)
      PROVE  Rests
  BY <1>1 DEF ReceiveItem, Rests, TypeOK
<1>2. ASSUME NEW i \in Item, DeleteItem(i)
      PROVE  Rests
  <2>1. \A l \in Listing : ~Names(l, i)
    BY <1>2 DEF DeleteItem, EverOffered, Names, HeldBy
  <2> QED BY <1>2, <2>1 DEF DeleteItem, Rests, TypeOK
<1>3. ASSUME NEW i \in Item
      PROVE  /\ OffersHolding({i}) \in SUBSET Listing
             /\ \A l \in OffersHolding({i}) : Live(l)
             /\ \A l \in Listing \ OffersHolding({i}), j \in Item :
                   Live(l) /\ Names(l, j) => j # i
  BY DEF OffersHolding
<1>4. ASSUME NEW i \in Item, RecordLoss(i)
      PROVE  Withdraws(OffersHolding({i}), disposition) /\ disposition \in [Item -> Disposition]
  BY <1>3, <1>4 DEF RecordLoss, Withdraws, TypeOK
<1>5. ASSUME NEW i \in Item, NEW s \in {"received", "away"}, NEW d \in Dispositions,
             EditStanding(i, s, d)
      PROVE  /\ Withdraws(OffersHolding({i}), [disposition EXCEPT ![i] = d])
             /\ [disposition EXCEPT ![i] = d] \in [Item -> Disposition]
  BY <1>3, <1>5, RequestsNameRealCodes DEF EditStanding, WriteStanding, Withdraws, TypeOK
<1>6. ASSUME NEW i \in Item, SplitItem(i)
      PROVE  \E E \in SUBSET Listing, filed \in [Item -> Disposition] : Withdraws(E, filed)
  <2> DEFINE E == {l \in Listing : subject[l] = i /\ Live(l)}
  <2>1. ASSUME NEW l \in Listing \ E, Live(l), Names(l, i)
        PROVE  FALSE
    <3>1. subject[l] # i /\ claim[l][i] \in HeldBy
      BY <2>1 DEF Names
    <3>2. subject[l] \in Lot
      BY <2>1, <3>1 DEF TypeOK, OfferInv, ClaimsOwnItem, LiveOffersSomething
    <3>3. lotStatus[subject[l]] = "offered" /\ i \in members[subject[l]]
      BY <2>1, <3>1, <3>2 DEF OfferInv, LotListingHoldsMembers
    <3> QED BY <1>6, <3>2, <3>3 DEF SplitItem, InOfferedLot
  <2>2. /\ E \in SUBSET Listing /\ \A l \in E : Live(l)
        /\ disposition \in [Item -> Disposition]
    BY DEF TypeOK
  <2>3. /\ EndOffers(E, FALSE, disposition)
        /\ UNCHANGED <<itemStatus, subject, venue, quantity, orderVars>>
        /\ \A j \in Item : j # i => gone'[j] = gone[j]
    BY <1>6 DEF SplitItem, TypeOK
  <2> HIDE DEF E
  <2>4. Withdraws(E, disposition)
    BY <2>1, <2>2, <2>3 DEF Withdraws
  <2> QED BY <2>2, <2>4
<1>7. CASE \E i \in Item : ReceiveItem(i) \/ DeleteItem(i)
  BY <1>1, <1>2, <1>7
<1>8. CASE \E i \in Item : RecordLoss(i)
  BY <1>3, <1>4, <1>8
<1>9. CASE \E i \in Item, s \in {"received", "away"}, d \in Dispositions : EditStanding(i, s, d)
  <2>1. PICK i \in Item, s \in {"received", "away"}, d \in Dispositions : EditStanding(i, s, d)
    BY <1>9
  <2>2. /\ Withdraws(OffersHolding({i}), [disposition EXCEPT ![i] = d])
        /\ [disposition EXCEPT ![i] = d] \in [Item -> Disposition]
        /\ OffersHolding({i}) \in SUBSET Listing
    BY <1>3, <1>5, <2>1
  <2> QED BY <2>2
<1> QED BY <1>6, <1>7, <1>8, <1>9 DEF ItemRequest

\* Every step is of one of seven kinds.
LEMMA StepKinds ==
    ASSUME TypeOK, OfferInv, OrderInv, [Next]_vars
    PROVE  \/ LotRequest
           \/ \E l \in Listing, subj \in Item \cup Lot, S \in SUBSET Item, v \in Venue :
                 Offers(l, subj, S, v)
           \/ \E E \in SUBSET Listing, filed \in [Item -> Disposition] : Withdraws(E, filed)
           \/ \E l \in Listing : EndListingAgain(l)
           \/ \E o \in Order, T, G \in SUBSET Listing : \E E \in SUBSET T : Moves(o, T, G, E)
           \/ \E o \in Order, to \in OrderStatus : SetOrderStatus(o, to)
           \/ Rests
<1>1. UNCHANGED vars => Rests
  BY DEF vars, itemVars, listingVars, lotVars, Rests
<1> QED BY <1>1, OfferRequestKinds, OrderRequestKinds, ItemRequestKinds DEF Next

LEMMA OrderStep ==
    ASSUME TypeOK, OfferInv, OrderInv, [Next]_vars
    PROVE  OrderInv'
<1>1. ASSUME UNCHANGED <<listingStatus, subject, quantity, lotStatus, members, orderVars>>
      PROVE  OrderInv'
  <2>1. OfferedLotHasMembers'
    BY <1>1 DEF OrderInv, OfferedLotHasMembers
  <2> QED BY <1>1, <2>1, QuietKeeps DEF Live
<1>2. ASSUME NEW l \in Listing, NEW subj \in Item \cup Lot, NEW S \in SUBSET Item,
             NEW v \in Venue, Offers(l, subj, S, v)
      PROVE  OrderInv'
  <2>1. OfferRows(l, subj, S, v) /\ LotTaken(subj, S) /\ S # {}
    BY <1>2, OffersTake DEF OfferInv
  <2> QED BY <2>1, OfferKeepsOrders
<1>3. ASSUME NEW E \in SUBSET Listing, NEW filed, Withdraws(E, filed)
      PROVE  OrderInv'
  BY <1>3, EndingIsQuiet DEF Withdraws
<1>4. ASSUME NEW l \in Listing, EndListingAgain(l)
      PROVE  OrderInv'
  BY <1>1, <1>4 DEF EndListingAgain, lotVars
<1>5. CASE Rests
  BY <1>1, <1>5 DEF Rests, listingVars, lotVars
<1>6. ASSUME NEW o \in Order, NEW T \in SUBSET Listing, NEW G \in SUBSET Listing,
             NEW E \in SUBSET T, Moves(o, T, G, E)
      PROVE  OrderInv'
  BY <1>6, MovesKeeps
<1>7. ASSUME NEW o \in Order, NEW to \in OrderStatus, SetOrderStatus(o, to)
      PROVE  OrderInv'
  BY <1>7, StatusKeeps
<1> QED BY <1>2, <1>3, <1>4, <1>5, <1>6, <1>7, AssemblyIsQuiet, StepKinds

LEMMA OrderInit ==
    ASSUME Init
    PROVE  OrderInv
<1>1. \A o \in Order : /\ orderStatus[o] = "none" /\ refund[o] = "none"
                       /\ ~everShipped[o] /\ ~stockBack[o]
                       /\ \A l \in Listing : share[o][l] = {}
  BY DEF Init
<1>2. \A l \in Listing : listingStatus[l] # "unused" => quantity[l] = 1
  BY DEF Init
<1>3. \A k \in Lot : lotStatus[k] = "absent"
  BY DEF Init
<1>4. \A o \in Order : ~HoldsStock(o) /\ Lines(o) = {}
  BY <1>1 DEF HoldsStock, Lines
<1>5. LinesAreSold /\ PlacedHasLines /\ ReturnedStaysClosed /\ ReturnedNeverLeft
  BY <1>1 DEF LinesAreSold, PlacedHasLines, ReturnedStaysClosed, ReturnedNeverLeft
<1>6. LeavingIsKnown /\ RefundTellsItsStock
  BY <1>1 DEF LeavingIsKnown, RefundTellsItsStock, Shipped
<1>7. HeldStockIsNotPaused
  BY <1>4 DEF HeldStockIsNotPaused, OrdersHoldingStock
<1>8. UnitInOnePlace /\ OfferedLotHasMembers
  BY <1>1, <1>2, <1>3 DEF UnitInOnePlace, OfferedLotHasMembers
<1>9. LinesApart /\ PromisedIsNotForSale /\ PromisedOnce
  BY <1>4 DEF LinesApart, PromisedIsNotForSale, PromisedOnce, Holds
<1> QED BY <1>5, <1>6, <1>7, <1>8, <1>9 DEF OrderInv

\* The inductive invariant of the orders holds of every reachable database.
THEOREM OrdersAgree == Spec => []OrderInv
<1>1. Init => TypeOK /\ OfferInv /\ OrderInv
  BY TypeInit, OfferInit, OrderInit
<1>2. TypeOK /\ OfferInv /\ OrderInv /\ [Next]_vars => (TypeOK /\ OfferInv /\ OrderInv)'
  BY TypeStep, OfferStep, OrderStep
<1> QED BY <1>1, <1>2, PTL DEF Spec

\* The one unit of a listing is on its shelf or in exactly one order, whatever
\* the order's walk (order_writes.py, place_order, revise_order, return_stock;
\* sales_writes.py, record_sale_lines; routers/orders.py, update_order_status).
THEOREM StockConservedHolds == Spec => []StockConserved
<1>1. OrderInv => StockConserved
  <2> SUFFICES ASSUME OrderInv, NEW l \in Listing, listingStatus[l] # "unused"
               PROVE  quantity[l] + Cardinality(Keepers(l)) = 1
    BY DEF StockConserved
  <2>1. Keepers(l) = {o \in Order : share[o][l] # {} /\ ~stockBack[o]}
    BY DEF Keepers, Lines, OrderInv, ReturnedNeverLeft
  <2>2. CASE quantity[l] = 1 /\ \A o \in Order : share[o][l] = {} \/ stockBack[o]
    <3>1. Keepers(l) = {}
      BY <2>1, <2>2
    <3>2. Cardinality(Keepers(l)) = 0
      BY <3>1, FS_EmptySet
    <3> QED BY <2>2, <3>2
  <2>3. ASSUME quantity[l] = 0, NEW o \in Order, share[o][l] # {}, ~stockBack[o],
               \A p \in Order : share[p][l] # {} /\ ~stockBack[p] => p = o
        PROVE  quantity[l] + Cardinality(Keepers(l)) = 1
    <3>1. Keepers(l) = {o}
      BY <2>1, <2>3
    <3>2. Cardinality(Keepers(l)) = 1
      BY <3>1, FS_Singleton
    <3> QED BY <2>3, <3>2
  <2> QED BY <2>2, <2>3 DEF OrderInv, UnitInOnePlace
<1> QED BY <1>1, OrdersAgree, PTL

\* A coin promised to an order is not for sale and in no second such order
\* (offering_writes.py, _refuse_sold; order_writes.py, place_order).
THEOREM NoDoubleSaleHolds == Spec => []NoDoubleSale
<1>1. OrderInv => NoDoubleSale
  BY DEF OrderInv, NoDoubleSale, PromisedIsNotForSale, PromisedOnce, Holds, OrderItems
<1> QED BY <1>1, OrdersAgree, PTL

\* An order's stock goes back once or never, its history tells which, and its
\* listings are fit to take it (routers/orders.py, _refund_returned_stock and
\* _no_stock_to_return).
THEOREM StockGoesBackOnceHolds == Spec => []StockGoesBackOnce
<1>1. OrderInv => StockGoesBackOnce
  BY DEF OrderInv, StockGoesBackOnce
<1> QED BY <1>1, OrdersAgree, PTL
=============================================================================
