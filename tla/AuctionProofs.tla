----------------------------- MODULE AuctionProofs -----------------------------
(***************************************************************************)
(* What holds of the auctions over the shop, proved for every set of       *)
(* items, listings, lots, orders, auctions and buyers.  An accepted grid   *)
(* gives every lot one result, and the lots sold are shared out among new  *)
(* orders.  A request of the shop leaves an auction's lots alone; a        *)
(* request of an auction is, to the shop, an offer, an ending without a    *)
(* sale, or a settlement.                                                  *)
(***************************************************************************)
EXTENDS AuctionInvariant, StandingProofs

-----------------------------------------------------------------------------
(* The grid.                                                               *)

\* The lots of an auction in some order, each once.
LEMMA RowsOfLots ==
    ASSUME NEW lots, IsFiniteSet(lots)
    PROVE  /\ Cardinality(lots) \in Nat
           /\ SetToSeq(lots) \in [1..Cardinality(lots) -> lots]
           /\ \A m, n \in 1..Cardinality(lots) :
                 SetToSeq(lots)[m] = SetToSeq(lots)[n] => m = n
<1>1. Cardinality(lots) \in Nat /\ ExistsBijection(1..Cardinality(lots), lots)
  BY FS_CardinalityType
<1>2. \E f \in [1..Cardinality(lots) -> lots] : IsInjective(f)
  BY <1>1 DEF ExistsBijection, Bijection, Injection
<1>3. SetToSeq(lots) \in [1..Cardinality(lots) -> lots] /\ IsInjective(SetToSeq(lots))
  BY <1>2 DEF SetToSeq
<1> QED BY <1>1, <1>3 DEF IsInjective

\* The line of a lot in a grid with a line for it says the lot's result.
LEMMA GridLine ==
    ASSUME NEW a, IsFiniteSet(auctionLots[a]), NEW results, NEW buyers,
           NEW l \in auctionLots[a], LinesOf(l, GridFor(a, results, buyers)) # {}
    PROVE  LineOf(l, GridFor(a, results, buyers)).result = results[l]
<1> DEFINE lines == GridFor(a, results, buyers)
           rows == SetToSeq(auctionLots[a])
           N == Cardinality(auctionLots[a])
<1>1. /\ N \in Nat /\ rows \in [1..N -> auctionLots[a]]
      /\ \A m, n \in 1..N : rows[m] = rows[n] => m = n
  BY RowsOfLots
<1>2. /\ DOMAIN lines = 1..N
      /\ \A n \in 1..N : lines[n].lot = rows[n] /\ lines[n].result = results[rows[n]]
  BY <1>1 DEF GridFor
<1> HIDE DEF lines, rows, N
<1>3. PICK n \in 1..N : rows[n] = l
  BY <1>2 DEF LinesOf, lines
<1>4. LinesOf(l, lines) = {n}
  BY <1>1, <1>2, <1>3 DEF LinesOf
<1>5. LineOf(l, lines) = lines[n]
  <2>1. (CHOOSE m \in {n} : \A k \in {n} : m <= k) = n
    BY <1>3
  <2> QED BY <1>4, <2>1 DEF LineOf
<1> QED BY <1>2, <1>3, <1>5 DEF lines

LEMMA GridSold ==
    ASSUME NEW a, IsFiniteSet(auctionLots[a]), NEW results, NEW buyers,
           \A l \in auctionLots[a] : LinesOf(l, GridFor(a, results, buyers)) # {}
    PROVE  SoldLots(auctionLots[a], GridFor(a, results, buyers)) =
               {l \in auctionLots[a] : results[l] = "sold"}
<1>1. ASSUME NEW l \in auctionLots[a]
      PROVE  LineOf(l, GridFor(a, results, buyers)).result = results[l]
  BY GridLine
<1> DEFINE lines == GridFor(a, results, buyers)
<1>2. \A l \in auctionLots[a] : IsSold(LineOf(l, lines)) <=> results[l] = "sold"
  BY <1>1 DEF IsSold
<1>3. \A l \in auctionLots[a] : LinesOf(l, lines) # {}
  OBVIOUS
<1> HIDE DEF lines
<1> QED BY <1>2, <1>3 DEF SoldLots, PlacedLots, lines

\* The lots sold are shared out among the buyers, none left out.
LEMMA BuyersApart ==
    ASSUME NEW lots, NEW lines
    PROVE  LET groups == BuyerGroups(lots, lines)
               sold == SoldLots(lots, lines)
           IN  /\ \A g \in groups : g \subseteq sold /\ g # {}
               /\ \A l \in sold : \E g \in groups : l \in g
               /\ \A g, h \in groups : g # h => g \cap h = {}
<1> DEFINE groups == BuyerGroups(lots, lines)
           sold == SoldLots(lots, lines)
           key(l) == BuyerKey(LineOf(l, lines).buyer)
<1>1. \A g : g \in groups <=> \E m \in sold : g = {l \in sold : key(l) = key(m)}
  BY DEF BuyerGroups
<1> HIDE DEF groups, sold, key
<1>2. \A g \in groups : g \subseteq sold /\ g # {}
  BY <1>1
<1>3. \A l \in sold : \E g \in groups : l \in g
  <2> TAKE l \in sold
  <2> DEFINE g == {m \in sold : key(m) = key(l)}
  <2>1. g \in groups /\ l \in g
    BY <1>1
  <2> QED BY <2>1
<1>4. \A g, h \in groups : g # h => g \cap h = {}
  BY <1>1
<1> QED BY <1>2, <1>3, <1>4 DEF groups, sold

-----------------------------------------------------------------------------
(* A settlement as the shop sees it.                                       *)

\* The listings S are sold, each order new and taking the part bought[o] of
\* them, and the listings U come back unsold.  All are of lots and up.
Sells(S, U, bought, v) ==
    /\ S \in SUBSET Listing /\ U \in SUBSET Listing /\ S \cap U = {}
    /\ \A l \in S \cup U : listingStatus[l] = "active" /\ subject[l] \in Lot
    /\ \A l \in S : quantity[l] >= 1
    /\ v \in Outside
    /\ SettleListings(S, U)
    /\ UNCHANGED <<itemStatus, gone, subject, venue, everShipped, refund, stockBack>>
    /\ \A l \in S : \E o \in Order : l \in bought[o]
    /\ \A o \in Order : bought[o] \subseteq S
    /\ \A o, p \in Order : o # p => bought[o] \cap bought[p] = {}
    /\ \A o \in Order :
          IF bought[o] = {}
          THEN /\ orderStatus'[o] = orderStatus[o] /\ orderVenue'[o] = orderVenue[o]
               /\ share'[o] = share[o]
          ELSE /\ orderStatus[o] = "none"
               /\ orderStatus'[o] = FirstStatus(v) /\ orderVenue'[o] = v
               /\ \A l \in Listing :
                     share'[o][l] = IF l \in bought[o] THEN OfferedItems(l) ELSE {}

\* The lots of an accepted grid that sell are those its results say were sold.
LEMMA SettledSold ==
    ASSUME AuctionInv, NEW a \in Auction, NEW results, NEW buyers, NEW orderOf, NEW backTo,
           Settle(a, results, buyers, orderOf, backTo)
    PROVE  SoldLots(auctionLots[a], GridFor(a, results, buyers)) =
               {l \in auctionLots[a] : results[l] = "sold"}
<1> DEFINE lots == auctionLots[a]
           lines == GridFor(a, results, buyers)
<1>1. \A l \in lots : LinesOf(l, lines) # {}
  <2> SUFFICES ASSUME NEW l \in lots, LinesOf(l, lines) = {}
               PROVE  FALSE
    OBVIOUS
  <2> DEFINE names == auctionVenue[a] # "house"
  <2>1. LotProblems(l, lines, names) = {"conflict"}
    BY DEF LotProblems
  <2>2. GridProblems(lots, lines, <<>>, names, consignedOn[a], backTo) = {}
    BY DEF Settle
  <2>3. LotProblems(l, lines, names) \subseteq
            GridProblems(lots, lines, <<>>, names, consignedOn[a], backTo)
    BY DEF GridProblems
  <2> QED BY <2>1, <2>2, <2>3
<1>2. IsFiniteSet(lots)
  BY DEF AuctionInv, LotsAreFinite
<1> QED BY <1>1, <1>2, GridSold

\* A settlement sells the lots its results say were sold.
LEMMA SettleSells ==
    ASSUME AuctionTypeOK, AuctionInv, NEW a \in Auction,
           NEW results \in [auctionLots[a] -> Result],
           NEW buyers \in [auctionLots[a] -> Bidders], NEW orderOf, NEW backTo,
           orderOf \in [BuyerGroups(auctionLots[a], GridFor(a, results, buyers)) -> Order],
           Settle(a, results, buyers, orderOf, backTo)
    PROVE  LET sold == {l \in auctionLots[a] : results[l] = "sold"}
               groups == BuyerGroups(auctionLots[a], GridFor(a, results, buyers))
           IN  Sells(sold, auctionLots[a] \ sold,
                     [o \in Order |-> BoughtOn(o, orderOf, groups)], auctionVenue[a])
<1> DEFINE lots == auctionLots[a]
           lines == GridFor(a, results, buyers)
           sold == {l \in lots : results[l] = "sold"}
           groups == BuyerGroups(lots, lines)
           bought == [o \in Order |-> BoughtOn(o, orderOf, groups)]
           v == auctionVenue[a]
<1>1. SoldLots(lots, lines) = sold
  BY SettledSold
<1>2. /\ \A g \in groups : g \subseteq sold /\ g # {}
      /\ \A l \in sold : \E g \in groups : l \in g
      /\ \A g, h \in groups : g # h => g \cap h = {}
  BY <1>1, BuyersApart
<1>3. /\ auctionStatus[a] = "closed"
      /\ \A l \in sold : listingStatus[l] = "active" /\ quantity[l] >= 1
      /\ SettleOrders(a, orderOf, groups)
      /\ SettleListings(sold, lots \ sold)
      /\ UNCHANGED <<itemStatus, gone, subject, venue>>
  BY <1>1 DEF Settle
<1>4. \A l \in lots : l \in Listing /\ listingStatus[l] = "active" /\ subject[l] \in Lot
  BY <1>3 DEF AuctionTypeOK, AuctionInv, LotsFollowAuction
<1>5. v \in Outside
  BY DEF AuctionTypeOK
<1> HIDE DEF lots, lines, sold, groups, v
<1>6. \A l \in sold : \E o \in Order : l \in bought[o]
  <2> SUFFICES ASSUME NEW l \in sold
               PROVE  \E o \in Order : l \in bought[o]
    OBVIOUS
  <2>1. PICK g \in groups : l \in g
    BY <1>2
  <2>2. orderOf[g] \in Order
    BY DEF groups, lots, lines
  <2> QED BY <2>1, <2>2 DEF BoughtOn
<1>7. \A o \in Order : bought[o] \subseteq sold
  BY <1>2 DEF BoughtOn
<1>8. \A o, p \in Order : o # p => bought[o] \cap bought[p] = {}
  BY <1>2 DEF BoughtOn
<1>9. ASSUME NEW o \in Order
      PROVE  IF bought[o] = {}
             THEN /\ orderStatus'[o] = orderStatus[o] /\ orderVenue'[o] = orderVenue[o]
                  /\ share'[o] = share[o]
             ELSE /\ orderStatus[o] = "none"
                  /\ orderStatus'[o] = FirstStatus(v) /\ orderVenue'[o] = v
                  /\ \A l \in Listing :
                        share'[o][l] = IF l \in bought[o] THEN OfferedItems(l) ELSE {}
  <2>1. bought[o] # {} <=> o \in {orderOf[g] : g \in groups}
    BY <1>2 DEF BoughtOn
  <2>2. bought[o] = BoughtOn(o, orderOf, groups)
    OBVIOUS
  <2> HIDE DEF bought
  <2> QED BY <1>3, <2>1, <2>2 DEF SettleOrders, v
<1>10. /\ sold \in SUBSET Listing /\ lots \ sold \in SUBSET Listing
       /\ sold \cap (lots \ sold) = {} /\ sold \subseteq lots
  BY <1>4 DEF sold
<1> HIDE DEF bought
<1>11. UNCHANGED <<everShipped, refund, stockBack>>
  BY <1>3 DEF SettleOrders
<1>12. Sells(sold, lots \ sold, bought, v)
  BY <1>3, <1>4, <1>5, <1>6, <1>7, <1>8, <1>9, <1>10, <1>11 DEF Sells
<1> QED BY <1>12 DEF lots, lines, sold, groups, bought, v

\* What it writes of one listing: what sells ends with what was set aside for
\* it, and what was set aside for one that comes back is up again.
LEMMA SettlingStatus ==
    ASSUME NEW S, NEW U, NEW bought, NEW v, Sells(S, U, bought, v), NEW l \in Listing
    PROVE  /\ l \in S \cup U \cup PausedBy(S) => listingStatus'[l] = "ended"
           /\ l \in PausedBy(U) \ PausedBy(S) => listingStatus'[l] = "active"
           /\ l \notin S \cup U \cup PausedBy(S) \cup PausedBy(U) =>
                 listingStatus'[l] = listingStatus[l]
           /\ pausedBy'[l] = IF l \in S \cup U \cup PausedBy(S) \cup PausedBy(U)
                             THEN NoOne ELSE pausedBy[l]
           /\ listingStatus'[l] = SettledStatus(S, U)[l]
           /\ \A k \in Lot : members'[k] = IF \E m \in S \cup U : subject[m] = k
                                            THEN {} ELSE members[k]
<1>1. /\ S \in SUBSET Listing /\ U \in SUBSET Listing
      /\ \A m \in S \cup U : listingStatus[m] = "active"
      /\ SettleListings(S, U)
  BY DEF Sells
<1>2. listingStatus'[l] = SettledStatus(S, U)[l]
  BY <1>1 DEF SettleListings
<1>3. PausedBy(S \cup U) = PausedBy(S) \cup PausedBy(U)
  BY <1>1 DEF PausedBy
<1>4. l \in PausedBy(U) => listingStatus[l] = "paused"
  BY DEF PausedBy
<1>5. /\ l \in S \cup U \cup PausedBy(S) => listingStatus'[l] = "ended"
      /\ l \in PausedBy(U) \ PausedBy(S) => listingStatus'[l] = "active"
      /\ l \notin S \cup U \cup PausedBy(S) \cup PausedBy(U) =>
            listingStatus'[l] = listingStatus[l]
  BY <1>1, <1>2, <1>4 DEF SettledStatus
<1>6. pausedBy'[l] = IF l \in S \cup U \cup PausedBy(S) \cup PausedBy(U)
                     THEN NoOne ELSE pausedBy[l]
  BY <1>1, <1>3 DEF SettleListings
<1>7. \A k \in Lot : members'[k] = IF \E m \in S \cup U : subject[m] = k
                                     THEN {} ELSE members[k]
  BY <1>1 DEF SettleListings
<1> QED BY <1>2, <1>5, <1>6, <1>7

\* What is on offer after a settlement was on offer before it and is no lot of
\* the auction; what is up again was set aside for a lot that came back.
LEMMA SettlingLeaves ==
    ASSUME TypeOK, OfferInv, NEW S, NEW U, NEW bought, NEW v, Sells(S, U, bought, v),
           NEW l \in Listing
    PROVE  /\ listingStatus[l] = "ended" => listingStatus'[l] = "ended"
           /\ listingStatus'[l] = "unused" <=> listingStatus[l] = "unused"
           /\ listingStatus'[l] = "paused" =>
                 listingStatus[l] = "paused" /\ l \notin PausedBy(S) \cup PausedBy(U)
           /\ listingStatus'[l] \in OnOffer =>
                 Live(l) /\ l \notin S \cup U \cup PausedBy(S)
           /\ listingStatus'[l] = "active" =>
                 \/ listingStatus[l] = "active" /\ l \notin S \cup U
                 \/ l \in PausedBy(U)
           /\ subject'[l] = subject[l] /\ venue'[l] = venue[l]
<1>1. /\ l \in S \cup U => listingStatus[l] = "active"
      /\ subject'[l] = subject[l] /\ venue'[l] = venue[l]
  BY DEF Sells
<1>2. l \in PausedBy(S) \cup PausedBy(U) => listingStatus[l] = "paused"
  BY DEF PausedBy
<1> QED BY <1>1, <1>2, SettlingStatus DEF Live, OnOffer

LEMMA SettlingClaim ==
    ASSUME NEW S, NEW U, NEW bought, NEW v, Sells(S, U, bought, v),
           NEW l \in Listing, NEW i \in Item
    PROVE  claim'[l][i] = IF l \in S \cup U \cup PausedBy(S) THEN Moved(l, i, "released")
                          ELSE IF l \in PausedBy(U) THEN Moved(l, i, "active")
                          ELSE claim[l][i]
BY DEF Sells, SettleListings, SettledClaim

\* A listing that stays live keeps the items it names.
LEMMA SettlingNames ==
    ASSUME TypeOK, OfferInv, NEW S, NEW U, NEW bought, NEW v, Sells(S, U, bought, v),
           NEW l \in Listing, listingStatus'[l] \in OnOffer, NEW i \in Item
    PROVE  subject'[l] = i \/ claim'[l][i] \in HeldBy <=> Names(l, i)
<1>1. l \notin S \cup U \cup PausedBy(S) /\ subject'[l] = subject[l]
  BY SettlingLeaves
<1>2. claim'[l][i] = IF l \in PausedBy(U) THEN Moved(l, i, "active") ELSE claim[l][i]
  BY <1>1, SettlingClaim
<1> QED BY <1>1, <1>2 DEF Names, Moved, HeldBy

-----------------------------------------------------------------------------
(* The offers.                                                             *)

LEMMA SettlingKeepsClaims ==
    ASSUME TypeOK, OfferInv, NEW S, NEW U, NEW bought, NEW v, Sells(S, U, bought, v)
    PROVE  ClaimFollowsListing'
<1> SUFFICES ASSUME NEW l \in Listing, NEW i \in Item, claim'[l][i] # "none"
             PROVE  claim'[l][i] = CASE listingStatus'[l] = "active" -> "active"
                                     [] listingStatus'[l] = "paused" -> "paused"
                                     [] OTHER -> "released"
  BY DEF ClaimFollowsListing
<1>1. claim[l][i] # "none" =>
          claim[l][i] = CASE listingStatus[l] = "active" -> "active"
                          [] listingStatus[l] = "paused" -> "paused"
                          [] OTHER -> "released"
  BY DEF OfferInv, ClaimFollowsListing
<1>2. CASE l \in S \cup U \cup PausedBy(S)
  <2>1. listingStatus'[l] = "ended" /\ claim'[l][i] = Moved(l, i, "released")
    BY <1>2, SettlingStatus, SettlingClaim
  <2>2. claim[l][i] \in ClaimState
    BY DEF TypeOK
  <2>3. Moved(l, i, "released") \in {"none", "released"}
    BY <2>2 DEF Moved, HeldBy, ClaimState
  <2> QED BY <2>1, <2>3
<1>3. CASE l \in PausedBy(U) \ (S \cup U \cup PausedBy(S))
  <2>1. listingStatus'[l] = "active" /\ claim'[l][i] = Moved(l, i, "active")
    BY <1>3, SettlingStatus, SettlingClaim
  <2>2. listingStatus[l] = "paused"
    BY <1>3 DEF PausedBy
  <2>3. claim[l][i] = "none" \/ claim[l][i] = "paused"
    BY <1>1, <2>2
  <2>4. Moved(l, i, "active") \in {"none", "active"}
    BY <2>3 DEF Moved, HeldBy
  <2> QED BY <2>1, <2>4
<1>4. CASE l \notin S \cup U \cup PausedBy(S) \cup PausedBy(U)
  <2>1. listingStatus'[l] = listingStatus[l] /\ claim'[l][i] = claim[l][i]
    BY <1>4, SettlingStatus, SettlingClaim
  <2> QED BY <1>1, <2>1
<1> QED BY <1>2, <1>3, <1>4

LEMMA SettlingKeepsPaused ==
    ASSUME TypeOK, OfferInv, NEW S, NEW U, NEW bought, NEW v, Sells(S, U, bought, v)
    PROVE  PausedIsWaiting'
<1> SUFFICES ASSUME NEW l \in Listing
             PROVE  IF listingStatus'[l] = "paused"
                    THEN /\ venue'[l] = "store"
                         /\ subject'[l] \in Item
                         /\ pausedBy'[l] \in Listing
                         /\ listingStatus'[pausedBy'[l]] = "active"
                         /\ Names(pausedBy[l], subject[l])'
                    ELSE pausedBy'[l] = NoOne
  BY DEF PausedIsWaiting
<1>1. CASE listingStatus'[l] = "paused"
  <2>1. /\ listingStatus[l] = "paused" /\ l \notin PausedBy(S) \cup PausedBy(U)
        /\ subject'[l] = subject[l] /\ venue'[l] = venue[l]
    BY <1>1, SettlingLeaves
  <2> DEFINE p == pausedBy[l]
  <2>2. /\ venue[l] = "store"
        /\ subject[l] \in Item
        /\ p \in Listing
        /\ listingStatus[p] = "active"
        /\ Names(p, subject[l])
    BY <2>1 DEF OfferInv, PausedIsWaiting
  <2>3. l \notin S \cup U /\ pausedBy'[l] = p
    <3>1. l \notin S \cup U
      BY <2>1 DEF Sells
    <3> QED BY <2>1, <3>1, SettlingStatus
  <2>4. p \notin S \cup U
    BY <2>1, <2>3 DEF PausedBy
  <2> HIDE DEF p
  <2>5. p \notin PausedBy(S) \cup PausedBy(U)
    BY <2>2 DEF PausedBy
  <2>6. listingStatus'[p] = "active"
    BY <2>2, <2>4, <2>5, SettlingStatus
  <2>7. subject'[p] = subject[l] \/ claim'[p][subject[l]] \in HeldBy
    BY <2>2, <2>6, SettlingNames DEF OnOffer
  <2> QED BY <1>1, <2>1, <2>2, <2>3, <2>6, <2>7 DEF Names
<1>2. CASE listingStatus'[l] # "paused"
  <2>1. CASE l \in S \cup U \cup PausedBy(S) \cup PausedBy(U)
    BY <1>2, <2>1, SettlingStatus
  <2>2. CASE l \notin S \cup U \cup PausedBy(S) \cup PausedBy(U)
    <3>1. listingStatus[l] # "paused" /\ pausedBy'[l] = pausedBy[l]
      BY <1>2, <2>2, SettlingStatus
    <3> QED BY <1>2, <3>1 DEF OfferInv, PausedIsWaiting
  <2> QED BY <2>1, <2>2
<1> QED BY <1>1, <1>2

\* What comes back was set aside for a lot that came back, and only that.
LEMMA SettlingKeepsOneOffer ==
    ASSUME TypeOK, OfferInv, NEW S, NEW U, NEW bought, NEW v, Sells(S, U, bought, v)
    PROVE  OneOffer'
<1> SUFFICES ASSUME NEW l \in Listing, NEW m \in Listing, NEW i \in Item,
                    listingStatus'[l] = "active", Names(l, i)',
                    listingStatus'[m] = "active", Names(m, i)'
             PROVE  l = m
  BY DEF OneOffer
<1>1. Names(l, i) /\ Names(m, i)
  BY SettlingNames DEF Names, OnOffer
<1>2. ASSUME NEW p \in Listing, p \in PausedBy(U), Names(p, i)
      PROVE  /\ listingStatus[p] = "paused" /\ venue[p] = "store" /\ subject[p] = i
             /\ pausedBy[p] \in U /\ pausedBy[p] \in Listing
             /\ listingStatus[pausedBy[p]] = "active" /\ Names(pausedBy[p], i)
  <2>1. listingStatus[p] = "paused" /\ pausedBy[p] \in U
    BY <1>2 DEF PausedBy
  <2>2. /\ venue[p] = "store"
        /\ subject[p] \in Item
        /\ pausedBy[p] \in Listing
        /\ listingStatus[pausedBy[p]] = "active"
        /\ Names(pausedBy[p], subject[p])
    BY <2>1 DEF OfferInv, PausedIsWaiting
  <2>3. subject[p] = i
    BY <1>2, <2>2 DEF Names, OfferInv, ClaimsOwnItem
  <2> QED BY <2>1, <2>2, <2>3
<1>3. ASSUME NEW p \in Listing, NEW q \in Listing, p \in PausedBy(U), Names(p, i),
             listingStatus[q] = "active", q \notin S \cup U, Names(q, i)
      PROVE  FALSE
  <2>1. /\ pausedBy[p] \in U /\ pausedBy[p] \in Listing
        /\ listingStatus[pausedBy[p]] = "active" /\ Names(pausedBy[p], i)
    BY <1>2, <1>3
  <2> QED BY <1>3, <2>1 DEF OfferInv, OneOffer
<1>4. /\ (listingStatus[l] = "active" /\ l \notin S \cup U) \/ l \in PausedBy(U)
      /\ (listingStatus[m] = "active" /\ m \notin S \cup U) \/ m \in PausedBy(U)
  BY SettlingLeaves
<1>5. CASE listingStatus[l] = "active" /\ listingStatus[m] = "active"
  BY <1>1, <1>5 DEF OfferInv, OneOffer
<1>6. CASE l \in PausedBy(U) /\ m \in PausedBy(U)
  <2>1. /\ Live(l) /\ Live(m)
        /\ subject[l] = i /\ subject[m] = i
        /\ venue[l] = "store" /\ venue[m] = "store"
    BY <1>1, <1>2, <1>6 DEF Live, OnOffer
  <2> QED BY <2>1 DEF OfferInv, OnePerSubject
<1> QED BY <1>1, <1>3, <1>4, <1>5, <1>6

LEMMA SettlingKeepsLots ==
    ASSUME TypeOK, OfferInv, NEW S, NEW U, NEW bought, NEW v, Sells(S, U, bought, v)
    PROVE  /\ LotListingHoldsMembers'
           /\ OfferedLotIsListed'
           /\ FinishedLotIsEmpty'
           /\ OneLotPerItem'
<1> DEFINE lots == {k \in Lot : \E l \in S \cup U : subject[l] = k}
<1>1. \A k \in Lot :
          /\ k \in lots => lotStatus'[k] \in {"sold", "dissolved"} /\ members'[k] = {}
          /\ k \notin lots => lotStatus'[k] = lotStatus[k] /\ members'[k] = members[k]
  <2>1. SettleListings(S, U)
    BY DEF Sells
  <2> QED BY <2>1 DEF SettleListings
<1>2. \A l \in S \cup U : l \in Listing /\ Live(l) /\ subject[l] \in Lot
  BY DEF Sells, Live, OnOffer
<1>3. LotListingHoldsMembers'
  <2> SUFFICES ASSUME NEW l \in Listing, listingStatus'[l] \in OnOffer, subject'[l] \in Lot
               PROVE  /\ lotStatus'[subject'[l]] = "offered"
                      /\ members'[subject'[l]] = {i \in Item : claim'[l][i] \in HeldBy}
    BY DEF LotListingHoldsMembers, Live
  <2>1. Live(l) /\ l \notin S \cup U /\ subject'[l] = subject[l]
    BY SettlingLeaves
  <2>2. /\ lotStatus[subject[l]] = "offered"
        /\ members[subject[l]] = {i \in Item : claim[l][i] \in HeldBy}
    BY <2>1 DEF OfferInv, LotListingHoldsMembers
  <2>3. subject[l] \notin lots
    BY <1>2, <2>1 DEF OfferInv, OnePerSubject
  <2>4. \A i \in Item : claim'[l][i] \in HeldBy <=> claim[l][i] \in HeldBy
    <3> TAKE i \in Item
    <3>1. subject[l] # i
      BY <2>1, SubjectsApart
    <3>2. subject'[l] = i \/ claim'[l][i] \in HeldBy <=> Names(l, i)
      BY SettlingNames
    <3> QED BY <2>1, <3>1, <3>2 DEF Names
  <2> QED BY <1>1, <2>1, <2>2, <2>3, <2>4
<1>4. OfferedLotIsListed'
  <2> SUFFICES ASSUME NEW k \in Lot, lotStatus'[k] = "offered"
               PROVE  \E l \in Listing : listingStatus'[l] \in OnOffer /\ subject'[l] = k
    BY DEF OfferedLotIsListed, Live
  <2>1. k \notin lots /\ lotStatus[k] = "offered"
    BY <1>1
  <2>2. PICK l \in Listing : Live(l) /\ subject[l] = k
    BY <2>1 DEF OfferInv, OfferedLotIsListed
  <2>3. l \notin S \cup U /\ listingStatus[l] # "paused"
    BY <2>1, <2>2, SubjectsApart DEF OfferInv, PausedIsWaiting
  <2>4. l \notin PausedBy(S) \cup PausedBy(U)
    BY <2>3 DEF PausedBy
  <2>5. listingStatus'[l] = listingStatus[l] /\ subject'[l] = subject[l]
    BY <2>3, <2>4, SettlingStatus, SettlingLeaves
  <2> QED BY <2>2, <2>5 DEF Live
<1>5. FinishedLotIsEmpty'
  BY <1>1 DEF OfferInv, FinishedLotIsEmpty
<1>6. OneLotPerItem'
  BY <1>1 DEF OfferInv, OneLotPerItem
<1> QED BY <1>3, <1>4, <1>5, <1>6

LEMMA SettlingKeepsOffers ==
    ASSUME TypeOK, OfferInv, NEW S, NEW U, NEW bought, NEW v, Sells(S, U, bought, v)
    PROVE  OfferInv'
<1>1. \A l \in Listing :
          /\ listingStatus'[l] \in OnOffer => Live(l)
          /\ subject'[l] = subject[l] /\ venue'[l] = venue[l]
  BY SettlingLeaves
<1>2. ClaimsOwnItem'
  <2>1. \A l \in Listing, i \in Item :
            claim'[l][i] \in HeldBy => claim[l][i] \in HeldBy \/ subject[l] = i
    BY SettlingClaim DEF Moved, HeldBy
  <2> QED BY <1>1, <2>1 DEF OfferInv, ClaimsOwnItem
<1>3. LiveOffersSomething'
  BY <1>1 DEF OfferInv, LiveOffersSomething, Live
<1>4. OnePerSubject'
  BY <1>1 DEF OfferInv, OnePerSubject, Live
<1> QED BY <1>2, <1>3, <1>4, SettlingKeepsClaims, SettlingKeepsPaused, SettlingKeepsOneOffer,
           SettlingKeepsLots DEF OfferInv

-----------------------------------------------------------------------------
(* The orders.                                                             *)

\* The rows of the orders, one by one: a lot that sells is on no order, and an
\* order that buys is a new one.
LEMMA SettlingWrites ==
    ASSUME TypeOK, OfferInv, OrderInv, NEW S, NEW U, NEW bought, NEW v,
           Sells(S, U, bought, v), NEW o \in Order, NEW l \in Listing
    PROVE  /\ share'[o][l] = IF l \in bought[o] THEN OfferedItems(l) ELSE share[o][l]
           /\ l \in S => share[o][l] = {} /\ quantity[l] = 1 /\ Live(l)
                         /\ OfferedItems(l) # {}
           /\ quantity'[l] = IF l \in S THEN quantity[l] - 1 ELSE quantity[l]
           /\ bought[o] = {} =>
                 /\ orderStatus'[o] = orderStatus[o] /\ orderVenue'[o] = orderVenue[o]
                 /\ share'[o][l] = share[o][l]
           /\ bought[o] # {} =>
                 /\ orderStatus[o] = "none" /\ share[o][l] = {}
                 /\ ~everShipped[o] /\ refund[o] = "none" /\ ~stockBack[o]
                 /\ orderStatus'[o] = FirstStatus(v) /\ orderVenue'[o] = v
<1>1. IF bought[o] = {}
      THEN /\ orderStatus'[o] = orderStatus[o] /\ orderVenue'[o] = orderVenue[o]
           /\ share'[o] = share[o]
      ELSE /\ orderStatus[o] = "none"
           /\ orderStatus'[o] = FirstStatus(v) /\ orderVenue'[o] = v
           /\ \A m \in Listing :
                 share'[o][m] = IF m \in bought[o] THEN OfferedItems(m) ELSE {}
  BY DEF Sells
<1>2. bought[o] # {} =>
          /\ share[o][l] = {}
          /\ ~everShipped[o] /\ refund[o] = "none" /\ ~stockBack[o]
  BY <1>1 DEF OrderInv, PlacedHasLines
<1>3. ASSUME l \in S
      PROVE  share[o][l] = {} /\ quantity[l] = 1 /\ Live(l) /\ OfferedItems(l) # {}
  <2>1. listingStatus[l] = "active" /\ subject[l] \in Lot /\ quantity[l] >= 1
    BY <1>3 DEF Sells
  <2>2. Live(l) /\ listingStatus[l] # "unused" /\ subject[l] \notin Item
    BY <2>1, SubjectsApart DEF Live, OnOffer
  <2>3. share[o][l] = {}
    BY <2>1, <2>2 DEF OrderInv, LinesAreSold
  <2>4. quantity[l] = 1
    BY <2>1, <2>2 DEF OrderInv, UnitInOnePlace
  <2>5. OfferedItems(l) # {}
    BY <2>2, LiveOffersACoin DEF OrderInv
  <2> QED BY <2>2, <2>3, <2>4, <2>5
<1>4. quantity'[l] = IF l \in S THEN quantity[l] - 1 ELSE quantity[l]
  <2>1. Restock(S, {})
    BY DEF Sells, SettleListings
  <2> QED BY <2>1 DEF Restock
<1>5. bought[o] = {} => l \notin bought[o]
  OBVIOUS
<1> QED BY <1>1, <1>2, <1>3, <1>4, <1>5

\* No two lots that sell share a coin.
LEMMA SoldApart ==
    ASSUME TypeOK, OfferInv, NEW S, NEW U, NEW bought, NEW v, Sells(S, U, bought, v),
           NEW l \in S, NEW m \in S, l # m
    PROVE  OfferedItems(l) \cap OfferedItems(m) = {}
<1>1. /\ l \in Listing /\ listingStatus[l] = "active" /\ Live(l)
      /\ m \in Listing /\ listingStatus[m] = "active" /\ Live(m)
  BY DEF Sells, Live, OnOffer
<1>2. OfferedItems(l) \in SUBSET Item
  BY <1>1, OfferedItemsType
<1>3. ASSUME NEW i \in Item, i \in OfferedItems(l), i \in OfferedItems(m)
      PROVE  FALSE
  <2>1. Names(l, i) /\ Names(m, i)
    BY <1>1, <1>3, OfferedIsNamed
  <2> QED BY <1>1, <2>1 DEF OfferInv, OneOffer
<1> QED BY <1>2, <1>3

\* What a settlement leaves on offer sells no coin of a lot it sold: a shop
\* listing set aside for the lot ends with it.
LEMMA SettlingClosesCoins ==
    ASSUME TypeOK, OfferInv, NEW S, NEW U, NEW bought, NEW v, Sells(S, U, bought, v),
           NEW l \in S, NEW m \in Listing, listingStatus'[m] \in OnOffer
    PROVE  OfferedItems(l) \cap OfferedItems(m) = {}
<1>1. l \in Listing /\ listingStatus[l] = "active" /\ Live(l)
  BY DEF Sells, Live, OnOffer
<1>2. Live(m) /\ m \notin S \cup U \cup PausedBy(S)
  BY SettlingLeaves
<1>3. OfferedItems(l) \in SUBSET Item
  BY <1>1, OfferedItemsType
<1>4. ASSUME NEW i \in Item, i \in OfferedItems(l), i \in OfferedItems(m)
      PROVE  FALSE
  <2>1. Names(l, i) /\ Names(m, i)
    BY <1>1, <1>2, <1>4, OfferedIsNamed
  <2>2. listingStatus[m] # "active"
    BY <1>1, <1>2, <2>1 DEF OfferInv, OneOffer
  <2>3. listingStatus[m] = "paused"
    BY <1>2, <2>2 DEF Live, OnOffer
  <2> DEFINE p == pausedBy[m]
  <2>4. /\ subject[m] \in Item
        /\ p \in Listing /\ listingStatus[p] = "active" /\ Names(p, subject[m])
    BY <2>3 DEF OfferInv, PausedIsWaiting
  <2>5. subject[m] = i
    BY <2>1, <2>4 DEF Names, OfferInv, ClaimsOwnItem
  <2>6. p = l
    BY <1>1, <2>1, <2>4, <2>5 DEF OfferInv, OneOffer
  <2>7. m \in PausedBy(S)
    BY <1>2, <2>3, <2>6 DEF PausedBy
  <2> QED BY <1>2, <2>7
<1> QED BY <1>3, <1>4

LEMMA SettlingKeepsHistory ==
    ASSUME TypeOK, OfferInv, OrderInv, NEW S, NEW U, NEW bought, NEW v,
           Sells(S, U, bought, v)
    PROVE  /\ LeavingIsKnown' /\ ReturnedStaysClosed' /\ ReturnedNeverLeft'
           /\ RefundTellsItsStock'
<1> SUFFICES ASSUME NEW o \in Order
             PROVE  /\ orderStatus'[o] \in Shipped \/ refund'[o] = "kept" => HasLeft(o)'
                    /\ orderStatus'[o] = "refunded" => refund'[o] # "none"
                    /\ stockBack'[o] => orderStatus'[o] \in StockReturning /\ ~HasLeft(o)'
                    /\ orderStatus'[o] = "refunded" =>
                          (refund'[o] = "returned" <=> stockBack'[o])
  BY DEF LeavingIsKnown, ReturnedStaysClosed, ReturnedNeverLeft, RefundTellsItsStock
<1>1. /\ everShipped'[o] = everShipped[o] /\ refund'[o] = refund[o]
      /\ stockBack'[o] = stockBack[o]
  BY DEF Sells
<1>2. /\ bought[o] = {} =>
             orderStatus'[o] = orderStatus[o] /\ orderVenue'[o] = orderVenue[o]
      /\ bought[o] # {} =>
             /\ refund[o] = "none" /\ ~stockBack[o]
             /\ orderStatus'[o] = FirstStatus(v) /\ orderVenue'[o] = v
  <2>1. IF bought[o] = {}
        THEN orderStatus'[o] = orderStatus[o] /\ orderVenue'[o] = orderVenue[o]
        ELSE /\ orderStatus[o] = "none"
             /\ orderStatus'[o] = FirstStatus(v) /\ orderVenue'[o] = v
    BY DEF Sells
  <2> QED BY <2>1 DEF OrderInv, PlacedHasLines
<1>3. CASE bought[o] = {}
  BY <1>1, <1>2, <1>3 DEF OrderInv, LeavingIsKnown, ReturnedStaysClosed, ReturnedNeverLeft,
                          RefundTellsItsStock, HasLeft
<1>4. CASE bought[o] # {}
  <2>1. FirstStatus(v) # "refunded"
    BY DEF Sells, Outside, Venue, FirstStatus
  <2> QED BY <1>1, <1>2, <1>4, <2>1 DEF HasLeft
<1> QED BY <1>3, <1>4

LEMMA SettlingKeepsLines ==
    ASSUME TypeOK, OfferInv, OrderInv, NEW S, NEW U, NEW bought, NEW v,
           Sells(S, U, bought, v)
    PROVE  /\ LinesAreSold' /\ PlacedHasLines' /\ HeldStockIsNotPaused'
           /\ UnitInOnePlace' /\ OfferedLotHasMembers'
<1>1. /\ UNCHANGED <<subject, everShipped, refund, stockBack>>
      /\ \A o \in Order : bought[o] \subseteq S
      /\ S \subseteq Listing
      /\ \A l \in S : subject[l] \in Lot /\ \E o \in Order : l \in bought[o]
      /\ \A o, p \in Order : o # p => bought[o] \cap bought[p] = {}
  BY DEF Sells
<1>2. LinesAreSold'
  <2> SUFFICES ASSUME NEW o \in Order, NEW l \in Listing, share'[o][l] # {}
               PROVE  /\ listingStatus'[l] # "unused"
                      /\ subject[l] \in Item => share'[o][l] = {subject[l]}
                      /\ subject[l] \notin Item \/ orderVenue'[o] # "store" =>
                            listingStatus'[l] = "ended"
    BY <1>1 DEF LinesAreSold
  <2>1. CASE l \in bought[o]
    <3>1. l \in S /\ subject[l] \notin Item
      BY <1>1, <2>1, SubjectsApart
    <3> QED BY <3>1, SettlingStatus
  <2>2. CASE l \notin bought[o]
    <3>1. share'[o][l] = share[o][l] /\ orderVenue'[o] = orderVenue[o]
      BY <2>2, SettlingWrites
    <3>2. /\ listingStatus[l] # "unused"
          /\ subject[l] \in Item => share[o][l] = {subject[l]}
          /\ subject[l] \notin Item \/ orderVenue[o] # "store" => listingStatus[l] = "ended"
      BY <3>1 DEF OrderInv, LinesAreSold
    <3> QED BY <3>1, <3>2, SettlingLeaves
  <2> QED BY <2>1, <2>2
<1>3. PlacedHasLines'
  <2> SUFFICES ASSUME NEW o \in Order
               PROVE  IF orderStatus'[o] = "none"
                      THEN /\ \A l \in Listing : share'[o][l] = {}
                           /\ ~everShipped[o] /\ refund[o] = "none" /\ ~stockBack[o]
                      ELSE \E l \in Listing : share'[o][l] # {}
    BY <1>1 DEF PlacedHasLines
  <2>1. CASE bought[o] # {}
    <3>1. PICK l \in bought[o] : l \in S /\ l \in Listing
      BY <1>1, <2>1
    <3>2. share'[o][l] # {} /\ orderStatus'[o] = FirstStatus(v)
      BY <2>1, <3>1, SettlingWrites
    <3>3. FirstStatus(v) # "none"
      BY DEF Sells, Outside, Venue, FirstStatus
    <3> QED BY <3>1, <3>2, <3>3
  <2>2. CASE bought[o] = {}
    <3>1. orderStatus'[o] = orderStatus[o] /\ share'[o] = share[o]
      BY <2>2 DEF Sells
    <3> QED BY <3>1 DEF OrderInv, PlacedHasLines
  <2> QED BY <2>1, <2>2
<1>4. HeldStockIsNotPaused'
  <2> SUFFICES ASSUME NEW l \in Listing, NEW o \in Order, HoldsStock(o)', share'[o][l] # {},
                      listingStatus'[l] = "paused"
               PROVE  FALSE
    BY DEF HeldStockIsNotPaused, OrdersHoldingStock, Lines, HoldsStock
  <2>1. listingStatus[l] = "paused" /\ l \notin S
    BY SettlingLeaves, SettlingStatus
  <2>2. share[o][l] # {} /\ bought[o] = {}
    BY <1>1, <2>1, SettlingWrites
  <2>3. HoldsStock(o)
    BY <1>1, <2>2, SettlingWrites DEF HoldsStock
  <2>4. o \in OrdersHoldingStock(l)
    BY <2>2, <2>3 DEF OrdersHoldingStock, Lines
  <2> QED BY <2>1, <2>4 DEF OrderInv, HeldStockIsNotPaused
<1>5. UnitInOnePlace'
  <2> SUFFICES ASSUME NEW l \in Listing, listingStatus'[l] # "unused"
               PROVE  \/ /\ quantity'[l] = 1
                         /\ \A o \in Order : share'[o][l] = {} \/ stockBack[o]
                      \/ /\ quantity'[l] = 0
                         /\ \E o \in Order :
                               /\ share'[o][l] # {} /\ ~stockBack[o]
                               /\ \A p \in Order : share'[p][l] # {} /\ ~stockBack[p] => p = o
    BY <1>1 DEF UnitInOnePlace
  <2>1. CASE l \in S
    <3>1. PICK o \in Order : l \in bought[o]
      BY <1>1, <2>1
    <3>2. share'[o][l] # {} /\ ~stockBack[o] /\ quantity'[l] = 0
      BY <2>1, <3>1, SettlingWrites
    <3>3. \A p \in Order : share'[p][l] # {} => p = o
      BY <1>1, <2>1, <3>1, SettlingWrites
    <3> QED BY <3>2, <3>3
  <2>2. CASE l \notin S
    <3>1. \A o \in Order : share'[o][l] = share[o][l] /\ quantity'[l] = quantity[l]
      BY <1>1, <2>2, SettlingWrites
    <3>2. listingStatus[l] # "unused"
      BY SettlingLeaves
    <3>3. quantity'[l] = quantity[l]
      BY <2>2 DEF Sells, SettleListings, Restock
    <3> QED BY <3>1, <3>2, <3>3 DEF OrderInv, UnitInOnePlace
  <2> QED BY <2>1, <2>2
<1>6. OfferedLotHasMembers'
  <2> SUFFICES ASSUME NEW k \in Lot, lotStatus'[k] = "offered"
               PROVE  members'[k] # {}
    BY DEF OfferedLotHasMembers
  <2>1. lotStatus'[k] = lotStatus[k] /\ members'[k] = members[k]
    BY DEF Sells, SettleListings
  <2> QED BY <2>1 DEF OrderInv, OfferedLotHasMembers
<1> QED BY <1>2, <1>3, <1>4, <1>5, <1>6

\* The coins promised to each order.
LEMMA SettlingKeepsPromises ==
    ASSUME TypeOK, OfferInv, OrderInv, NEW S, NEW U, NEW bought, NEW v,
           Sells(S, U, bought, v)
    PROVE  LinesApart' /\ PromisedIsNotForSale' /\ PromisedOnce'
<1>1. /\ UNCHANGED <<subject, everShipped, refund, stockBack>>
      /\ \A o \in Order : bought[o] \subseteq S
      /\ S \subseteq Listing
      /\ \A o, p \in Order : o # p => bought[o] \cap bought[p] = {}
  BY DEF Sells
\* A line an order has already is of one that held its coins before.
<1>2. ASSUME NEW o \in Order, Holds(o)', NEW l \in Listing, l \notin bought[o],
             share'[o][l] # {}
      PROVE  share'[o][l] = share[o][l] /\ Holds(o)
  <2>1. share'[o][l] = share[o][l] /\ bought[o] = {}
    BY <1>2, SettlingWrites
  <2>2. orderStatus'[o] = orderStatus[o] /\ orderVenue'[o] = orderVenue[o]
    BY <2>1, SettlingWrites
  <2> QED BY <1>1, <1>2, <2>1, <2>2 DEF Holds, HoldsStock, HasLeft
<1>3. ASSUME NEW o \in Order, NEW l \in bought[o]
      PROVE  /\ l \in S /\ l \in Listing /\ Live(l) /\ quantity[l] > 0
             /\ share'[o][l] = OfferedItems(l)
  BY <1>1, <1>3, SettlingWrites
<1>4. ASSUME NEW o \in Order, Holds(o)', NEW l \in Listing, l \notin bought[o],
             NEW p \in Order, NEW m \in bought[p]
      PROVE  share'[o][l] \cap share'[p][m] = {}
  <2>1. Live(m) /\ quantity[m] > 0 /\ m \in Listing /\ share'[p][m] = OfferedItems(m)
    BY <1>3
  <2>2. share'[o][l] = {} \/ (share'[o][l] = share[o][l] /\ Holds(o))
    BY <1>2, <1>4
  <2> QED BY <2>1, <2>2 DEF OrderInv, PromisedIsNotForSale
<1>5. ASSUME NEW o \in Order, NEW l \in bought[o], NEW p \in Order, NEW m \in bought[p],
             l # m
      PROVE  share'[o][l] \cap share'[p][m] = {}
  <2>1. /\ l \in S /\ share'[o][l] = OfferedItems(l)
        /\ m \in S /\ share'[p][m] = OfferedItems(m)
    BY <1>3
  <2> QED BY <1>5, <2>1, SoldApart
<1>6. LinesApart'
  <2> SUFFICES ASSUME NEW o \in Order, NEW l \in Listing, NEW m \in Listing,
                      Holds(o)', l # m
               PROVE  share'[o][l] \cap share'[o][m] = {}
    BY DEF LinesApart, Holds, HoldsStock, HasLeft
  <2>1. CASE l \notin bought[o] /\ m \notin bought[o]
    <3>1. CASE share'[o][l] # {} /\ share'[o][m] # {}
      <4>1. share'[o][l] = share[o][l] /\ share'[o][m] = share[o][m] /\ Holds(o)
        BY <1>2, <2>1, <3>1
      <4> QED BY <4>1 DEF OrderInv, LinesApart
    <3> QED BY <3>1
  <2> QED BY <1>4, <1>5, <2>1
<1>7. PromisedIsNotForSale'
  <2> SUFFICES ASSUME NEW o \in Order, NEW l \in Listing, NEW m \in Listing,
                      Holds(o)', listingStatus'[m] \in OnOffer, quantity'[m] > 0
               PROVE  OfferedItems(m)' \cap share'[o][l] = {}
    BY DEF PromisedIsNotForSale, Holds, HoldsStock, HasLeft, Live
  <2>1. Live(m) /\ m \notin S
    BY SettlingLeaves
  <2>2. OfferedItems(m)' \subseteq OfferedItems(m)
    <3>1. \A k \in Lot : members'[k] \subseteq members[k]
      BY SettlingStatus
    <3> QED BY <1>1, <3>1, SubjectsApart DEF OfferedItems
  <2>3. quantity[m] > 0
    BY <2>1, SettlingWrites
  <2>4. CASE l \in bought[o]
    <3>1. l \in S /\ share'[o][l] = OfferedItems(l)
      BY <1>3, <2>4
    <3>2. OfferedItems(l) \cap OfferedItems(m) = {}
      BY <3>1, SettlingClosesCoins
    <3> QED BY <2>2, <3>1, <3>2
  <2>5. CASE l \notin bought[o]
    <3>1. share'[o][l] = {} \/ (share'[o][l] = share[o][l] /\ Holds(o))
      BY <1>2, <2>5
    <3>2. Holds(o) => OfferedItems(m) \cap share[o][l] = {}
      BY <2>1, <2>3 DEF OrderInv, PromisedIsNotForSale
    <3> QED BY <2>2, <3>1, <3>2
  <2> QED BY <2>4, <2>5
<1>8. PromisedOnce'
  <2> SUFFICES ASSUME NEW o \in Order, NEW p \in Order, NEW l \in Listing, NEW m \in Listing,
                      Holds(o)', Holds(p)', o # p
               PROVE  share'[o][l] \cap share'[p][m] = {}
    BY DEF PromisedOnce, Holds, HoldsStock, HasLeft
  <2>1. CASE l \in bought[o] /\ m \in bought[p]
    BY <1>1, <1>5, <2>1
  <2>2. CASE l \notin bought[o] /\ m \in bought[p]
    BY <1>4, <2>2
  <2>3. CASE l \in bought[o] /\ m \notin bought[p]
    BY <1>4, <2>3
  <2>4. CASE l \notin bought[o] /\ m \notin bought[p]
    <3>1. CASE share'[o][l] # {} /\ share'[p][m] # {}
      <4>1. /\ share'[o][l] = share[o][l] /\ Holds(o)
            /\ share'[p][m] = share[p][m] /\ Holds(p)
        BY <1>2, <2>4, <3>1
      <4> QED BY <4>1 DEF OrderInv, PromisedOnce
    <3> QED BY <3>1
  <2> QED BY <2>1, <2>2, <2>3, <2>4
<1> QED BY <1>6, <1>7, <1>8

LEMMA SettlingKeepsOrders ==
    ASSUME TypeOK, OfferInv, OrderInv, NEW S, NEW U, NEW bought, NEW v,
           Sells(S, U, bought, v)
    PROVE  OrderInv'
BY SettlingKeepsHistory, SettlingKeepsLines, SettlingKeepsPromises DEF OrderInv

-----------------------------------------------------------------------------
(* The items.                                                              *)

\* What a lot sells, nothing else sells: of two active listings.
LEMMA ActiveApart ==
    ASSUME TypeOK, OfferInv, NEW l \in Listing, NEW m \in Listing, l # m,
           listingStatus[l] = "active", listingStatus[m] = "active"
    PROVE  OfferedItems(l) \cap OfferedItems(m) = {}
<1>1. Live(l) /\ Live(m) /\ OfferedItems(l) \in SUBSET Item
  BY OfferedItemsType DEF Live, OnOffer
<1>2. ASSUME NEW i \in Item, i \in OfferedItems(l), i \in OfferedItems(m)
      PROVE  FALSE
  <2>1. Names(l, i) /\ Names(m, i)
    BY <1>1, <1>2, OfferedIsNamed
  <2> QED BY <2>1 DEF OfferInv, OneOffer
<1> QED BY <1>1, <1>2

\* An item still offered after a settlement is sold by none of its lots and is
\* not brought home; one that nothing offers is sold, or home.
LEMMA SettlingFiles ==
    ASSUME TypeOK, OfferInv, NEW S, NEW U, NEW bought, NEW v, Sells(S, U, bought, v),
           NEW i \in Item
    PROVE  /\ i \in ItemsOf(S) => disposition'[i] = "sold"
           /\ i \notin ItemsOf(S) /\ StillOffered(i, listingStatus', claim') =>
                 disposition'[i] = disposition[i]
           /\ i \notin ItemsOf(S) /\ (\E l \in U : i \in OfferedItems(l))
                 /\ ~StillOffered(i, listingStatus', claim') => disposition'[i] # "listed"
<1>1. /\ listingStatus' = SettledStatus(S, U) /\ claim' = SettledClaim(S, U)
      /\ disposition' = [j \in Item |-> IF j \in ItemsOf(S) THEN "sold"
                            ELSE IF j \in HomeUnsold(S, U) THEN "held"
                            ELSE disposition[j]]
  BY DEF Sells, SettleListings
<1>2. i \in HomeUnsold(S, U) <=>
          /\ i \in AffectedItems(U) /\ disposition[i] = "listed" /\ i \notin ItemsOf(S)
          /\ ~StillOffered(i, listingStatus', claim')
  BY <1>1 DEF HomeUnsold
<1>3. (\E l \in U : i \in OfferedItems(l)) => i \in AffectedItems(U)
  <2> SUFFICES ASSUME NEW l \in U, i \in OfferedItems(l)
               PROVE  i \in AffectedItems(U)
    OBVIOUS
  <2>1. l \in Listing /\ Live(l)
    BY DEF Sells, Live, OnOffer
  <2>2. Names(l, i)
    BY <2>1, OfferedIsNamed
  <2> QED BY <2>1, <2>2 DEF AffectedItems
<1>4. disposition'[i] = IF i \in ItemsOf(S) THEN "sold"
                        ELSE IF i \in HomeUnsold(S, U) THEN "held" ELSE disposition[i]
  BY <1>1
<1> HIDE <1>1
<1> QED BY <1>2, <1>3, <1>4

LEMMA SettlingKeepsFiled ==
    ASSUME TypeOK, OfferInv, OrderInv, ForSaleIsFiledListed, NEW S, NEW U, NEW bought,
           NEW v, Sells(S, U, bought, v)
    PROVE  ForSaleIsFiledListed'
<1> SUFFICES ASSUME NEW l \in Listing, listingStatus'[l] \in OnOffer, quantity'[l] > 0,
                    NEW i \in OfferedItems(l)'
             PROVE  disposition'[i] = "listed"
  BY DEF ForSaleIsFiledListed, Live
<1>1. Live(l) /\ l \notin S /\ subject'[l] = subject[l]
  BY SettlingLeaves
<1>2. \A k \in Lot : members'[k] \subseteq members[k]
  BY SettlingStatus
<1>3. i \in OfferedItems(l) /\ i \in Item
  BY <1>1, <1>2, OfferedItemsType, SubjectsApart DEF OfferedItems
<1>4. quantity'[l] = quantity[l]
  BY <1>1 DEF Sells, SettleListings, Restock
<1>5. disposition[i] = "listed"
  BY <1>1, <1>3, <1>4 DEF ForSaleIsFiledListed
<1>6. i \notin ItemsOf(S)
  BY <1>3, SettlingClosesCoins DEF ItemsOf
<1>7. StillOffered(i, listingStatus', claim')
  <2>1. Names(l, i)
    BY <1>1, <1>3, OfferedIsNamed
  <2>2. subject[l] = i \/ claim'[l][i] \in HeldBy
    BY <1>1, <1>3, <2>1, SettlingNames
  <2> QED BY <2>2 DEF StillOffered
<1> QED BY <1>3, <1>5, <1>6, <1>7, SettlingFiles

-----------------------------------------------------------------------------
(* Types.                                                                  *)

\* A settlement writes well-typed rows.
LEMMA SettlementType ==
    ASSUME AuctionTypeOK, NEW a \in Auction,
           NEW results \in [auctionLots[a] -> Result],
           NEW buyers, NEW orderOf, NEW backTo,
           orderOf \in [BuyerGroups(auctionLots[a], GridFor(a, results, buyers)) -> Order],
           Settle(a, results, buyers, orderOf, backTo)
    PROVE  AuctionTypeOK'
<1> DEFINE lots == auctionLots[a]
           lines == GridFor(a, results, buyers)
           S == SoldLots(lots, lines)
           U == lots \ S
           groups == BuyerGroups(lots, lines)
<1>1. TypeOK /\ lots \in SUBSET Listing /\ S \in SUBSET Listing /\ U \in SUBSET Listing
      /\ auctionVenue[a] \in Venue
  BY DEF AuctionTypeOK, SoldLots, PlacedLots, Outside
<1>2. /\ \A l \in S : quantity[l] >= 1
      /\ SettleOrders(a, orderOf, groups)
      /\ SettleListings(S, U)
      /\ UNCHANGED <<itemStatus, gone, subject, venue>>
  BY DEF Settle
<1>3. /\ result' \in [Listing -> Result \cup {"none"}]
      /\ atHouse' \subseteq Item
      /\ consignedOn' \in [Auction -> BOOLEAN]
      /\ auctionStatus' \in [Auction -> AuctionStatus]
      /\ UNCHANGED <<auctionVenue, auctionLots>>
  BY DEF Settle, AuctionTypeOK, AuctionStatus
<1> HIDE DEF lots, lines, S, U, groups
<1>4. listingStatus' \in [Listing -> ListingStatus]
  BY <1>1, <1>2 DEF SettleListings, SettledStatus, TypeOK, ListingStatus
<1>5. claim' \in [Listing -> [Item -> ClaimState]]
  <2>1. \A l \in Listing, i \in Item :
            /\ claim[l][i] \in ClaimState
            /\ Moved(l, i, "released") \in ClaimState /\ Moved(l, i, "active") \in ClaimState
    BY <1>1, MovedType DEF ClaimState, TypeOK
  <2> QED BY <1>2, <2>1 DEF SettleListings, SettledClaim
<1>6. pausedBy' \in [Listing -> Listing \cup {NoOne}]
  BY <1>1, <1>2 DEF SettleListings, TypeOK
<1>7. quantity' \in [Listing -> Nat]
  <2>1. InStock(S) /\ Restock(S, {})
    BY <1>2 DEF InStock, SettleListings
  <2> QED BY <1>1, <2>1, RestockType
<1>8. disposition' \in [Item -> Disposition]
  BY <1>1, <1>2 DEF SettleListings, TypeOK, Disposition
<1>9. lotStatus' \in [Lot -> LotStatus] /\ members' \in [Lot -> SUBSET Item]
  BY <1>1, <1>2 DEF SettleListings, TypeOK, LotStatus
<1>10. /\ orderStatus' \in [Order -> OrderStatus \cup {"none"}]
       /\ orderVenue' \in [Order -> Venue]
  <2>1. FirstStatus(auctionVenue[a]) \in OrderStatus
    BY <1>1, FirstStatusType
  <2> QED BY <1>1, <1>2, <2>1 DEF SettleOrders, TypeOK
<1>11. share' \in [Order -> [Listing -> SUBSET Item]]
  <2>1. \A l \in Listing : OfferedItems(l) \in SUBSET Item
    BY <1>1, OfferedItemsType
  <2> QED BY <1>1, <1>2, <2>1 DEF SettleOrders, TypeOK
<1>12. UNCHANGED <<everShipped, refund, stockBack>>
  BY <1>2 DEF SettleOrders
<1>13. TypeOK'
  BY <1>1, <1>2, <1>4, <1>5, <1>6, <1>7, <1>8, <1>9, <1>10, <1>11, <1>12 DEF TypeOK
<1> QED BY <1>3, <1>13 DEF AuctionTypeOK

\* A coin of its own in a new lot is offered as an assembled lot is.
LEMMA AddingOffers ==
    ASSUME AuctionTypeOK, OneLotPerItem, NEW a \in Auction, NEW l \in Listing, NEW k \in Lot,
           AddLot(a, l, k) \/ \E i \in Item : AddCoin(a, l, k, i)
    PROVE  \E S \in SUBSET Item :
              /\ S # {}
              /\ OfferRows(l, k, S, auctionVenue[a]) /\ LotTaken(k, S)
<1>1. CASE AddLot(a, l, k)
  <2>1. /\ Offer(l, k, members[k], auctionVenue[a]) /\ members[k] # {}
        /\ lotStatus[k] = "assembling"
        /\ lotStatus' = [lotStatus EXCEPT ![k] = "offered"]
    BY <1>1 DEF AddLot, OfferLot
  <2>2. TypeOK /\ members[k] \in SUBSET Item
    BY DEF AuctionTypeOK, TypeOK
  <2>3. OfferRows(l, k, members[k], auctionVenue[a]) /\ LotTaken(k, members[k])
    BY <2>1, <2>2, OfferTakesLot
  <2> QED BY <2>1, <2>2, <2>3
<1>2. ASSUME NEW i \in Item, AddCoin(a, l, k, i)
      PROVE  /\ OfferRows(l, k, {i}, auctionVenue[a]) /\ LotTaken(k, {i})
             /\ {i} \in SUBSET Item
  <2>1. \A j \in Lot : members[j] \cap {i} = {}
    BY <1>2 DEF AddCoin, InOpenLot
  <2>2. /\ OfferRows(l, k, {i}, auctionVenue[a]) /\ lotStatus[k] = "absent"
        /\ lotStatus' = [lotStatus EXCEPT ![k] = "offered"]
        /\ members' = [members EXCEPT ![k] = {i}]
    BY <1>2 DEF AddCoin
  <2> QED BY <2>1, <2>2, SubjectsApart DEF LotTaken
<1>3. CASE \E i \in Item : AddCoin(a, l, k, i)
  <2>1. PICK i \in Item : AddCoin(a, l, k, i)
    BY <1>3
  <2>2. /\ OfferRows(l, k, {i}, auctionVenue[a]) /\ LotTaken(k, {i})
        /\ {i} \in SUBSET Item /\ {i} # {}
    BY <1>2, <2>1
  <2> QED BY <2>2
<1> QED BY <1>1, <1>3

\* A lot, or every lot, taken out of an auction is an ending without a sale.
Removes(a, E) ==
    /\ E \subseteq auctionLots[a]
    /\ auctionStatus[a] \notin Over \cup {"absent"}
    /\ EndOffers(E, FALSE, disposition)
    /\ atHouse' = IF consignedOn[a] THEN atHouse \ ItemsOf(E) ELSE atHouse
    /\ auctionLots' = [auctionLots EXCEPT ![a] = @ \ E]
    /\ UNCHANGED <<itemStatus, gone, subject, venue, quantity, orderVars,
                   auctionVenue, result>>
    /\ \/ UNCHANGED <<auctionStatus, consignedOn>>
       \/ /\ E = auctionLots[a]
          /\ auctionStatus' = [auctionStatus EXCEPT ![a] = "cancelled"]
          /\ consignedOn' = [consignedOn EXCEPT ![a] = FALSE]

LEMMA RemovingRemoves ==
    ASSUME AuctionTypeOK, NEW a \in Auction, NEW l \in Listing, NEW backTo,
           RemoveLot(a, l, backTo)
    PROVE  Removes(a, {l})
<1>1. ItemsOf({l}) = OfferedItems(l)
  BY DEF ItemsOf
<1> QED BY <1>1 DEF RemoveLot, Removable, Removes, Over

LEMMA CancellingRemoves ==
    ASSUME AuctionTypeOK, NEW a \in Auction, NEW backTo, Cancel(a, backTo)
    PROVE  Removes(a, auctionLots[a])
<1>1. auctionLots' = [auctionLots EXCEPT ![a] = @ \ auctionLots[a]]
  BY DEF Cancel, AuctionTypeOK
<1> QED BY <1>1 DEF Cancel, Removes

\* Lot k, of the coins S, is put on offer in auction a under listing l.
Adds(a, l, k, S) ==
    /\ auctionStatus[a] \in {"draft", "scheduled"}
    /\ S # {}
    /\ OfferRows(l, k, S, auctionVenue[a]) /\ LotTaken(k, S)
    /\ auctionLots' = [auctionLots EXCEPT ![a] = @ \cup {l}]
    /\ UNCHANGED <<auctionStatus, auctionVenue, consignedOn, result, atHouse>>

\* The requests that move an auction on and write nothing of the shop.
Turns(a) == (\E v \in Hosts : CreateAuction(a, v)) \/ Schedule(a) \/ Consign(a) \/ Close(a)

Settles(a, results, buyers, orderOf) ==
    /\ results \in [auctionLots[a] -> Result] /\ buyers \in [auctionLots[a] -> Bidders]
    /\ orderOf \in [BuyerGroups(auctionLots[a], GridFor(a, results, buyers)) -> Order]
    /\ \E backTo \in BOOLEAN : Settle(a, results, buyers, orderOf, backTo)

\* The shop's own requests are requests of Shop.
LEMMA ShopRequestIsNext ==
    ASSUME ShopRequest
    PROVE  Next /\ UNCHANGED auctionVars
<1>1. ASSUME NEW l \in Listing, EndOwnOffer(l)
      PROVE  OfferRequest
  BY <1>1 DEF EndOwnOffer, OfferRequest
<1>2. ASSUME NEW l \in Listing, NEW o \in Order, SellOwnOffer(o, l)
      PROVE  OrderRequest
  BY <1>2 DEF SellOwnOffer, OrderRequest
<1>3. ASSUME NEW i \in Item, StandingRequest(i)
      PROVE  ItemRequest
  BY <1>3 DEF StandingRequest, ItemRequest
<1>4. ASSUME NEW l \in Listing,
             \/ \E i \in Item, v \in Platforms : OfferItem(l, i, v)
             \/ \E k \in Lot, v \in Platforms : OfferLot(l, k, v)
      PROVE  OfferRequest
  BY <1>4 DEF OfferRequest
<1>5. ASSUME NEW o \in Order,
             \/ \E L \in SUBSET Listing : PlaceOrder(o, L) \/ ReviseOrder(o, L)
             \/ \E to \in Statuses : SetOrderStatus(o, to)
      PROVE  OrderRequest
  BY <1>5 DEF OrderRequest
<1> QED BY <1>1, <1>2, <1>3, <1>4, <1>5 DEF ShopRequest, Next

\* Every request is of one of five kinds.
LEMMA AuctionKinds ==
    ASSUME AuctionTypeOK, OneLotPerItem, AuctionNext
    PROVE  \/ \E a \in Auction : Turns(a)
           \/ \E a \in Auction, l \in Listing, k \in Lot, S \in SUBSET Item : Adds(a, l, k, S)
           \/ \E a \in Auction, E \in SUBSET Listing : Removes(a, E)
           \/ \E a \in Auction : \E results, buyers, orderOf :
                 Settles(a, results, buyers, orderOf)
           \/ ShopRequest
<1> DEFINE Adding ==
      \E a \in Auction, l \in Listing, k \in Lot, S \in SUBSET Item : Adds(a, l, k, S)
           Removing == \E a \in Auction, E \in SUBSET Listing : Removes(a, E)
           Settling == \E a \in Auction : \E results, buyers, orderOf :
                          Settles(a, results, buyers, orderOf)
<1>1. ASSUME NEW a \in Auction, NEW l \in Listing, NEW k \in Lot,
             AddLot(a, l, k) \/ \E i \in Item : AddCoin(a, l, k, i)
      PROVE  Adding
  <2>1. PICK S \in SUBSET Item : /\ S # {}
                                 /\ OfferRows(l, k, S, auctionVenue[a]) /\ LotTaken(k, S)
    BY <1>1, AddingOffers
  <2>2. Adds(a, l, k, S)
    BY <1>1, <2>1 DEF Adds, AddLot, AddCoin
  <2> QED BY <2>2
<1>2. ASSUME NEW a \in Auction, NEW backTo \in BOOLEAN, Cancel(a, backTo)
      PROVE  Removing
  <2>1. Removes(a, auctionLots[a]) /\ auctionLots[a] \in SUBSET Listing
    BY <1>2, CancellingRemoves DEF AuctionTypeOK
  <2> QED BY <2>1
<1>3. ASSUME NEW a \in Auction, NEW l \in Listing, NEW backTo \in BOOLEAN,
             RemoveLot(a, l, backTo)
      PROVE  Removing
  <2>1. Removes(a, {l}) /\ {l} \in SUBSET Listing
    BY <1>3, RemovingRemoves
  <2> QED BY <2>1
<1>4. ASSUME NEW a \in Auction, SettleRequest(a)
      PROVE  Settling
  <2>1. PICK results \in [auctionLots[a] -> Result], buyers \in [auctionLots[a] -> Bidders],
             backTo \in BOOLEAN :
                \E orderOf \in [BuyerGroups(auctionLots[a], GridFor(a, results, buyers))
                                   -> Order] :
                   Settle(a, results, buyers, orderOf, backTo)
    BY <1>4 DEF SettleRequest
  <2>2. PICK orderOf \in [BuyerGroups(auctionLots[a], GridFor(a, results, buyers))
                             -> Order] :
            Settle(a, results, buyers, orderOf, backTo)
    BY <2>1
  <2>3. Settles(a, results, buyers, orderOf)
    BY <2>2 DEF Settles
  <2> QED BY <2>3
<1> HIDE DEF Adding, Removing, Settling
<1>5. (\E a \in Auction : Turns(a)) \/ Adding \/ Removing \/ Settling \/ ShopRequest
  BY <1>1, <1>2, <1>3, <1>4 DEF AuctionNext, AuctionRequest, Turns
<1> QED BY <1>5 DEF Adding, Removing, Settling

LEMMA AuctionTypeStep ==
    ASSUME AuctionTypeOK, OneLotPerItem, [AuctionNext]_auctionShopVars
    PROVE  AuctionTypeOK'
<1>1. CASE UNCHANGED auctionShopVars
  BY <1>1 DEF auctionShopVars, auctionVars, vars, itemVars, listingVars, lotVars, orderVars,
              AuctionTypeOK, TypeOK
<1>2. ASSUME NEW a \in Auction, Turns(a)
      PROVE  AuctionTypeOK'
  <2>1. UNCHANGED <<vars, auctionLots, result>> /\ TypeOK
    BY <1>2 DEF Turns, CreateAuction, Schedule, Consign, Close, AuctionTypeOK
  <2>2. TypeOK'
    BY <2>1, TypeStep
  <2>3. /\ auctionStatus' \in [Auction -> AuctionStatus]
        /\ auctionVenue' \in [Auction -> Outside]
        /\ consignedOn' \in [Auction -> BOOLEAN]
    BY <1>2, AuctionsOutside
       DEF Turns, CreateAuction, Schedule, Consign, Close, AuctionTypeOK, AuctionStatus
  <2>4. atHouse' \subseteq Item
    <3>1. \A l \in auctionLots[a] : OfferedItems(l) \in SUBSET Item
      BY <2>1, OfferedItemsType DEF AuctionTypeOK
    <3>2. ItemsOf(auctionLots[a]) \subseteq Item
      BY <3>1 DEF ItemsOf
    <3> QED BY <1>2, <3>2 DEF Turns, CreateAuction, Schedule, Consign, Close, AuctionTypeOK
  <2> QED BY <2>1, <2>2, <2>3, <2>4 DEF AuctionTypeOK
<1>3. ASSUME NEW a \in Auction, NEW l \in Listing, NEW k \in Lot, NEW S \in SUBSET Item,
             Adds(a, l, k, S)
      PROVE  AuctionTypeOK'
  <2>1. OfferRows(l, k, S, auctionVenue[a]) /\ LotTaken(k, S) /\ TypeOK
        /\ auctionVenue[a] \in Venue
    BY <1>3 DEF Adds, AuctionTypeOK, Outside
  <2>2. lotStatus' \in [Lot -> LotStatus] /\ members' \in [Lot -> SUBSET Item]
    BY <2>1, SubjectsApart DEF LotTaken, TypeOK, LotStatus
  <2>3. TypeOK'
    BY <2>1, <2>2, OfferType
  <2> QED BY <1>3, <2>3 DEF Adds, AuctionTypeOK
<1>4. ASSUME NEW a \in Auction, NEW E \in SUBSET Listing, Removes(a, E)
      PROVE  AuctionTypeOK'
  <2>1. TypeOK /\ disposition \in [Item -> Disposition] /\ EndOffers(E, FALSE, disposition)
    BY <1>4 DEF Removes, AuctionTypeOK, TypeOK
  <2>2. /\ listingStatus' \in [Listing -> ListingStatus]
        /\ pausedBy' \in [Listing -> Listing \cup {NoOne}]
        /\ claim' \in [Listing -> [Item -> ClaimState]]
        /\ disposition' \in [Item -> Disposition]
        /\ lotStatus' \in [Lot -> LotStatus]
        /\ members' \in [Lot -> SUBSET Item]
    BY <2>1, EndOffersType
  <2>3. TypeOK'
    BY <1>4, <2>1, <2>2 DEF Removes, TypeOK, orderVars
  <2>4. auctionLots' \in [Auction -> SUBSET Listing] /\ atHouse' \subseteq Item
    BY <1>4 DEF Removes, AuctionTypeOK
  <2>5. /\ auctionStatus' \in [Auction -> AuctionStatus]
        /\ consignedOn' \in [Auction -> BOOLEAN]
    BY <1>4 DEF Removes, AuctionTypeOK, AuctionStatus
  <2> QED BY <1>4, <2>3, <2>4, <2>5 DEF Removes, AuctionTypeOK
<1>5. ASSUME NEW a \in Auction, NEW results, NEW buyers, NEW orderOf,
             Settles(a, results, buyers, orderOf)
      PROVE  AuctionTypeOK'
  BY <1>5, SettlementType DEF Settles
<1>6. CASE ShopRequest
  <2>1. [Next]_vars /\ UNCHANGED auctionVars /\ TypeOK
    BY <1>6, ShopRequestIsNext DEF AuctionTypeOK
  <2>2. TypeOK'
    BY <2>1, TypeStep
  <2> QED BY <2>1, <2>2 DEF auctionVars, AuctionTypeOK
<1> QED BY <1>1, <1>2, <1>3, <1>4, <1>5, <1>6, AuctionKinds

-----------------------------------------------------------------------------
(* The shop under the auctions.                                            *)

\* What a settlement does, by its results: to the shop it is a sale.
LEMMA SettlementSells ==
    ASSUME AuctionTypeOK, AuctionInv, NEW a \in Auction, NEW results, NEW buyers, NEW orderOf,
           Settles(a, results, buyers, orderOf)
    PROVE  LET S == {l \in auctionLots[a] : results[l] = "sold"}
               U == auctionLots[a] \ S
           IN  /\ \E bought : Sells(S, U, bought, auctionVenue[a])
               /\ \A l \in auctionLots[a] : results[l] \in Result
               /\ auctionStatus[a] = "closed"
               /\ result' = [l \in Listing |-> IF l \in auctionLots[a] THEN results[l]
                                               ELSE result[l]]
               /\ atHouse' = IF consignedOn[a] THEN atHouse \ ItemsOf(U) ELSE atHouse
               /\ consignedOn' = [consignedOn EXCEPT ![a] = FALSE]
               /\ auctionStatus' = [auctionStatus EXCEPT ![a] = "settled"]
               /\ UNCHANGED <<auctionVenue, auctionLots>>
<1>1. PICK backTo \in BOOLEAN : Settle(a, results, buyers, orderOf, backTo)
  BY DEF Settles
<1>2. /\ results \in [auctionLots[a] -> Result] /\ buyers \in [auctionLots[a] -> Bidders]
      /\ orderOf \in [BuyerGroups(auctionLots[a], GridFor(a, results, buyers)) -> Order]
  BY DEF Settles
<1> DEFINE S == {l \in auctionLots[a] : results[l] = "sold"}
           U == auctionLots[a] \ S
           groups == BuyerGroups(auctionLots[a], GridFor(a, results, buyers))
           bought == [o \in Order |-> BoughtOn(o, orderOf, groups)]
<1>3. Sells(S, U, bought, auctionVenue[a])
  BY <1>1, <1>2, SettleSells
<1>4. SoldLots(auctionLots[a], GridFor(a, results, buyers)) = S
  BY <1>1, SettledSold
<1>5. /\ auctionStatus[a] = "closed"
      /\ result' = [l \in Listing |-> IF l \in auctionLots[a] THEN results[l] ELSE result[l]]
      /\ atHouse' = IF consignedOn[a] THEN atHouse \ ItemsOf(U) ELSE atHouse
      /\ consignedOn' = [consignedOn EXCEPT ![a] = FALSE]
      /\ auctionStatus' = [auctionStatus EXCEPT ![a] = "settled"]
      /\ UNCHANGED <<auctionVenue, auctionLots>>
  BY <1>1, <1>4 DEF Settle
<1> HIDE DEF bought
<1> QED BY <1>2, <1>3, <1>5

\* What is taken out of an auction was on offer there.
LEMMA RemovedIsUp ==
    ASSUME AuctionTypeOK, AuctionInv, NEW a \in Auction, NEW E \in SUBSET Listing,
           Removes(a, E)
    PROVE  Withdraws(E, disposition) /\ \A l \in E : listingStatus[l] = "active"
<1>1. \A l \in E : listingStatus[l] = "active"
  BY DEF Removes, Over, AuctionInv, LotsFollowAuction
<1>2. Withdraws(E, disposition)
  BY <1>1 DEF Removes, Withdraws, Live, OnOffer
<1> QED BY <1>1, <1>2

\* The shop's invariants hold whatever the auctions do.
LEMMA ShopInvStep ==
    ASSUME AuctionTypeOK, OfferInv, OrderInv, ForSaleIsFiledListed, AuctionInv,
           [AuctionNext]_auctionShopVars
    PROVE  OfferInv' /\ OrderInv' /\ ForSaleIsFiledListed'
<1>1. TypeOK
  BY DEF AuctionTypeOK
<1>2. ASSUME [Next]_vars
      PROVE  OfferInv' /\ OrderInv' /\ ForSaleIsFiledListed'
  BY <1>1, <1>2, OfferStep, OrderStep, FiledStep
<1>3. CASE UNCHANGED auctionShopVars
  BY <1>2, <1>3 DEF auctionShopVars
<1>4. ASSUME NEW a \in Auction, Turns(a)
      PROVE  UNCHANGED vars
  BY <1>4 DEF Turns, CreateAuction, Schedule, Consign, Close
<1>5. ASSUME NEW a \in Auction, NEW l \in Listing, NEW k \in Lot, NEW S \in SUBSET Item,
             Adds(a, l, k, S)
      PROVE  OfferInv' /\ OrderInv' /\ ForSaleIsFiledListed'
  <2>1. /\ OfferRows(l, k, S, auctionVenue[a]) /\ LotTaken(k, S) /\ S # {}
        /\ auctionVenue[a] \in Venue
    BY <1>5 DEF Adds, AuctionTypeOK, Outside
  <2> QED BY <1>1, <2>1, OfferKeeps, OfferKeepsOrders, OfferKeepsFiled
<1>6. ASSUME NEW a \in Auction, NEW E \in SUBSET Listing, Removes(a, E)
      PROVE  OfferInv' /\ OrderInv' /\ ForSaleIsFiledListed'
  <2>1. Withdraws(E, disposition)
    BY <1>6, RemovedIsUp
  <2>2. /\ \A l \in E : Live(l)
        /\ EndOffers(E, FALSE, disposition)
        /\ UNCHANGED <<subject, venue, quantity, orderVars>>
    BY <2>1 DEF Withdraws
  <2> QED BY <1>1, <2>1, <2>2, EndingKeeps, EndingIsQuiet, WithdrawalKeepsFiled
<1>7. ASSUME NEW a \in Auction, NEW results, NEW buyers, NEW orderOf,
             Settles(a, results, buyers, orderOf)
      PROVE  OfferInv' /\ OrderInv' /\ ForSaleIsFiledListed'
  <2> DEFINE S == {l \in auctionLots[a] : results[l] = "sold"}
             U == auctionLots[a] \ S
  <2>1. PICK bought : Sells(S, U, bought, auctionVenue[a])
    BY <1>7, SettlementSells
  <2> HIDE DEF S, U
  <2> QED BY <1>1, <2>1, SettlingKeepsOffers, SettlingKeepsOrders, SettlingKeepsFiled
<1>8. CASE ShopRequest
  BY <1>2, <1>8, ShopRequestIsNext
<1>9. OneLotPerItem
  BY DEF OfferInv
<1> QED BY <1>2, <1>3, <1>4, <1>5, <1>6, <1>7, <1>8, <1>9, AuctionKinds

-----------------------------------------------------------------------------
(* What a request spares.                                                  *)

\* A lot that is up stays up, with its coins.
Up(l) == listingStatus[l] = "active" /\ venue[l] \in Outside /\ subject[l] \in Lot

StaysUp(l) ==
    /\ listingStatus'[l] = "active"
    /\ venue'[l] = venue[l] /\ subject'[l] = subject[l]
    /\ members'[subject[l]] = members[subject[l]]

LEMMA EndingSparesLots ==
    ASSUME TypeOK, OfferInv, NEW E \in SUBSET Listing, NEW sold \in BOOLEAN, NEW filed,
           \A m \in E : Live(m), EndOffers(E, sold, filed), UNCHANGED <<subject, venue>>,
           NEW l \in Listing, l \notin E, Up(l)
    PROVE  StaysUp(l)
<1>1. listingStatus[l] = "active" /\ subject[l] \in Lot /\ Live(l)
  BY DEF Up, Live, OnOffer
<1>2. l \notin Closing(E, sold) \cup Resuming(E, sold)
  BY <1>1 DEF Closing, Resuming, PausedBy
<1>3. listingStatus'[l] = "active"
  BY <1>1, <1>2, EndingStatus
<1>4. \A m \in E : subject[m] # subject[l]
  BY <1>1 DEF OfferInv, OnePerSubject
<1>5. members'[subject[l]] = members[subject[l]]
  BY <1>1, <1>4 DEF EndOffers
<1> QED BY <1>3, <1>5 DEF StaysUp

LEMMA OfferSparesLots ==
    ASSUME TypeOK, OfferInv, NEW m \in Listing, NEW subj \in Item \cup Lot,
           NEW S \in SUBSET Item, NEW v \in Venue, OfferRows(m, subj, S, v),
           LotTaken(subj, S), NEW l \in Listing, Up(l)
    PROVE  StaysUp(l) /\ l # m
<1>1. listingStatus[l] = "active" /\ subject[l] \in Lot /\ Live(l)
  BY DEF Up, Live, OnOffer
<1>2. l # m
  BY <1>1 DEF OfferRows
<1>3. l \notin OffersHolding(S)
  BY <1>1, Displaced, SubjectsApart
<1>4. /\ listingStatus'[l] = "active"
      /\ venue'[l] = venue[l] /\ subject'[l] = subject[l]
  BY <1>1, <1>2, <1>3, OfferWritesOther
<1>5. members'[subject[l]] = members[subject[l]]
  BY <1>1, SubjectsApart DEF OfferInv, LotListingHoldsMembers, LotTaken, lotVars, TypeOK
<1> QED BY <1>2, <1>4, <1>5 DEF StaysUp

LEMMA MovesSpareLots ==
    ASSUME TypeOK, OfferInv, NEW o \in Order, NEW T, NEW G, NEW E, Moves(o, T, G, E),
           NEW l \in Listing, l \notin T, Up(l)
    PROVE  StaysUp(l)
<1>1. /\ E \in SUBSET Listing /\ l \notin E
      /\ \A m \in E : Live(m)
      /\ EndOffers(E, TRUE, Filed(T, G)) /\ UNCHANGED <<subject, venue>>
  BY DEF Moves, MoveLines, Live, OnOffer
<1> QED BY <1>1, EndingSparesLots

\* The requests of the shop leave every lot of an auction alone.
LEMMA ShopSparesLots ==
    ASSUME TypeOK, OfferInv, OrderInv, ShopRequest, NEW l \in Listing, Up(l), InAuction(l)
    PROVE  StaysUp(l)
<1>1. listingStatus[l] = "active" /\ subject[l] \in Lot /\ Live(l) /\ venue[l] # "store"
  BY DEF Up, Live, OnOffer, Outside
<1>2. ASSUME UNCHANGED <<listingVars, members>>
      PROVE  StaysUp(l)
  BY <1>1, <1>2 DEF listingVars, StaysUp
<1>3. CASE LotRequest
  <2>1. UNCHANGED listingVars /\ members'[subject[l]] = members[subject[l]]
    BY <1>1, <1>3, AssemblyLeavesOffers
  <2> QED BY <1>1, <2>1 DEF listingVars, StaysUp
<1>4. ASSUME NEW m \in Listing, NEW subj \in Item \cup Lot, NEW S \in SUBSET Item,
             NEW v \in Venue, Offers(m, subj, S, v)
      PROVE  StaysUp(l)
  <2>1. OfferRows(m, subj, S, v) /\ LotTaken(subj, S)
    BY <1>4, OffersTake DEF OfferInv
  <2> QED BY <2>1, OfferSparesLots
<1>5. ASSUME NEW m \in Listing, NEW i \in Item, NEW v \in Platforms, OfferItem(m, i, v)
      PROVE  StaysUp(l)
  <2>1. Offers(m, i, {i}, v) /\ v \in Venue
    BY <1>5, SubjectsApart, RequestsNameRealCodes DEF OfferItem, Offers
  <2> QED BY <1>4, <2>1
<1>6. ASSUME NEW m \in Listing, NEW k \in Lot, NEW v \in Platforms, OfferLot(m, k, v)
      PROVE  StaysUp(l)
  <2>1. Offers(m, k, members[k], v) /\ v \in Venue /\ members[k] \in SUBSET Item
    BY <1>6, SubjectsApart, RequestsNameRealCodes DEF OfferLot, Offers, TypeOK
  <2> QED BY <1>4, <2>1
<1>7. ASSUME NEW m \in Listing, EndOwnOffer(m)
      PROVE  StaysUp(l)
  <2>1. l # m
    BY <1>7 DEF EndOwnOffer
  <2>2. CASE EndListing(m)
    <3>1. /\ {m} \in SUBSET Listing /\ l \notin {m} /\ \A n \in {m} : Live(n)
          /\ EndOffers({m}, FALSE, disposition) /\ UNCHANGED <<subject, venue>>
      BY <2>1, <2>2 DEF EndListing
    <3> QED BY <3>1, EndingSparesLots
  <2>3. CASE EndListingAgain(m)
    <3>1. UNCHANGED <<listingStatus, subject, venue, lotVars>>
      BY <2>3 DEF EndListingAgain
    <3> QED BY <1>1, <3>1 DEF lotVars, StaysUp
  <2> QED BY <1>7, <2>2, <2>3 DEF EndOwnOffer
<1>8. ASSUME NEW m \in Listing, NEW o \in Order, SellOwnOffer(o, m)
      PROVE  StaysUp(l)
  <2>1. l \notin {m} /\ Moves(o, {m}, {}, {m})
    BY <1>8, RecordingMoves DEF SellOwnOffer
  <2> QED BY <2>1, MovesSpareLots
<1>9. ASSUME NEW o \in Order, NEW L \in SUBSET Listing, PlaceOrder(o, L)
      PROVE  StaysUp(l)
  <2>1. Moves(o, L, {}, LotsSoldOut(L))
    BY <1>9, PlacingMoves
  <2>2. l \notin L
    BY <1>1, <1>9 DEF PlaceOrder, OnSaleInShop, SellableInShop
  <2> QED BY <2>1, <2>2, MovesSpareLots
<1>10. ASSUME NEW o \in Order, NEW L \in SUBSET Listing, ReviseOrder(o, L)
       PROVE  StaysUp(l)
  <2> DEFINE taken == L \ Lines(o)
             given == Lines(o) \ L
  <2>1. Moves(o, taken, given, LotsSoldOut(taken))
    BY <1>10, RevisionMoves
  <2>2. l \notin taken
    BY <1>1, <1>10 DEF ReviseOrder, MayMove, OnSaleInShop, SellableInShop
  <2> QED BY <2>1, <2>2, MovesSpareLots
<1>11. ASSUME NEW o \in Order, NEW to \in Statuses, SetOrderStatus(o, to)
       PROVE  StaysUp(l)
  <2>1. UNCHANGED <<listingStatus, subject, venue, lotVars>>
    BY <1>11 DEF SetOrderStatus, ApplyStatus
  <2> QED BY <1>1, <2>1 DEF lotVars, StaysUp
<1>12. ASSUME NEW i \in Item, StandingRequest(i)
       PROVE  StaysUp(l)
  <2>1. CASE ReceiveItem(i) \/ DeleteItem(i)
    <3>1. UNCHANGED <<listingVars, members>>
      BY <2>1 DEF ReceiveItem, DeleteItem, lotVars
    <3> QED BY <1>2, <3>1
  <2>2. OffersHolding({i}) \in SUBSET Listing /\ \A m \in OffersHolding({i}) : Live(m)
    BY DEF OffersHolding
  <2>3. CASE NotInAuction(i) /\ RecordLoss(i)
    <3>1. l \notin OffersHolding({i})
      BY <2>3 DEF NotInAuction
    <3>2. /\ EndOffers(OffersHolding({i}), FALSE, disposition)
          /\ UNCHANGED <<subject, venue>>
      BY <2>3 DEF RecordLoss
    <3> QED BY <2>2, <3>1, <3>2, EndingSparesLots
  <2>4. ASSUME NEW st, NEW d, NotInAuction(i), EditStanding(i, st, d)
        PROVE  StaysUp(l)
    <3>1. l \notin OffersHolding({i})
      BY <2>4 DEF NotInAuction
    <3>2. /\ EndOffers(OffersHolding({i}), FALSE, [disposition EXCEPT ![i] = d])
          /\ UNCHANGED <<subject, venue>>
      BY <2>4 DEF EditStanding, WriteStanding
    <3> QED BY <2>2, <3>1, <3>2, EndingSparesLots
  <2>5. CASE SplitItem(i)
    <3> DEFINE E == {m \in Listing : subject[m] = i /\ Live(m)}
    <3>1. E \in SUBSET Listing /\ (\A m \in E : Live(m)) /\ l \notin E
      BY <1>1, SubjectsApart
    <3>2. EndOffers(E, FALSE, disposition) /\ UNCHANGED <<subject, venue>>
      BY <2>5 DEF SplitItem
    <3> HIDE DEF E
    <3> QED BY <3>1, <3>2, EndingSparesLots
  <2> QED BY <1>12, <2>1, <2>3, <2>4, <2>5 DEF StandingRequest
<1> QED BY <1>3, <1>5, <1>6, <1>7, <1>8, <1>9, <1>10, <1>11, <1>12 DEF ShopRequest

\* What has ended is history to every request of the shop.
Final(l) == listingStatus'[l] = "ended" /\ \A o \in Order : share'[o][l] = share[o][l]

LEMMA ShopKeepsEnded ==
    ASSUME TypeOK, OfferInv, OrderInv, Next, NEW l \in Listing, listingStatus[l] = "ended"
    PROVE  Final(l)
<1>1. ASSUME UNCHANGED <<listingStatus, orderVars>>
      PROVE  Final(l)
  BY <1>1 DEF orderVars, Final
<1>2. CASE LotRequest
  BY <1>1, <1>2, AssemblyLeavesOffers DEF listingVars
<1>3. ASSUME NEW m \in Listing, NEW subj \in Item \cup Lot, NEW S \in SUBSET Item,
             NEW v \in Venue, Offers(m, subj, S, v)
      PROVE  Final(l)
  <2>1. OfferRows(m, subj, S, v)
    BY <1>3, OffersTake DEF OfferInv
  <2>2. listingStatus'[l] = "ended" /\ UNCHANGED orderVars
    BY <2>1, OfferIsFinal DEF OfferRows
  <2> QED BY <2>2 DEF orderVars, Final
<1>4. ASSUME NEW E \in SUBSET Listing, NEW filed, Withdraws(E, filed)
      PROVE  Final(l)
  <2>1. /\ \A m \in E : Live(m)
        /\ EndOffers(E, FALSE, filed)
        /\ UNCHANGED <<subject, venue, orderVars>>
    BY <1>4 DEF Withdraws
  <2>2. listingStatus'[l] = "ended"
    BY <2>1, EndingIsFinal
  <2> QED BY <2>1, <2>2 DEF orderVars, Final
<1>5. ASSUME NEW m \in Listing, EndListingAgain(m)
      PROVE  Final(l)
  BY <1>1, <1>5 DEF EndListingAgain
<1>6. ASSUME NEW o \in Order, NEW T, NEW G, NEW E, Moves(o, T, G, E)
      PROVE  Final(l)
  <2>1. l \notin T /\ l \notin G
    BY <1>6 DEF Moves
  <2>2. /\ listingStatus'[l] = "ended"
        /\ share'[o][l] = share[o][l]
        /\ \A p \in Order : p # o => share'[p][l] = share[p][l]
    BY <1>6, <2>1, MovesWrites
  <2> QED BY <2>2 DEF Final
<1>7. ASSUME NEW o \in Order, NEW to \in OrderStatus, SetOrderStatus(o, to)
      PROVE  Final(l)
  BY <1>7 DEF SetOrderStatus, ApplyStatus, Final
<1>8. CASE Rests
  BY <1>1, <1>8 DEF Rests, listingVars
<1> QED BY <1>2, <1>3, <1>4, <1>5, <1>6, <1>7, <1>8, StepKinds

-----------------------------------------------------------------------------
(* The auctions.                                                           *)

\* NoCoinStranded, lot by lot: the coins of a lot that is out are the members
\* of its lot.
Custody ==
    /\ \A i \in atHouse :
          \/ \E a \in Auction, l \in Listing :
                consignedOn[a] /\ l \in auctionLots[a] /\ i \in members[subject[l]]
          \/ \E a \in Auction, l \in Listing, o \in Order :
                l \in auctionLots[a] /\ result[l] = "sold" /\ i \in share[o][l]
    /\ \A a \in Auction, l \in Listing :
          consignedOn[a] /\ l \in auctionLots[a] => members[subject[l]] \subseteq atHouse

LEMMA CustodyMeans ==
    AuctionTypeOK /\ LotsFollowAuction /\ CustodyIsBetween => (NoCoinStranded <=> Custody)
<1> SUFFICES ASSUME AuctionTypeOK, LotsFollowAuction, CustodyIsBetween
             PROVE  NoCoinStranded <=> Custody
  OBVIOUS
<1>1. ASSUME NEW a \in Auction, consignedOn[a], NEW l \in auctionLots[a]
      PROVE  l \in Listing /\ OfferedItems(l) = members[subject[l]]
  <2>1. l \in Listing /\ subject[l] \in Lot
    BY <1>1 DEF AuctionTypeOK, LotsFollowAuction, CustodyIsBetween
  <2> QED BY <2>1, WhatIsOffered
<1>2. ASSUME NEW a \in Auction, consignedOn[a], NEW i
      PROVE  i \in ItemsOf(auctionLots[a]) <=>
                \E l \in Listing : l \in auctionLots[a] /\ i \in members[subject[l]]
  BY <1>1, <1>2 DEF ItemsOf
<1>3. ASSUME NEW i
      PROVE  (\E a \in Auction : consignedOn[a] /\ i \in ItemsOf(auctionLots[a])) <=>
                \E a \in Auction, l \in Listing :
                   consignedOn[a] /\ l \in auctionLots[a] /\ i \in members[subject[l]]
  BY <1>2
<1>4. ASSUME NEW a \in Auction
      PROVE  (consignedOn[a] => ItemsOf(auctionLots[a]) \subseteq atHouse) <=>
                \A l \in Listing : consignedOn[a] /\ l \in auctionLots[a] =>
                   members[subject[l]] \subseteq atHouse
  BY <1>2
<1> QED BY <1>3, <1>4 DEF NoCoinStranded, Custody

\* A lot of an auction that is not settled is up, and no order has a line of it.
LEMMA LotIsUp ==
    ASSUME AuctionTypeOK, OrderInv, AuctionInv, NEW a \in Auction,
           auctionStatus[a] # "settled", NEW l \in auctionLots[a]
    PROVE  /\ l \in Listing /\ Up(l) /\ InAuction(l)
           /\ OfferedItems(l) = members[subject[l]]
           /\ result[l] = "none"
           /\ \A o \in Order : share[o][l] = {}
<1>1. /\ l \in Listing /\ listingStatus[l] = "active" /\ venue[l] = auctionVenue[a]
      /\ subject[l] \in Lot
  BY DEF AuctionTypeOK, AuctionInv, LotsFollowAuction
<1>2. Up(l) /\ InAuction(l)
  BY <1>1 DEF AuctionTypeOK, Up, InAuction
<1>3. OfferedItems(l) = members[subject[l]]
  BY <1>1, WhatIsOffered
<1>4. result[l] = "none"
  BY <1>1 DEF AuctionInv, ResultsAreOfEnded
<1>5. \A o \in Order : share[o][l] = {}
  BY <1>1, SubjectsApart DEF OrderInv, LinesAreSold
<1> QED BY <1>1, <1>2, <1>3, <1>4, <1>5

\* A request that spares every lot keeps the auctions' invariant when it leaves
\* their rows alone, and moves nothing on but a status before the settlement.
LEMMA SparingKeeps ==
    ASSUME AuctionTypeOK, OrderInv, AuctionInv,
           UNCHANGED <<auctionLots, result, atHouse, consignedOn>>,
           \A a \in Auction : auctionLots[a] # {} => auctionVenue'[a] = auctionVenue[a],
           \A a \in Auction :
               \/ auctionStatus'[a] = auctionStatus[a]
               \/ /\ auctionStatus[a] # "settled"
                  /\ auctionStatus'[a] \notin {"settled", "absent", "cancelled"}
                  /\ consignedOn[a] => auctionStatus'[a] \in {"consigned", "closed"},
           \A l \in Listing : Up(l) /\ InAuction(l) => StaysUp(l),
           \A l \in Listing : listingStatus[l] = "ended" => Final(l),
           AuctionTypeOK'
    PROVE  AuctionInv'
<1>1. \A a \in Auction : auctionStatus'[a] = "settled" <=> auctionStatus[a] = "settled"
  OBVIOUS
<1>2. ASSUME NEW a \in Auction, NEW l \in auctionLots[a], auctionStatus[a] # "settled"
      PROVE  l \in Listing /\ StaysUp(l) /\ subject[l] \in Lot /\ venue[l] = auctionVenue[a]
  BY <1>2, LotIsUp DEF Up, AuctionInv, LotsFollowAuction
<1>3. LotsApart' /\ LotsAreFinite' /\ NoLotsOutside' /\ CustodyIsBetween'
  BY DEF AuctionInv, LotsApart, LotsAreFinite, NoLotsOutside, CustodyIsBetween
<1>4. LotsFollowAuction'
  <2> SUFFICES ASSUME NEW a \in Auction, NEW l \in Listing, l \in auctionLots[a]
               PROVE  IF auctionStatus'[a] = "settled" THEN listingStatus'[l] = "ended"
                      ELSE /\ listingStatus'[l] = "active"
                           /\ venue'[l] = auctionVenue[a]
                           /\ subject'[l] \in Lot
    BY DEF LotsFollowAuction
  <2>1. CASE auctionStatus[a] = "settled"
    BY <1>1, <2>1 DEF AuctionInv, LotsFollowAuction, Final
  <2>2. CASE auctionStatus[a] # "settled"
    BY <1>1, <1>2, <2>2 DEF StaysUp
  <2> QED BY <2>1, <2>2
<1>5. ResultsAreOfEnded'
  BY DEF AuctionInv, ResultsAreOfEnded, Final
<1>6. SettledHasOrders'
  <2> SUFFICES ASSUME NEW a \in Auction, NEW l \in Listing,
                      auctionStatus'[a] = "settled", l \in auctionLots[a]
               PROVE  /\ result[l] # "none"
                      /\ result[l] = "sold" =>
                            \E o \in Order : /\ share'[o][l] # {}
                                             /\ \A p \in Order : share'[p][l] # {} => p = o
                      /\ result[l] # "sold" => \A o \in Order : share'[o][l] = {}
    BY DEF SettledHasOrders
  <2>1. auctionStatus[a] = "settled" /\ listingStatus[l] = "ended"
    BY <1>1 DEF AuctionInv, LotsFollowAuction
  <2>2. \A o \in Order : share'[o][l] = share[o][l]
    BY <2>1 DEF Final
  <2> QED BY <2>1, <2>2 DEF AuctionInv, SettledHasOrders
<1>7. Custody'
  <2>1. Custody
    BY CustodyMeans DEF AuctionInv
  <2>2. ASSUME NEW a \in Auction, NEW l \in Listing, consignedOn[a], l \in auctionLots[a]
        PROVE  members'[subject'[l]] = members[subject[l]]
    BY <1>2, <2>2 DEF AuctionInv, CustodyIsBetween, StaysUp
  <2>3. ASSUME NEW a \in Auction, NEW l \in Listing, l \in auctionLots[a],
               result[l] = "sold", NEW o \in Order
        PROVE  share'[o][l] = share[o][l]
    BY <2>3 DEF AuctionInv, ResultsAreOfEnded, Final
  <2> QED BY <2>1, <2>2, <2>3 DEF Custody
<1>8. NoCoinStranded'
  BY <1>4, <1>3, <1>7, CustodyMeans, PTL
<1> QED BY <1>3, <1>4, <1>5, <1>6, <1>8 DEF AuctionInv

LEMMA TurnKeeps ==
    ASSUME AuctionTypeOK, OrderInv, AuctionInv, NEW a \in Auction, Turns(a), AuctionTypeOK'
    PROVE  AuctionInv'
<1>1. UNCHANGED <<vars, auctionLots, result>>
  BY DEF Turns, CreateAuction, Schedule, Consign, Close
<1>2. UNCHANGED <<listingStatus, venue, subject, members, share>>
  BY <1>1 DEF vars, listingVars, lotVars, orderVars
<1>3. /\ \A l \in Listing : Up(l) /\ InAuction(l) => StaysUp(l)
      /\ \A l \in Listing : listingStatus[l] = "ended" => Final(l)
  BY <1>2 DEF Up, StaysUp, Final
<1>4. CASE Consign(a)
  <2>1. /\ auctionStatus[a] = "scheduled"
        /\ auctionStatus' = [auctionStatus EXCEPT ![a] = "consigned"]
        /\ consignedOn' = [consignedOn EXCEPT ![a] = TRUE]
        /\ atHouse' = atHouse \cup ItemsOf(auctionLots[a])
        /\ UNCHANGED <<auctionVenue, auctionLots, result>>
    BY <1>4 DEF Consign
  <2>2. /\ \A b \in Auction : b # a => auctionStatus'[b] = auctionStatus[b]
                                       /\ consignedOn'[b] = consignedOn[b]
        /\ auctionStatus'[a] = "consigned" /\ consignedOn'[a]
    BY <2>1 DEF AuctionTypeOK
  <2>3. /\ LotsApart' /\ LotsAreFinite' /\ NoLotsOutside' /\ CustodyIsBetween'
        /\ ResultsAreOfEnded'
    BY <1>2, <2>1, <2>2 DEF AuctionInv, LotsApart, LotsAreFinite, NoLotsOutside,
                            CustodyIsBetween, ResultsAreOfEnded
  <2>4. LotsFollowAuction'
    BY <1>2, <2>1, <2>2 DEF AuctionInv, LotsFollowAuction
  <2>5. SettledHasOrders'
    BY <1>2, <2>1, <2>2 DEF AuctionInv, SettledHasOrders
  <2>6. Custody'
    <3>1. Custody
      BY CustodyMeans DEF AuctionInv
    <3>2. \A i : i \in ItemsOf(auctionLots[a]) <=>
                    \E l \in Listing : l \in auctionLots[a] /\ i \in members[subject[l]]
      <4>1. \A l \in auctionLots[a] : l \in Listing /\ OfferedItems(l) = members[subject[l]]
        BY <2>1, LotIsUp
      <4> QED BY <4>1 DEF ItemsOf
    <3>3. \A i \in atHouse' :
              \/ \E b \in Auction, l \in Listing :
                    consignedOn'[b] /\ l \in auctionLots[b] /\ i \in members[subject[l]]
              \/ \E b \in Auction, l \in Listing, o \in Order :
                    l \in auctionLots[b] /\ result[l] = "sold" /\ i \in share[o][l]
      <4> SUFFICES ASSUME NEW i \in atHouse'
                   PROVE  \/ \E b \in Auction, l \in Listing :
                                consignedOn'[b] /\ l \in auctionLots[b]
                                /\ i \in members[subject[l]]
                          \/ \E b \in Auction, l \in Listing, o \in Order :
                                l \in auctionLots[b] /\ result[l] = "sold"
                                /\ i \in share[o][l]
        OBVIOUS
      <4>1. CASE i \in atHouse
        <5>1. \A b \in Auction : consignedOn[b] => consignedOn'[b]
          BY <2>2
        <5> QED BY <3>1, <4>1, <5>1 DEF Custody
      <4>2. CASE i \in ItemsOf(auctionLots[a])
        BY <2>2, <3>2, <4>2
      <4> QED BY <2>1, <4>1, <4>2
    <3>4. \A b \in Auction, l \in Listing : consignedOn'[b] /\ l \in auctionLots[b] =>
              members[subject[l]] \subseteq atHouse'
      BY <2>1, <2>2, <3>1, <3>2 DEF Custody
    <3> QED BY <1>2, <2>1, <3>3, <3>4 DEF Custody
  <2>7. NoCoinStranded'
    BY <2>3, <2>4, <2>6, CustodyMeans, PTL
  <2> QED BY <2>3, <2>4, <2>5, <2>7 DEF AuctionInv
<1>5. CASE Schedule(a) \/ Close(a) \/ \E v \in Hosts : CreateAuction(a, v)
  <2>1. UNCHANGED <<auctionLots, result, atHouse, consignedOn>>
    BY <1>5 DEF Schedule, Close, CreateAuction
  <2>2. \A b \in Auction : auctionLots[b] # {} => auctionVenue'[b] = auctionVenue[b]
    BY <1>5 DEF Schedule, Close, CreateAuction, AuctionTypeOK, AuctionInv, NoLotsOutside
  <2>3. ASSUME NEW b \in Auction
        PROVE  \/ auctionStatus'[b] = auctionStatus[b]
               \/ /\ auctionStatus[b] # "settled"
                  /\ auctionStatus'[b] \notin {"settled", "absent", "cancelled"}
                  /\ consignedOn[b] => auctionStatus'[b] \in {"consigned", "closed"}
    BY <1>5 DEF Schedule, Close, CreateAuction, AuctionTypeOK, AuctionInv, CustodyIsBetween
  <2> QED BY <1>3, <2>1, <2>2, <2>3, SparingKeeps
<1> QED BY <1>4, <1>5 DEF Turns

LEMMA ShopKeepsAuctions ==
    ASSUME AuctionTypeOK, OfferInv, OrderInv, AuctionInv, ShopRequest, AuctionTypeOK'
    PROVE  AuctionInv'
<1>1. TypeOK /\ Next /\ UNCHANGED auctionVars
  BY ShopRequestIsNext DEF AuctionTypeOK
<1>2. \A l \in Listing : Up(l) /\ InAuction(l) => StaysUp(l)
  BY <1>1, ShopSparesLots
<1>3. \A l \in Listing : listingStatus[l] = "ended" => Final(l)
  BY <1>1, ShopKeepsEnded
<1> QED BY <1>1, <1>2, <1>3, SparingKeeps DEF auctionVars

LEMMA AddingKeeps ==
    ASSUME AuctionTypeOK, OfferInv, OrderInv, AuctionInv, NEW a \in Auction,
           NEW m \in Listing, NEW k \in Lot, NEW S \in SUBSET Item, Adds(a, m, k, S),
           AuctionTypeOK'
    PROVE  AuctionInv'
<1>1. /\ OfferRows(m, k, S, auctionVenue[a]) /\ LotTaken(k, S)
      /\ auctionVenue[a] \in Venue /\ TypeOK
      /\ auctionStatus[a] \in {"draft", "scheduled"}
      /\ UNCHANGED <<auctionStatus, auctionVenue, consignedOn, result, atHouse, orderVars>>
  BY DEF Adds, AuctionTypeOK, Outside, OfferRows
<1>2. \A b \in Auction : auctionLots'[b] = IF b = a THEN auctionLots[a] \cup {m}
                                           ELSE auctionLots[b]
  BY DEF Adds, AuctionTypeOK
<1>3. /\ listingStatus[m] = "unused" /\ listingStatus'[m] = "active"
      /\ subject'[m] = k /\ venue'[m] = auctionVenue[a]
  BY <1>1, OfferWrites, ZenonT(40)
<1>4. \A b \in Auction : m \notin auctionLots[b]
  BY <1>3 DEF AuctionInv, LotsFollowAuction
<1>5. ASSUME NEW b \in Auction, NEW l \in auctionLots[b], auctionStatus[b] # "settled"
      PROVE  /\ l \in Listing /\ StaysUp(l) /\ l # m
             /\ subject[l] \in Lot /\ venue[l] = auctionVenue[b]
  <2>1. l \in Listing /\ Up(l)
    BY <1>5, LotIsUp
  <2>2. StaysUp(l) /\ l # m
    BY <1>1, <2>1, OfferSparesLots
  <2> QED BY <1>5, <2>1, <2>2 DEF Up, AuctionInv, LotsFollowAuction
<1>6. ASSUME NEW l \in Listing, listingStatus[l] = "ended"
      PROVE  Final(l)
  <2>1. listingStatus'[l] = "ended"
    BY <1>1, <1>6, OfferIsFinal
  <2> QED BY <1>1, <2>1 DEF Final, orderVars
<1>7. LotsApart'
  BY <1>2, <1>4 DEF AuctionInv, LotsApart
<1>8. LotsAreFinite'
  <2> SUFFICES ASSUME NEW b \in Auction
               PROVE  IsFiniteSet(auctionLots'[b])
    BY DEF LotsAreFinite
  <2>1. IsFiniteSet(auctionLots[b])
    BY DEF AuctionInv, LotsAreFinite
  <2>2. IsFiniteSet(auctionLots[b] \cup {m})
    BY <2>1, FS_AddElement
  <2>3. CASE b = a
    BY <1>2, <2>2, <2>3
  <2>4. CASE b # a
    BY <1>2, <2>1, <2>4
  <2> QED BY <2>3, <2>4
<1>9. LotsFollowAuction'
  <2> SUFFICES ASSUME NEW b \in Auction, NEW l \in Listing, l \in auctionLots'[b]
               PROVE  IF auctionStatus[b] = "settled" THEN listingStatus'[l] = "ended"
                      ELSE /\ listingStatus'[l] = "active"
                           /\ venue'[l] = auctionVenue[b]
                           /\ subject'[l] \in Lot
    BY <1>1 DEF LotsFollowAuction
  <2>1. CASE b = a /\ l = m
    BY <1>1, <1>3, <2>1
  <2>2. CASE l \in auctionLots[b] /\ auctionStatus[b] = "settled"
    BY <1>6, <2>2 DEF AuctionInv, LotsFollowAuction, Final
  <2>3. CASE l \in auctionLots[b] /\ auctionStatus[b] # "settled"
    BY <1>5, <2>3 DEF StaysUp
  <2> QED BY <1>2, <2>1, <2>2, <2>3
<1>10. NoLotsOutside' /\ CustodyIsBetween'
  BY <1>1, <1>2 DEF AuctionInv, NoLotsOutside, CustodyIsBetween
<1>11. ResultsAreOfEnded'
  BY <1>1, <1>6 DEF AuctionInv, ResultsAreOfEnded, Final
<1>12. SettledHasOrders'
  BY <1>1, <1>2 DEF AuctionInv, SettledHasOrders, orderVars
<1>13. Custody'
  <2>1. Custody
    BY CustodyMeans DEF AuctionInv
  <2>2. ~consignedOn[a]
    BY <1>1 DEF AuctionInv, CustodyIsBetween
  <2>3. ASSUME NEW b \in Auction, NEW l \in Listing, consignedOn[b]
        PROVE  /\ l \in auctionLots'[b] <=> l \in auctionLots[b]
               /\ l \in auctionLots[b] => members'[subject'[l]] = members[subject[l]]
    <3>1. b # a /\ auctionStatus[b] # "settled"
      BY <2>2, <2>3 DEF AuctionInv, CustodyIsBetween
    <3> QED BY <1>2, <1>5, <3>1 DEF StaysUp
  <2>4. UNCHANGED <<atHouse, consignedOn, result, share>>
    BY <1>1 DEF orderVars
  <2>5. \A b \in Auction : auctionLots[b] \subseteq auctionLots'[b]
    BY <1>2
  <2>6. ASSUME NEW i \in atHouse
        PROVE  \/ \E b \in Auction, l \in Listing :
                     consignedOn[b] /\ l \in auctionLots'[b] /\ i \in members'[subject'[l]]
               \/ \E b \in Auction, l \in Listing, o \in Order :
                     l \in auctionLots'[b] /\ result[l] = "sold" /\ i \in share[o][l]
    BY <2>1, <2>3, <2>5 DEF Custody
  <2>7. \A b \in Auction, l \in Listing :
            consignedOn[b] /\ l \in auctionLots'[b] => members'[subject'[l]] \subseteq atHouse
    BY <2>1, <2>3 DEF Custody
  <2> QED BY <2>4, <2>6, <2>7 DEF Custody
<1>14. NoCoinStranded'
  BY <1>9, <1>10, <1>13, CustodyMeans, PTL
<1> QED BY <1>7, <1>8, <1>9, <1>10, <1>11, <1>12, <1>14 DEF AuctionInv

LEMMA RemovingKeeps ==
    ASSUME AuctionTypeOK, OfferInv, OrderInv, AuctionInv, NEW a \in Auction,
           NEW E \in SUBSET Listing, Removes(a, E), AuctionTypeOK'
    PROVE  AuctionInv'
<1>1. /\ E \subseteq auctionLots[a]
      /\ auctionStatus[a] \notin Over \cup {"absent"}
      /\ atHouse' = IF consignedOn[a] THEN atHouse \ ItemsOf(E) ELSE atHouse
      /\ UNCHANGED <<subject, venue, share, auctionVenue, result>>
      /\ \A l \in E : Live(l) /\ listingStatus[l] = "active"
      /\ EndOffers(E, FALSE, disposition) /\ TypeOK
  BY RemovedIsUp DEF Removes, Withdraws, orderVars, AuctionTypeOK
<1>2. /\ \A b \in Auction : auctionLots'[b] = IF b = a THEN auctionLots[a] \ E
                                              ELSE auctionLots[b]
      /\ \A b \in Auction : b # a => /\ auctionStatus'[b] = auctionStatus[b]
                                     /\ consignedOn'[b] = consignedOn[b]
      /\ \/ auctionStatus'[a] = auctionStatus[a] /\ consignedOn'[a] = consignedOn[a]
         \/ auctionLots'[a] = {} /\ auctionStatus'[a] = "cancelled" /\ ~consignedOn'[a]
  BY DEF Removes, AuctionTypeOK
<1>3. /\ \A b \in Auction : auctionLots'[b] \subseteq auctionLots[b]
      /\ \A b \in Auction : auctionStatus'[b] = "settled" <=> auctionStatus[b] = "settled"
      /\ \A b \in Auction : consignedOn'[b] => consignedOn[b]
      /\ \A b \in Auction : auctionStatus[b] = "settled" => b # a
  BY <1>1, <1>2 DEF Over
<1>4. ASSUME NEW b \in Auction, NEW l \in auctionLots'[b]
      PROVE  l \in auctionLots[b] /\ l \in Listing /\ l \notin E
  BY <1>1, <1>2 DEF AuctionTypeOK, AuctionInv, LotsApart
<1>5. ASSUME NEW b \in Auction, NEW l \in auctionLots'[b], auctionStatus[b] # "settled"
      PROVE  StaysUp(l) /\ subject[l] \in Lot /\ venue[l] = auctionVenue[b]
  <2>1. l \in auctionLots[b] /\ l \in Listing /\ l \notin E
    BY <1>4
  <2>2. Up(l)
    BY <1>5, <2>1, LotIsUp
  <2>3. StaysUp(l)
    BY <1>1, <2>1, <2>2, EndingSparesLots
  <2> QED BY <1>5, <2>1, <2>2, <2>3 DEF Up, AuctionInv, LotsFollowAuction
<1>6. ASSUME NEW l \in Listing, listingStatus[l] = "ended"
      PROVE  listingStatus'[l] = "ended"
  BY <1>1, <1>6, EndingIsFinal
<1>7. LotsApart'
  BY <1>3 DEF AuctionInv, LotsApart
<1>8. LotsAreFinite'
  <2> SUFFICES ASSUME NEW b \in Auction
               PROVE  IsFiniteSet(auctionLots'[b])
    BY DEF LotsAreFinite
  <2>1. IsFiniteSet(auctionLots[b])
    BY DEF AuctionInv, LotsAreFinite
  <2> QED BY <1>3, <2>1, FS_Subset
<1>9. LotsFollowAuction'
  <2> SUFFICES ASSUME NEW b \in Auction, NEW l \in Listing, l \in auctionLots'[b]
               PROVE  IF auctionStatus[b] = "settled" THEN listingStatus'[l] = "ended"
                      ELSE /\ listingStatus'[l] = "active"
                           /\ venue'[l] = auctionVenue[b]
                           /\ subject'[l] \in Lot
    BY <1>1, <1>3 DEF LotsFollowAuction
  <2>1. CASE auctionStatus[b] = "settled"
    BY <1>4, <1>6, <2>1 DEF AuctionInv, LotsFollowAuction
  <2>2. CASE auctionStatus[b] # "settled"
    BY <1>5, <2>2 DEF StaysUp
  <2> QED BY <2>1, <2>2
<1>10. NoLotsOutside' /\ CustodyIsBetween'
  BY <1>1, <1>2 DEF AuctionInv, NoLotsOutside, CustodyIsBetween, Over
<1>11. ResultsAreOfEnded'
  BY <1>1, <1>6 DEF AuctionInv, ResultsAreOfEnded
<1>12. SettledHasOrders'
  BY <1>1, <1>3 DEF AuctionInv, SettledHasOrders
<1>13. Custody'
  <2>1. Custody
    BY CustodyMeans DEF AuctionInv
  <2>2. ASSUME NEW b \in Auction, NEW l \in auctionLots'[b], consignedOn[b]
        PROVE  /\ members'[subject'[l]] = members[subject[l]]
               /\ members[subject[l]] \cap ItemsOf(E) = {}
    <3>1. /\ auctionStatus[b] # "settled" /\ l \in auctionLots[b] /\ l \in Listing
          /\ l \notin E
      BY <1>4, <2>2 DEF AuctionInv, CustodyIsBetween
    <3>2. OfferedItems(l) = members[subject[l]] /\ listingStatus[l] = "active"
      BY <3>1, LotIsUp DEF Up
    <3>3. \A m \in E : OfferedItems(l) \cap OfferedItems(m) = {}
      BY <1>1, <3>1, <3>2, ActiveApart
    <3>4. members'[subject'[l]] = members[subject[l]]
      BY <1>5, <3>1 DEF StaysUp
    <3> QED BY <3>2, <3>3, <3>4 DEF ItemsOf
  <2>3. ASSUME NEW b \in Auction, NEW l \in Listing, l \in auctionLots[b],
               result[l] = "sold"
        PROVE  l \in auctionLots'[b]
    <3>1. b # a
      BY <1>1, <2>3, LotIsUp DEF Over
    <3> QED BY <1>2, <2>3, <3>1
  <2>4. \A i \in atHouse' :
            \/ \E b \in Auction, l \in Listing :
                  consignedOn'[b] /\ l \in auctionLots'[b] /\ i \in members'[subject'[l]]
            \/ \E b \in Auction, l \in Listing, o \in Order :
                  l \in auctionLots'[b] /\ result'[l] = "sold" /\ i \in share'[o][l]
    <3> SUFFICES ASSUME NEW i \in atHouse'
                 PROVE  \/ \E b \in Auction, l \in Listing :
                              consignedOn'[b] /\ l \in auctionLots'[b]
                              /\ i \in members'[subject'[l]]
                        \/ \E b \in Auction, l \in Listing, o \in Order :
                              l \in auctionLots'[b] /\ result[l] = "sold"
                              /\ i \in share[o][l]
      BY <1>1
    <3>1. CASE \E b \in Auction, l \in Listing, o \in Order :
                  l \in auctionLots[b] /\ result[l] = "sold" /\ i \in share[o][l]
      BY <2>3, <3>1
    <3>2. ASSUME NEW b \in Auction, NEW l \in Listing, consignedOn[b],
                 l \in auctionLots[b], i \in members[subject[l]]
          PROVE  consignedOn'[b] /\ l \in auctionLots'[b] /\ i \in members'[subject'[l]]
      <4>1. OfferedItems(l) = members[subject[l]]
        BY <3>2, LotIsUp DEF AuctionInv, CustodyIsBetween
      <4>2. l \notin E
        <5>1. CASE consignedOn[a]
          BY <1>1, <3>2, <4>1, <5>1 DEF ItemsOf
        <5>2. CASE ~consignedOn[a]
          BY <1>1, <3>2, <5>2 DEF AuctionInv, LotsApart
        <5> QED BY <5>1, <5>2
      <4>3. l \in auctionLots'[b] /\ consignedOn'[b]
        BY <1>2, <3>2, <4>2
      <4> QED BY <2>2, <3>2, <4>3
    <3>3. i \in atHouse
      BY <1>1
    <3> QED BY <2>1, <3>1, <3>2, <3>3 DEF Custody
  <2>5. ASSUME NEW b \in Auction, NEW l \in Listing, consignedOn'[b], l \in auctionLots'[b]
        PROVE  members'[subject'[l]] \subseteq atHouse'
    <3>1. l \in auctionLots[b] /\ consignedOn[b]
      BY <1>3, <2>5
    <3>2. members[subject[l]] \subseteq atHouse
      BY <2>1, <3>1 DEF Custody
    <3> QED BY <1>1, <2>2, <2>5, <3>1, <3>2
  <2> QED BY <2>4, <2>5 DEF Custody
<1>14. NoCoinStranded'
  BY <1>9, <1>10, <1>13, CustodyMeans, PTL
<1> QED BY <1>7, <1>8, <1>9, <1>10, <1>11, <1>12, <1>14 DEF AuctionInv

LEMMA SettlingKeepsAuctions ==
    ASSUME AuctionTypeOK, OfferInv, OrderInv, AuctionInv, NEW a \in Auction,
           NEW results, NEW buyers, NEW orderOf, Settles(a, results, buyers, orderOf),
           AuctionTypeOK'
    PROVE  AuctionInv'
<1> DEFINE S == {l \in auctionLots[a] : results[l] = "sold"}
           U == auctionLots[a] \ S
<1>1. PICK bought : Sells(S, U, bought, auctionVenue[a])
  BY SettlementSells
<1>2. /\ \A l \in auctionLots[a] : results[l] \in Result
      /\ auctionStatus[a] = "closed"
      /\ result' = [l \in Listing |-> IF l \in auctionLots[a] THEN results[l] ELSE result[l]]
      /\ atHouse' = IF consignedOn[a] THEN atHouse \ ItemsOf(U) ELSE atHouse
      /\ consignedOn' = [consignedOn EXCEPT ![a] = FALSE]
      /\ auctionStatus' = [auctionStatus EXCEPT ![a] = "settled"]
      /\ UNCHANGED <<auctionVenue, auctionLots>> /\ TypeOK
  BY SettlementSells DEF AuctionTypeOK
<1>3. /\ \A b \in Auction : b # a => /\ auctionStatus'[b] = auctionStatus[b]
                                     /\ consignedOn'[b] = consignedOn[b]
      /\ auctionStatus'[a] = "settled" /\ ~consignedOn'[a]
  BY <1>2 DEF AuctionTypeOK
<1>4. /\ auctionLots[a] = S \cup U
      /\ \A l \in S : results[l] = "sold"
      /\ \A l \in U : results[l] # "sold"
  OBVIOUS
<1>5. \A b \in Auction : b # a => auctionLots[b] \cap (S \cup U) = {}
  BY <1>4 DEF AuctionInv, LotsApart
<1> HIDE DEF S, U
<1>6. ASSUME NEW l \in S \cup U
      PROVE  /\ l \in Listing /\ Up(l) /\ listingStatus'[l] = "ended"
             /\ OfferedItems(l) = members[subject[l]]
             /\ result'[l] = results[l] /\ \A o \in Order : share[o][l] = {}
  <2>1. /\ l \in Listing /\ Up(l) /\ OfferedItems(l) = members[subject[l]]
        /\ \A o \in Order : share[o][l] = {}
    BY <1>2, <1>4, LotIsUp
  <2>2. listingStatus'[l] = "ended"
    BY <1>1, <2>1, SettlingStatus
  <2> QED BY <1>2, <1>4, <2>1, <2>2
<1>7. ASSUME NEW b \in Auction, NEW l \in auctionLots[b], b # a, auctionStatus[b] # "settled"
      PROVE  /\ l \in Listing /\ StaysUp(l)
             /\ subject[l] \in Lot /\ venue[l] = auctionVenue[b]
             /\ OfferedItems(l) = members[subject[l]]
             /\ members[subject[l]] \cap ItemsOf(U) = {}
  <2>1. /\ l \in Listing /\ Up(l) /\ l \notin S \cup U
        /\ OfferedItems(l) = members[subject[l]]
    BY <1>5, <1>7, LotIsUp
  <2>2. l \notin PausedBy(S) \cup PausedBy(U)
    BY <2>1 DEF PausedBy, Up
  <2>3. listingStatus'[l] = "active" /\ subject'[l] = subject[l] /\ venue'[l] = venue[l]
    BY <1>1, <1>2, <2>1, <2>2, SettlingStatus, SettlingLeaves DEF Up
  <2>4. ASSUME NEW m \in S \cup U
        PROVE  /\ m \in Listing /\ listingStatus[m] = "active" /\ Live(m)
               /\ subject[m] # subject[l]
    <3>1. /\ m \in Listing /\ listingStatus[m] = "active" /\ m # l
          /\ Live(m) /\ Live(l) /\ subject[l] \in Lot
      BY <1>6, <2>1, <2>4 DEF Up, Live, OnOffer
    <3> QED BY <2>1, <3>1 DEF OfferInv, OnePerSubject
  <2>5. members'[subject[l]] = members[subject[l]]
    <3>1. subject[l] \in Lot
      BY <2>1 DEF Up
    <3> QED BY <1>1, <2>1, <2>4, <3>1, SettlingStatus
  <2>6. \A m \in U : OfferedItems(l) \cap OfferedItems(m) = {}
    BY <1>2, <2>1, <2>4, ActiveApart DEF Up
  <2>7. venue[l] = auctionVenue[b] /\ subject[l] \in Lot
    BY <1>7 DEF AuctionInv, LotsFollowAuction, AuctionTypeOK
  <2> QED BY <2>1, <2>3, <2>5, <2>6, <2>7 DEF StaysUp, ItemsOf
<1>8. ASSUME NEW l \in Listing, listingStatus[l] = "ended"
      PROVE  Final(l) /\ result'[l] = result[l]
  <2>1. l \notin S \cup U
    BY <1>6, <1>8 DEF Up
  <2>2. \A o \in Order : l \notin bought[o]
    BY <1>1, <2>1 DEF Sells
  <2>3. \A o \in Order : share'[o][l] = share[o][l]
    BY <1>1, <1>2, <2>2, SettlingWrites
  <2>4. listingStatus'[l] = "ended"
    BY <1>1, <1>2, <1>8, SettlingLeaves
  <2> QED BY <1>2, <1>4, <2>1, <2>3, <2>4 DEF Final
<1>9. ASSUME NEW l \in S
      PROVE  \E o \in Order : /\ share'[o][l] = OfferedItems(l) /\ OfferedItems(l) # {}
                              /\ \A p \in Order : share'[p][l] # {} => p = o
  <2>1. PICK o \in Order : l \in bought[o]
    BY <1>1 DEF Sells
  <2>2. \A p \in Order : p # o => l \notin bought[p]
    BY <1>1, <2>1 DEF Sells
  <2>3. l \in Listing
    BY <1>6
  <2>4. /\ \A p \in Order : share'[p][l] = IF l \in bought[p] THEN OfferedItems(l)
                                           ELSE share[p][l]
        /\ OfferedItems(l) # {}
    BY <1>1, <1>2, <2>3, SettlingWrites
  <2>5. \A p \in Order : share[p][l] = {}
    BY <1>6
  <2> QED BY <2>1, <2>2, <2>4, <2>5
<1>10. ASSUME NEW l \in U, NEW o \in Order
       PROVE  share'[o][l] = {}
  <2>1. l \notin bought[o] /\ l \in Listing /\ share[o][l] = {}
    BY <1>1, <1>6 DEF Sells
  <2> QED BY <1>1, <1>2, <2>1, SettlingWrites
<1>11. LotsApart' /\ LotsAreFinite'
  BY <1>2 DEF AuctionInv, LotsApart, LotsAreFinite
<1>12. LotsFollowAuction'
  <2> SUFFICES ASSUME NEW b \in Auction, NEW l \in Listing, l \in auctionLots[b]
               PROVE  IF auctionStatus'[b] = "settled" THEN listingStatus'[l] = "ended"
                      ELSE /\ listingStatus'[l] = "active"
                           /\ venue'[l] = auctionVenue[b]
                           /\ subject'[l] \in Lot
    BY <1>2 DEF LotsFollowAuction
  <2>1. CASE b = a
    BY <1>3, <1>4, <1>6, <2>1
  <2>2. CASE b # a /\ auctionStatus[b] = "settled"
    BY <1>3, <1>8, <2>2 DEF AuctionInv, LotsFollowAuction, Final
  <2>3. CASE b # a /\ auctionStatus[b] # "settled"
    BY <1>3, <1>7, <2>3 DEF StaysUp
  <2> QED BY <2>1, <2>2, <2>3
<1>13. NoLotsOutside' /\ CustodyIsBetween'
  BY <1>2, <1>3 DEF AuctionInv, NoLotsOutside, CustodyIsBetween
<1>14. ResultsAreOfEnded'
  <2> SUFFICES ASSUME NEW l \in Listing, result'[l] # "none"
               PROVE  listingStatus'[l] = "ended"
    BY DEF ResultsAreOfEnded
  <2>1. CASE l \in auctionLots[a]
    BY <1>4, <1>6, <2>1
  <2>2. CASE l \notin auctionLots[a]
    BY <1>2, <1>8, <2>2 DEF AuctionInv, ResultsAreOfEnded, Final
  <2> QED BY <2>1, <2>2
<1>15. SettledHasOrders'
  <2> SUFFICES ASSUME NEW b \in Auction, NEW l \in Listing,
                      auctionStatus'[b] = "settled", l \in auctionLots[b]
               PROVE  /\ result'[l] # "none"
                      /\ result'[l] = "sold" =>
                            \E o \in Order : /\ share'[o][l] # {}
                                             /\ \A p \in Order : share'[p][l] # {} => p = o
                      /\ result'[l] # "sold" => \A o \in Order : share'[o][l] = {}
    BY <1>2 DEF SettledHasOrders
  <2>1. CASE b # a
    <3>1. auctionStatus[b] = "settled"
      BY <1>3, <2>1
    <3>2. /\ result'[l] = result[l]
          /\ \A o \in Order : share'[o][l] = share[o][l]
      BY <1>8, <3>1 DEF AuctionInv, LotsFollowAuction, Final
    <3> QED BY <3>1, <3>2 DEF AuctionInv, SettledHasOrders
  <2>2. CASE b = a
    <3>1. l \in S \cup U /\ result'[l] = results[l] /\ results[l] # "none"
      BY <1>2, <1>4, <1>6, <2>2 DEF Result
    <3>2. CASE l \in S
      BY <1>4, <1>9, <3>1, <3>2
    <3>3. CASE l \in U
      BY <1>4, <1>10, <3>1, <3>3
    <3> QED BY <3>1, <3>2, <3>3
  <2> QED BY <2>1, <2>2
<1>16. Custody'
  <2>1. Custody
    BY CustodyMeans DEF AuctionInv
  <2>2. ASSUME NEW b \in Auction, consignedOn[b], b # a, NEW l \in auctionLots[b]
        PROVE  /\ members'[subject'[l]] = members[subject[l]]
               /\ members[subject[l]] \cap ItemsOf(U) = {}
    <3>1. auctionStatus[b] # "settled"
      BY <2>2 DEF AuctionInv, CustodyIsBetween
    <3> QED BY <1>7, <2>2, <3>1 DEF StaysUp
  <2>3. \A i \in atHouse' :
            \/ \E b \in Auction, l \in Listing :
                  consignedOn'[b] /\ l \in auctionLots[b] /\ i \in members'[subject'[l]]
            \/ \E b \in Auction, l \in Listing, o \in Order :
                  l \in auctionLots[b] /\ result'[l] = "sold" /\ i \in share'[o][l]
    <3> SUFFICES ASSUME NEW i \in atHouse'
                 PROVE  \/ \E b \in Auction, l \in Listing :
                              consignedOn'[b] /\ l \in auctionLots[b]
                              /\ i \in members'[subject'[l]]
                        \/ \E b \in Auction, l \in Listing, o \in Order :
                              l \in auctionLots[b] /\ result'[l] = "sold"
                              /\ i \in share'[o][l]
      OBVIOUS
    <3>1. i \in atHouse
      BY <1>2
    <3>2. ASSUME NEW b \in Auction, NEW l \in Listing, NEW o \in Order,
                 l \in auctionLots[b], result[l] = "sold", i \in share[o][l]
          PROVE  result'[l] = "sold" /\ i \in share'[o][l]
      BY <1>8, <3>2 DEF AuctionInv, ResultsAreOfEnded, Final
    <3>3. ASSUME NEW b \in Auction, NEW l \in Listing, b # a,
                 consignedOn[b], l \in auctionLots[b], i \in members[subject[l]]
          PROVE  consignedOn'[b] /\ i \in members'[subject'[l]]
      BY <1>3, <2>2, <3>3
    <3>4. ASSUME NEW l \in Listing,
                 consignedOn[a], l \in auctionLots[a], i \in members[subject[l]]
          PROVE  \E o \in Order : result'[l] = "sold" /\ i \in share'[o][l]
      <4>1. l \in S \cup U /\ i \in OfferedItems(l)
        BY <1>4, <1>6, <3>4
      <4>2. i \notin ItemsOf(U)
        BY <1>2, <3>4
      <4>3. l \in S
        BY <4>1, <4>2 DEF ItemsOf
      <4>4. result'[l] = "sold"
        BY <1>4, <1>6, <4>3
      <4> QED BY <1>9, <4>1, <4>3, <4>4
    <3> QED BY <2>1, <3>1, <3>2, <3>3, <3>4 DEF Custody
  <2>4. ASSUME NEW b \in Auction, NEW l \in Listing, consignedOn'[b], l \in auctionLots[b]
        PROVE  members'[subject'[l]] \subseteq atHouse'
    <3>1. b # a /\ consignedOn[b]
      BY <1>3, <2>4
    <3>2. members[subject[l]] \subseteq atHouse
      BY <2>1, <2>4, <3>1 DEF Custody
    <3>3. atHouse \ ItemsOf(U) \subseteq atHouse'
      BY <1>2
    <3> QED BY <2>2, <2>4, <3>1, <3>2, <3>3
  <2> QED BY <1>2, <2>3, <2>4 DEF Custody
<1>17. NoCoinStranded'
  BY <1>12, <1>13, <1>16, CustodyMeans, PTL
<1> QED BY <1>11, <1>12, <1>13, <1>14, <1>15, <1>17 DEF AuctionInv

-----------------------------------------------------------------------------
(* The invariant.                                                          *)

\* What every request keeps, of the shop and of its auctions together.
AllAgree ==
    AuctionTypeOK /\ OfferInv /\ OrderInv /\ ForSaleIsFiledListed /\ AuctionInv

LEMMA AuctionStart ==
    ASSUME AuctionInit
    PROVE  AllAgree
<1>1. TypeOK /\ OfferInv /\ OrderInv /\ ForSaleIsFiledListed
  BY TypeInit, OfferInit, OrderInit, FiledInit DEF AuctionInit
<1>2. AuctionTypeOK
  BY <1>1 DEF AuctionInit, AuctionTypeOK, AuctionStatus, Outside, Venue
<1>3. \A a \in Auction : /\ auctionLots[a] = {} /\ ~consignedOn[a]
                         /\ auctionStatus[a] = "absent"
  BY DEF AuctionInit
<1>4. LotsAreFinite
  BY <1>3, FS_EmptySet DEF LotsAreFinite
<1>5. LotsApart /\ LotsFollowAuction /\ NoLotsOutside /\ CustodyIsBetween
      /\ SettledHasOrders
  BY <1>3 DEF LotsApart, LotsFollowAuction, NoLotsOutside, CustodyIsBetween,
              SettledHasOrders
<1>6. ResultsAreOfEnded /\ NoCoinStranded
  BY <1>3 DEF AuctionInit, ResultsAreOfEnded, NoCoinStranded
<1> QED BY <1>1, <1>2, <1>4, <1>5, <1>6 DEF AllAgree, AuctionInv

LEMMA AuctionInvStep ==
    ASSUME AuctionTypeOK, OfferInv, OrderInv, AuctionInv, [AuctionNext]_auctionShopVars,
           AuctionTypeOK'
    PROVE  AuctionInv'
<1>1. CASE UNCHANGED auctionShopVars
  <2>1. UNCHANGED <<auctionStatus, auctionVenue, consignedOn, auctionLots, result, atHouse,
                    listingStatus, venue, subject, members, share>>
    BY <1>1 DEF auctionShopVars, auctionVars, vars, listingVars, lotVars, orderVars
  <2>2. /\ \A l \in Listing : Up(l) /\ InAuction(l) => StaysUp(l)
        /\ \A l \in Listing : listingStatus[l] = "ended" => Final(l)
    BY <2>1 DEF Up, StaysUp, Final
  <2> QED BY <2>1, <2>2, SparingKeeps
<1>2. CASE AuctionNext
  <2>1. OneLotPerItem
    BY DEF OfferInv
  <2> QED BY <1>2, <2>1, AuctionKinds, TurnKeeps, AddingKeeps, RemovingKeeps,
             SettlingKeepsAuctions, ShopKeepsAuctions
<1> QED BY <1>1, <1>2

LEMMA AllAgreeStep ==
    ASSUME AllAgree, [AuctionNext]_auctionShopVars
    PROVE  AllAgree'
<1>1. AuctionTypeOK'
  BY AuctionTypeStep DEF AllAgree, OfferInv
<1>2. OfferInv' /\ OrderInv' /\ ForSaleIsFiledListed'
  BY ShopInvStep DEF AllAgree
<1>3. AuctionInv'
  BY <1>1, AuctionInvStep DEF AllAgree
<1> QED BY <1>1, <1>2, <1>3 DEF AllAgree

\* The shop keeps its own invariants under the auctions, and the auctions theirs
\* (auctions.py, every handler, over offering_writes.py and sales_writes.py).
THEOREM AuctionsAgree == AuctionSpec => []AllAgree
<1>1. AuctionInit => AllAgree
  BY AuctionStart
<1>2. AllAgree /\ [AuctionNext]_auctionShopVars => AllAgree'
  BY AllAgreeStep
<1> QED BY <1>1, <1>2, PTL DEF AuctionSpec

-----------------------------------------------------------------------------
(* What the invariant promises.                                            *)

\* The one unit of a lot that is up is in stock.
LEMMA LotIsInStock ==
    ASSUME AllAgree, NEW a \in Auction, auctionStatus[a] # "settled",
           NEW l \in auctionLots[a]
    PROVE  /\ l \in Listing /\ listingStatus[l] = "active" /\ Live(l)
           /\ lotStatus[subject[l]] = "offered" /\ quantity[l] = 1
<1>1. /\ l \in Listing /\ Up(l) /\ \A o \in Order : share[o][l] = {}
  BY LotIsUp DEF AllAgree
<1>2. Live(l) /\ listingStatus[l] = "active" /\ subject[l] \in Lot
  BY <1>1 DEF Up, Live, OnOffer
<1>3. lotStatus[subject[l]] = "offered"
  BY <1>1, <1>2 DEF AllAgree, OfferInv, LotListingHoldsMembers
<1>4. quantity[l] = 1
  BY <1>1, <1>2 DEF AllAgree, OrderInv, UnitInOnePlace
<1> QED BY <1>1, <1>2, <1>3, <1>4

\* Until its auction is settled a lot is an active offer of an offered sales lot
\* on the auction's platform, with its unit in stock: no request of the shop or
\* of another auction ends it (auctions.py, add_lot, consign and settle;
\* auction_holding.py).
THEOREM LotsAreOnOfferHolds == AuctionSpec => []LotsAreOnOffer
<1>1. AllAgree => LotsAreOnOffer
  BY LotIsInStock DEF AllAgree, AuctionInv, LotsFollowAuction, LotsAreOnOffer
<1> QED BY <1>1, AuctionsAgree, PTL

\* A coin at the house is in a lot whose coins are still out or was sold by one,
\* and every coin of every such lot is there (auctions.py, consign, remove_lot,
\* cancel and settle).
THEOREM NoCoinStrandedHolds == AuctionSpec => []NoCoinStranded
<1>1. AllAgree => NoCoinStranded
  BY DEF AllAgree, AuctionInv
<1> QED BY <1>1, AuctionsAgree, PTL

\* A settled auction is settled whole: each lot has its result and has ended, a
\* sold one on exactly one order, any other on none (auctions.py, settle).
THEOREM SettledWholeHolds == AuctionSpec => []SettledWhole
<1>1. AllAgree => SettledWhole
  <2> SUFFICES ASSUME AllAgree, NEW a \in Auction, NEW l \in Listing,
                      auctionStatus[a] = "settled", l \in auctionLots[a]
               PROVE  /\ listingStatus[l] = "ended"
                      /\ result[l] # "none"
                      /\ Cardinality({o \in Order : l \in Lines(o)}) =
                            IF result[l] = "sold" THEN 1 ELSE 0
    BY DEF SettledWhole
  <2> DEFINE on == {o \in Order : l \in Lines(o)}
  <2>1. on = {o \in Order : share[o][l] # {}}
    BY DEF Lines
  <2>2. listingStatus[l] = "ended" /\ result[l] # "none"
    BY DEF AllAgree, AuctionInv, LotsFollowAuction, SettledHasOrders
  <2>3. CASE result[l] = "sold"
    <3>1. PICK o \in Order : share[o][l] # {} /\ \A p \in Order : share[p][l] # {} => p = o
      BY <2>3 DEF AllAgree, AuctionInv, SettledHasOrders
    <3>2. on = {o}
      BY <2>1, <3>1
    <3> QED BY <2>2, <2>3, <3>2, FS_Singleton
  <2>4. CASE result[l] # "sold"
    <3>1. on = {}
      BY <2>1, <2>4 DEF AllAgree, AuctionInv, SettledHasOrders
    <3> QED BY <2>2, <2>4, <3>1, FS_EmptySet
  <2> QED BY <2>3, <2>4
<1> QED BY <1>1, AuctionsAgree, PTL

\* Only a settlement settles.
LEMMA OnlySettlingSettles ==
    ASSUME AllAgree, [AuctionNext]_auctionShopVars, NEW a \in Auction,
           auctionStatus[a] # "settled", auctionStatus'[a] = "settled"
    PROVE  \E results, buyers, orderOf : Settles(a, results, buyers, orderOf)
<1>1. AuctionTypeOK /\ OneLotPerItem
  BY DEF AllAgree, OfferInv
<1>2. auctionStatus' # auctionStatus
  OBVIOUS
<1>3. AuctionNext /\ ~ShopRequest
  BY <1>2, ShopRequestIsNext DEF auctionShopVars, auctionVars
<1>4. ASSUME NEW b \in Auction, Turns(b)
      PROVE  FALSE
  BY <1>1, <1>4 DEF Turns, CreateAuction, Schedule, Consign, Close, AuctionTypeOK
<1>5. ASSUME NEW b \in Auction, NEW l, NEW k, NEW S, Adds(b, l, k, S)
      PROVE  FALSE
  BY <1>2, <1>5 DEF Adds
<1>6. ASSUME NEW b \in Auction, NEW E, Removes(b, E)
      PROVE  FALSE
  BY <1>1, <1>6 DEF Removes, AuctionTypeOK
<1>7. ASSUME NEW b \in Auction, NEW results, NEW buyers, NEW orderOf,
             Settles(b, results, buyers, orderOf)
      PROVE  b = a
  <2>1. auctionStatus' = [auctionStatus EXCEPT ![b] = "settled"]
    BY <1>7 DEF Settles, Settle
  <2> QED BY <1>1, <2>1 DEF AuctionTypeOK
<1> QED BY <1>1, <1>3, <1>4, <1>5, <1>6, <1>7, AuctionKinds

\* A settlement files every coin of every lot by the lot's result.
LEMMA SettlementFiles ==
    ASSUME AllAgree, NEW a \in Auction, NEW results, NEW buyers, NEW orderOf,
           Settles(a, results, buyers, orderOf),
           NEW l \in auctionLots[a], NEW i \in Item, i \in OfferedItems(l)
    PROVE  IF result'[l] = "sold" THEN disposition'[i] = "sold"
           ELSE disposition'[i] = "listed" <=> OffersHolding({i})' # {}
<1> DEFINE S == {m \in auctionLots[a] : results[m] = "sold"}
           U == auctionLots[a] \ S
<1>1. PICK bought : Sells(S, U, bought, auctionVenue[a])
  BY SettlementSells, ZenonT(40) DEF AllAgree
<1>2. /\ auctionStatus[a] = "closed" /\ TypeOK /\ OfferInv
      /\ result' = [m \in Listing |-> IF m \in auctionLots[a] THEN results[m] ELSE result[m]]
  BY SettlementSells DEF AllAgree, AuctionTypeOK
<1>3. \A m \in auctionLots[a] :
          /\ m \in Listing /\ listingStatus[m] = "active" /\ Live(m) /\ quantity[m] = 1
  BY <1>2, LotIsInStock
<1>4. result'[l] = results[l]
  BY <1>2, <1>3
<1>5. CASE results[l] = "sold"
  <2>1. i \in ItemsOf(S)
    BY <1>5 DEF ItemsOf
  <2> HIDE DEF S, U
  <2>2. disposition'[i] = "sold"
    BY <1>1, <1>2, <2>1, SettlingFiles
  <2> QED BY <1>4, <1>5, <2>2
<1>6. CASE results[l] # "sold"
  <2>1. l \in U /\ \A m \in S : m # l /\ m \in auctionLots[a]
    BY <1>6
  <2> HIDE DEF S, U
  <2>2. i \notin ItemsOf(S)
    <3>1. \A m \in S : OfferedItems(l) \cap OfferedItems(m) = {}
      BY <1>2, <1>3, <2>1, ActiveApart
    <3> QED BY <3>1 DEF ItemsOf
  <2>3. disposition[i] = "listed"
    <3>1. quantity[l] > 0 /\ Live(l) /\ l \in Listing
      BY <1>3
    <3> QED BY <3>1 DEF AllAgree, ForSaleIsFiledListed
  <2>4. /\ StillOffered(i, listingStatus', claim') => disposition'[i] = disposition[i]
        /\ ~StillOffered(i, listingStatus', claim') => disposition'[i] # "listed"
    BY <1>1, <1>2, <2>1, <2>2, SettlingFiles
  <2>5. subject' = subject
    BY <1>1 DEF Sells
  <2>6. StillOffered(i, listingStatus', claim') <=> OffersHolding({i})' # {}
    BY <2>5 DEF StillOffered, OffersHolding, Live, Names
  <2> QED BY <1>4, <1>6, <2>3, <2>4, <2>6
<1> QED BY <1>5, <1>6

\* Nothing more happens to an auction that is over.
LEMMA OverStays ==
    ASSUME AllAgree, [AuctionNext]_auctionShopVars, NEW a \in Auction,
           auctionStatus[a] \in Over
    PROVE  /\ auctionStatus'[a] = auctionStatus[a]
           /\ auctionLots'[a] = auctionLots[a]
           /\ \A l \in auctionLots[a] : result'[l] = result[l]
<1>1. AuctionTypeOK /\ OneLotPerItem /\ AuctionInv
  BY DEF AllAgree, OfferInv
<1>2. CASE UNCHANGED auctionShopVars \/ ShopRequest
  BY <1>2, ShopRequestIsNext DEF auctionShopVars, auctionVars
<1>3. ASSUME NEW b \in Auction, Turns(b)
      PROVE  /\ auctionStatus'[a] = auctionStatus[a]
             /\ UNCHANGED <<auctionLots, result>>
  BY <1>1, <1>3 DEF Turns, CreateAuction, Schedule, Consign, Close, AuctionTypeOK, Over
<1>4. ASSUME NEW b \in Auction, NEW m, NEW k, NEW S, Adds(b, m, k, S)
      PROVE  /\ UNCHANGED <<auctionStatus, result>>
             /\ auctionLots'[a] = auctionLots[a]
  BY <1>1, <1>4 DEF Adds, AuctionTypeOK, Over
<1>5. ASSUME NEW b \in Auction, NEW E, Removes(b, E)
      PROVE  /\ auctionStatus'[a] = auctionStatus[a] /\ UNCHANGED result
             /\ auctionLots'[a] = auctionLots[a]
  BY <1>1, <1>5 DEF Removes, AuctionTypeOK
<1>6. ASSUME NEW b \in Auction, NEW results, NEW buyers, NEW orderOf,
             Settles(b, results, buyers, orderOf)
      PROVE  /\ auctionStatus'[a] = auctionStatus[a]
             /\ UNCHANGED auctionLots
             /\ \A l \in auctionLots[a] : result'[l] = result[l]
  <2>1. /\ auctionStatus[b] = "closed"
        /\ auctionStatus' = [auctionStatus EXCEPT ![b] = "settled"]
        /\ result' = [l \in Listing |-> IF l \in auctionLots[b] THEN results[l]
                                        ELSE result[l]]
        /\ UNCHANGED auctionLots
    BY <1>6 DEF Settles, Settle
  <2>2. b # a
    BY <2>1 DEF Over
  <2>3. \A l \in auctionLots[a] : l \in Listing /\ l \notin auctionLots[b]
    BY <1>1, <2>2 DEF AuctionTypeOK, AuctionInv, LotsApart
  <2> QED BY <1>1, <2>1, <2>2, <2>3 DEF AuctionTypeOK
<1> QED BY <1>1, <1>2, <1>3, <1>4, <1>5, <1>6, AuctionKinds

\* A settlement files every coin by its lot's result and nothing changes an
\* auction that is over (auctions.py, settle, _record_sold_lots and _bring_home).
THEOREM SettlementIsFinalHolds == AuctionSpec => SettlementIsFinal
<1>1. AllAgree /\ [AuctionNext]_auctionShopVars =>
          [\A a \in Auction : auctionStatus[a] # "settled" /\ auctionStatus'[a] = "settled" =>
              \A l \in auctionLots[a], i \in Item : i \in OfferedItems(l) =>
                  IF result'[l] = "sold" THEN disposition'[i] = "sold"
                  ELSE disposition'[i] = "listed" <=> OffersHolding({i})' # {}]_auctionShopVars
  BY OnlySettlingSettles, SettlementFiles
<1>2. AllAgree /\ [AuctionNext]_auctionShopVars =>
          [\A a \in Auction : auctionStatus[a] \in Over =>
              /\ auctionStatus'[a] = auctionStatus[a]
              /\ auctionLots'[a] = auctionLots[a]
              /\ \A l \in auctionLots[a] : result'[l] = result[l]]_auctionShopVars
  BY OverStays
<1> QED BY <1>1, <1>2, AuctionsAgree, PTL
        DEF AuctionSpec, SettlementIsFinal, SettlementFilesItems, OverIsFinal
=============================================================================
