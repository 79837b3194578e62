----------------------------- MODULE StandingProofs -----------------------------
(***************************************************************************)
(* What is on sale is in hand and filed as listed, nothing is left filed   *)
(* as listed by the ending of its last offer, and the shop implements      *)
(* CoinPromise: each request is one step of the promise, or none.  Then    *)
(* the same of requests made at the same time: each commit is a request    *)
(* made alone, each takes its rows in order, and writes no row it has not  *)
(* locked.  Proved for every set of items, listings, lots, orders and      *)
(* transactions.                                                           *)
(***************************************************************************)
EXTENDS OrderProofs, SaleLocks, WellFoundedInduction

-----------------------------------------------------------------------------
(* What a request leaves on offer.                                         *)

\* Assembling a lot leaves every offer as it is.
LEMMA AssemblyLeavesOffers ==
    ASSUME TypeOK, OfferInv, LotRequest
    PROVE  /\ UNCHANGED <<itemVars, listingVars, orderVars>>
           /\ \A l \in Listing : Live(l) /\ subject[l] \in Lot =>
                 members'[subject[l]] = members[subject[l]]
<1>1. UNCHANGED <<itemVars, listingVars, orderVars>>
  BY DEF LotRequest, CreateLot, DeleteLot, AddMember, RemoveMember
<1>2. PICK k \in Lot : \/ CreateLot(k)
                       \/ DeleteLot(k)
                       \/ \E i \in Item : AddMember(k, i) \/ RemoveMember(k, i)
  BY DEF LotRequest
<1>3. lotStatus[k] # "offered" /\ \A j \in Lot : j # k => members'[j] = members[j]
  BY <1>2 DEF CreateLot, DeleteLot, AddMember, RemoveMember, Assembling, TypeOK
<1>4. \A l \in Listing : Live(l) /\ subject[l] \in Lot => lotStatus[subject[l]] = "offered"
  BY DEF OfferInv, LotListingHoldsMembers
<1> QED BY <1>1, <1>3, <1>4

\* What is on offer after an ending was on offer before it, was not ended, and
\* still offers whatever it names.
LEMMA EndingLeaves ==
    ASSUME NEW E \in SUBSET Listing, NEW sold \in BOOLEAN, NEW filed,
           EndOffers(E, sold, filed), UNCHANGED subject,
           NEW l \in Listing, listingStatus'[l] \in OnOffer
    PROVE  /\ Live(l) /\ l \notin E /\ (sold => l \notin PausedBy(E))
           /\ \A i \in Item : subject'[l] = i \/ claim'[l][i] \in HeldBy <=> Names(l, i)
           /\ \A i \in Item :
                 Names(l, i) => StillOffered(i, StatusAfter(E, sold), ClaimAfter(E, sold))
<1>1. listingStatus[l] \in OnOffer /\ l \notin Closing(E, sold)
  BY EndingNeverRevives
<1>2. \A i \in Item : subject'[l] = i \/ claim'[l][i] \in HeldBy <=> Names(l, i)
  BY EndingKeepsNames
<1>3. ASSUME NEW i \in Item, Names(l, i)
      PROVE  StillOffered(i, StatusAfter(E, sold), ClaimAfter(E, sold))
  <2>1. claim'[l][i] = ClaimAfter(E, sold)[l][i]
    BY EndingClaim
  <2>2. StatusAfter(E, sold)[l] \in OnOffer
    BY DEF EndOffers
  <2>3. subject[l] = i \/ ClaimAfter(E, sold)[l][i] \in HeldBy
    BY <1>2, <1>3, <2>1
  <2> QED BY <2>2, <2>3 DEF StillOffered
<1> QED BY <1>1, <1>2, <1>3 DEF Live, Closing

\* What an ending does not close stays on offer.
LEMMA EndingSpares ==
    ASSUME NEW E \in SUBSET Listing, NEW sold \in BOOLEAN, NEW filed,
           EndOffers(E, sold, filed), NEW l \in Listing, Live(l), l \notin Closing(E, sold)
    PROVE  listingStatus'[l] \in OnOffer
<1>1. /\ l \in Resuming(E, sold) => listingStatus'[l] = "active"
      /\ l \notin Resuming(E, sold) => listingStatus'[l] = listingStatus[l]
  BY EndingStatus
<1> QED BY <1>1 DEF Live, OnOffer

\* An offer takes no listing off offer, and changes what none of them names.
LEMMA OfferSpares ==
    ASSUME TypeOK, OfferInv, NEW l \in Listing, NEW subj \in Item \cup Lot,
           NEW S \in SUBSET Item, NEW v \in Venue, OfferRows(l, subj, S, v),
           subj \in Item => S = {subj},
           NEW m \in Listing
    PROVE  /\ m # l => /\ listingStatus'[m] \in OnOffer <=> Live(m)
                       /\ subject'[m] = subject[m]
           /\ m = l => ~Live(m)
           /\ \A i \in Item : subject'[m] = i \/ claim'[m][i] \in HeldBy <=>
                 IF m = l THEN i \in S ELSE Names(m, i)
<1>1. CASE m = l
  <2>1. ~Live(l)
    BY OfferWrites DEF Live, OnOffer
  <2>2. ASSUME NEW i \in Item
        PROVE  subject'[l] = i \/ claim'[l][i] \in HeldBy <=> i \in S
    <3>1. Names(l, i)' <=> i \in S
      BY OfferNames
    <3> QED BY <3>1 DEF Names
  <2> QED BY <1>1, <2>1, <2>2
<1>2. CASE m # l
  <2>1. /\ subject'[m] = subject[m]
        /\ listingStatus'[m] = IF m \in OffersHolding(S) THEN "paused" ELSE listingStatus[m]
    BY <1>2, OfferWritesOther
  <2>2. listingStatus'[m] \in OnOffer <=> Live(m)
    BY <2>1 DEF OffersHolding, Live, OnOffer
  <2>3. ASSUME NEW i \in Item
        PROVE  subject'[m] = i \/ claim'[m][i] \in HeldBy <=> Names(m, i)
    <3>1. Names(m, i)' <=> Names(m, i)
      BY <1>2, OfferNames
    <3> QED BY <3>1 DEF Names
  <2> QED BY <1>2, <2>1, <2>2, <2>3
<1> QED BY <1>1, <1>2

\* Ending an ended listing again changes only what items are filed as, and
\* files home none that is on offer.
LEMMA EndingAgainSpares ==
    ASSUME TypeOK, OfferInv, NEW l \in Listing, EndListingAgain(l)
    PROVE  /\ UNCHANGED <<itemStatus, gone, listingStatus, subject, quantity, claim, members>>
           /\ \A m \in Listing, i \in Item :
                 Live(m) /\ Names(m, i) => disposition'[i] = disposition[i]
<1>1. UNCHANGED offerVars
  BY EndingAgainKeeps DEF OfferInv
<1>2. UNCHANGED <<itemStatus, gone, listingStatus, subject, quantity, claim, members>>
  BY <1>1 DEF EndListingAgain, offerVars, lotVars
<1> DEFINE home == ComingHome({l}, FALSE, disposition)
<1>3. ASSUME NEW m \in Listing, NEW i \in Item, Live(m), Names(m, i)
      PROVE  i \notin home
  <2>1. m # l
    BY <1>3 DEF Live, OnOffer, EndListingAgain
  <2>2. StatusAfter({l}, FALSE)[m] \in OnOffer
    BY <1>3, <2>1 DEF StatusAfter, Closing, Resuming, Live, OnOffer
  <2>3. subject[m] = i \/ ClaimAfter({l}, FALSE)[m][i] \in HeldBy
    BY <1>3, <2>1 DEF ClaimAfter, Closing, Resuming, Moved, HeldBy, Names
  <2> QED BY <2>2, <2>3 DEF ComingHome, StillOffered
<1>4. \A i \in Item : i \notin home => disposition'[i] = disposition[i]
  BY DEF EndListingAgain
<1> QED BY <1>2, <1>3, <1>4

-----------------------------------------------------------------------------
(* In hand.                                                                *)

LEMMA InHandStep ==
    ASSUME TypeOK, OfferInv, OrderInv, OfferedIsInHand, [Next]_vars
    PROVE  OfferedIsInHand'
<1> SUFFICES ASSUME NEW l \in Listing, NEW i \in Item, listingStatus'[l] \in OnOffer,
                    subject'[l] = i \/ claim'[l][i] \in HeldBy
             PROVE  gone'[i] = "no" /\ itemStatus'[i] = "received"
  BY DEF OfferedIsInHand, Live, Names, NotOurs
<1>1. Live(l) /\ Names(l, i) => gone[i] = "no" /\ itemStatus[i] = "received"
  BY DEF OfferedIsInHand, NotOurs
<1>2. CASE LotRequest
  BY <1>1, <1>2, AssemblyLeavesOffers DEF itemVars, listingVars, Live, Names
<1>3. ASSUME NEW m \in Listing, NEW subj \in Item \cup Lot, NEW S \in SUBSET Item,
             NEW v \in Venue, Offers(m, subj, S, v)
      PROVE  gone'[i] = "no" /\ itemStatus'[i] = "received"
  <2>1. Offer(m, subj, S, v) /\ (subj \in Item => S = {subj})
    BY <1>3 DEF Offers
  <2>2. UNCHANGED <<itemStatus, gone>> /\ \A j \in S : Offerable(j)
    BY <2>1 DEF Offer, OfferRows
  <2>3. IF l = m THEN i \in S ELSE Live(l) /\ Names(l, i)
    BY <2>1, OfferSpares DEF Offer
  <2> QED BY <1>1, <2>2, <2>3 DEF Offerable, NotOurs
<1>4. ASSUME NEW E \in SUBSET Listing, NEW filed, Withdraws(E, filed)
      PROVE  gone'[i] = "no" /\ itemStatus'[i] = "received"
  <2>1. EndOffers(E, FALSE, filed) /\ UNCHANGED subject
    BY <1>4 DEF Withdraws
  <2>2. Live(l) /\ l \notin E /\ Names(l, i)
    BY <2>1, EndingLeaves
  <2> QED BY <1>1, <1>4, <2>2 DEF Withdraws
<1>5. ASSUME NEW m \in Listing, EndListingAgain(m)
      PROVE  gone'[i] = "no" /\ itemStatus'[i] = "received"
  BY <1>1, <1>5, EndingAgainSpares DEF Live, Names
<1>6. ASSUME NEW o \in Order, NEW T, NEW G, NEW E, Moves(o, T, G, E)
      PROVE  gone'[i] = "no" /\ itemStatus'[i] = "received"
  <2>1. /\ E \in SUBSET Listing /\ EndOffers(E, TRUE, Filed(T, G))
        /\ UNCHANGED <<itemStatus, gone, subject>>
    BY <1>6 DEF Moves, MoveLines
  <2>2. Live(l) /\ Names(l, i)
    BY <2>1, EndingLeaves
  <2> QED BY <1>1, <2>1, <2>2
<1>7. ASSUME NEW o \in Order, NEW to, SetOrderStatus(o, to)
      PROVE  gone'[i] = "no" /\ itemStatus'[i] = "received"
  BY <1>1, <1>7 DEF SetOrderStatus, ApplyStatus, Live, Names
<1>8. CASE Rests
  BY <1>1, <1>8 DEF Rests, listingVars, Live, Names
<1> QED BY <1>2, <1>3, <1>4, <1>5, <1>6, <1>7, <1>8, StepKinds

LEMMA InHandInit ==
    ASSUME Init
    PROVE  OfferedIsInHand
<1> SUFFICES ASSUME NEW l \in Listing, NEW i \in Item, Live(l), Names(l, i)
             PROVE  ~NotOurs(i)
  BY DEF OfferedIsInHand
<1>1. OldListing[l] = i
  BY DEF Init, Names, HeldBy
<1>2. IsOld(l)
  BY <1>1, SubjectsApart DEF IsOld
<1> QED BY <1>1, <1>2 DEF Init, NotOurs

\* Nothing is on sale that is not in hand, whatever is received, lost, edited,
\* split or deleted meanwhile (inventory.py, splitting.py, offering_writes.py).
THEOREM OfferedIsInHandHolds == Spec => []OfferedIsInHand
<1>1. Init => OfferedIsInHand
  BY InHandInit
<1>2. TypeOK /\ OfferInv /\ OrderInv /\ OfferedIsInHand /\ [Next]_vars => OfferedIsInHand'
  BY InHandStep
<1> QED BY <1>1, <1>2, TypeCorrect, OffersAgree, OrdersAgree, PTL DEF Spec

-----------------------------------------------------------------------------
(* Filed as listed.                                                        *)

\* A listing given a unit back by its order takes it: it is up, and sold out.
LEMMA GivenIsWaiting ==
    ASSUME TypeOK, OrderInv, NEW o \in Order, Holds(o), ~stockBack[o],
           NEW l \in Listing, share[o][l] # {}, listingStatus[l] # "ended"
    PROVE  /\ listingStatus[l] = "active" /\ quantity[l] = 0
           /\ OfferedItems(l) = share[o][l]
<1>1. listingStatus[l] # "unused" /\ subject[l] \in Item /\ share[o][l] = {subject[l]}
  BY DEF OrderInv, LinesAreSold
<1>2. listingStatus[l] # "paused"
  BY DEF OrderInv, HeldStockIsNotPaused, OrdersHoldingStock, Lines, Holds
<1>3. listingStatus[l] = "active"
  BY <1>1, <1>2 DEF TypeOK, ListingStatus
<1>4. quantity[l] = 0
  BY <1>1 DEF OrderInv, UnitInOnePlace
<1> QED BY <1>1, <1>3, <1>4, WhatIsOffered

\* What a request files the coins of a listing as that takes back stock, or that
\* keeps its own.
LEMMA FiledAsBefore ==
    ASSUME NEW T, NEW G, NEW m \in Listing, NEW i \in Item, i \in OfferedItems(m),
           i \notin ItemsOf(SoldOutBy(T)),
           m \in BackOnSale(G) \/ disposition[i] = "listed"
    PROVE  Filed(T, G)[i] = "listed"
<1>1. m \in BackOnSale(G) => i \in ItemsOf(BackOnSale(G))
  BY DEF ItemsOf
<1> QED BY <1>1 DEF Filed

\* What is sold is filed as sold.
LEMMA TakenIsFiledSold ==
    ASSUME TypeOK, NEW o \in Order, NEW T, NEW G, NEW E, Moves(o, T, G, E), OrderInv,
           NEW t \in T, NEW i \in Item, i \in OfferedItems(t)
    PROVE  disposition'[i] = "sold"
<1>1. EndOffers(E, TRUE, Filed(T, G)) /\ t \in Listing
  BY DEF Moves, MoveLines
<1>2. listingStatus[t] = "active" /\ quantity[t] >= 1
  BY DEF Moves
<1>3. quantity[t] = 1
  BY <1>1, <1>2 DEF OrderInv, UnitInOnePlace
<1>4. i \in ItemsOf(SoldOutBy(T))
  BY <1>3 DEF ItemsOf, SoldOutBy
<1>5. Filed(T, G)[i] = "sold"
  BY <1>4 DEF Filed
<1> QED BY <1>1, <1>5 DEF EndOffers, ComingHome

LEMMA MovesKeepFiled ==
    ASSUME TypeOK, OfferInv, OrderInv, ForSaleIsFiledListed,
           NEW o \in Order, NEW T, NEW G, NEW E, Moves(o, T, G, E),
           NEW l \in Listing, listingStatus'[l] \in OnOffer, quantity'[l] > 0,
           NEW i \in Item, i \in OfferedItems(l)
    PROVE  disposition'[i] = "listed"
<1>1. /\ T \in SUBSET Listing /\ G \in SUBSET Listing /\ E \in SUBSET T
      /\ EndOffers(E, TRUE, Filed(T, G))
      /\ \A t \in T : listingStatus[t] = "active"
      /\ \A t \in T \ E : subject[t] \in Item /\ venue[t] = "store"
  BY DEF Moves, MoveLines
<1>2. /\ quantity'[l] = IF l \in T THEN quantity[l] - 1
                        ELSE IF l \in G THEN quantity[l] + 1 ELSE quantity[l]
      /\ Live(l)
  BY MovesWrites
<1>3. l \notin T
  <2> SUFFICES ASSUME l \in T
               PROVE  FALSE
    OBVIOUS
  <2>1. quantity[l] = 1
    BY <1>1 DEF Moves, OrderInv, UnitInOnePlace
  <2> QED BY <1>2, <2>1
<1>4. i \notin ItemsOf(SoldOutBy(T))
  <2> SUFFICES ASSUME NEW t \in T, i \in OfferedItems(t)
               PROVE  FALSE
    BY DEF ItemsOf, SoldOutBy
  <2> QED BY <1>1, <1>3, SaleClosesCoins
<1>5. l \in BackOnSale(G) \/ disposition[i] = "listed"
  <2>1. CASE l \in G
    <3>1. share[o][l] # {} /\ listingStatus[l] # "ended" /\ Holds(o) /\ ~stockBack[o]
      BY <2>1, MovesOrder DEF Moves
    <3>2. listingStatus[l] = "active" /\ quantity[l] = 0
      BY <3>1, GivenIsWaiting
    <3> QED BY <2>1, <3>2 DEF BackOnSale
  <2>2. CASE l \notin G
    <3>1. quantity[l] > 0
      BY <1>2, <1>3, <2>2
    <3> QED BY <1>2, <3>1 DEF ForSaleIsFiledListed
  <2> QED BY <2>1, <2>2
<1>6. Filed(T, G)[i] = "listed"
  BY <1>4, <1>5, FiledAsBefore
<1> QED BY <1>1, <1>6 DEF EndOffers, ComingHome

LEMMA StatusKeepsFiled ==
    ASSUME TypeOK, OfferInv, OrderInv, ForSaleIsFiledListed,
           NEW o \in Order, NEW to \in OrderStatus, SetOrderStatus(o, to),
           NEW l \in Listing, Live(l), quantity'[l] > 0,
           NEW i \in Item, i \in OfferedItems(l)
    PROVE  disposition'[i] = "listed"
<1> DEFINE given == IF ReturnsStock(o, to) THEN Lines(o) ELSE {}
<1>1. /\ quantity'[l] = IF l \in given THEN quantity[l] + 1 ELSE quantity[l]
      /\ disposition' = Filed({}, given)
  BY DEF SetOrderStatus, ApplyStatus, Restock
<1>2. l \in given => /\ share[o][l] # {} /\ listingStatus[l] # "ended"
                     /\ Holds(o) /\ ~stockBack[o]
  BY StatusOrder DEF Lines
<1> HIDE DEF given
<1>3. i \notin ItemsOf(SoldOutBy({}))
  BY DEF ItemsOf, SoldOutBy
<1>4. CASE l \in given
  <2>1. listingStatus[l] = "active" /\ quantity[l] = 0
    BY <1>2, <1>4, GivenIsWaiting
  <2>2. l \in BackOnSale(given)
    BY <1>4, <2>1 DEF BackOnSale
  <2> QED BY <1>1, <1>3, <2>2, FiledAsBefore
<1>5. CASE l \notin given
  <2>1. disposition[i] = "listed"
    BY <1>1, <1>5 DEF ForSaleIsFiledListed
  <2> QED BY <1>1, <1>3, <2>1, FiledAsBefore
<1> QED BY <1>4, <1>5

\* An offer files what it offers as listed.
LEMMA OfferKeepsFiled ==
    ASSUME TypeOK, OfferInv, ForSaleIsFiledListed, NEW m \in Listing,
           NEW subj \in Item \cup Lot, NEW S \in SUBSET Item, NEW v \in Venue,
           OfferRows(m, subj, S, v), LotTaken(subj, S)
    PROVE  ForSaleIsFiledListed'
<1> SUFFICES ASSUME NEW l \in Listing, listingStatus'[l] \in OnOffer, quantity'[l] > 0,
                    NEW i \in OfferedItems(l)'
             PROVE  disposition'[i] = "listed"
  BY DEF ForSaleIsFiledListed, Live
<1>1. /\ \A j \in Item : disposition'[j] = IF j \in S THEN "listed" ELSE disposition[j]
      /\ quantity' = [quantity EXCEPT ![m] = 1]
      /\ subject' = [subject EXCEPT ![m] = subj]
  BY DEF OfferRows
<1>2. CASE l = m
  <2>1. OfferedItems(l)' = S
    BY <1>1, <1>2, SubjectsApart DEF OfferedItems, LotTaken, TypeOK
  <2> QED BY <1>1, <2>1
<1>3. CASE l # m
  <2>1. Live(l) /\ subject'[l] = subject[l] /\ quantity'[l] = quantity[l]
    <3>1. subj \in Item => S = {subj}
      BY DEF LotTaken
    <3>2. Live(l) /\ subject'[l] = subject[l]
      BY <1>3, <3>1, OfferSpares
    <3> QED BY <1>1, <1>3, <3>2 DEF TypeOK
  <2>2. subject[l] \in Lot => members'[subject[l]] = members[subject[l]]
    BY <2>1, SubjectsApart DEF OfferInv, LotListingHoldsMembers, LotTaken, lotVars, TypeOK
  <2>3. OfferedItems(l)' = OfferedItems(l)
    BY <2>1, <2>2, SubjectsApart DEF OfferedItems
  <2>4. i \in Item
    BY <2>3, OfferedItemsType
  <2>5. disposition[i] = "listed"
    BY <2>1, <2>3 DEF ForSaleIsFiledListed
  <2> QED BY <1>1, <2>4, <2>5
<1> QED BY <1>2, <1>3

\* An ending files as held only what nothing else offers.
LEMMA WithdrawalKeepsFiled ==
    ASSUME TypeOK, OfferInv, ForSaleIsFiledListed, NEW E \in SUBSET Listing, NEW filed,
           Withdraws(E, filed)
    PROVE  ForSaleIsFiledListed'
<1> SUFFICES ASSUME NEW l \in Listing, listingStatus'[l] \in OnOffer, quantity'[l] > 0,
                    NEW i \in OfferedItems(l)'
             PROVE  disposition'[i] = "listed"
  BY DEF ForSaleIsFiledListed, Live
<1>1. EndOffers(E, FALSE, filed) /\ UNCHANGED <<subject, quantity>>
  BY DEF Withdraws
<1>2. /\ Live(l) /\ l \notin E
      /\ \A j \in Item :
            Names(l, j) => StillOffered(j, StatusAfter(E, FALSE), ClaimAfter(E, FALSE))
  BY <1>1, EndingLeaves
<1>3. OfferedItems(l)' \subseteq OfferedItems(l)
  <2>1. \A k \in Lot : members'[k] \subseteq members[k]
    BY <1>1 DEF EndOffers
  <2> QED BY <1>1, <2>1, SubjectsApart DEF OfferedItems
<1>4. i \in Item /\ Names(l, i) /\ disposition[i] = "listed"
  <2>1. i \in OfferedItems(l) /\ i \in Item
    BY <1>3, OfferedItemsType
  <2>2. disposition[i] = "listed"
    BY <1>1, <1>2, <2>1 DEF ForSaleIsFiledListed
  <2> QED BY <1>2, <2>1, <2>2, OfferedIsNamed
<1>5. filed[i] = "listed"
  BY <1>2, <1>4 DEF Withdraws
<1>6. i \notin ComingHome(E, FALSE, filed)
  BY <1>2, <1>4 DEF ComingHome
<1> QED BY <1>1, <1>4, <1>5, <1>6 DEF EndOffers

LEMMA FiledStep ==
    ASSUME TypeOK, OfferInv, OrderInv, ForSaleIsFiledListed, [Next]_vars
    PROVE  ForSaleIsFiledListed'
<1> SUFFICES ASSUME NEW l \in Listing, listingStatus'[l] \in OnOffer, quantity'[l] > 0,
                    NEW i \in OfferedItems(l)'
             PROVE  disposition'[i] = "listed"
  BY DEF ForSaleIsFiledListed, Live
<1>1. ASSUME Live(l), quantity[l] > 0, NEW j \in OfferedItems(l)
      PROVE  disposition[j] = "listed"
  BY <1>1 DEF ForSaleIsFiledListed
<1>2. CASE LotRequest
  <2>1. /\ UNCHANGED <<listingStatus, subject, quantity, disposition>>
        /\ Live(l) /\ (subject[l] \in Lot => members'[subject[l]] = members[subject[l]])
    BY <1>2, AssemblyLeavesOffers DEF itemVars, listingVars, Live
  <2>2. OfferedItems(l)' = OfferedItems(l)
    BY <2>1, SubjectsApart DEF OfferedItems
  <2> QED BY <1>1, <2>1, <2>2
<1>3. ASSUME NEW m \in Listing, NEW subj \in Item \cup Lot, NEW S \in SUBSET Item,
             NEW v \in Venue, Offers(m, subj, S, v)
      PROVE  disposition'[i] = "listed"
  <2>1. OfferRows(m, subj, S, v) /\ LotTaken(subj, S)
    BY <1>3, OffersTake DEF OfferInv
  <2>2. ForSaleIsFiledListed'
    BY <2>1, OfferKeepsFiled
  <2> QED BY <2>2 DEF ForSaleIsFiledListed, Live
<1>4. ASSUME NEW E \in SUBSET Listing, NEW filed, Withdraws(E, filed)
      PROVE  disposition'[i] = "listed"
  <2>1. ForSaleIsFiledListed'
    BY <1>4, WithdrawalKeepsFiled
  <2> QED BY <2>1 DEF ForSaleIsFiledListed, Live
<1>5. ASSUME NEW m \in Listing, EndListingAgain(m)
      PROVE  disposition'[i] = "listed"
  <2>1. UNCHANGED <<listingStatus, subject, quantity, members>>
    BY <1>5, EndingAgainSpares
  <2>2. OfferedItems(l)' = OfferedItems(l) /\ Live(l)
    BY <2>1 DEF OfferedItems, Live
  <2>3. i \in Item /\ Names(l, i) /\ disposition[i] = "listed"
    BY <1>1, <2>1, <2>2, OfferedItemsType, OfferedIsNamed
  <2> QED BY <1>5, <2>2, <2>3, EndingAgainSpares
<1>6. ASSUME NEW o \in Order, NEW T, NEW G, NEW E, Moves(o, T, G, E)
      PROVE  disposition'[i] = "listed"
  <2>1. subject'[l] = subject[l] /\ \A k \in Lot : members'[k] \subseteq members[k]
    BY <1>6, MovesWrites
  <2>2. OfferedItems(l)' \subseteq OfferedItems(l)
    BY <2>1, SubjectsApart DEF OfferedItems
  <2>3. i \in OfferedItems(l) /\ i \in Item
    BY <2>2, OfferedItemsType
  <2> QED BY <1>6, <2>3, MovesKeepFiled
<1>7. ASSUME NEW o \in Order, NEW to \in OrderStatus, SetOrderStatus(o, to)
      PROVE  disposition'[i] = "listed"
  <2>1. UNCHANGED <<listingStatus, subject, members>>
    BY <1>7 DEF SetOrderStatus, ApplyStatus, lotVars
  <2>2. OfferedItems(l)' = OfferedItems(l) /\ Live(l)
    BY <2>1 DEF OfferedItems, Live
  <2>3. i \in Item
    BY <2>2, OfferedItemsType
  <2> QED BY <1>7, <2>2, <2>3, StatusKeepsFiled
<1>8. CASE Rests
  <2>1. UNCHANGED <<listingStatus, subject, quantity, members, disposition>>
    BY <1>8 DEF Rests, listingVars, lotVars
  <2>2. OfferedItems(l)' = OfferedItems(l) /\ Live(l)
    BY <2>1 DEF OfferedItems, Live
  <2> QED BY <1>1, <2>1, <2>2
<1> QED BY <1>2, <1>3, <1>4, <1>5, <1>6, <1>7, <1>8, StepKinds

LEMMA FiledInit ==
    ASSUME Init
    PROVE  ForSaleIsFiledListed
<1> SUFFICES ASSUME NEW l \in Listing, Live(l), NEW i \in OfferedItems(l)
             PROVE  disposition[i] = "listed"
  BY DEF ForSaleIsFiledListed
<1>1. OldListing[l] \in Item
  BY OldListingsApart DEF Init, Live, OnOffer, IsOld
<1>2. i = OldListing[l]
  BY <1>1, WhatIsOffered DEF Init
<1> QED BY <1>1, <1>2 DEF Init

\* A coin a shopper can buy is filed as listed: no ending, sale, cancellation,
\* refund or edit files one as held or sold that another listing still sells
\* (offering_writes.py, end_offer; order_writes.py, take_stock, return_stock).
THEOREM ForSaleIsFiledListedHolds == Spec => []ForSaleIsFiledListed
<1>1. Init => ForSaleIsFiledListed
  BY FiledInit
<1>2. /\ TypeOK /\ OfferInv /\ OrderInv /\ ForSaleIsFiledListed /\ [Next]_vars
      => ForSaleIsFiledListed'
  BY FiledStep
<1> QED BY <1>1, <1>2, TypeCorrect, OffersAgree, OrdersAgree, PTL DEF Spec

-----------------------------------------------------------------------------
(* Nothing left filed as listed.                                           *)

\* An ending without a sale asks, of every item it takes off offer, whether
\* something still offers it.
LEMMA WithdrawingAsks ==
    ASSUME NEW E \in SUBSET Listing, NEW filed, EndOffers(E, FALSE, filed),
           UNCHANGED subject, NEW i \in Item, NEW m \in E, Names(m, i),
           disposition'[i] = "listed"
    PROVE  \E l \in Listing :
              listingStatus'[l] \in OnOffer /\ (subject'[l] = i \/ claim'[l][i] \in HeldBy)
<1>1. i \in AffectedItems(E)
  BY DEF AffectedItems
<1>2. i \notin ComingHome(E, FALSE, filed) /\ filed[i] = "listed"
  BY DEF EndOffers
<1>3. StillOffered(i, StatusAfter(E, FALSE), ClaimAfter(E, FALSE))
  BY <1>1, <1>2 DEF ComingHome
<1>4. PICK l \in Listing : /\ StatusAfter(E, FALSE)[l] \in OnOffer
                           /\ subject[l] = i \/ ClaimAfter(E, FALSE)[l][i] \in HeldBy
  BY <1>3 DEF StillOffered
<1>5. listingStatus'[l] \in OnOffer
  BY <1>4 DEF EndOffers
<1>6. claim'[l][i] = ClaimAfter(E, FALSE)[l][i]
  BY <1>5, EndingClaim, ZenonT(40)
<1> QED BY <1>4, <1>5, <1>6

\* A sale that takes a coin's offer down files the coin as sold, the offer it
\* closes being the sale's own or the one set aside for it.
LEMMA SaleFilesWhatItCloses ==
    ASSUME TypeOK, OfferInv, OrderInv, NEW o \in Order, NEW T, NEW G, NEW E,
           Moves(o, T, G, E), NEW i \in Item, NEW m \in Listing, Live(m), Names(m, i),
           m \in Closing(E, TRUE)
    PROVE  disposition'[i] = "sold"
<1>1. E \in SUBSET T /\ T \in SUBSET Listing
  BY DEF Moves
<1>2. CASE m \in E
  BY <1>1, <1>2, OfferedIsNamed, TakenIsFiledSold
<1>3. CASE m \in PausedBy(E)
  <2>1. listingStatus[m] = "paused" /\ pausedBy[m] \in E
    BY <1>3 DEF PausedBy
  <2>2. subject[m] \in Item /\ Names(pausedBy[m], subject[m]) /\ Live(pausedBy[m])
    BY <2>1 DEF OfferInv, PausedIsWaiting, Live, OnOffer
  <2>3. subject[m] = i
    BY <2>2 DEF Names, OfferInv, ClaimsOwnItem
  <2>4. i \in OfferedItems(pausedBy[m]) /\ pausedBy[m] \in T
    BY <1>1, <2>1, <2>2, <2>3, OfferedIsNamed
  <2> QED BY <2>4, TakenIsFiledSold
<1> QED BY <1>2, <1>3 DEF Closing

LEMMA OrphanStep ==
    ASSUME TypeOK, OfferInv, OrderInv, [Next]_vars,
           NEW i \in Item, NEW m \in Listing, Live(m), Names(m, i),
           \A l \in Listing :
               ~(listingStatus'[l] \in OnOffer /\ (subject'[l] = i \/ claim'[l][i] \in HeldBy))
    PROVE  disposition'[i] # "listed"
<1>1. ASSUME UNCHANGED <<listingStatus, subject, claim>>
      PROVE  FALSE
  BY <1>1 DEF Live, Names
<1>2. CASE LotRequest
  BY <1>1, <1>2, AssemblyLeavesOffers DEF listingVars
<1>3. ASSUME NEW l \in Listing, NEW subj \in Item \cup Lot, NEW S \in SUBSET Item,
             NEW v \in Venue, Offers(l, subj, S, v)
      PROVE  FALSE
  <2>1. Offer(l, subj, S, v) /\ (subj \in Item => S = {subj})
    BY <1>3 DEF Offers
  <2>2. OfferRows(l, subj, S, v)
    BY <2>1 DEF Offer
  <2>3. m # l
    BY <2>1, <2>2, OfferSpares
  <2> QED BY <2>1, <2>2, <2>3, OfferSpares
<1>4. ASSUME NEW E \in SUBSET Listing, NEW filed, Withdraws(E, filed)
      PROVE  disposition'[i] # "listed"
  <2>1. EndOffers(E, FALSE, filed) /\ UNCHANGED subject
    BY <1>4 DEF Withdraws
  <2>2. CASE m \in E
    BY <2>1, <2>2, WithdrawingAsks
  <2>3. CASE m \notin E
    <3>1. listingStatus'[m] \in OnOffer
      BY <2>1, <2>3, EndingSpares DEF Closing
    <3> QED BY <2>1, <3>1, EndingKeepsNames
  <2> QED BY <2>2, <2>3
<1>5. ASSUME NEW l \in Listing, EndListingAgain(l)
      PROVE  FALSE
  BY <1>1, <1>5, EndingAgainSpares
<1>6. ASSUME NEW o \in Order, NEW T, NEW G, NEW E, Moves(o, T, G, E)
      PROVE  disposition'[i] # "listed"
  <2>1. E \in SUBSET Listing /\ EndOffers(E, TRUE, Filed(T, G)) /\ UNCHANGED subject
    BY <1>6 DEF Moves, MoveLines
  <2>2. CASE m \in Closing(E, TRUE)
    BY <1>6, <2>2, SaleFilesWhatItCloses
  <2>3. CASE m \notin Closing(E, TRUE)
    <3>1. listingStatus'[m] \in OnOffer
      BY <2>1, <2>3, EndingSpares
    <3> QED BY <2>1, <3>1, EndingKeepsNames
  <2> QED BY <2>2, <2>3
<1>7. ASSUME NEW o \in Order, NEW to \in OrderStatus, SetOrderStatus(o, to)
      PROVE  FALSE
  BY <1>1, <1>7 DEF SetOrderStatus, ApplyStatus
<1>8. CASE Rests
  BY <1>1, <1>8 DEF Rests, listingVars
<1> QED BY <1>2, <1>3, <1>4, <1>5, <1>6, <1>7, <1>8, StepKinds

\* No request takes the last offer of an item away and leaves it filed as
\* listed: an ending asks what else offers it, and a sale files what it closes
\* as sold (offering_writes.py, end_offer and _end; order_writes.py, take_stock).
THEOREM NoOrphanListedHolds == Spec => NoOrphanListed
<1>1. ASSUME TypeOK, OfferInv, OrderInv, [Next]_vars, NEW i \in Item,
             OffersHolding({i}) # {}, OffersHolding({i})' = {}
      PROVE  disposition'[i] # "listed"
  <2>1. PICK m \in Listing : Live(m) /\ Names(m, i)
    BY <1>1 DEF OffersHolding
  <2>2. \A l \in Listing :
           ~(listingStatus'[l] \in OnOffer /\ (subject'[l] = i \/ claim'[l][i] \in HeldBy))
    BY <1>1 DEF OffersHolding, Live, Names
  <2> QED BY <1>1, <2>1, <2>2, OrphanStep
<1>2. TypeOK /\ OfferInv /\ OrderInv /\ [Next]_vars =>
          [\A i \in Item :
               /\ OffersHolding({i}) # {}
               /\ OffersHolding({i})' = {}
               => disposition'[i] # "listed"]_vars
  BY <1>1
<1> QED BY <1>2, TypeCorrect, OffersAgree, OrdersAgree, PTL DEF Spec, NoOrphanListed

-----------------------------------------------------------------------------
(* The refinement mapping, as the coins of each place.                     *)

OnShelf == {i \in Item : ForSale(i)}
InOrder == [o \in Order |-> {i \in Item : Promised(i, o)}]

\* What Place says of a coin.
PlaceTells ==
    /\ Place = [i \in Item |-> Place[i]]
    /\ \A i \in Item :
          /\ Place[i] = "home" \/ Place[i] = "on sale" \/ \E o \in Order : Place[i] = o
          /\ Place[i] = "on sale" <=> i \in OnShelf
          /\ \A o \in Order : Place[i] = o <=> i \in InOrder[o]

\* A coin is promised to one order at most, and is then not for sale.
LEMMA PlaceIsWhereItIs == OrderInv => PlaceTells
<1> SUFFICES ASSUME OrderInv
             PROVE  PlaceTells
  OBVIOUS
<1>1. ASSUME NEW i \in Item, NEW o \in Order, Promised(i, o)
      PROVE  Place[i] = o /\ ~ForSale(i)
  <2>1. Holds(o) /\ \E l \in Listing : i \in share[o][l]
    BY <1>1 DEF Promised, Holds, OrderItems
  <2>2. \A p \in Order : Promised(i, p) => p = o
    BY <2>1 DEF OrderInv, PromisedOnce, Promised, Holds, OrderItems
  <2>3. ~ForSale(i)
    BY <2>1 DEF OrderInv, PromisedIsNotForSale, ForSale
  <2> QED BY <1>1, <2>2, <2>3 DEF Place
<1>2. ASSUME NEW i \in Item, \A o \in Order : ~Promised(i, o)
      PROVE  Place[i] = IF ForSale(i) THEN "on sale" ELSE "home"
  BY <1>2 DEF Place
<1>3. ASSUME NEW i \in Item
      PROVE  /\ Place[i] = "home" \/ Place[i] = "on sale" \/ \E o \in Order : Place[i] = o
             /\ Place[i] = "on sale" <=> ForSale(i)
             /\ \A o \in Order : Place[i] = o <=> Promised(i, o)
  BY <1>1, <1>2, PlacesApart
<1>4. Place = [i \in Item |-> Place[i]]
  BY DEF Place
<1> HIDE DEF Place
<1> QED BY <1>3, <1>4 DEF PlaceTells, OnShelf, InOrder

-----------------------------------------------------------------------------
(* The steps of the promise.                                               *)

LEMMA CoinStays ==
    ASSUME PlaceTells, PlaceTells', NEW i \in Item, i \in OnShelf' <=> i \in OnShelf,
           \A p \in Order : i \in InOrder'[p] <=> i \in InOrder[p]
    PROVE  Place'[i] = Place[i]
<1>1. CASE Place[i] = "home"
  <2>1. i \notin OnShelf /\ \A p \in Order : i \notin InOrder[p]
    BY <1>1, PlacesApart DEF PlaceTells
  <2> QED BY <1>1, <2>1 DEF PlaceTells
<1>2. CASE Place[i] = "on sale"
  BY <1>2 DEF PlaceTells
<1>3. ASSUME NEW o \in Order, Place[i] = o
      PROVE  Place'[i] = o
  BY <1>3 DEF PlaceTells
<1> QED BY <1>1, <1>2, <1>3 DEF PlaceTells

LEMMA NoCoinMoves ==
    ASSUME PlaceTells, PlaceTells', \A i \in Item : Place'[i] = Place[i]
    PROVE  Place' = Place
BY DEF PlaceTells

LEMMA CoinGoesHome ==
    ASSUME PlaceTells', NEW i \in Item, i \notin OnShelf',
           \A p \in Order : i \notin InOrder'[p]
    PROVE  Place'[i] = "home"
BY DEF PlaceTells

LEMMA Stays ==
    ASSUME PlaceTells, PlaceTells', OnShelf' = OnShelf,
           \A p \in Order : InOrder'[p] = InOrder[p]
    PROVE  Place' = Place
BY CoinStays, NoCoinMoves

LEMMA IsOffer ==
    ASSUME PlaceTells, PlaceTells', OnShelf \subseteq OnShelf',
           \A p \in Order : InOrder'[p] = InOrder[p]
    PROVE  [Coin!Next]_Place
<1> DEFINE S == OnShelf' \ OnShelf
<1>1. ASSUME NEW i \in S
      PROVE  i \in Item /\ Place[i] = "home" /\ Place'[i] = "on sale"
  <2>1. i \in Item
    BY DEF OnShelf
  <2>2. Place'[i] = "on sale"
    BY <2>1 DEF PlaceTells
  <2>3. \A p \in Order : i \notin InOrder[p]
    BY <2>1, <2>2, PlacesApart DEF PlaceTells
  <2>4. Place[i] = "home"
    BY <2>1, <2>3 DEF PlaceTells
  <2> QED BY <2>1, <2>2, <2>4
<1>2. \A i \in Item : i \notin S => Place'[i] = Place[i]
  BY CoinStays
<1> HIDE DEF S
<1>3. S \in SUBSET Coin!Coins("home")
  BY <1>1 DEF Coin!Coins
<1>4. CASE S = {}
  BY <1>2, <1>4, NoCoinMoves
<1>5. CASE S # {}
  <2>1. \A i \in Item : Place'[i] = IF i \in S THEN "on sale" ELSE Place[i]
    BY <1>1, <1>2
  <2>2. Coin!Move(S, "on sale")
    BY <2>1 DEF PlaceTells, Coin!Move
  <2> QED BY <1>3, <2>2, <1>5 DEF Coin!Next, Coin!PutOnSale
<1> QED BY <1>4, <1>5

LEMMA IsWithdrawal ==
    ASSUME PlaceTells, PlaceTells', OnShelf' \subseteq OnShelf,
           \A p \in Order : InOrder'[p] = InOrder[p]
    PROVE  [Coin!Next]_Place
<1> DEFINE S == OnShelf \ OnShelf'
<1>1. ASSUME NEW i \in S
      PROVE  i \in Item /\ Place[i] = "on sale" /\ Place'[i] = "home"
  <2>1. i \in Item
    BY DEF OnShelf
  <2>2. Place[i] = "on sale"
    BY <2>1 DEF PlaceTells
  <2>3. \A p \in Order : i \notin InOrder'[p]
    BY <2>1, <2>2, PlacesApart DEF PlaceTells
  <2> QED BY <2>1, <2>2, <2>3, CoinGoesHome
<1>2. \A i \in Item : i \notin S => Place'[i] = Place[i]
  BY CoinStays
<1> HIDE DEF S
<1>3. S \in SUBSET Coin!Coins("on sale")
  BY <1>1 DEF Coin!Coins
<1>4. CASE S = {}
  BY <1>2, <1>4, NoCoinMoves
<1>5. CASE S # {}
  <2>1. \A i \in Item : Place'[i] = IF i \in S THEN "home" ELSE Place[i]
    BY <1>1, <1>2
  <2>2. Coin!Move(S, "home")
    BY <2>1 DEF PlaceTells, Coin!Move
  <2> QED BY <1>3, <2>2, <1>5 DEF Coin!Next, Coin!Withdraw
<1> QED BY <1>4, <1>5

LEMMA IsTrade ==
    ASSUME PlaceTells, PlaceTells', NEW o \in Order,
           \A p \in Order : p # o => InOrder'[p] = InOrder[p],
           InOrder'[o] \ InOrder[o] \subseteq OnShelf,
           InOrder[o] \ InOrder'[o] \subseteq OnShelf',
           \A i \in Item : i \in OnShelf /\ i \notin OnShelf' => i \in InOrder'[o],
           \A i \in Item : i \in OnShelf' /\ i \notin OnShelf => i \in InOrder[o]
    PROVE  [Coin!Next]_Place
<1> DEFINE T == InOrder'[o] \ InOrder[o]
           G == InOrder[o] \ InOrder'[o]
<1>1. InOrder[o] \in SUBSET Item /\ InOrder'[o] \in SUBSET Item
  BY DEF InOrder
<1>2. T \in SUBSET Coin!Coins("on sale") /\ G \in SUBSET Coin!Coins(o)
  BY <1>1 DEF PlaceTells, Coin!Coins
<1>3. \A i \in Item : Place'[i] = IF i \in T THEN o ELSE IF i \in G THEN "on sale" ELSE Place[i]
  <2> SUFFICES ASSUME NEW i \in Item
               PROVE  Place'[i] = IF i \in T THEN o ELSE IF i \in G THEN "on sale" ELSE Place[i]
    OBVIOUS
  <2>1. CASE i \in T \cup G
    BY <2>1 DEF PlaceTells
  <2>2. CASE i \notin T \cup G
    <3>1. i \in OnShelf' /\ i \notin OnShelf => FALSE
      <4> SUFFICES ASSUME i \in OnShelf', i \in InOrder[o], i \in InOrder'[o]
                   PROVE  FALSE
        BY <2>2
      <4> QED BY PlacesApart DEF PlaceTells
    <3>2. i \in OnShelf /\ i \notin OnShelf' => FALSE
      <4> SUFFICES ASSUME i \in OnShelf, i \in InOrder[o], i \in InOrder'[o]
                   PROVE  FALSE
        BY <2>2
      <4> QED BY PlacesApart DEF PlaceTells
    <3>3. Place'[i] = Place[i]
      BY <2>2, <3>1, <3>2, CoinStays
    <3> QED BY <2>2, <3>3
  <2> QED BY <2>1, <2>2
<1>4. Place' = [i \in Item |-> IF i \in T THEN o
                               ELSE IF i \in G THEN "on sale" ELSE Place[i]]
  BY <1>3 DEF PlaceTells
<1> HIDE DEF T, G
<1>5. CASE T \cup G = {}
  <2>1. \A i \in Item : Place'[i] = Place[i]
    BY <1>3, <1>5
  <2> QED BY <2>1, NoCoinMoves
<1>6. CASE T \cup G # {}
  BY <1>2, <1>4, <1>6 DEF Coin!Next, Coin!Trade
<1> QED BY <1>5, <1>6

LEMMA IsLeaving ==
    ASSUME PlaceTells, PlaceTells', NEW o \in Order, OnShelf' = OnShelf,
           \A p \in Order : p # o => InOrder'[p] = InOrder[p], InOrder'[o] = {}
    PROVE  [Coin!Next]_Place
<1>1. \A i \in Item : i \in Coin!Coins(o) <=> i \in InOrder[o]
  BY DEF PlaceTells, Coin!Coins
<1>2. ASSUME NEW i \in Item
      PROVE  Place'[i] = IF i \in Coin!Coins(o) THEN "home" ELSE Place[i]
  <2>1. CASE i \in InOrder[o]
    <3>1. Place[i] = o /\ i \notin OnShelf
      BY <2>1, PlacesApart DEF PlaceTells
    <3>2. \A p \in Order : i \notin InOrder'[p]
      BY <3>1 DEF PlaceTells
    <3> QED BY <1>1, <2>1, <3>1, <3>2, CoinGoesHome
  <2>2. CASE i \notin InOrder[o]
    <3>1. Place'[i] = Place[i]
      BY <2>2, CoinStays
    <3> QED BY <1>1, <2>2, <3>1
  <2> QED BY <2>1, <2>2
<1>3. Coin!Move(Coin!Coins(o), "home")
  BY <1>2 DEF PlaceTells, Coin!Move
<1>4. CASE Coin!Coins(o) = {}
  <2>1. \A i \in Item : Place'[i] = Place[i]
    BY <1>2, <1>4
  <2> QED BY <2>1, NoCoinMoves
<1>5. CASE Coin!Coins(o) # {}
  BY <1>3, <1>5 DEF Coin!Next, Coin!Leave
<1> QED BY <1>4, <1>5

-----------------------------------------------------------------------------
(* What a request does to the shelf and to the orders.                     *)

\* What a live listing with stock sells is on the shelf.
LEMMA SoldFromShelf ==
    ASSUME TypeOK, NEW l \in Listing, Live(l), quantity[l] > 0, NEW i \in OfferedItems(l)
    PROVE  i \in Item /\ i \in OnShelf
BY OfferedItemsType DEF OnShelf, ForSale

LEMMA InOrderMeans ==
    ASSUME NEW o \in Order, NEW i \in Item
    PROVE  i \in InOrder[o] <=> Holds(o) /\ \E l \in Listing : i \in share[o][l]
BY DEF InOrder, Promised, Holds, OrderItems

LEMMA SameOrders ==
    ASSUME UNCHANGED orderVars
    PROVE  \A p \in Order : InOrder'[p] = InOrder[p]
BY DEF orderVars, InOrder, Promised, HoldsStock, HasLeft, OrderItems

LEMMA SameShelf ==
    ASSUME UNCHANGED <<listingStatus, subject, quantity>>,
           \A l \in Listing : Live(l) /\ subject[l] \in Lot =>
               members'[subject[l]] = members[subject[l]]
    PROVE  OnShelf' = OnShelf
<1>1. ASSUME NEW l \in Listing, Live(l)
      PROVE  OfferedItems(l)' = OfferedItems(l)
  BY <1>1, SubjectsApart DEF OfferedItems
<1>2. \A i \in Item : ForSale(i)' <=> ForSale(i)
  BY <1>1 DEF ForSale, Live
<1> QED BY <1>2 DEF OnShelf

LEMMA OffersPromise ==
    ASSUME TypeOK, OfferInv, OrderInv, PlaceTells, PlaceTells',
           NEW m \in Listing, NEW subj \in Item \cup Lot, NEW S \in SUBSET Item,
           NEW v \in Venue, Offers(m, subj, S, v)
    PROVE  [Coin!Next]_Place
<1>1. Offer(m, subj, S, v) /\ (subj \in Item => S = {subj})
  BY DEF Offers
<1>2. /\ quantity' = [quantity EXCEPT ![m] = 1] /\ members' = members
      /\ subject' = [subject EXCEPT ![m] = subj] /\ UNCHANGED orderVars
  BY <1>1 DEF Offer, OfferRows
<1>3. ASSUME NEW i \in Item, NEW l \in Listing, Live(l), quantity[l] > 0, i \in OfferedItems(l)
      PROVE  i \in OnShelf'
  <2>1. l # m /\ listingStatus'[l] \in OnOffer
    BY <1>1, <1>3, OfferSpares DEF Offer
  <2>2. OfferedItems(l)' = OfferedItems(l) /\ quantity'[l] = quantity[l]
    BY <1>2, <2>1, SubjectsApart DEF OfferedItems, TypeOK
  <2> QED BY <1>3, <2>1, <2>2 DEF OnShelf, ForSale, Live
<1>4. OnShelf \subseteq OnShelf'
  BY <1>3 DEF OnShelf, ForSale
<1> QED BY <1>2, <1>4, SameOrders, IsOffer

LEMMA WithdrawsPromise ==
    ASSUME PlaceTells, PlaceTells', NEW E \in SUBSET Listing, NEW filed, Withdraws(E, filed)
    PROVE  [Coin!Next]_Place
<1>1. EndOffers(E, FALSE, filed) /\ UNCHANGED <<subject, quantity, orderVars>>
  BY DEF Withdraws
<1>2. ASSUME NEW i \in Item, NEW l \in Listing, listingStatus'[l] \in OnOffer,
             quantity'[l] > 0, i \in OfferedItems(l)'
      PROVE  i \in OnShelf
  <2>1. Live(l)
    BY <1>1, <1>2, EndingLeaves
  <2>2. OfferedItems(l)' \subseteq OfferedItems(l)
    <3>1. \A k \in Lot : members'[k] \subseteq members[k]
      BY <1>1 DEF EndOffers
    <3> QED BY <1>1, <3>1, SubjectsApart DEF OfferedItems
  <2> QED BY <1>1, <1>2, <2>1, <2>2 DEF OnShelf, ForSale
<1>3. OnShelf' \subseteq OnShelf
  BY <1>2 DEF OnShelf, ForSale, Live
<1> QED BY <1>1, <1>3, SameOrders, IsWithdrawal

-----------------------------------------------------------------------------
(* A sale, or a revision.                                                  *)

\* The orders a request does not name keep what is promised to them.
LEMMA MovesSpareOthers ==
    ASSUME TypeOK, NEW o \in Order, NEW T, NEW G, NEW E, Moves(o, T, G, E),
           NEW p \in Order, p # o
    PROVE  InOrder'[p] = InOrder[p]
<1>1. /\ orderStatus'[p] = orderStatus[p] /\ orderVenue'[p] = orderVenue[p]
      /\ everShipped'[p] = everShipped[p]
  BY MovesOthers
<1>2. \A l \in Listing : share'[p][l] = share[p][l]
  BY MovesWrites
<1> QED BY <1>1, <1>2 DEF InOrder, Promised, HoldsStock, HasLeft, OrderItems

\* An order that keeps its coins afterwards kept them before, or is new.
LEMMA MovesKeepHolding ==
    ASSUME TypeOK, OrderInv, NEW o \in Order, NEW T, NEW G, NEW E, Moves(o, T, G, E)
    PROVE  orderStatus[o] # "none" => (Holds(o)' <=> Holds(o))
<1> SUFFICES ASSUME orderStatus[o] # "none"
             PROVE  Holds(o)' <=> Holds(o)
  OBVIOUS
<1>1. orderStatus'[o] = orderStatus[o] /\ orderVenue'[o] = orderVenue[o]
  BY MovesOrder
<1>2. everShipped' = everShipped
  BY DEF Moves
<1> QED BY <1>1, <1>2 DEF Holds, HoldsStock, HasLeft

\* What is for sale afterwards was for sale, or has been given back.
LEMMA MovesFillShelf ==
    ASSUME TypeOK, OrderInv, NEW o \in Order, NEW T, NEW G, NEW E, Moves(o, T, G, E),
           NEW i \in Item, i \in OnShelf', i \notin OnShelf
    PROVE  i \in InOrder[o]
<1>1. PICK l \in Listing : /\ listingStatus'[l] \in OnOffer /\ quantity'[l] > 0
                           /\ i \in OfferedItems(l)'
  BY DEF OnShelf, ForSale, Live
<1>2. Live(l) /\ i \in OfferedItems(l)
  <2>1. /\ Live(l) /\ subject'[l] = subject[l]
        /\ \A k \in Lot : members'[k] \subseteq members[k]
    BY <1>1, MovesWrites
  <2> QED BY <1>1, <2>1, SubjectsApart DEF OfferedItems
<1>3. ~(quantity[l] > 0)
  BY <1>2 DEF OnShelf, ForSale
<1>4. l \in G
  <2>1. quantity'[l] = IF l \in T THEN quantity[l] - 1
                       ELSE IF l \in G THEN quantity[l] + 1 ELSE quantity[l]
    BY MovesWrites
  <2>2. quantity[l] \in Nat
    BY DEF TypeOK
  <2> QED BY <1>1, <1>3, <2>1, <2>2
<1>5. share[o][l] # {} /\ listingStatus[l] # "ended" /\ Holds(o) /\ ~stockBack[o]
  BY <1>4, MovesOrder DEF Moves
<1>6. i \in share[o][l]
  BY <1>2, <1>5, GivenIsWaiting
<1> QED BY <1>5, <1>6, InOrderMeans

\* A coin of a listing that leaves the shelf is taken by the order.
LEMMA MovesEmptyShelf ==
    ASSUME TypeOK, OfferInv, OrderInv, NEW o \in Order, NEW T, NEW G, NEW E,
           Moves(o, T, G, E), NEW i \in Item, i \in OnShelf, i \notin OnShelf'
    PROVE  \E t \in T : i \in OfferedItems(t)
<1> SUFFICES ASSUME \A t \in T : i \notin OfferedItems(t)
             PROVE  FALSE
  OBVIOUS
<1>1. PICK l \in Listing : Live(l) /\ quantity[l] > 0 /\ i \in OfferedItems(l)
  BY DEF OnShelf, ForSale
<1>2. /\ T \in SUBSET Listing /\ E \in SUBSET T /\ EndOffers(E, TRUE, Filed(T, G))
      /\ subject' = subject
  BY DEF Moves, MoveLines
<1>3. l \notin T
  BY <1>1
<1>4. l \notin Closing(E, TRUE)
  <2> SUFFICES ASSUME l \in PausedBy(E)
               PROVE  FALSE
    BY <1>2, <1>3 DEF Closing
  <2>1. listingStatus[l] = "paused" /\ pausedBy[l] \in E
    BY DEF PausedBy
  <2>2. subject[l] \in Item /\ Names(pausedBy[l], subject[l]) /\ Live(pausedBy[l])
    BY <2>1 DEF OfferInv, PausedIsWaiting, Live, OnOffer
  <2>3. subject[l] = i
    BY <1>1, <2>2, WhatIsOffered
  <2>4. i \in OfferedItems(pausedBy[l]) /\ pausedBy[l] \in T
    BY <1>2, <2>1, <2>2, <2>3, OfferedIsNamed
  <2> QED BY <2>4
<1>5. listingStatus'[l] \in OnOffer
  BY <1>1, <1>2, <1>4, EndingSpares
<1>6. quantity'[l] > 0
  <2>1. quantity'[l] = IF l \in T THEN quantity[l] - 1
                       ELSE IF l \in G THEN quantity[l] + 1 ELSE quantity[l]
    BY MovesWrites
  <2>2. quantity[l] \in Nat
    BY DEF TypeOK
  <2> QED BY <1>1, <1>3, <2>1, <2>2
<1>7. subject[l] \in Lot => members'[subject[l]] = members[subject[l]]
  <2> SUFFICES ASSUME subject[l] \in Lot, NEW e \in E, subject[e] = subject[l]
               PROVE  FALSE
    BY <1>2 DEF EndOffers
  <2>1. Live(e) /\ e \in Listing
    BY <1>2 DEF Moves, Live, OnOffer
  <2>2. e = l
    BY <1>1, <2>1 DEF OfferInv, OnePerSubject
  <2> QED BY <1>2, <1>3, <2>2
<1>8. OfferedItems(l)' = OfferedItems(l)
  BY <1>2, <1>7, SubjectsApart DEF OfferedItems
<1>9. i \in OnShelf'
  BY <1>1, <1>5, <1>6, <1>8 DEF OnShelf, ForSale, Live
<1> QED BY <1>9

\* A coin taken by the order was on the shelf.
LEMMA MovesTakeFromShelf ==
    ASSUME TypeOK, OrderInv, NEW o \in Order, NEW T, NEW G, NEW E, Moves(o, T, G, E),
           NEW i \in Item, i \in InOrder'[o], i \notin InOrder[o]
    PROVE  i \in OnShelf
<1>1. PICK l \in Listing : i \in share'[o][l]
  BY DEF InOrder, Promised, OrderItems
<1>2. Holds(o)'
  BY DEF InOrder, Promised, Holds
<1>3. share'[o][l] = IF l \in T THEN OfferedItems(l)
                     ELSE IF l \in G THEN {} ELSE share[o][l]
  BY MovesWrites
<1>4. l \in T
  <2> SUFFICES ASSUME i \in share[o][l]
               PROVE  FALSE
    BY <1>1, <1>3
  <2>1. orderStatus[o] # "none"
    BY MovesOrder
  <2>2. Holds(o)
    BY <1>2, <2>1, MovesKeepHolding
  <2> QED BY <2>2, InOrderMeans
<1>5. Live(l) /\ quantity[l] > 0
  BY <1>4 DEF Moves, Live, OnOffer, TypeOK
<1> QED BY <1>1, <1>3, <1>4, <1>5, SoldFromShelf

\* A coin the order gives up is back on the shelf.
LEMMA MovesGiveToShelf ==
    ASSUME TypeOK, OfferInv, OrderInv, NEW o \in Order, NEW T, NEW G, NEW E,
           Moves(o, T, G, E), NEW i \in Item, i \in InOrder[o], i \notin InOrder'[o]
    PROVE  i \in OnShelf'
<1>1. Holds(o) /\ \E l \in Listing : i \in share[o][l]
  BY InOrderMeans
<1>2. PICK l \in Listing : i \in share[o][l]
  BY <1>1
<1>3. Holds(o)'
  BY <1>1, MovesKeepHolding DEF Holds, HoldsStock
<1>4. i \notin share'[o][l]
  BY <1>3 DEF InOrder, Promised, OrderItems, Holds
<1>5. l \in G /\ l \notin T
  <2>1. share'[o][l] = IF l \in T THEN OfferedItems(l)
                       ELSE IF l \in G THEN {} ELSE share[o][l]
    BY MovesWrites
  <2>2. l \notin T
    BY <1>2 DEF Moves
  <2> QED BY <1>2, <1>4, <2>1, <2>2
<1>6. share[o][l] # {} /\ listingStatus[l] # "ended" /\ Holds(o) /\ ~stockBack[o]
  BY <1>1, <1>2, <1>5, MovesOrder DEF Moves
<1>7. listingStatus[l] = "active" /\ quantity[l] = 0 /\ OfferedItems(l) = share[o][l]
  BY <1>6, GivenIsWaiting
<1>8. /\ E \in SUBSET T /\ T \in SUBSET Listing /\ EndOffers(E, TRUE, Filed(T, G))
      /\ subject' = subject
  BY DEF Moves, MoveLines
<1>9. listingStatus'[l] \in OnOffer
  BY <1>5, <1>7, <1>8, EndingSpares DEF Closing, PausedBy, Live, OnOffer
<1>10. quantity'[l] > 0
  BY <1>5, <1>7, MovesWrites
<1>11. OfferedItems(l)' = OfferedItems(l)
  <2>1. subject[l] \in Item
    BY <1>6, <1>7 DEF OrderInv, LinesAreSold
  <2> QED BY <1>8, <2>1 DEF OfferedItems
<1> QED BY <1>2, <1>7, <1>9, <1>10, <1>11 DEF OnShelf, ForSale, Live

LEMMA MovesPromise ==
    ASSUME TypeOK, OfferInv, OrderInv, PlaceTells, PlaceTells',
           NEW o \in Order, NEW T, NEW G, NEW E, Moves(o, T, G, E)
    PROVE  [Coin!Next]_Place
<1>1. \A p \in Order : p # o => InOrder'[p] = InOrder[p]
  BY MovesSpareOthers
<1>2. InOrder[o] \in SUBSET Item /\ InOrder'[o] \in SUBSET Item
  BY DEF InOrder
<1>3. CASE Holds(o)'
  <2>1. InOrder'[o] \ InOrder[o] \subseteq OnShelf
    BY <1>2, MovesTakeFromShelf
  <2>2. InOrder[o] \ InOrder'[o] \subseteq OnShelf'
    BY <1>2, MovesGiveToShelf
  <2>3. ASSUME NEW i \in Item, i \in OnShelf, i \notin OnShelf'
        PROVE  i \in InOrder'[o]
    <3>1. PICK t \in T : i \in OfferedItems(t)
      BY <2>3, MovesEmptyShelf
    <3>2. t \in Listing /\ share'[o][t] = OfferedItems(t)
      <4>1. t \in Listing
        BY DEF Moves
      <4> QED BY <4>1, MovesWrites
    <3>3. i \in OrderItems(o)'
      <4>1. \E m \in Listing : i \in share'[o][m]
        BY <3>1, <3>2
      <4>2. OrderItems(o)' = UNION {share'[o][m] : m \in Listing}
        BY DEF OrderItems
      <4> QED BY <4>1, <4>2
    <3> QED BY <1>3, <3>3 DEF InOrder, Promised, Holds
  <2>4. \A i \in Item : i \in OnShelf' /\ i \notin OnShelf => i \in InOrder[o]
    BY MovesFillShelf
  <2> QED BY <1>1, <2>1, <2>2, <2>3, <2>4, IsTrade
<1>4. CASE ~Holds(o)'
  <2>1. ~Holds(o)
    BY <1>4, MovesKeepHolding DEF Holds, HoldsStock
  <2>2. InOrder'[o] = {} /\ InOrder[o] = {}
    BY <1>4, <2>1 DEF InOrder, Promised, Holds
  <2>3. OnShelf' \subseteq OnShelf
    <3> SUFFICES ASSUME NEW i \in Item, i \in OnShelf', i \notin OnShelf
                 PROVE  FALSE
      BY DEF OnShelf
    <3> QED BY <2>2, MovesFillShelf
  <2> QED BY <1>1, <2>2, <2>3, IsWithdrawal
<1> QED BY <1>3, <1>4

-----------------------------------------------------------------------------
(* A status.                                                               *)

LEMMA StatusSparesOthers ==
    ASSUME TypeOK, NEW o \in Order, NEW to, SetOrderStatus(o, to), NEW p \in Order, p # o
    PROVE  InOrder'[p] = InOrder[p]
<1>1. /\ orderStatus'[p] = orderStatus[p] /\ orderVenue'[p] = orderVenue[p]
      /\ everShipped'[p] = everShipped[p]
  BY StatusOthers
<1>2. share' = share
  BY DEF SetOrderStatus, ApplyStatus
<1> QED BY <1>1, <1>2 DEF InOrder, Promised, HoldsStock, HasLeft, OrderItems

\* A status that returns stock puts the order's coins on sale, and no other.
LEMMA ReturnGivesToShelf ==
    ASSUME TypeOK, OfferInv, OrderInv, NEW o \in Order, NEW to \in OrderStatus,
           SetOrderStatus(o, to), ReturnsStock(o, to), NEW i \in Item
    PROVE  i \in OnShelf' <=> i \in OnShelf \/ i \in InOrder[o]
<1>1. UNCHANGED <<listingStatus, subject, members>>
  BY DEF SetOrderStatus, ApplyStatus, lotVars
<1>2. \A l \in Listing :
         quantity'[l] = IF l \in Lines(o) THEN quantity[l] + 1 ELSE quantity[l]
  BY DEF SetOrderStatus, ApplyStatus, Restock
<1>3. \A l \in Listing : OfferedItems(l)' = OfferedItems(l)
  BY <1>1 DEF OfferedItems
<1>4. \A l \in Listing : quantity[l] \in Nat
  BY DEF TypeOK
<1>5. Holds(o) /\ ~stockBack[o] /\
      \A l \in Listing : share[o][l] # {} => listingStatus[l] # "ended"
  BY StatusOrder
<1>6. ASSUME NEW l \in Listing, l \in Lines(o)
      PROVE  Live(l) /\ quantity[l] = 0 /\ OfferedItems(l) = share[o][l]
  BY <1>5, <1>6, GivenIsWaiting DEF Lines, Live, OnOffer
<1>7. ASSUME i \in OnShelf'
      PROVE  i \in OnShelf \/ i \in InOrder[o]
  <2>1. PICK l \in Listing : Live(l) /\ quantity'[l] > 0 /\ i \in OfferedItems(l)
    BY <1>1, <1>3, <1>7 DEF OnShelf, ForSale, Live
  <2>2. CASE l \in Lines(o)
    BY <1>5, <1>6, <2>1, <2>2, InOrderMeans
  <2>3. CASE l \notin Lines(o)
    BY <1>2, <2>1, <2>3 DEF OnShelf, ForSale
  <2> QED BY <2>2, <2>3
<1>8. ASSUME i \in OnShelf
      PROVE  i \in OnShelf'
  <2>1. PICK l \in Listing : Live(l) /\ quantity[l] > 0 /\ i \in OfferedItems(l)
    BY <1>8 DEF OnShelf, ForSale
  <2>2. listingStatus'[l] \in OnOffer /\ quantity'[l] > 0 /\ i \in OfferedItems(l)'
    BY <1>1, <1>2, <1>3, <1>4, <2>1 DEF Live
  <2> QED BY <2>2 DEF OnShelf, ForSale, Live
<1>9. ASSUME i \in InOrder[o]
      PROVE  i \in OnShelf'
  <2>1. PICK l \in Listing : i \in share[o][l]
    BY <1>9, InOrderMeans
  <2>2. l \in Lines(o)
    BY <2>1 DEF Lines
  <2>3. listingStatus'[l] \in OnOffer /\ quantity'[l] > 0 /\ i \in OfferedItems(l)'
    BY <1>1, <1>2, <1>3, <1>6, <2>1, <2>2 DEF Live
  <2> QED BY <2>3 DEF OnShelf, ForSale, Live
<1> QED BY <1>7, <1>8, <1>9

LEMMA StatusPromise ==
    ASSUME TypeOK, OfferInv, OrderInv, PlaceTells, PlaceTells',
           NEW o \in Order, NEW to \in OrderStatus, SetOrderStatus(o, to)
    PROVE  [Coin!Next]_Place
<1>1. \A p \in Order : p # o => InOrder'[p] = InOrder[p]
  BY StatusSparesOthers
<1>2. share' = share /\ (Holds(o)' => Holds(o))
  BY StatusOrder DEF SetOrderStatus, ApplyStatus
<1>3. CASE ReturnsStock(o, to)
  <2>1. InOrder'[o] = {}
    <3>1. orderStatus'[o] = to /\ to \in StockReturning
      BY <1>3 DEF SetOrderStatus, ApplyStatus, WriteStatus, ReturnsStock, TypeOK
    <3> QED BY <3>1 DEF InOrder, Promised, HoldsStock, NoStockReturn
  <2>2. \A i \in Item : i \in OnShelf' <=> i \in OnShelf \/ i \in InOrder[o]
    BY <1>3, ReturnGivesToShelf
  <2>3. InOrder[o] \in SUBSET Item
    BY DEF InOrder
  <2> QED BY <1>1, <2>1, <2>2, <2>3, IsTrade
<1>4. CASE ~ReturnsStock(o, to)
  <2>1. UNCHANGED <<listingStatus, subject, quantity, members>>
    BY <1>4 DEF SetOrderStatus, ApplyStatus, Restock, lotVars, TypeOK
  <2>2. OnShelf' = OnShelf
    BY <2>1, SameShelf
  <2>3. CASE Holds(o)'
    <3>1. InOrder'[o] = InOrder[o]
      BY <1>2, <2>3 DEF InOrder, Promised, Holds, OrderItems
    <3>2. \A p \in Order : InOrder'[p] = InOrder[p]
      BY <1>1, <3>1
    <3> QED BY <2>2, <3>2, Stays
  <2>4. CASE ~Holds(o)'
    <3>1. InOrder'[o] = {}
      BY <2>4 DEF InOrder, Promised, Holds
    <3> QED BY <1>1, <2>2, <3>1, IsLeaving
  <2> QED BY <2>3, <2>4
<1> QED BY <1>3, <1>4

-----------------------------------------------------------------------------
(* The theorem.                                                            *)

LEMMA PromiseStep ==
    ASSUME TypeOK, OfferInv, OrderInv, PlaceTells, PlaceTells', [Next]_vars
    PROVE  [Coin!Next]_Place
<1>1. CASE LotRequest
  <2>1. UNCHANGED <<itemVars, listingVars, orderVars>>
    BY <1>1, AssemblyLeavesOffers
  <2>2. OnShelf' = OnShelf
    BY <1>1, <2>1, AssemblyLeavesOffers, SameShelf DEF listingVars
  <2> QED BY <2>1, <2>2, SameOrders, Stays
<1>2. ASSUME NEW m \in Listing, EndListingAgain(m)
      PROVE  [Coin!Next]_Place
  <2>1. UNCHANGED <<listingStatus, subject, quantity, members, orderVars>>
    BY <1>2, EndingAgainSpares DEF EndListingAgain
  <2> QED BY <2>1, SameShelf, SameOrders, Stays
<1>3. CASE Rests
  <2>1. UNCHANGED <<listingStatus, subject, quantity, members, orderVars>>
    BY <1>3 DEF Rests, listingVars, lotVars
  <2> QED BY <2>1, SameShelf, SameOrders, Stays
<1> QED BY <1>1, <1>2, <1>3, OffersPromise, WithdrawsPromise, MovesPromise, StatusPromise,
           StepKinds

LEMMA PromiseInit ==
    ASSUME Init, PlaceTells
    PROVE  Coin!Init
<1>1. \A i \in Item, o \in Order : i \notin InOrder[o]
  BY InOrderMeans DEF Init
<1>2. \A i \in Item : Place[i] \in {"home", "on sale"}
  BY <1>1 DEF PlaceTells
<1> QED BY <1>2 DEF PlaceTells, Coin!Init

\* Every request of the shop, checkout, revision, cancellation, edit or lot, is
\* one step of the promise about each coin, or none (offering_writes.py,
\* order_writes.py, sales_writes.py, lot_writes.py, routers/orders.py).
THEOREM KeepsPromisesHolds == Spec => KeepsPromises
<1>1. Init => Coin!Init
  BY OrderInit, PlaceIsWhereItIs, PromiseInit
<1>2. OrderInv => PlaceTells
  BY PlaceIsWhereItIs
<1>3. TypeOK /\ OfferInv /\ OrderInv /\ PlaceTells /\ PlaceTells' /\ [Next]_vars
      => [Coin!Next]_Place
  BY PromiseStep
<1> QED BY <1>1, <1>2, <1>3, TypeCorrect, OffersAgree, OrdersAgree, PTL
        DEF Spec, KeepsPromises, Coin!Spec

-----------------------------------------------------------------------------
(* Requests at the same time.                                              *)

\* Alone, each request is a step of the shop.
LEMMA AloneIsAStep ==
    ASSUME NEW r \in Requests, Alone(r)
    PROVE  Next
<1>1. CASE r.kind \in {"create lot", "delete lot", "add member", "remove member"}
  <2>1. r.lot \in Lot /\ (r.kind \in {"add member", "remove member"} => r.item \in Item)
    BY <1>1 DEF Requests
  <2>2. LotRequest
    BY <1>1, <2>1 DEF Alone, LotRequest
  <2> QED BY <2>2 DEF Next
<1>2. CASE r.kind \in {"offer", "offer lot", "end"}
  <2>1. /\ r.listing \in Listing
        /\ r.kind = "offer" => r.item \in Item /\ r.venue \in Platforms
        /\ r.kind = "offer lot" => r.lot \in Lot /\ r.venue \in Platforms
    BY <1>2 DEF Requests
  <2>2. OfferRequest
    BY <1>2, <2>1 DEF Alone, OfferRequest
  <2> QED BY <2>2 DEF Next
<1>3. CASE r.kind \in {"checkout", "revise", "sale", "status"}
  <2>1. /\ r.order \in Order
        /\ r.kind \in {"checkout", "revise"} => r.listings \in SUBSET Listing
        /\ r.kind = "sale" => r.listing \in Listing
        /\ r.kind = "status" => r.to \in Statuses
    BY <1>3 DEF Requests
  <2>2. OrderRequest
    BY <1>3, <2>1 DEF Alone, OrderRequest
  <2> QED BY <2>2 DEF Next
<1>4. CASE r.kind \in {"receive", "loss", "split", "delete item", "edit", "bulk"}
  <2>1. /\ r.item \in Item
        /\ r.kind \in {"edit", "bulk"} => r.to \in {"received", "away"} /\ r.filed \in Dispositions
    BY <1>4 DEF Requests
  <2>2. ItemRequest
    BY <1>4, <2>1 DEF Alone, ItemRequest
  <2> QED BY <2>2 DEF Next
<1> QED BY <1>1, <1>2, <1>3, <1>4 DEF Alone

\* Nobody edits an item's standing while others ask something, and nobody loses
\* one while an order that would give its stock back is cancelled or refunded.
EditsAreAlone ==
    \A scene \in Scenarios : \A r \in scene.requests :
        /\ r.kind \notin {"edit", "bulk"}
        /\ r.kind = "loss" =>
             \A s \in scene.requests : s.kind = "status" => s.to \notin StockReturning

\* What a transaction was allowed to do on its first row.
Allowed(r) == r.kind = "status" => MaySetStatus(r.order, r.to)

\* Made in a transaction, each is the same step, as long as what was allowed
\* before the locks still is.
LEMMA EffectIsAStep ==
    ASSUME NEW t \in Txn, request[t] \in Requests, request[t].kind \notin {"edit", "bulk"},
           Allowed(request[t]), Effect(t)
    PROVE  Next
<1> DEFINE r == request[t]
<1>1. CASE r.kind = "status"
  <2>1. ApplyStatus(r.order, r.to) /\ MaySetStatus(r.order, r.to)
    BY <1>1 DEF Effect, Allowed
  <2>2. Alone(r)
    BY <1>1, <2>1 DEF Alone, SetOrderStatus
  <2> QED BY <2>2, AloneIsAStep
<1>2. CASE r.kind = "end"
  <2>1. EndListing(r.listing) \/ EndListingAgain(r.listing)
    BY <1>2 DEF Effect
  <2>2. Alone(r)
    BY <1>2, <2>1 DEF Alone
  <2> QED BY <2>2, AloneIsAStep
<1>3. CASE r.kind \notin {"status", "end"}
  <2>1. Alone(r)
    BY <1>3 DEF Effect
  <2> QED BY <2>1, AloneIsAStep
<1> QED BY <1>1, <1>2, <1>3

\* Whose order's row a request writes.
WritesOrder(r, o) ==
    r.kind \in {"status", "revise", "checkout", "sale"} /\ r.order = o

SameOrderRow(o) ==
    /\ orderStatus'[o] = orderStatus[o] /\ orderVenue'[o] = orderVenue[o]
    /\ share'[o] = share[o]
    /\ everShipped'[o] = everShipped[o] /\ refund'[o] = refund[o]

LEMMA OthersKeepTheOrder ==
    ASSUME TypeOK, NEW t \in Txn, request[t] \in Requests, Effect(t), NEW o \in Order,
           request[t].kind \notin {"edit", "bulk"}, ~WritesOrder(request[t], o)
    PROVE  SameOrderRow(o)
<1> DEFINE r == request[t]
<1> USE DEF TypeOK
<1>1. CASE r.kind = "status"
  BY <1>1 DEF Effect, ApplyStatus, WriteStatus, SameOrderRow, WritesOrder
<1>2. CASE r.kind = "end"
  <2>1. UNCHANGED orderVars
    BY <1>2 DEF Effect, EndListing, EndListingAgain
  <2> QED BY <2>1 DEF orderVars, SameOrderRow
<1>3. CASE r.kind \notin {"status", "end"}
  <2>1. Alone(r)
    BY <1>3 DEF Effect
  <2>2. CASE r.kind \in {"checkout", "sale", "revise"}
    <3>1. ASSUME NEW p \in Order, NEW taken, NEW given, NEW E,
                 MoveLines(p, taken, given, E), p # o
          PROVE  share'[o] = share[o]
      BY <3>1 DEF MoveLines
    <3>2. CASE r.kind = "checkout"
      BY <2>1, <3>1, <3>2 DEF Alone, PlaceOrder, NewOrder, MoveLines, SameOrderRow, WritesOrder
    <3>3. CASE r.kind = "sale"
      BY <2>1, <3>1, <3>3 DEF Alone, RecordSale, NewOrder, MoveLines, SameOrderRow, WritesOrder
    <3>4. CASE r.kind = "revise"
      BY <2>1, <3>1, <3>4 DEF Alone, ReviseOrder, MoveLines, SameOrderRow, WritesOrder
    <3> QED BY <2>2, <3>2, <3>3, <3>4
  <2>3. CASE r.kind \in {"create lot", "delete lot", "add member", "remove member"}
    <3>1. UNCHANGED orderVars
      BY <2>1, <2>3 DEF Alone, CreateLot, DeleteLot, AddMember, RemoveMember
    <3> QED BY <3>1 DEF orderVars, SameOrderRow
  <2>4. CASE r.kind \in {"offer", "offer lot"}
    <3>1. UNCHANGED orderVars
      BY <2>1, <2>4 DEF Alone, OfferItem, OfferLot, Offer, OfferRows
    <3> QED BY <3>1 DEF orderVars, SameOrderRow
  <2>5. CASE r.kind \in {"receive", "loss", "split", "delete item"}
    <3>1. UNCHANGED orderVars
      BY <2>1, <2>5 DEF Alone, ReceiveItem, RecordLoss, SplitItem, DeleteItem
    <3> QED BY <3>1 DEF orderVars, SameOrderRow
  <2> QED BY <1>3, <2>2, <2>3, <2>4, <2>5 DEF Requests
<1> QED BY <1>1, <1>2, <1>3

\* Nobody ends the listing of an order that may still give its stock back, but
\* the order itself and the loss of an item.
LEMMA HeldListingStays ==
    ASSUME TypeOK, OfferInv, OrderInv, NEW t \in Txn, request[t] \in Requests, Effect(t),
           NEW o \in Order, HoldsStock(o), NEW l \in Lines(o), listingStatus[l] # "ended",
           request[t].kind \notin {"edit", "bulk", "loss"}, ~WritesOrder(request[t], o)
    PROVE  listingStatus'[l] # "ended"
<1> DEFINE r == request[t]
<1>1. l \in Listing /\ share[o][l] # {} /\ o \in OrdersHoldingStock(l)
  BY DEF Lines, OrdersHoldingStock
<1>2. listingStatus[l] # "paused"
  BY <1>1 DEF OrderInv, HeldStockIsNotPaused
<1>3. ~stockBack[o]
  BY DEF OrderInv, ReturnedStaysClosed, HoldsStock, NoStockReturn
<1>4. quantity[l] # 1
  BY <1>1, <1>3 DEF OrderInv, UnitInOnePlace, LinesAreSold
<1>5. ASSUME NEW E \in SUBSET Listing, NEW sold \in BOOLEAN, NEW filed,
             EndOffers(E, sold, filed), l \notin E
      PROVE  listingStatus'[l] # "ended"
  <2>1. l \notin Closing(E, sold)
    BY <1>2, <1>5 DEF Closing, PausedBy
  <2> QED BY <1>1, <1>5, <2>1 DEF EndOffers, StatusAfter
<1>6. ASSUME NEW L \in SUBSET Listing
      PROVE  LotsSoldOut(L) \in SUBSET Listing /\ l \notin LotsSoldOut(L)
  BY <1>4 DEF LotsSoldOut, SoldOutBy
<1>7. CASE r.kind = "status"
  BY <1>7 DEF Effect, ApplyStatus
<1>8. CASE r.kind = "end"
  <2>1. CASE EndListing(r.listing)
    <3>1. /\ l \notin {r.listing} /\ {r.listing} \in SUBSET Listing
          /\ EndOffers({r.listing}, FALSE, disposition)
      BY <1>1, <1>8, <2>1 DEF EndListing, Requests
    <3> QED BY <1>5, <3>1
  <2>2. CASE EndListingAgain(r.listing)
    BY <2>2 DEF EndListingAgain
  <2> QED BY <1>8, <2>1, <2>2 DEF Effect
<1>9. CASE r.kind \notin {"status", "end"}
  <2>1. Alone(r)
    BY <1>9 DEF Effect
  <2>2. CASE r.kind = "checkout"
    <3>1. /\ EndOffers(LotsSoldOut(r.listings), TRUE, Filed(r.listings, {}))
          /\ r.listings \in SUBSET Listing
      BY <2>1, <2>2 DEF Alone, PlaceOrder, NewOrder, MoveLines, Requests
    <3> QED BY <1>5, <1>6, <3>1
  <2>3. CASE r.kind = "sale"
    <3>1. /\ EndOffers({r.listing}, TRUE, Filed({r.listing}, {}))
          /\ {r.listing} \in SUBSET Listing /\ quantity[r.listing] >= 1
          /\ listingStatus[r.listing] = "active"
      BY <2>1, <2>3 DEF Alone, RecordSale, NewOrder, MoveLines, InStock, Requests
    <3>2. r.listing # l
      BY <1>1, <1>3, <3>1 DEF OrderInv, UnitInOnePlace, LinesAreSold
    <3> QED BY <1>5, <3>1, <3>2
  <2>4. CASE r.kind = "revise"
    <3> DEFINE taken == r.listings \ Lines(r.order)
               given == Lines(r.order) \ r.listings
    <3>1. /\ EndOffers(LotsSoldOut(taken), TRUE, Filed(taken, given))
          /\ taken \in SUBSET Listing
      BY <2>1, <2>4 DEF Alone, ReviseOrder, MoveLines, Requests
    <3> HIDE DEF taken, given
    <3> QED BY <1>5, <1>6, <3>1
  <2>5. CASE r.kind \in {"create lot", "delete lot", "add member", "remove member"}
    <3>1. UNCHANGED listingVars
      BY <2>1, <2>5 DEF Alone, CreateLot, DeleteLot, AddMember, RemoveMember
    <3> QED BY <3>1 DEF listingVars
  <2>6. CASE r.kind \in {"offer", "offer lot"}
    <3>1. \/ Offer(r.listing, r.item, {r.item}, r.venue)
          \/ Offer(r.listing, r.lot, members[r.lot], r.venue)
      BY <2>1, <2>6 DEF Alone, OfferItem, OfferLot
    <3>2. ASSUME NEW subj, NEW S, Offer(r.listing, subj, S, r.venue)
          PROVE  listingStatus'[l] \in {listingStatus[l], "active", "paused"}
      BY <1>1, <3>2 DEF Offer, OfferRows
    <3> QED BY <1>1, <3>1, <3>2
  <2>7. CASE r.kind \in {"receive", "delete item"}
    <3>1. UNCHANGED listingVars
      BY <2>1, <2>7 DEF Alone, ReceiveItem, DeleteItem
    <3> QED BY <3>1 DEF listingVars
  <2>8. CASE r.kind = "split"
    <3> DEFINE E == {m \in Listing : subject[m] = r.item /\ Live(m)}
    <3>1. EndOffers(E, FALSE, disposition) /\ ~SoldThisItem(r.item)
      BY <2>1, <2>8 DEF Alone, SplitItem
    <3>2. l \notin E
      BY <1>1, <3>1 DEF SoldThisItem
    <3>3. E \in SUBSET Listing
      OBVIOUS
    <3> HIDE DEF E
    <3> QED BY <1>5, <3>1, <3>2, <3>3
  <2> QED BY <1>9, <2>2, <2>3, <2>4, <2>5, <2>6, <2>7, <2>8 DEF Requests
<1> QED BY <1>7, <1>8, <1>9
\* What an order was allowed stays so, whoever else commits.
LEMMA StaysAllowed ==
    ASSUME TypeOK, OfferInv, OrderInv, NEW t \in Txn, request[t] \in Requests, Effect(t),
           NEW o \in Order, NEW to, MaySetStatus(o, to), ~WritesOrder(request[t], o),
           request[t].kind \notin {"edit", "bulk"},
           request[t].kind = "loss" => to \notin StockReturning
    PROVE  MaySetStatus(o, to)'
<1>1. SameOrderRow(o)
  BY OthersKeepTheOrder
<1>2. Lines(o)' = Lines(o)
  BY <1>1 DEF Lines, SameOrderRow
<1>3. ReturnsStock(o, to)' <=> ReturnsStock(o, to)
  BY <1>1 DEF ReturnsStock, SameOrderRow
<1>4. ASSUME ReturnsStock(o, to), ~NoStockToReturn(o)
      PROVE  ~NoStockToReturn(o)'
  <2>1. HoldsStock(o) /\ request[t].kind \notin {"edit", "bulk", "loss"}
    BY <1>4 DEF ReturnsStock, HoldsStock, MaySetStatus
  <2>2. ASSUME NEW l \in Lines(o)
        PROVE  listingStatus'[l] # "ended"
    <3>1. listingStatus[l] # "ended"
      BY <1>4 DEF NoStockToReturn
    <3> QED BY <2>1, <3>1, HeldListingStays
  <2> QED BY <1>1, <1>2, <1>4, <2>2 DEF NoStockToReturn, SameOrderRow
<1> QED BY <1>1, <1>3, <1>4 DEF MaySetStatus, SameOrderRow

\* Under way: asked for, and not answered yet.
UnderWay(s) == s \notin Ended \cup {"new"}

\* Between its statements a transaction holds the row it reads first, and what
\* it was allowed there stays allowed.
LockInvariant ==
    /\ TypeOK /\ OfferInv /\ OrderInv
    /\ past \in Seq(Requests)
    /\ past # <<>> => \A t \in Txn : stage[t] = "new"
    /\ \E scene \in Scenarios : \A t \in Txn : request[t] \in scene.requests
    /\ stage = [t \in Txn |-> stage[t]]
    /\ todo = [t \in Txn |-> todo[t]]
    /\ held = [t \in Txn |-> held[t]]
    /\ \A t, u \in Txn : t # u => held[t] \cap held[u] = {}
    /\ \A t \in Txn : UnderWay(stage[t]) =>
         /\ FirstRow(request[t]) \subseteq held[t] \cup (IF stage[t] = "first" THEN todo[t] ELSE {})
         /\ stage[t] # "first" => Allowed(request[t])

\* A step of one transaction that writes no row.
LEMMA WaitingKeeps ==
    ASSUME LockInvariant, UNCHANGED <<vars, request, past>>, NEW t \in Txn,
           NEW s, NEW T, NEW H,
           stage' = [stage EXCEPT ![t] = s], todo' = [todo EXCEPT ![t] = T],
           held' = [held EXCEPT ![t] = H],
           \A u \in Txn \ {t} : H \cap held[u] = {},
           past # <<>> => s = "new",
           UnderWay(s) =>
             /\ FirstRow(request[t]) \subseteq H \cup (IF s = "first" THEN T ELSE {})
             /\ s # "first" => Allowed(request[t])
    PROVE  LockInvariant'
<1>1. TypeOK' /\ OfferInv' /\ OrderInv'
  <2>1. TypeOK /\ OfferInv /\ OrderInv /\ [Next]_vars
    BY DEF LockInvariant
  <2> QED BY <2>1, TypeStep, OfferStep, OrderStep
<1>2. /\ stage'[t] = s /\ todo'[t] = T /\ held'[t] = H
      /\ \A u \in Txn \ {t} :
           stage'[u] = stage[u] /\ todo'[u] = todo[u] /\ held'[u] = held[u]
      /\ stage' = [u \in Txn |-> stage'[u]]
      /\ todo' = [u \in Txn |-> todo'[u]]
      /\ held' = [u \in Txn |-> held'[u]]
  BY DEF LockInvariant
<1>3. \A u \in Txn : Allowed(request[u])' <=> Allowed(request[u])
  BY DEF Allowed, MaySetStatus, ReturnsStock, NoStockToReturn, Lines, vars, orderVars,
         listingVars
<1>4. \A u \in Txn : FirstRow(request[u])' = FirstRow(request[u])
  BY DEF FirstRow
<1>5. \A u, v \in Txn : u # v => held'[u] \cap held'[v] = {}
  BY <1>2 DEF LockInvariant
<1>6. \A u \in Txn : UnderWay(stage'[u]) =>
        /\ FirstRow(request[u]) \subseteq
             held'[u] \cup (IF stage'[u] = "first" THEN todo'[u] ELSE {})
        /\ stage'[u] # "first" => Allowed(request[u])
  BY <1>2 DEF LockInvariant
<1>7. past' \in Seq(Requests) /\ (past' # <<>> => \A u \in Txn : stage'[u] = "new")
  BY <1>2 DEF LockInvariant
<1> QED BY <1>1, <1>2, <1>3, <1>4, <1>5, <1>6, <1>7 DEF LockInvariant, UnderWay

\* A transaction that goes on keeps what it holds; one that leaves holds nothing.
LEMMA GoesOn ==
    ASSUME LockInvariant, UNCHANGED <<vars, request, past, held>>, NEW t \in Txn,
           NEW from \in Stage, NEW to \in Stage, NEW rows,
           Through(t, from), GoTo(t, to, rows),
           UnderWay(from), to # "first", from = "first" => Allowed(request[t])
    PROVE  LockInvariant'
<1>1. stage[t] = from /\ todo[t] = {} /\ past = <<>>
  BY DEF Through, LockInvariant, UnderWay
<1>2. FirstRow(request[t]) \subseteq held[t] /\ Allowed(request[t])
  BY <1>1 DEF LockInvariant
<1>3. held' = [held EXCEPT ![t] = held[t]]
  BY DEF LockInvariant
<1>4. \A u \in Txn \ {t} : held[t] \cap held[u] = {}
  BY DEF LockInvariant
<1> QED BY <1>1, <1>2, <1>3, <1>4, WaitingKeeps DEF GoTo

LEMMA LeavingKeeps ==
    ASSUME LockInvariant, UNCHANGED <<vars, request, past>>, NEW t \in Txn,
           NEW as \in Ended, Leave(t, as), stage[t] # "new"
    PROVE  LockInvariant'
<1>1. past = <<>>
  BY DEF LockInvariant
<1> QED BY <1>1, WaitingKeeps DEF Leave, UnderWay

\* Every step of a transaction but its commit.
LEMMA StatementKeeps ==
    ASSUME LockInvariant, NEW t \in Txn,
           \/ Start(t) \/ Choose(t) \/ ReadItems(t)
           \/ LockRow(t) \/ LockLots(t) \/ LockItems(t) \/ LockListings(t) \/ LockAgain(t)
           \/ Fail(t) \/ Decide(t) \/ Refuse(t) \/ Lose(t)
    PROVE  LockInvariant' /\ UNCHANGED vars
<1>1. CASE Start(t)
  <2>1. held' = [held EXCEPT ![t] = held[t]] /\ \A u \in Txn \ {t} : held[t] \cap held[u] = {}
    BY <1>1 DEF Start, LockInvariant
  <2>2. /\ stage' = [stage EXCEPT ![t] = "first"]
        /\ todo' = [todo EXCEPT ![t] = FirstRow(request[t]) \ held[t]]
        /\ past = <<>> /\ UNCHANGED <<vars, request, past>>
    BY <1>1 DEF Start, GoTo
  <2> QED BY <2>1, <2>2, WaitingKeeps
<1>2. CASE LockRow(t)
  <2> DEFINE n == NextRow(t)
             H == held[t] \cup {n}
             T == todo[t] \ {n}
  <2>1. stage' = [stage EXCEPT ![t] = stage[t]] /\ UNCHANGED <<vars, request, past>>
    BY <1>2 DEF LockRow, LockInvariant
  <2>2. todo' = [todo EXCEPT ![t] = T] /\ held' = [held EXCEPT ![t] = H]
    BY <1>2 DEF LockRow
  <2>3. \A u \in Txn \ {t} : H \cap held[u] = {}
    BY <1>2 DEF LockRow, Free, LockInvariant
  <2>4. /\ past # <<>> => stage[t] = "new"
        /\ UnderWay(stage[t]) =>
             /\ FirstRow(request[t]) \subseteq H \cup (IF stage[t] = "first" THEN T ELSE {})
             /\ stage[t] # "first" => Allowed(request[t])
    BY DEF LockInvariant
  <2> HIDE DEF H, T
  <2> QED BY <2>1, <2>2, <2>3, <2>4, WaitingKeeps
<1>3. CASE Choose(t)
  <2>1. /\ Through(t, "first") /\ UNCHANGED <<vars, request, past, held>>
        /\ GoTo(t, "update", UpdatedRow(request[t])) \/ GoTo(t, "chosen", {})
    BY <1>3 DEF Choose
  <2>2. Allowed(request[t])
    BY <1>3 DEF Choose, AllowedAtFirst, Allowed
  <2>3. {"first", "update", "chosen"} \subseteq Stage /\ UnderWay("first")
    BY DEF Stage, Ended, UnderWay
  <2> QED BY <2>1, <2>2, <2>3, GoesOn
<1>4. CASE ReadItems(t)
  <2>1. Through(t, "chosen") /\ GoTo(t, "known", {}) /\ UNCHANGED <<vars, request, past, held>>
    BY <1>4 DEF ReadItems
  <2>2. {"chosen", "known"} \subseteq Stage /\ UnderWay("chosen")
    BY DEF Stage, Ended, UnderWay
  <2> QED BY <2>1, <2>2, GoesOn
<1>5. CASE LockLots(t)
  <2>1. {"known", "lots"} \subseteq Stage /\ UnderWay("known")
    BY DEF Stage, Ended, UnderWay
  <2> QED BY <1>5, <2>1, GoesOn DEF LockLots
<1>6. CASE LockItems(t)
  <2>1. {"lots", "items"} \subseteq Stage /\ UnderWay("lots")
    BY DEF Stage, Ended, UnderWay
  <2> QED BY <1>6, <2>1, GoesOn DEF LockItems
<1>7. CASE LockListings(t)
  <2>1. {"items", "listings"} \subseteq Stage /\ UnderWay("items")
    BY DEF Stage, Ended, UnderWay
  <2> QED BY <1>7, <2>1, GoesOn DEF LockListings
<1>8. CASE LockAgain(t)
  <2>1. {"listings", "late"} \subseteq Stage /\ UnderWay("listings")
    BY DEF Stage, Ended, UnderWay
  <2> QED BY <1>8, <2>1, GoesOn DEF LockAgain
<1>9. CASE Decide(t)
  <2>1. {"late", "update", "decided"} \subseteq Stage /\ UnderWay("late") /\ UnderWay("update")
    BY DEF Stage, Ended, UnderWay
  <2>2. /\ Through(t, "late") \/ Through(t, "update")
        /\ GoTo(t, "decided", {}) /\ UNCHANGED <<vars, request, past, held>>
    BY <1>9 DEF Decide, Locked
  <2> QED BY <2>1, <2>2, GoesOn
<1>10. CASE Fail(t)
  BY <1>10, LeavingKeeps DEF Fail, Through, Ended
<1>11. CASE Refuse(t)
  <2>1. stage[t] # "new" /\ Leave(t, "refused") /\ UNCHANGED <<vars, request, past>>
    BY <1>11 DEF Refuse, Through, Locked
  <2> QED BY <2>1, LeavingKeeps DEF Ended
<1>12. CASE Lose(t)
  BY <1>12, LeavingKeeps DEF Lose, Ended
<1>13. UNCHANGED vars
  BY DEF Start, Choose, ReadItems, LockRow, LockLots, LockItems, LockListings, LockAgain,
         Fail, Decide, Refuse, Lose
<1> QED BY <1>1, <1>2, <1>3, <1>4, <1>5, <1>6, <1>7, <1>8, <1>9, <1>10, <1>11, <1>12, <1>13
LEMMA CommitKeeps ==
    ASSUME LockInvariant, EditsAreAlone, NEW t \in Txn, Commit(t)
    PROVE  LockInvariant' /\ Next
<1> DEFINE r == request[t]
<1>1. PICK scene \in Scenarios : \A u \in Txn : request[u] \in scene.requests
  BY DEF LockInvariant
<1>2. \A u \in Txn : request[u] \in Requests /\ request[u].kind \notin {"edit", "bulk"}
  BY <1>1, ScenariosAreRequests DEF EditsAreAlone
<1>3. /\ UnderWay(stage[t]) /\ stage[t] # "first" /\ Effect(t) /\ past = <<>>
      /\ Leave(t, "committed") /\ UNCHANGED <<request, past>>
  <2>1. stage[t] = "decided"
    BY DEF Commit
  <2> QED BY <2>1 DEF Commit, LockInvariant, UnderWay, Ended
<1>4. Allowed(r) /\ FirstRow(r) \subseteq held[t]
  BY <1>3 DEF LockInvariant
<1>5. Next
  BY <1>2, <1>3, <1>4, EffectIsAStep
<1>6. TypeOK' /\ OfferInv' /\ OrderInv'
  <2>1. TypeOK /\ OfferInv /\ OrderInv
    BY DEF LockInvariant
  <2> QED BY <1>5, <2>1, TypeStep, OfferStep, OrderStep
<1>7. /\ stage'[t] = "committed" /\ held'[t] = {}
      /\ \A u \in Txn \ {t} :
           stage'[u] = stage[u] /\ todo'[u] = todo[u] /\ held'[u] = held[u]
      /\ stage' = [u \in Txn |-> stage'[u]]
      /\ todo' = [u \in Txn |-> todo'[u]]
      /\ held' = [u \in Txn |-> held'[u]]
  BY <1>3 DEF Leave, LockInvariant
<1>8. ASSUME NEW u \in Txn \ {t}, UnderWay(stage[u]), stage[u] # "first"
      PROVE  Allowed(request[u])'
  <2> DEFINE o == request[u].order
             to == request[u].to
  <2> SUFFICES ASSUME request[u].kind = "status"
               PROVE  MaySetStatus(o, to)'
    BY <1>3 DEF Allowed
  <2>1. o \in Order
    BY <1>2 DEF Requests
  <2>2. MaySetStatus(o, to) /\ o \in held[u]
    BY <1>8 DEF LockInvariant, Allowed, FirstRow
  <2>3. ~WritesOrder(r, o)
    <3>1. r.kind \in {"status", "revise"} => FirstRow(r) = {r.order}
      BY DEF FirstRow
    <3>2. held[t] \cap held[u] = {}
      BY DEF LockInvariant
    <3>3. r.kind = "checkout" => orderStatus[r.order] = "none"
      BY <1>3 DEF Effect, Alone, PlaceOrder, NewOrder
    <3>4. r.kind = "sale" => orderStatus[r.order] = "none"
      BY <1>3 DEF Effect, Alone, RecordSale, NewOrder
    <3>5. orderStatus[o] # "none"
      BY <2>2 DEF MaySetStatus
    <3> QED BY <1>4, <2>2, <3>1, <3>2, <3>3, <3>4, <3>5 DEF WritesOrder
  <2>4. r.kind = "loss" => to \notin StockReturning
    BY <1>1 DEF EditsAreAlone
  <2>5. TypeOK /\ OfferInv /\ OrderInv
    BY DEF LockInvariant
  <2> QED BY <1>2, <1>3, <2>1, <2>2, <2>3, <2>4, <2>5, StaysAllowed
<1>9. \A u \in Txn : UnderWay(stage'[u]) =>
        /\ FirstRow(request'[u]) \subseteq
             held'[u] \cup (IF stage'[u] = "first" THEN todo'[u] ELSE {})
        /\ stage'[u] # "first" => Allowed(request[u])'
  <2>1. ~UnderWay(stage'[t])
    BY <1>7 DEF UnderWay, Ended
  <2> QED BY <1>3, <1>7, <1>8, <2>1 DEF LockInvariant
<1>10. \A u, v \in Txn : u # v => held'[u] \cap held'[v] = {}
  BY <1>7 DEF LockInvariant
<1>11. /\ past' \in Seq(Requests) /\ past' = <<>>
       /\ \E s \in Scenarios : \A u \in Txn : request'[u] \in s.requests
  BY <1>1, <1>3 DEF LockInvariant
<1> QED BY <1>5, <1>6, <1>7, <1>9, <1>10, <1>11 DEF LockInvariant, UnderWay

LEMMA HistoryKeeps ==
    ASSUME LockInvariant, MakeHistory
    PROVE  LockInvariant' /\ Next
<1>1. past # <<>> /\ past \in Seq(Requests) /\ Alone(Head(past)) /\ past' = Tail(past)
      /\ UNCHANGED <<request, stage, todo, held>>
  BY DEF MakeHistory, LockInvariant, lockVars
<1>2. Head(past) \in Requests /\ past' \in Seq(Requests)
  BY <1>1
<1>3. Next
  BY <1>1, <1>2, AloneIsAStep
<1>4. TypeOK' /\ OfferInv' /\ OrderInv'
  <2>1. TypeOK /\ OfferInv /\ OrderInv
    BY DEF LockInvariant
  <2> QED BY <1>3, <2>1, TypeStep, OfferStep, OrderStep
<1>5. \A t \in Txn : ~UnderWay(stage'[t]) /\ stage'[t] = "new"
  BY <1>1 DEF LockInvariant, UnderWay
<1> QED BY <1>1, <1>2, <1>3, <1>4, <1>5 DEF LockInvariant, UnderWay

LEMMA LockStep ==
    ASSUME LockInvariant, EditsAreAlone, [LockNext]_allVars
    PROVE  LockInvariant' /\ [Next]_vars
<1>1. CASE UNCHANGED allVars
  <2>1. UNCHANGED <<vars, request, past, stage, todo, held>>
    BY <1>1 DEF allVars, lockVars
  <2>2. TypeOK' /\ OfferInv' /\ OrderInv'
    <3>1. TypeOK /\ OfferInv /\ OrderInv /\ [Next]_vars
      BY <2>1 DEF LockInvariant
    <3> QED BY <3>1, TypeStep, OfferStep, OrderStep
  <2>3. \A t \in Txn : Allowed(request[t])' <=> Allowed(request[t])
    BY <2>1 DEF Allowed, MaySetStatus, ReturnsStock, NoStockToReturn, Lines, vars, orderVars,
                listingVars
  <2> QED BY <2>1, <2>2, <2>3 DEF LockInvariant, UnderWay, FirstRow
<1>2. CASE MakeHistory
  BY <1>2, HistoryKeeps
<1>3. ASSUME NEW t \in Txn, GoOn(t) \/ Lose(t)
      PROVE  LockInvariant' /\ [Next]_vars
  <2>1. CASE Commit(t)
    BY <2>1, CommitKeeps
  <2>2. CASE ~Commit(t)
    BY <1>3, <2>2, StatementKeeps DEF GoOn
  <2> QED BY <2>1, <2>2
<1> QED BY <1>1, <1>2, <1>3 DEF LockNext, AllOver

LEMMA LockStarts ==
    ASSUME LockInit
    PROVE  LockInvariant /\ Init
<1>1. Init
  BY DEF LockInit
<1>2. TypeOK /\ OfferInv /\ OrderInv
  BY <1>1, TypeInit, OfferInit, OrderInit
<1>3. PICK scene \in Scenarios : request \in [Txn -> scene.requests] /\ past \in scene.histories
  BY DEF LockInit
<1>4. past \in Seq(Requests) /\ \A t \in Txn : request[t] \in scene.requests
  BY <1>3, ScenariosAreRequests
<1>5. \A t \in Txn : stage[t] = "new" /\ held[t] = {} /\ ~UnderWay(stage[t])
  BY DEF LockInit, UnderWay
<1>6. /\ stage = [t \in Txn |-> stage[t]] /\ todo = [t \in Txn |-> todo[t]]
      /\ held = [t \in Txn |-> held[t]]
  BY DEF LockInit
<1> QED BY <1>1, <1>2, <1>4, <1>5, <1>6 DEF LockInvariant

\* Requests made at the same time are requests of the shop made one at a time,
\* for any number of transactions that wait for each other's rows, as long as
\* no edit of an item's standing, and no loss beside a cancellation, is among
\* them (offering_writes.py, lock_for_sale; docs/specs/lock-order-design.md).
THEOREM AsIfAloneHolds ==
    ASSUME EditsAreAlone
    PROVE  LockSpec => AsIfAlone
<1>1. LockInit => LockInvariant
  BY LockStarts
<1>2. LockInvariant /\ [LockNext]_allVars => LockInvariant' /\ [Next]_vars
  BY LockStep
<1> QED BY <1>1, <1>2, PTL DEF LockSpec, AsIfAlone

\* So what the shop promises of requests in turn holds of requests at the same
\* time: one offer of a coin, which is in hand, its unit in one place, no coin
\* sold twice, and each step one of the promise (offering_writes.py,
\* order_writes.py).
THEOREM PromisesStandAtOnce ==
    ASSUME EditsAreAlone
    PROVE  LockSpec => /\ Spec /\ KeepsPromises
                       /\ []OneOffer /\ []OfferedIsInHand
                       /\ []StockConserved /\ []NoDoubleSale
<1>1. LockInit => Init
  BY LockStarts
<1>2. LockSpec => Spec
  BY <1>1, AsIfAloneHolds, PTL DEF LockSpec, AsIfAlone, Spec
<1> QED BY <1>2, OneOfferHolds, OfferedIsInHandHolds, StockConservedHolds, NoDoubleSaleHolds,
          KeepsPromisesHolds, PTL

-----------------------------------------------------------------------------
(* The rows a request writes.                                              *)

\* What surrounds an offer: its coins, every offer of one of them, its lot.
Around(l) == OfferedItems(l) \cup OffersHolding(OfferedItems(l)) \cup LotsOf({l})

Surroundings(L) == UNION {Around(l) : l \in {m \in L : Live(m)}}

\* The rows that take stock back.
ReturnRows(L) == L \cup {i \in Item : \E l \in L : subject[l] = i}

\* The rows a request may write, those it inserts apart.
Touched(r) ==
    CASE r.kind \in {"add member", "remove member", "delete lot"} -> {r.lot}
      [] r.kind \in {"receive", "delete item"} -> {r.item}
      [] r.kind = "offer" -> {r.item} \cup OffersHolding({r.item})
      [] r.kind = "offer lot" ->
            {r.lot} \cup members[r.lot] \cup OffersHolding(members[r.lot])
      [] r.kind = "checkout" -> Surroundings(r.listings)
      [] r.kind = "sale" -> Surroundings({r.listing})
      [] r.kind = "end" ->
            Surroundings({r.listing}) \cup {i \in Item : subject[r.listing] = i}
      [] r.kind = "loss" -> {r.item} \cup Surroundings(OffersHolding({r.item}))
      [] r.kind = "split" -> {r.item} \cup Surroundings({l \in Listing : subject[l] = r.item})
      [] r.kind = "status" ->
            {r.order} \cup (IF ReturnsStock(r.order, r.to) THEN ReturnRows(Lines(r.order)) ELSE {})
      [] r.kind = "revise" ->
            {r.order} \cup ReturnRows(Lines(r.order))
                \cup Surroundings(r.listings \ Lines(r.order))
      [] OTHER -> {}

SameItemRow(i) ==
    itemStatus'[i] = itemStatus[i] /\ gone'[i] = gone[i] /\ disposition'[i] = disposition[i]

SameLotRow(k) == lotStatus'[k] = lotStatus[k] /\ members'[k] = members[k]

SameListingRow(l) ==
    /\ listingStatus'[l] = listingStatus[l] /\ pausedBy'[l] = pausedBy[l]
    /\ quantity'[l] = quantity[l] /\ claim'[l] = claim[l]

WritesOnly(W) ==
    /\ \A i \in Item \ W : SameItemRow(i)
    /\ \A k \in Lot \ W : lotStatus[k] # "absent" => SameLotRow(k)
    /\ \A l \in Listing \ W : listingStatus[l] # "unused" => SameListingRow(l)
    /\ \A o \in Order \ W : orderStatus[o] # "none" => SameOrderRow(o)

\* What is in the surroundings of an offer.
LEMMA AroundAnOffer ==
    ASSUME TypeOK, OfferInv, OrderInv, NEW l \in Listing, Live(l)
    PROVE  /\ l \in Around(l)
           /\ \A i \in Item : Names(l, i) => i \in Around(l)
           /\ \A p \in PausedBy({l}) : p \in Around(l)
           /\ \A p \in PausedBy({l}), i \in Item : Names(p, i) => i \in Around(l)
           /\ \A k \in Lot : subject[l] = k => k \in Around(l)
<1>1. \A i \in Item : i \in OfferedItems(l) <=> Names(l, i)
  BY OfferedIsNamed
<1>2. PICK c \in OfferedItems(l) : TRUE
  BY LiveOffersACoin DEF OrderInv
<1>3. OfferedItems(l) \in SUBSET Item
  BY OfferedItemsType
<1>4. l \in OffersHolding(OfferedItems(l))
  BY <1>1, <1>2, <1>3 DEF OffersHolding
<1>5. ASSUME NEW p \in PausedBy({l})
      PROVE  /\ p \in OffersHolding(OfferedItems(l))
             /\ \A i \in Item : Names(p, i) => i \in OfferedItems(l)
  <2>1. p \in Listing /\ listingStatus[p] = "paused" /\ pausedBy[p] = l
    BY <1>5 DEF PausedBy
  <2>2. subject[p] \in Item /\ Names(l, subject[p])
    BY <2>1 DEF OfferInv, PausedIsWaiting
  <2>3. \A i \in Item : Names(p, i) => i = subject[p]
    BY <2>1, <2>2 DEF Names, OfferInv, ClaimsOwnItem
  <2>4. Names(p, subject[p]) /\ Live(p)
    BY <2>1 DEF Names, Live, OnOffer
  <2> QED BY <1>1, <2>1, <2>2, <2>3, <2>4 DEF OffersHolding
<1> QED BY <1>1, <1>4, <1>5 DEF Around, LotsOf

\* An ending writes in the surroundings of what it ends.
LEMMA EndingTouches ==
    ASSUME TypeOK, OfferInv, OrderInv, NEW E \in SUBSET Listing, \A e \in E : Live(e),
           NEW sold \in BOOLEAN, NEW filed, EndOffers(E, sold, filed), UNCHANGED subject
    PROVE  /\ \A l \in Listing \ Surroundings(E) :
                /\ listingStatus'[l] = listingStatus[l] /\ pausedBy'[l] = pausedBy[l]
                /\ claim'[l] = claim[l]
           /\ \A i \in Item \ Surroundings(E) : disposition'[i] = filed[i]
           /\ \A k \in Lot \ Surroundings(E) : SameLotRow(k)
<1>1. \A e \in E : Around(e) \subseteq Surroundings(E)
  BY DEF Surroundings
<1>2. E \cup PausedBy(E) \subseteq Surroundings(E)
  <2>1. \A p \in PausedBy(E) : \E e \in E : p \in PausedBy({e})
    BY DEF PausedBy
  <2> QED BY <1>1, <2>1, AroundAnOffer
<1>3. \A i \in AffectedItems(E) : i \in Surroundings(E)
  <2> SUFFICES ASSUME NEW i \in AffectedItems(E)
               PROVE  i \in Surroundings(E)
    OBVIOUS
  <2>1. PICK l \in Listing : (l \in E \/ pausedBy[l] \in E) /\ Names(l, i)
    BY DEF AffectedItems
  <2>2. i \in Item
    BY DEF AffectedItems
  <2>3. CASE l \in E
    BY <1>1, <2>1, <2>2, <2>3, AroundAnOffer
  <2>4. CASE pausedBy[l] \in E /\ l \notin E
    <3>1. listingStatus[l] = "paused"
      BY <2>4, SubjectsApart DEF OfferInv, PausedIsWaiting
    <3>2. l \in PausedBy({pausedBy[l]})
      BY <2>4, <3>1 DEF PausedBy
    <3> QED BY <1>1, <2>1, <2>2, <2>4, <3>2, AroundAnOffer
  <2> QED BY <2>1, <2>3, <2>4
<1>4. ASSUME NEW l \in Listing \ Surroundings(E)
      PROVE  /\ listingStatus'[l] = listingStatus[l] /\ pausedBy'[l] = pausedBy[l]
             /\ claim'[l] = claim[l]
  <2>1. l \notin E \cup PausedBy(E)
    BY <1>2, <1>4
  <2>2. l \notin Closing(E, sold) /\ l \notin Resuming(E, sold)
    BY <2>1 DEF Closing, Resuming
  <2>3. listingStatus'[l] = listingStatus[l] /\ pausedBy'[l] = pausedBy[l]
    BY <2>1, <2>2, EndingStatus
  <2>4. ASSUME NEW i \in Item
        PROVE  claim'[l][i] = claim[l][i]
    <3>1. ClaimAfter(E, sold)[l][i] = claim[l][i]
      BY <2>2 DEF ClaimAfter
    <3>2. CASE claim[l][i] \in HeldBy
      <4>1. Live(l)
        BY <3>2 DEF OfferInv, ClaimFollowsListing, Live, OnOffer, HeldBy
      <4>2. listingStatus'[l] \in OnOffer
        BY <2>3, <4>1 DEF Live
      <4> QED BY <3>1, <4>2, EndingClaim
    <3>3. CASE claim[l][i] \notin HeldBy
      BY <3>1, <3>3, EndingClaim
    <3> QED BY <3>2, <3>3
  <2>5. claim' = [m \in Listing |-> [i \in Item |-> claim'[m][i]]]
    BY DEF EndOffers
  <2>6. claim[l] = [i \in Item |-> claim[l][i]] /\ claim'[l] = [i \in Item |-> claim'[l][i]]
    BY <2>5 DEF TypeOK
  <2> QED BY <2>3, <2>4, <2>6
<1>5. ASSUME NEW i \in Item \ Surroundings(E)
      PROVE  disposition'[i] = filed[i]
  <2>1. i \notin ComingHome(E, sold, filed)
    BY <1>3, <1>5 DEF ComingHome
  <2> QED BY <2>1 DEF EndOffers
<1>6. ASSUME NEW k \in Lot \ Surroundings(E)
      PROVE  SameLotRow(k)
  <2>1. ~\E l \in E : subject[l] = k
    BY <1>1, <1>6, AroundAnOffer
  <2> QED BY <2>1 DEF EndOffers, SameLotRow
<1> QED BY <1>4, <1>5, <1>6

LEMMA AssemblyWrites ==
    ASSUME TypeOK, NEW r \in Requests, Alone(r),
           r.kind \in {"create lot", "delete lot", "add member", "remove member"}
    PROVE  WritesOnly(Touched(r))
<1>1. UNCHANGED <<itemVars, listingVars, orderVars>> /\ r.lot \in Lot
  BY DEF Alone, CreateLot, DeleteLot, AddMember, RemoveMember, Requests
<1>2. r.kind = "create lot" => lotStatus[r.lot] = "absent"
  BY DEF Alone, CreateLot
<1>3. \A k \in Lot \ {r.lot} : SameLotRow(k)
  BY DEF Alone, CreateLot, DeleteLot, AddMember, RemoveMember, SameLotRow, TypeOK
<1>4. r.kind # "create lot" => Touched(r) = {r.lot}
  BY DEF Touched
<1> QED BY <1>1, <1>2, <1>3, <1>4 DEF WritesOnly, SameItemRow, SameListingRow, SameOrderRow,
           itemVars, listingVars, orderVars

LEMMA ItemWrites ==
    ASSUME TypeOK, NEW r \in Requests, Alone(r), r.kind \in {"receive", "delete item"}
    PROVE  WritesOnly(Touched(r))
<1>1. UNCHANGED <<disposition, listingVars, lotVars, orderVars>>
  BY DEF Alone, ReceiveItem, DeleteItem
<1>2. \A i \in Item \ {r.item} : itemStatus'[i] = itemStatus[i] /\ gone'[i] = gone[i]
  BY DEF Alone, ReceiveItem, DeleteItem, TypeOK
<1>3. Touched(r) = {r.item}
  BY DEF Touched
<1> QED BY <1>1, <1>2, <1>3 DEF WritesOnly, SameItemRow, SameLotRow, SameListingRow,
           SameOrderRow, lotVars, listingVars, orderVars

LEMMA OfferWritesOnly ==
    ASSUME TypeOK, NEW l \in Listing, NEW subj \in Item \cup Lot,
           NEW S \in SUBSET Item, NEW v \in Venue, OfferRows(l, subj, S, v),
           LotTaken(subj, S), NEW W, S \cup OffersHolding(S) \subseteq W,
           subj \in Lot => subj \in W
    PROVE  WritesOnly(W)
<1>1. listingStatus[l] = "unused" /\ UNCHANGED <<itemStatus, gone, orderVars>>
  BY DEF OfferRows
<1>2. \A i \in Item \ W : SameItemRow(i)
  BY <1>1 DEF OfferRows, SameItemRow
<1>3. \A k \in Lot \ W : SameLotRow(k)
  BY SubjectsApart DEF LotTaken, SameLotRow, lotVars, TypeOK
<1>4. ASSUME NEW m \in Listing \ W, listingStatus[m] # "unused"
      PROVE  SameListingRow(m)
  <2>1. m # l /\ m \notin OffersHolding(S)
    BY <1>1, <1>4
  <2>2. listingStatus'[m] = listingStatus[m] /\ pausedBy'[m] = pausedBy[m]
    BY <2>1, OfferWritesOther
  <2>3. quantity'[m] = quantity[m]
    BY <2>1 DEF OfferRows, TypeOK
  <2>4. claim'[m] = [i \in Item |-> claim[m][i]]
    BY <2>1 DEF OfferRows
  <2>5. claim[m] = [i \in Item |-> claim[m][i]]
    BY DEF TypeOK
  <2> QED BY <2>2, <2>3, <2>4, <2>5 DEF SameListingRow
<1>5. \A o \in Order : SameOrderRow(o)
  BY <1>1 DEF SameOrderRow, orderVars
<1> QED BY <1>2, <1>3, <1>4, <1>5 DEF WritesOnly

LEMMA MoreSurrounds ==
    ASSUME NEW S, NEW T, S \subseteq T
    PROVE  Surroundings(S) \subseteq Surroundings(T)
BY DEF Surroundings

LEMMA MovesWriteOnly ==
    ASSUME TypeOK, OfferInv, OrderInv, NEW o \in Order, NEW T, NEW G, NEW E,
           Moves(o, T, G, E), NEW W, Surroundings(T) \cup ReturnRows(G) \subseteq W,
           orderStatus[o] # "none" => o \in W
    PROVE  WritesOnly(W)
<1>1. /\ T \in SUBSET Listing /\ G \in SUBSET Listing /\ E \in SUBSET T
      /\ \A l \in T : Live(l)
      /\ EndOffers(E, TRUE, Filed(T, G))
      /\ UNCHANGED <<itemStatus, gone, subject, venue>>
  BY DEF Moves, MoveLines, Live, OnOffer
<1>2. \A l \in T : Around(l) \subseteq W
  BY <1>1 DEF Surroundings
<1>3. Surroundings(E) \subseteq W
  BY <1>1, MoreSurrounds
<1>4. /\ \A l \in Listing \ W :
           /\ listingStatus'[l] = listingStatus[l] /\ pausedBy'[l] = pausedBy[l]
           /\ claim'[l] = claim[l]
      /\ \A i \in Item \ W : disposition'[i] = Filed(T, G)[i]
      /\ \A k \in Lot \ W : SameLotRow(k)
  <2>1. E \in SUBSET Listing /\ \A e \in E : Live(e)
    BY <1>1
  <2>2. /\ \A l \in Listing \ Surroundings(E) :
                /\ listingStatus'[l] = listingStatus[l] /\ pausedBy'[l] = pausedBy[l]
                /\ claim'[l] = claim[l]
        /\ \A i \in Item \ Surroundings(E) : disposition'[i] = Filed(T, G)[i]
        /\ \A k \in Lot \ Surroundings(E) : SameLotRow(k)
    BY <1>1, <2>1, EndingTouches
  <2> QED BY <1>3, <2>2
<1>5. ASSUME NEW i \in Item \ W
      PROVE  Filed(T, G)[i] = disposition[i]
  <2>1. i \notin ItemsOf(SoldOutBy(T))
    <3>1. \A l \in T : i \notin OfferedItems(l)
      BY <1>1, <1>2, OfferedIsNamed, AroundAnOffer
    <3> QED BY <3>1 DEF ItemsOf, SoldOutBy
  <2>2. i \notin ItemsOf(BackOnSale(G))
    <3> SUFFICES ASSUME NEW l \in BackOnSale(G), i \in OfferedItems(l)
                 PROVE  FALSE
      BY DEF ItemsOf
    <3>1. l \in G /\ l \in Listing /\ listingStatus[l] = "active" /\ share[o][l] # {}
      BY <1>1 DEF BackOnSale, Moves
    <3>2. subject[l] \in Item
      BY <3>1 DEF OrderInv, LinesAreSold
    <3>3. subject[l] = i
      BY <3>1, <3>2, WhatIsOffered
    <3>4. i \in ReturnRows(G)
      BY <3>1, <3>3 DEF ReturnRows
    <3> QED BY <3>4
  <2> QED BY <2>1, <2>2 DEF Filed
<1>6. ASSUME NEW l \in Listing \ W
      PROVE  quantity'[l] = quantity[l]
  <2>1. l \notin T
    BY <1>1, <1>2, AroundAnOffer
  <2>2. l \notin G
    BY DEF ReturnRows
  <2> QED BY <2>1, <2>2, MovesWrites
<1>7. ASSUME NEW p \in Order \ W, orderStatus[p] # "none"
      PROVE  SameOrderRow(p)
  <2>1. p # o
    BY <1>7
  <2>2. share'[p] = share[p]
    BY <2>1 DEF Moves, MoveLines, TypeOK
  <2> QED BY <2>1, <2>2, MovesOthers DEF SameOrderRow
<1> QED BY <1>1, <1>4, <1>5, <1>6, <1>7 DEF WritesOnly, SameItemRow, SameListingRow

\* A withdrawal writes around what it ends, and the standing of its item.
LEMMA WithdrawalWrites ==
    ASSUME TypeOK, OfferInv, OrderInv, NEW E \in SUBSET Listing, \A e \in E : Live(e),
           EndOffers(E, FALSE, disposition), UNCHANGED <<subject, quantity, orderVars>>,
           NEW W, Surroundings(E) \subseteq W,
           \A i \in Item \ W : itemStatus'[i] = itemStatus[i] /\ gone'[i] = gone[i]
    PROVE  WritesOnly(W)
<1>1. /\ \A l \in Listing \ W :
           /\ listingStatus'[l] = listingStatus[l] /\ pausedBy'[l] = pausedBy[l]
           /\ claim'[l] = claim[l]
      /\ \A i \in Item \ W : disposition'[i] = disposition[i]
      /\ \A k \in Lot \ W : SameLotRow(k)
  <2>1. /\ \A l \in Listing \ Surroundings(E) :
                /\ listingStatus'[l] = listingStatus[l] /\ pausedBy'[l] = pausedBy[l]
                /\ claim'[l] = claim[l]
        /\ \A i \in Item \ Surroundings(E) : disposition'[i] = disposition[i]
        /\ \A k \in Lot \ Surroundings(E) : SameLotRow(k)
    BY EndingTouches
  <2> QED BY <2>1
<1>2. \A o \in Order : SameOrderRow(o)
  BY DEF SameOrderRow, orderVars
<1> QED BY <1>1, <1>2 DEF WritesOnly, SameItemRow, SameListingRow

LEMMA EndingAgainWrites ==
    ASSUME TypeOK, OfferInv, NEW l \in Listing, EndListingAgain(l), NEW W,
           {i \in Item : subject[l] = i} \subseteq W
    PROVE  WritesOnly(W)
<1>1. /\ UNCHANGED <<itemStatus, gone, listingStatus, subject, quantity, claim, members>>
      /\ UNCHANGED <<pausedBy, lotVars, orderVars>>
      /\ listingStatus[l] = "ended"
  BY EndingAgainSpares DEF EndListingAgain
<1>2. ASSUME NEW i \in Item \ W
      PROVE  disposition'[i] = disposition[i]
  <2>1. i \notin AffectedItems({l})
    <3> SUFFICES ASSUME NEW m \in Listing, m = l \/ pausedBy[m] = l, Names(m, i)
                 PROVE  FALSE
      BY DEF AffectedItems
    <3>1. m = l
      <4>1. pausedBy[m] = l => listingStatus[m] = "paused" /\ listingStatus[l] = "active"
        BY SubjectsApart DEF OfferInv, PausedIsWaiting
      <4> QED BY <1>1, <4>1
    <3>2. claim[l][i] \notin HeldBy
      BY <1>1 DEF OfferInv, ClaimFollowsListing, HeldBy
    <3> QED BY <1>2, <3>1, <3>2 DEF Names
  <2>2. i \notin ComingHome({l}, FALSE, disposition)
    BY <2>1 DEF ComingHome
  <2> QED BY <2>2 DEF EndListingAgain
<1> QED BY <1>1, <1>2 DEF WritesOnly, SameItemRow, SameLotRow, SameListingRow, SameOrderRow,
           lotVars, orderVars

\* A request writes the rows it touches, and the row it inserts.
LEMMA EffectWrites ==
    ASSUME TypeOK, OfferInv, OrderInv, NEW t \in Txn, request[t] \in Requests, Effect(t),
           request[t].kind \notin {"edit", "bulk"}, Allowed(request[t])
    PROVE  WritesOnly(Touched(request[t]))
<1> DEFINE r == request[t]
<1> HIDE DEF r
<1>0. r \in Requests /\ request[t] = r
  BY DEF r
<1>1. CASE r.kind \in {"create lot", "delete lot", "add member", "remove member"}
  BY <1>0, <1>1, AssemblyWrites DEF Effect
<1>2. CASE r.kind \in {"receive", "delete item"}
  BY <1>0, <1>2, ItemWrites DEF Effect
<1>3. CASE r.kind = "offer"
  <2>1. r.listing \in Listing /\ r.item \in Item /\ r.venue \in Venue
    BY <1>0, <1>3, RequestsNameRealCodes DEF Requests
  <2>2. OfferItem(r.listing, r.item, r.venue)
    BY <1>0, <1>3 DEF Effect, Alone
  <2>3. OfferRows(r.listing, r.item, {r.item}, r.venue) /\ LotTaken(r.item, {r.item})
    BY <2>1, <2>2, OfferTakesItem DEF OfferItem
  <2>4. Touched(r) = {r.item} \cup OffersHolding({r.item})
    BY <1>3 DEF Touched
  <2>5. r.item \in Item \cup Lot /\ {r.item} \in SUBSET Item /\ r.item \in Touched(r)
    BY <2>1, <2>4
  <2> QED BY <1>0, <2>1, <2>3, <2>4, <2>5, OfferWritesOnly
<1>4. CASE r.kind = "offer lot"
  <2>1. r.listing \in Listing /\ r.lot \in Lot /\ r.venue \in Venue
    BY <1>0, <1>4, RequestsNameRealCodes DEF Requests
  <2>2. OfferLot(r.listing, r.lot, r.venue)
    BY <1>0, <1>4 DEF Effect, Alone
  <2>3. /\ OfferRows(r.listing, r.lot, members[r.lot], r.venue)
        /\ LotTaken(r.lot, members[r.lot])
    BY <2>1, <2>2, OfferTakesLot DEF OfferLot, OfferInv
  <2>4. Touched(r) = {r.lot} \cup members[r.lot] \cup OffersHolding(members[r.lot])
    BY <1>4 DEF Touched
  <2>5. members[r.lot] \in SUBSET Item
    BY <2>1 DEF TypeOK
  <2> QED BY <1>0, <2>1, <2>3, <2>4, <2>5, OfferWritesOnly
<1>5. CASE r.kind = "checkout"
  <2>1. r.listings \in SUBSET Listing /\ r.order \in Order
    BY <1>0, <1>5 DEF Requests
  <2>2. PlaceOrder(r.order, r.listings)
    BY <1>0, <1>5 DEF Effect, Alone
  <2>3. orderStatus[r.order] = "none"
    BY <2>2 DEF PlaceOrder, NewOrder
  <2>4. Moves(r.order, r.listings, {}, LotsSoldOut(r.listings))
    BY <2>1, <2>2, PlacingMoves
  <2>5. Surroundings(r.listings) \cup ReturnRows({}) \subseteq Touched(r)
    BY <1>5 DEF Touched, ReturnRows
  <2> QED BY <1>0, <2>1, <2>3, <2>4, <2>5, MovesWriteOnly
<1>6. CASE r.kind = "sale"
  <2>1. r.listing \in Listing /\ r.order \in Order
    BY <1>0, <1>6 DEF Requests
  <2>2. RecordSale(r.order, r.listing)
    BY <1>0, <1>6 DEF Effect, Alone
  <2>3. orderStatus[r.order] = "none"
    BY <2>2 DEF RecordSale, NewOrder
  <2>4. Moves(r.order, {r.listing}, {}, {r.listing})
    BY <2>1, <2>2, RecordingMoves
  <2>5. Surroundings({r.listing}) \cup ReturnRows({}) \subseteq Touched(r)
    BY <1>6 DEF Touched, ReturnRows
  <2> QED BY <1>0, <2>1, <2>3, <2>4, <2>5, MovesWriteOnly
<1>7. CASE r.kind = "revise"
  <2> DEFINE taken == r.listings \ Lines(r.order)
             given == Lines(r.order) \ r.listings
  <2>1. r.listings \in SUBSET Listing /\ r.order \in Order
    BY <1>0, <1>7 DEF Requests
  <2>2. ReviseOrder(r.order, r.listings)
    BY <1>0, <1>7 DEF Effect, Alone
  <2>3. Moves(r.order, taken, given, LotsSoldOut(taken))
    BY <2>1, <2>2, RevisionMoves
  <2>4. Surroundings(taken) \cup ReturnRows(given) \subseteq Touched(r) /\ r.order \in Touched(r)
    BY <1>7 DEF Touched, ReturnRows
  <2> HIDE DEF taken, given
  <2> QED BY <1>0, <2>1, <2>3, <2>4, MovesWriteOnly
<1>8. CASE r.kind = "end"
  <2>1. r.listing \in Listing
    BY <1>0, <1>8 DEF Requests
  <2>2. Touched(r) = Surroundings({r.listing}) \cup {i \in Item : subject[r.listing] = i}
    BY <1>8 DEF Touched
  <2>3. CASE EndListing(r.listing)
    <3>1. /\ Live(r.listing) /\ EndOffers({r.listing}, FALSE, disposition)
          /\ UNCHANGED <<itemStatus, gone, subject, quantity, orderVars>>
      BY <2>3 DEF EndListing
    <3> QED BY <1>0, <2>1, <2>2, <3>1, WithdrawalWrites
  <2>4. CASE EndListingAgain(r.listing)
    BY <1>0, <2>1, <2>2, <2>4, EndingAgainWrites
  <2> QED BY <1>0, <1>8, <2>3, <2>4 DEF Effect
<1>9. CASE r.kind = "loss"
  <2>1. r.item \in Item
    BY <1>0, <1>9 DEF Requests
  <2>2. RecordLoss(r.item)
    BY <1>0, <1>9 DEF Effect, Alone
  <2>3. /\ EndOffers(OffersHolding({r.item}), FALSE, disposition)
        /\ UNCHANGED <<gone, subject, quantity, orderVars>>
        /\ \A i \in Item \ {r.item} : itemStatus'[i] = itemStatus[i]
    BY <2>2 DEF RecordLoss, TypeOK
  <2>4. Touched(r) = {r.item} \cup Surroundings(OffersHolding({r.item}))
    BY <1>9 DEF Touched
  <2>5. /\ OffersHolding({r.item}) \in SUBSET Listing
        /\ \A l \in OffersHolding({r.item}) : Live(l)
    BY DEF OffersHolding
  <2> QED BY <1>0, <2>1, <2>3, <2>4, <2>5, WithdrawalWrites
<1>10. CASE r.kind = "split"
  <2> DEFINE E == {l \in Listing : subject[l] = r.item /\ Live(l)}
  <2>1. r.item \in Item
    BY <1>0, <1>10 DEF Requests
  <2>2. SplitItem(r.item)
    BY <1>0, <1>10 DEF Effect, Alone
  <2>3. /\ EndOffers(E, FALSE, disposition)
        /\ UNCHANGED <<itemStatus, subject, quantity, orderVars>>
        /\ \A i \in Item \ {r.item} : gone'[i] = gone[i]
    BY <2>2 DEF SplitItem, TypeOK
  <2>4. Touched(r) = {r.item} \cup Surroundings({l \in Listing : subject[l] = r.item})
    BY <1>10 DEF Touched
  <2>5. E \in SUBSET Listing /\ (\A l \in E : Live(l)) /\ Surroundings(E) \subseteq Touched(r)
    BY <2>4 DEF Surroundings
  <2> HIDE DEF E
  <2> QED BY <1>0, <2>1, <2>3, <2>4, <2>5, WithdrawalWrites
<1>11. CASE r.kind = "status"
  <2> DEFINE given == IF ReturnsStock(r.order, r.to) THEN Lines(r.order) ELSE {}
  <2>1. r.order \in Order
    BY <1>0, <1>11 DEF Requests
  <2>2. ApplyStatus(r.order, r.to) /\ MaySetStatus(r.order, r.to)
    BY <1>0, <1>11 DEF Effect, Allowed
  <2>3. Touched(r) = {r.order} \cup ReturnRows(given)
    BY <1>11 DEF Touched, ReturnRows
  <2>4. /\ Restock({}, given) /\ disposition' = Filed({}, given)
        /\ UNCHANGED <<itemStatus, gone, lotVars, listingStatus, pausedBy, claim>>
    BY <2>2 DEF ApplyStatus
  <2>5. \A o \in Order \ {r.order} : SameOrderRow(o)
    BY <2>2 DEF ApplyStatus, WriteStatus, SameOrderRow, TypeOK
  <2>6. given \in SUBSET Listing
    BY DEF Lines
  <2>7. \A l \in given : share[r.order][l] # {}
    BY DEF Lines
  <2> HIDE DEF given
  <2>8. \A l \in Listing \ Touched(r) : SameListingRow(l)
    <3>1. \A l \in Listing \ Touched(r) : l \notin given
      BY <2>3 DEF ReturnRows
    <3> QED BY <2>4, <3>1 DEF SameListingRow, Restock
  <2>9. ASSUME NEW i \in Item \ Touched(r)
        PROVE  SameItemRow(i)
    <3>1. i \notin ItemsOf(BackOnSale(given))
      <4> SUFFICES ASSUME NEW l \in BackOnSale(given), i \in OfferedItems(l)
                   PROVE  FALSE
        BY DEF ItemsOf
      <4>1. l \in given /\ l \in Listing /\ listingStatus[l] = "active"
        BY <2>6 DEF BackOnSale
      <4>2. subject[l] \in Item
        BY <2>1, <2>7, <4>1 DEF OrderInv, LinesAreSold
      <4>3. subject[l] = i
        BY <4>1, <4>2, WhatIsOffered
      <4> QED BY <2>3, <4>1, <4>3 DEF ReturnRows
    <3>2. i \notin ItemsOf(SoldOutBy({}))
      BY DEF ItemsOf, SoldOutBy
    <3> QED BY <2>4, <3>1, <3>2 DEF Filed, SameItemRow
  <2>10. \A k \in Lot : SameLotRow(k)
    BY <2>4 DEF lotVars, SameLotRow
  <2> QED BY <1>0, <2>3, <2>5, <2>8, <2>9, <2>10 DEF WritesOnly
<1> QED BY <1>0, <1>1, <1>2, <1>3, <1>4, <1>5, <1>6, <1>7, <1>8, <1>9, <1>10, <1>11
        DEF Requests

-----------------------------------------------------------------------------
(* What the commit of another leaves.                                      *)

\* A listing keeps its subject, is never revived, and names the items it named
\* for as long as it is on offer.
LEMMA StepLeaves ==
    ASSUME TypeOK, OfferInv, OrderInv, [Next]_vars,
           NEW l \in Listing, listingStatus[l] # "unused"
    PROVE  /\ listingStatus'[l] # "unused" /\ subject'[l] = subject[l]
           /\ listingStatus'[l] \in OnOffer =>
                /\ Live(l)
                /\ \A i \in Item : subject'[l] = i \/ claim'[l][i] \in HeldBy <=> Names(l, i)
<1> DEFINE Kept ==
      /\ listingStatus'[l] # "unused" /\ subject'[l] = subject[l]
      /\ listingStatus'[l] \in OnOffer =>
           /\ Live(l)
           /\ \A i \in Item : subject'[l] = i \/ claim'[l][i] \in HeldBy <=> Names(l, i)
<1>1. UNCHANGED <<listingStatus, subject, claim>> => Kept
  BY DEF Live, Names
<1>2. LotRequest => UNCHANGED <<listingStatus, subject, claim>>
  BY AssemblyLeavesOffers DEF listingVars
<1>3. ASSUME NEW m \in Listing, NEW subj \in Item \cup Lot, NEW S \in SUBSET Item,
             NEW v \in Venue, Offers(m, subj, S, v)
      PROVE  Kept
  <2>1. OfferRows(m, subj, S, v) /\ (subj \in Item => S = {subj})
    BY <1>3 DEF Offers, Offer
  <2>2. l # m
    BY <2>1 DEF OfferRows
  <2>3. listingStatus'[l] # "unused"
    BY <2>1, <2>2, OfferWritesOther
  <2> QED BY <2>1, <2>2, <2>3, OfferSpares
<1>4. ASSUME NEW E \in SUBSET Listing, NEW sold \in BOOLEAN, NEW filed,
             EndOffers(E, sold, filed), UNCHANGED subject
      PROVE  Kept
  <2>1. listingStatus'[l] # "unused"
    BY <1>4, EndingStatus
  <2> QED BY <1>4, <2>1, EndingLeaves
<1>5. ASSUME NEW E \in SUBSET Listing, NEW filed, Withdraws(E, filed)
      PROVE  EndOffers(E, FALSE, filed) /\ UNCHANGED subject
  BY <1>5 DEF Withdraws
<1>6. ASSUME NEW m \in Listing, EndListingAgain(m)
      PROVE  UNCHANGED <<listingStatus, subject, claim>>
  BY <1>6, EndingAgainSpares
<1>7. ASSUME NEW o \in Order, NEW T, NEW G, NEW E, Moves(o, T, G, E)
      PROVE  EndOffers(E, TRUE, Filed(T, G)) /\ UNCHANGED subject /\ E \in SUBSET Listing
  BY <1>7 DEF Moves, MoveLines
<1>8. ASSUME NEW o \in Order, NEW to \in OrderStatus, SetOrderStatus(o, to)
      PROVE  UNCHANGED <<listingStatus, subject, claim>>
  BY <1>8 DEF SetOrderStatus, ApplyStatus
<1>9. Rests => UNCHANGED <<listingStatus, subject, claim>>
  BY DEF Rests, listingVars
<1> HIDE DEF Kept
<1>10. ASSUME NEW E \in SUBSET Listing, NEW filed, Withdraws(E, filed)
       PROVE  Kept
  BY <1>4, <1>5, <1>10
<1>11. ASSUME NEW o \in Order, NEW T, NEW G, NEW E, Moves(o, T, G, E)
       PROVE  Kept
  BY <1>4, <1>7, <1>11
<1>12. Kept
  BY <1>1, <1>2, <1>3, <1>6, <1>8, <1>9, <1>10, <1>11, StepKinds
<1> QED BY <1>12 DEF Kept

\* Only an offer adds a listing, its own, of items it touches.
LEMMA NewListing ==
    ASSUME TypeOK, OfferInv, OrderInv, NEW t \in Txn, request[t] \in Requests, Effect(t),
           request[t].kind \notin {"edit", "bulk"}, Allowed(request[t]),
           NEW l \in Listing, listingStatus[l] = "unused", listingStatus'[l] # "unused"
    PROVE  /\ request[t].kind \in {"offer", "offer lot"} /\ l = request[t].listing
           /\ \A i \in Item : subject'[l] = i \/ claim'[l][i] \in HeldBy =>
                 i \in Touched(request[t])
           /\ request[t].kind = "offer" => subject'[l] \in Item
<1> DEFINE r == request[t]
<1> HIDE DEF r
<1>0. r \in Requests /\ request[t] = r
  BY DEF r
<1>1. r.kind # "end" /\ r.kind # "status" => Alone(r)
  BY <1>0 DEF Effect
<1>2. ASSUME NEW E \in SUBSET Listing, \A e \in E : Live(e), NEW sold \in BOOLEAN, NEW filed,
             EndOffers(E, sold, filed)
      PROVE  FALSE
  <2>1. ~Live(l) /\ l \notin E \cup PausedBy(E)
    BY <1>2 DEF Live, OnOffer, PausedBy
  <2> QED BY <1>2, <2>1, EndingStatus DEF Closing, Resuming
<1>3. listingStatus' # listingStatus
  OBVIOUS
<1>4. CASE r.kind \in {"create lot", "delete lot", "add member", "remove member", "receive",
                       "delete item", "status"}
  BY <1>0, <1>1, <1>3, <1>4 DEF Effect, Alone, CreateLot, DeleteLot, AddMember, RemoveMember,
     ReceiveItem, DeleteItem, ApplyStatus, listingVars
<1>5. ASSUME NEW m \in Listing, NEW subj \in Item \cup Lot, NEW S \in SUBSET Item,
             NEW v \in Venue, OfferRows(m, subj, S, v), subj \in Item => S = {subj}
      PROVE  /\ l = m /\ subject'[l] = subj
             /\ \A i \in Item : subject'[l] = i \/ claim'[l][i] \in HeldBy => i \in S
  <2>1. l = m
    <3> SUFFICES ASSUME l # m PROVE FALSE
      OBVIOUS
    <3>1. l \notin OffersHolding(S)
      BY DEF OffersHolding, Live, OnOffer
    <3> QED BY <1>5, <3>1, OfferWritesOther
  <2>2. subject'[l] = subj
    BY <1>5, <2>1, OfferWrites
  <2>3. \A i \in Item : subject'[l] = i \/ claim'[l][i] \in HeldBy => i \in S
    BY <1>5, <2>1, OfferSpares
  <2> QED BY <2>1, <2>2, <2>3
<1>6. CASE r.kind = "offer"
  <2>1. r.listing \in Listing /\ r.item \in Item /\ r.venue \in Venue
    BY <1>0, <1>6, RequestsNameRealCodes DEF Requests
  <2>2. OfferRows(r.listing, r.item, {r.item}, r.venue)
    BY <1>1, <1>6 DEF Alone, OfferItem, Offer
  <2>3. Touched(r) = {r.item} \cup OffersHolding({r.item})
    BY <1>6 DEF Touched
  <2>4. r.item \in Item \cup Lot /\ {r.item} \in SUBSET Item
    BY <2>1
  <2>5. /\ l = r.listing /\ subject'[l] = r.item
        /\ \A i \in Item : subject'[l] = i \/ claim'[l][i] \in HeldBy => i \in {r.item}
    BY <1>5, <2>1, <2>2, <2>4
  <2> QED BY <1>0, <1>6, <2>1, <2>3, <2>5
<1>7. CASE r.kind = "offer lot"
  <2>1. r.listing \in Listing /\ r.lot \in Lot /\ r.venue \in Venue
    BY <1>0, <1>7, RequestsNameRealCodes DEF Requests
  <2>2. OfferRows(r.listing, r.lot, members[r.lot], r.venue)
    BY <1>1, <1>7 DEF Alone, OfferLot, Offer
  <2>3. Touched(r) = {r.lot} \cup members[r.lot] \cup OffersHolding(members[r.lot])
    BY <1>7 DEF Touched
  <2>4. members[r.lot] \in SUBSET Item /\ r.lot \in Item \cup Lot /\ r.lot \notin Item
    BY <2>1, SubjectsApart DEF TypeOK
  <2>5. /\ l = r.listing /\ subject'[l] = r.lot
        /\ \A i \in Item : subject'[l] = i \/ claim'[l][i] \in HeldBy => i \in members[r.lot]
    BY <1>5, <2>1, <2>2, <2>4
  <2> QED BY <1>0, <1>7, <2>1, <2>3, <2>5
<1>8. CASE r.kind \in {"checkout", "sale", "revise"}
  <2>1. ASSUME NEW o \in Order, NEW T, NEW G, NEW E, Moves(o, T, G, E)
        PROVE  FALSE
    <3>1. /\ EndOffers(E, TRUE, Filed(T, G)) /\ E \in SUBSET Listing
          /\ \A e \in E : Live(e)
      BY <2>1 DEF Moves, MoveLines, Live, OnOffer
    <3> QED BY <1>2, <3>1
  <2>2. r.order \in Order
    BY <1>0, <1>8 DEF Requests
  <2>3. CASE r.kind = "checkout"
    <3>1. r.listings \in SUBSET Listing /\ PlaceOrder(r.order, r.listings)
      BY <1>0, <1>1, <2>3 DEF Alone, Requests
    <3>2. Moves(r.order, r.listings, {}, LotsSoldOut(r.listings))
      BY <2>2, <3>1, PlacingMoves
    <3> QED BY <2>1, <2>2, <3>2
  <2>4. CASE r.kind = "sale"
    <3>1. r.listing \in Listing /\ RecordSale(r.order, r.listing)
      BY <1>0, <1>1, <2>4 DEF Alone, Requests
    <3>2. Moves(r.order, {r.listing}, {}, {r.listing})
      BY <2>2, <3>1, RecordingMoves
    <3> QED BY <2>1, <2>2, <3>2
  <2>5. CASE r.kind = "revise"
    <3>1. r.listings \in SUBSET Listing /\ ReviseOrder(r.order, r.listings)
      BY <1>0, <1>1, <2>5 DEF Alone, Requests
    <3>2. Moves(r.order, r.listings \ Lines(r.order), Lines(r.order) \ r.listings,
                LotsSoldOut(r.listings \ Lines(r.order)))
      BY <2>2, <3>1, RevisionMoves
    <3> QED BY <2>1, <2>2, <3>2
  <2> QED BY <1>8, <2>3, <2>4, <2>5
<1>9. CASE r.kind = "end"
  <2>1. r.listing \in Listing /\ (EndListing(r.listing) \/ EndListingAgain(r.listing))
    BY <1>0, <1>9 DEF Effect, Requests
  <2>2. ~EndListingAgain(r.listing)
    BY <1>3 DEF EndListingAgain
  <2>3. Live(r.listing) /\ EndOffers({r.listing}, FALSE, disposition)
    BY <2>1, <2>2 DEF EndListing
  <2> QED BY <1>2, <2>1, <2>3
<1>10. CASE r.kind = "loss"
  <2>1. EndOffers(OffersHolding({r.item}), FALSE, disposition)
    BY <1>1, <1>10 DEF Alone, RecordLoss
  <2>2. /\ OffersHolding({r.item}) \in SUBSET Listing
        /\ \A e \in OffersHolding({r.item}) : Live(e)
    BY DEF OffersHolding
  <2> QED BY <1>2, <2>1, <2>2
<1>11. CASE r.kind = "split"
  <2> DEFINE E == {m \in Listing : subject[m] = r.item /\ Live(m)}
  <2>1. EndOffers(E, FALSE, disposition)
    BY <1>1, <1>11 DEF Alone, SplitItem
  <2>2. E \in SUBSET Listing /\ \A e \in E : Live(e)
    OBVIOUS
  <2> HIDE DEF E
  <2> QED BY <1>2, <2>1, <2>2
<1> QED BY <1>0, <1>4, <1>6, <1>7, <1>8, <1>9, <1>10, <1>11 DEF Requests

Used(l) == listingStatus[l] # "unused"

\* Nobody edits; no lot is offered beside the loss of an item, which may then
\* wait out of order (the run MCDeadlock); no listing is bought beside the
\* request that makes it.
RequestsAreApart ==
    /\ EditsAreAlone
    /\ \A scene \in Scenarios : \A r, s \in scene.requests :
          /\ r.kind = "loss" => s.kind # "offer lot"
          /\ r.kind \in {"offer", "offer lot"} /\ s.kind \in {"checkout", "revise"} =>
                r.listing \notin s.listings

\* What request r, holding the rows H, sees of a step of the others.
Elsewhere(r, H) ==
    /\ \A k \in Lot : k \in H /\ lotStatus[k] # "absent" => SameLotRow(k)
    /\ \A o \in Order : o \in H /\ orderStatus[o] # "none" => SameOrderRow(o)
    /\ \A l \in Listing : listingStatus[l] # "unused" =>
         /\ listingStatus'[l] # "unused" /\ subject'[l] = subject[l]
         /\ listingStatus'[l] \in OnOffer =>
              /\ Live(l)
              /\ \A i \in Item : subject'[l] = i \/ claim'[l][i] \in HeldBy <=> Names(l, i)
    /\ \A l \in Listing : listingStatus[l] = "unused" /\ listingStatus'[l] # "unused" =>
         /\ \A i \in Item : i \in H => ~(subject'[l] = i \/ claim'[l][i] \in HeldBy)
         /\ r.kind = "loss" => subject'[l] \notin Lot
         /\ r.kind \in {"checkout", "revise"} => l \notin r.listings

\* A step that writes nothing is such a step.
LEMMA NothingElsewhere ==
    ASSUME UNCHANGED vars, NEW r, NEW H
    PROVE  Elsewhere(r, H)
BY DEF Elsewhere, SameLotRow, SameOrderRow, Live, Names, vars, lotVars, listingVars, orderVars

\* So is the commit of another, which holds the rows it touches.
LEMMA CommitElsewhere ==
    ASSUME TypeOK, OfferInv, OrderInv, RequestsAreApart, NEW t \in Txn, NEW u \in Txn,
           \E scene \in Scenarios : \A v \in Txn : request[v] \in scene.requests,
           Effect(u), Allowed(request[u]), Touched(request[u]) \subseteq held[u],
           held[t] \cap held[u] = {}
    PROVE  Elsewhere(request[t], held[t])
<1> DEFINE r == request[t]
           q == request[u]
           H == held[t]
<1>1. PICK scene \in Scenarios : \A v \in Txn : request[v] \in scene.requests
  OBVIOUS
<1>2. q \in Requests /\ q.kind \notin {"edit", "bulk"}
  BY <1>1, ScenariosAreRequests DEF RequestsAreApart, EditsAreAlone
<1>3. /\ r.kind = "loss" => q.kind # "offer lot"
      /\ q.kind \in {"offer", "offer lot"} /\ r.kind \in {"checkout", "revise"} =>
            q.listing \notin r.listings
  BY <1>1 DEF RequestsAreApart
<1>4. WritesOnly(Touched(q)) /\ \A x \in H : x \notin Touched(q)
  BY <1>2, EffectWrites
<1>5. [Next]_vars
  BY <1>2, EffectIsAStep
<1>6. /\ \A k \in Lot : k \in H /\ lotStatus[k] # "absent" => SameLotRow(k)
      /\ \A o \in Order : o \in H /\ orderStatus[o] # "none" => SameOrderRow(o)
  BY <1>4 DEF WritesOnly
<1>7. \A l \in Listing : listingStatus[l] # "unused" =>
         /\ listingStatus'[l] # "unused" /\ subject'[l] = subject[l]
         /\ listingStatus'[l] \in OnOffer =>
              /\ Live(l)
              /\ \A i \in Item : subject'[l] = i \/ claim'[l][i] \in HeldBy <=> Names(l, i)
  BY <1>5, StepLeaves
<1>8. ASSUME NEW l \in Listing, listingStatus[l] = "unused", listingStatus'[l] # "unused"
      PROVE  /\ \A i \in Item : i \in H => ~(subject'[l] = i \/ claim'[l][i] \in HeldBy)
             /\ r.kind = "loss" => subject'[l] \notin Lot
             /\ r.kind \in {"checkout", "revise"} => l \notin r.listings
  <2>1. /\ q.kind \in {"offer", "offer lot"} /\ l = q.listing
        /\ \A i \in Item : subject'[l] = i \/ claim'[l][i] \in HeldBy => i \in Touched(q)
        /\ q.kind = "offer" => subject'[l] \in Item
    BY <1>2, <1>8, NewListing
  <2> QED BY <1>3, <1>4, <2>1, SubjectsApart
<1> QED BY <1>6, <1>7, <1>8 DEF Elsewhere

\* The offers of items that are held are not joined by others.
LEMMA OffersStay ==
    ASSUME NEW r, NEW H, Elsewhere(r, H), NEW S, S \subseteq Item, S \subseteq H,
           NEW l \in Listing, listingStatus'[l] \in OnOffer,
           \E i \in S : subject'[l] = i \/ claim'[l][i] \in HeldBy
    PROVE  l \in OffersHolding(S)
<1>1. listingStatus[l] # "unused"
  BY DEF Elsewhere, OnOffer
<1> QED BY <1>1 DEF Elsewhere, OffersHolding

\* What surrounds an offer is held, and stays what surrounds it.
LEMMA AroundStays ==
    ASSUME TypeOK, OfferInv, NEW r, NEW H, Elsewhere(r, H),
           NEW l \in Listing, listingStatus[l] # "unused", listingStatus'[l] \in OnOffer,
           Live(l) => Around(l) \subseteq H
    PROVE  Around(l)' \subseteq H
<1>1. Live(l) /\ Around(l) \subseteq H /\ subject'[l] = subject[l]
  BY DEF Elsewhere
<1>2. OfferedItems(l)' = OfferedItems(l)
  <2>1. CASE subject[l] \in Lot
    <3>1. subject[l] \in H
      BY <1>1, <2>1 DEF Around, LotsOf
    <3>2. lotStatus[subject[l]] # "absent"
      BY <1>1, <2>1 DEF OfferInv, LotListingHoldsMembers
    <3>3. members'[subject[l]] = members[subject[l]]
      BY <2>1, <3>1, <3>2 DEF Elsewhere, SameLotRow
    <3> QED BY <1>1, <3>3 DEF OfferedItems
  <2>2. CASE subject[l] \notin Lot
    BY <1>1, <2>2 DEF OfferedItems
  <2> QED BY <2>1, <2>2
<1>3. LotsOf({l})' = LotsOf({l})
  BY <1>1 DEF LotsOf
<1>4. OffersHolding(OfferedItems(l))' \subseteq OffersHolding(OfferedItems(l))
  <2> DEFINE S == OfferedItems(l)
  <2>1. S \subseteq Item /\ S \subseteq H
    BY <1>1, OfferedItemsType DEF Around
  <2>2. OffersHolding(OfferedItems(l))' =
          {m \in Listing : listingStatus'[m] \in OnOffer
                             /\ \E i \in S : subject'[m] = i \/ claim'[m][i] \in HeldBy}
    BY <1>2 DEF OffersHolding, Live, Names
  <2> HIDE DEF S
  <2>3. \A m \in Listing : listingStatus'[m] \in OnOffer
                             /\ (\E i \in S : subject'[m] = i \/ claim'[m][i] \in HeldBy)
                             => m \in OffersHolding(S)
    BY <2>1, OffersStay
  <2>4. \A m \in OffersHolding(OfferedItems(l))' : m \in OffersHolding(S)
    BY <2>2, <2>3
  <2> QED BY <2>4 DEF S
<1> QED BY <1>1, <1>2, <1>3, <1>4 DEF Around

-----------------------------------------------------------------------------
(* What a request has found and locked, at every stage of its pass.        *)

\* Every row of T comes after every row of H.
InTurn(T, H) == \A a \in H, b \in T : Precedes(a, b)

\* The rows a stage may hold, H, and may wait for, T.
FitTheStage(r, s, T, H) ==
    /\ T \subseteq Row /\ H \subseteq Row
    /\ ~UnderWay(s) => T = {} /\ H = {}
    /\ s = "first" => T \cup H \subseteq FirstRow(r)
    /\ s \in {"chosen", "known"} => T = {} /\ H \subseteq FirstRow(r)
    /\ s = "lots" => T \subseteq Lot /\ H \subseteq FirstRow(r) \cup Lot
    /\ s = "items" => T \subseteq Item /\ H \subseteq FirstRow(r) \cup Lot \cup Item
    /\ s = "listings" => T \subseteq Listing
    /\ s = "update" => T \subseteq UpdatedRow(r)
    /\ s \in {"late", "decided"} => T = {}

\* What was found of existing rows at first.
Stands(r) ==
    /\ r.kind \in {"status", "revise"} => orderStatus[r.order] # "none"
    /\ r.kind = "offer lot" => Assembling(r.lot)
    /\ r.kind \in {"end", "sale"} => Used(r.listing)
    /\ r.kind = "split" => ~InOfferedLot(r.item)

\* What the listings N and the items I a request chose still are.
StillChosen(r, N, I) ==
    /\ r.kind \in {"offer", "offer lot", "checkout", "sale", "end", "loss", "split",
                   "status", "revise"}
    /\ N \subseteq Listing /\ I \subseteq Item
    /\ \A l \in N : Used(l) \/ (r.kind \in {"checkout", "revise"} /\ l \in r.listings)
    /\ r.kind \in {"loss", "offer"} => r.item \in I
    /\ r.kind = "offer lot" => N = {} /\ I = members[r.lot]
    /\ r.kind = "checkout" => N = r.listings
    /\ r.kind \in {"sale", "end"} => N = {r.listing}
    /\ r.kind = "status" => N = Lines(r.order)
    /\ r.kind = "revise" => N = Lines(r.order) \cup r.listings
    /\ r.kind = "loss" =>
          \A l \in Listing : Live(l) /\ Names(l, r.item) /\ subject[l] \in Lot => l \in N
    /\ r.kind = "split" =>
          /\ I \subseteq {r.item}
          /\ \A l \in N : subject[l] = r.item
          /\ \A l \in Listing : Live(l) /\ subject[l] = r.item => l \in N

\* The items they were found to reach, B, are among those to be locked.
StillKnown(N, I, B) ==
    /\ DOMAIN B = {l \in N : Used(l)}
    /\ \A l \in DOMAIN B : B[l] \subseteq I /\ (subject[l] \in Item => subject[l] \in I)

LotsTaken(D, R) == \A l \in D : subject[l] \in Lot => subject[l] \in R

OffersTaken(I, R) == OffersHolding(I) \subseteq R /\ \A l \in Listing : l \in R => Used(l)

\* The rows R are all the request touches, and what it takes exists.
Covers(r, R) ==
    /\ Touched(r) \subseteq R
    /\ r.kind \in {"checkout", "revise"} => \A l \in r.listings : Used(l)

Passing(r, s, T, H, p) ==
    /\ FitTheStage(r, s, T, H)
    /\ T \cap H = {} /\ InTurn(T, H)
    /\ UnderWay(s) /\ s # "first" => Stands(r)
    /\ s \in {"chosen", "known", "lots", "items", "listings"} => StillChosen(r, p.named, p.items)
    /\ s \in {"known", "lots", "items", "listings"} => StillKnown(p.named, p.items, p.before)
    /\ s \in {"lots", "items", "listings"} => LotsTaken(DOMAIN p.before, T \cup H)
    /\ s \in {"items", "listings"} => p.items \subseteq T \cup H
    /\ s = "listings" => OffersTaken(p.items, T \cup H)
    /\ s \in {"late", "update", "decided"} => Covers(r, T \cup H)

LEMMA StandsStays ==
    ASSUME TypeOK, OfferInv, OfferInv', NEW r \in Requests, NEW H, Elsewhere(r, H),
           FirstRow(r) \subseteq H, Stands(r)
    PROVE  Stands(r)'
<1>1. r.kind \in {"status", "revise"} => orderStatus'[r.order] # "none"
  <2> SUFFICES ASSUME r.kind \in {"status", "revise"}
               PROVE  orderStatus'[r.order] # "none"
    OBVIOUS
  <2>1. r.order \in Order /\ r.order \in H
    BY DEF Requests, FirstRow
  <2> QED BY <2>1 DEF Stands, Elsewhere, SameOrderRow
<1>2. r.kind = "offer lot" => Assembling(r.lot)'
  <2> SUFFICES ASSUME r.kind = "offer lot"
               PROVE  Assembling(r.lot)'
    OBVIOUS
  <2>1. r.lot \in Lot /\ r.lot \in H
    BY DEF Requests, FirstRow
  <2> QED BY <2>1 DEF Stands, Elsewhere, SameLotRow, Assembling
<1>3. r.kind \in {"end", "sale"} => Used(r.listing)'
  <2> SUFFICES ASSUME r.kind \in {"end", "sale"}
               PROVE  Used(r.listing)'
    OBVIOUS
  <2>1. r.listing \in Listing
    BY DEF Requests
  <2> QED BY <2>1 DEF Stands, Elsewhere, Used
<1>4. r.kind = "split" => ~InOfferedLot(r.item)'
  <2> SUFFICES ASSUME r.kind = "split", NEW k \in Lot, r.item \in members'[k],
                      lotStatus'[k] = "offered"
               PROVE  FALSE
    BY DEF InOfferedLot
  <2>1. r.item \in Item /\ r.item \in H
    BY DEF Requests, FirstRow
  <2>2. PICK l \in Listing : listingStatus'[l] \in OnOffer /\ subject'[l] = k
    BY DEF OfferInv, OfferedLotIsListed, Live
  <2>3. claim'[l][r.item] \in HeldBy
    BY <2>1, <2>2 DEF OfferInv, LotListingHoldsMembers, Live
  <2>4. listingStatus[l] # "unused"
    BY <2>1, <2>2, <2>3 DEF Elsewhere, OnOffer
  <2>5. Live(l) /\ Names(l, r.item) /\ subject[l] = k
    BY <2>1, <2>2, <2>3, <2>4 DEF Elsewhere
  <2>6. claim[l][r.item] \in HeldBy
    BY <2>1, <2>5, SubjectsApart DEF Names
  <2>7. lotStatus[k] = "offered" /\ r.item \in members[k]
    BY <2>1, <2>5, <2>6 DEF OfferInv, LotListingHoldsMembers
  <2> QED BY <2>7 DEF Stands, InOfferedLot
<1> QED BY <1>1, <1>2, <1>3, <1>4 DEF Stands

LEMMA LinesStay ==
    ASSUME NEW r \in Requests, NEW H, Elsewhere(r, H), FirstRow(r) \subseteq H, Stands(r),
           r.kind \in {"status", "revise"}
    PROVE  /\ Lines(r.order)' = Lines(r.order)
           /\ ReturnsStock(r.order, r.to)' = ReturnsStock(r.order, r.to)
<1>1. r.order \in Order /\ r.order \in H /\ orderStatus[r.order] # "none"
  BY DEF Requests, FirstRow, Stands
<1>2. SameOrderRow(r.order)
  BY <1>1 DEF Elsewhere
<1> QED BY <1>2 DEF SameOrderRow, Lines, ReturnsStock

LEMMA ChosenStays ==
    ASSUME TypeOK, OfferInv, NEW r \in Requests, NEW H, Elsewhere(r, H),
           FirstRow(r) \subseteq H, Stands(r), NEW N, NEW I, StillChosen(r, N, I)
    PROVE  StillChosen(r, N, I)'
<1>1. \A l \in N : Used(l)' \/ (r.kind \in {"checkout", "revise"} /\ l \in r.listings)
  BY DEF StillChosen, Elsewhere, Used
<1>2. r.kind = "offer lot" => I = members'[r.lot]
  <2> SUFFICES ASSUME r.kind = "offer lot"
               PROVE  I = members'[r.lot]
    OBVIOUS
  <2>1. r.lot \in Lot /\ r.lot \in H /\ lotStatus[r.lot] # "absent"
    BY DEF Requests, FirstRow, Stands, Assembling
  <2> QED BY <2>1 DEF StillChosen, Elsewhere, SameLotRow
<1>3. r.kind \in {"status", "revise"} => Lines(r.order)' = Lines(r.order)
  BY LinesStay
<1>4. ASSUME NEW l \in Listing, r.kind = "loss", listingStatus'[l] \in OnOffer,
             subject'[l] = r.item \/ claim'[l][r.item] \in HeldBy, subject'[l] \in Lot
      PROVE  l \in N
  <2>1. r.item \in Item
    BY <1>4 DEF Requests
  <2>2. listingStatus[l] # "unused"
    BY <1>4 DEF Elsewhere, OnOffer
  <2>3. Live(l) /\ Names(l, r.item) /\ subject[l] \in Lot
    BY <1>4, <2>1, <2>2 DEF Elsewhere
  <2> QED BY <1>4, <2>3 DEF StillChosen
<1>5. ASSUME r.kind = "split", NEW l \in Listing, listingStatus'[l] \in OnOffer,
             subject'[l] = r.item
      PROVE  l \in N
  <2>1. r.item \in Item /\ r.item \in H
    BY <1>5 DEF Requests, FirstRow
  <2>2. listingStatus[l] # "unused"
    BY <1>5, <2>1 DEF Elsewhere, OnOffer
  <2>3. Live(l) /\ subject[l] = r.item
    BY <1>5, <2>1, <2>2 DEF Elsewhere
  <2> QED BY <1>5, <2>3 DEF StillChosen
<1>6. r.kind = "split" => \A l \in N : subject'[l] = r.item
  BY DEF StillChosen, Elsewhere, Used
<1> QED BY <1>1, <1>2, <1>3, <1>4, <1>5, <1>6 DEF StillChosen, Live, Names

LEMMA KnownStays ==
    ASSUME NEW r, NEW H, Elsewhere(r, H), NEW N, NEW I, NEW B, StillChosen(r, N, I),
           StillKnown(N, I, B)
    PROVE  /\ StillKnown(N, I, B)'
           /\ \A R : LotsTaken(DOMAIN B, R) => LotsTaken(DOMAIN B, R)'
<1>1. \A l \in N : Used(l)' <=> Used(l)
  BY DEF StillChosen, Elsewhere, Used
<1>2. \A l \in DOMAIN B : l \in Listing /\ listingStatus[l] # "unused"
  BY DEF StillKnown, StillChosen, Used
<1>3. \A l \in DOMAIN B : subject'[l] = subject[l]
  BY <1>2 DEF Elsewhere
<1> QED BY <1>1, <1>3 DEF StillKnown, LotsTaken

LEMMA OffersTakenStays ==
    ASSUME NEW r, NEW H, Elsewhere(r, H), NEW I, I \subseteq Item, I \subseteq H,
           NEW R, OffersTaken(I, R)
    PROVE  OffersTaken(I, R)'
<1>1. OffersHolding(I)' = {l \in Listing : listingStatus'[l] \in OnOffer
                             /\ \E i \in I : subject'[l] = i \/ claim'[l][i] \in HeldBy}
  BY DEF OffersHolding, Live, Names
<1>2. \A l \in OffersHolding(I)' : l \in OffersHolding(I)
  BY <1>1, OffersStay
<1>3. \A l \in Listing : Used(l) => Used(l)'
  BY DEF Elsewhere, Used
<1> QED BY <1>2, <1>3 DEF OffersTaken

LEMMA SurroundingsStay ==
    ASSUME TypeOK, OfferInv, NEW r, NEW H, Elsewhere(r, H), NEW L, L \subseteq Listing,
           \A l \in L : Used(l), Surroundings(L) \subseteq H
    PROVE  Surroundings(L)' \subseteq H
<1>1. \A l \in L : Live(l) => Around(l) \subseteq H
  BY DEF Surroundings
<1>2. \A l \in L : listingStatus'[l] \in OnOffer => Around(l)' \subseteq H
  BY <1>1, AroundStays DEF Used
<1>3. Surroundings(L)' = UNION {Around(l)' : l \in {m \in L : listingStatus'[m] \in OnOffer}}
  BY DEF Surroundings, Live
<1> QED BY <1>2, <1>3

LEMMA CoversStay ==
    ASSUME TypeOK, OfferInv, OrderInv, NEW r \in Requests, r.kind \notin {"edit", "bulk"},
           NEW H, Elsewhere(r, H), FirstRow(r) \subseteq H, Stands(r),
           NEW T, T \subseteq UpdatedRow(r), Covers(r, T \cup H)
    PROVE  Covers(r, T \cup H)'
<1>1. r.kind \in {"checkout", "revise"} => \A l \in r.listings : Used(l)'
  BY DEF Covers, Requests, Elsewhere, Used
<1>2. r.kind \notin {"receive", "add member"} => Touched(r) \subseteq H
  BY DEF Covers, UpdatedRow
<1>3. CASE r.kind \in {"create lot", "add member", "remove member", "delete lot", "receive",
                       "delete item"}
  <2>1. Touched(r)' = Touched(r)
    BY <1>3 DEF Touched
  <2> QED BY <1>1, <2>1 DEF Covers
<1>4. ASSUME r.kind \in {"offer", "loss"}
      PROVE  /\ r.item \in Item /\ r.item \in H
             /\ \A l \in OffersHolding({r.item})' :
                   l \in OffersHolding({r.item}) /\ listingStatus'[l] \in OnOffer
  <2>1. r.item \in Item
    BY <1>4 DEF Requests
  <2>2. r.item \in H
    BY <1>2, <1>4 DEF Touched
  <2>3. OffersHolding({r.item})' =
          {l \in Listing : listingStatus'[l] \in OnOffer
                             /\ \E i \in {r.item} : subject'[l] = i \/ claim'[l][i] \in HeldBy}
    BY DEF OffersHolding, Live, Names
  <2> DEFINE S == {r.item}
  <2>4. S \subseteq Item /\ S \subseteq H
    BY <2>1, <2>2
  <2> HIDE DEF S
  <2>5. \A l \in Listing : listingStatus'[l] \in OnOffer
                             /\ (\E i \in S : subject'[l] = i \/ claim'[l][i] \in HeldBy)
                             => l \in OffersHolding(S)
    BY <2>4, OffersStay
  <2>6. \A l \in OffersHolding({r.item})' :
            l \in OffersHolding(S) /\ listingStatus'[l] \in OnOffer
    BY <2>3, <2>5 DEF S
  <2> QED BY <2>1, <2>2, <2>6 DEF S
<1>5. CASE r.kind = "offer"
  <2>1. Touched(r)' = {r.item} \cup OffersHolding({r.item})'
    BY <1>5 DEF Touched
  <2>2. Touched(r) = {r.item} \cup OffersHolding({r.item})
    BY <1>5 DEF Touched
  <2>3. Touched(r)' \subseteq H
    BY <1>2, <1>4, <1>5, <2>1, <2>2
  <2> QED BY <1>1, <2>3 DEF Covers
<1>6. CASE r.kind = "offer lot"
  <2> DEFINE S == members[r.lot]
  <2>1. r.lot \in Lot /\ r.lot \in H /\ lotStatus[r.lot] # "absent"
    BY <1>6 DEF Requests, FirstRow, Stands, Assembling
  <2>2. members'[r.lot] = S
    BY <2>1 DEF Elsewhere, SameLotRow
  <2>3. Touched(r)' = {r.lot} \cup S \cup OffersHolding(members[r.lot])'
    BY <1>6, <2>2 DEF Touched
  <2>4. Touched(r) = {r.lot} \cup S \cup OffersHolding(S)
    BY <1>6 DEF Touched
  <2>5. S \subseteq Item /\ S \subseteq H
    BY <1>2, <1>6, <2>1, <2>4 DEF TypeOK
  <2>6. OffersHolding(members[r.lot])' =
          {l \in Listing : listingStatus'[l] \in OnOffer
                             /\ \E i \in S : subject'[l] = i \/ claim'[l][i] \in HeldBy}
    BY <2>2 DEF OffersHolding, Live, Names
  <2> HIDE DEF S
  <2>7. \A l \in Listing : listingStatus'[l] \in OnOffer
                             /\ (\E i \in S : subject'[l] = i \/ claim'[l][i] \in HeldBy)
                             => l \in OffersHolding(S)
    BY <2>5, OffersStay
  <2>8. Touched(r)' \subseteq H
    BY <1>2, <1>6, <2>3, <2>4, <2>6, <2>7
  <2> QED BY <1>1, <2>8 DEF Covers
<1>7. CASE r.kind = "checkout"
  <2>1. r.listings \subseteq Listing /\ \A l \in r.listings : Used(l)
    BY <1>7 DEF Requests, Covers
  <2>2. Touched(r) = Surroundings(r.listings) /\ Touched(r)' = Surroundings(r.listings)'
    BY <1>7 DEF Touched
  <2>3. Surroundings(r.listings) \subseteq H
    BY <1>2, <1>7, <2>2
  <2>4. Surroundings(r.listings)' \subseteq H
    BY <2>1, <2>3, SurroundingsStay
  <2> QED BY <1>1, <2>2, <2>4 DEF Covers
<1>8. CASE r.kind \in {"sale", "end"}
  <2>1. r.listing \in Listing /\ Used(r.listing)
    BY <1>8 DEF Requests, Stands
  <2>2. subject'[r.listing] = subject[r.listing]
    BY <2>1 DEF Elsewhere, Used
  <2>3. /\ Surroundings({r.listing}) \subseteq Touched(r)
        /\ Touched(r)' \subseteq Surroundings({r.listing})' \cup Touched(r)
    BY <1>8, <2>2 DEF Touched
  <2> DEFINE L == {r.listing}
  <2>4. L \subseteq Listing /\ \A l \in L : Used(l)
    BY <2>1
  <2>5. Surroundings(L) \subseteq H
    BY <1>2, <1>8, <2>3
  <2>6. Surroundings(L)' \subseteq H
    <3> HIDE DEF L
    <3> QED BY <2>4, <2>5, SurroundingsStay
  <2>7. Touched(r)' \subseteq H
    BY <1>2, <1>8, <2>3, <2>6
  <2> QED BY <1>1, <2>7 DEF Covers
<1>9. CASE r.kind = "loss"
  <2>1. Touched(r) = {r.item} \cup Surroundings(OffersHolding({r.item}))
    BY <1>9 DEF Touched
  <2>2. \A l \in OffersHolding({r.item}) : l \in Listing /\ Live(l) /\ Around(l) \subseteq H
    BY <1>2, <1>9, <2>1 DEF Surroundings, OffersHolding
  <2>3. \A l \in OffersHolding({r.item})' : Around(l)' \subseteq H
    BY <1>4, <1>9, <2>2, AroundStays DEF Live, OnOffer
  <2>4. Touched(r)' = {r.item} \cup UNION {Around(l)' :
           l \in {m \in OffersHolding({r.item})' : listingStatus'[m] \in OnOffer}}
    BY <1>9 DEF Touched, Surroundings, Live
  <2>5. Touched(r)' \subseteq H
    BY <1>4, <1>9, <2>3, <2>4
  <2> QED BY <1>1, <2>5 DEF Covers
<1>10. CASE r.kind = "split"
  <2>1. r.item \in Item /\ r.item \in H
    BY <1>10 DEF Requests, FirstRow
  <2>2. Touched(r) = {r.item} \cup Surroundings({l \in Listing : subject[l] = r.item})
    BY <1>10 DEF Touched
  <2>3. \A l \in Listing : subject[l] = r.item /\ Live(l) => Around(l) \subseteq H
    BY <1>2, <1>10, <2>2 DEF Surroundings
  <2>4. ASSUME NEW l \in Listing, subject'[l] = r.item, listingStatus'[l] \in OnOffer
        PROVE  Around(l)' \subseteq H
    <3>1. listingStatus[l] # "unused"
      BY <2>1, <2>4 DEF Elsewhere, OnOffer
    <3>2. subject[l] = r.item
      BY <2>4, <3>1 DEF Elsewhere
    <3> QED BY <2>3, <2>4, <3>1, <3>2, AroundStays
  <2>5. Touched(r)' = {r.item} \cup UNION {Around(l)' :
           l \in {m \in {k \in Listing : subject'[k] = r.item} : listingStatus'[m] \in OnOffer}}
    BY <1>10 DEF Touched, Surroundings, Live
  <2>6. Touched(r)' \subseteq H
    BY <2>1, <2>4, <2>5
  <2> QED BY <1>1, <2>6 DEF Covers
<1>11. ASSUME r.kind \in {"status", "revise"}
       PROVE  ReturnRows(Lines(r.order))' = ReturnRows(Lines(r.order))
  <2>1. r.order \in Order /\ Lines(r.order)' = Lines(r.order)
    BY <1>11, LinesStay DEF Requests
  <2>2. \A l \in Lines(r.order) : subject'[l] = subject[l]
    BY <2>1 DEF OrderInv, LinesAreSold, Lines, Elsewhere
  <2> QED BY <2>1, <2>2 DEF ReturnRows
<1>12. CASE r.kind = "status"
  <2>1. Touched(r)' = Touched(r)
    BY <1>11, <1>12, LinesStay DEF Touched
  <2> QED BY <1>1, <2>1 DEF Covers
<1>13. CASE r.kind = "revise"
  <2> DEFINE L == r.listings \ Lines(r.order)
  <2>1. L \subseteq Listing /\ \A l \in L : Used(l)
    BY <1>13 DEF Requests, Covers
  <2>2. Surroundings(L) \subseteq H
    BY <1>2, <1>13 DEF Touched
  <2>3. Lines(r.order)' = Lines(r.order)
    BY <1>13, LinesStay
  <2>4. Surroundings(r.listings \ Lines(r.order))' =
           UNION {Around(l)' : l \in {m \in L : listingStatus'[m] \in OnOffer}}
    BY <2>3 DEF Surroundings, Live
  <2>5. \A l \in L : listingStatus'[l] \in OnOffer => Around(l)' \subseteq H
    BY <2>1, <2>2, AroundStays DEF Used, Surroundings
  <2>6. Surroundings(r.listings \ Lines(r.order))' \subseteq H
    BY <2>4, <2>5
  <2>7. Touched(r)' = {r.order} \cup ReturnRows(Lines(r.order))'
                         \cup Surroundings(r.listings \ Lines(r.order))'
    BY <1>13 DEF Touched
  <2>8. {r.order} \cup ReturnRows(Lines(r.order)) \subseteq H
    BY <1>2, <1>13 DEF Touched
  <2>9. Touched(r)' \subseteq H
    BY <1>11, <1>13, <2>6, <2>7, <2>8
  <2> QED BY <1>1, <2>9 DEF Covers
<1> QED BY <1>3, <1>5, <1>6, <1>7, <1>8, <1>9, <1>10, <1>12, <1>13 DEF Requests

\* What a request under way has found stands while others write.
LEMMA PassingStays ==
    ASSUME TypeOK, OfferInv, OrderInv, OfferInv', NEW r \in Requests,
           r.kind \notin {"edit", "bulk"}, NEW s, NEW T, NEW H, NEW p,
           Elsewhere(r, H), UnderWay(s) /\ s # "first" => FirstRow(r) \subseteq H,
           Passing(r, s, T, H, p)
    PROVE  Passing(r, s, T, H, p)'
<1>1. /\ FitTheStage(r, s, T, H)' <=> FitTheStage(r, s, T, H)
      /\ InTurn(T, H)' <=> InTurn(T, H)
  BY DEF FitTheStage, InTurn, UnderWay, FirstRow, UpdatedRow, Precedes, KindOf
<1>2. \A q \in {"chosen", "known", "lots", "items", "listings", "late", "update", "decided"} :
        s = q => UnderWay(s) /\ s # "first"
  BY DEF UnderWay, Ended
<1>3. UnderWay(s) /\ s # "first" => Stands(r)'
  BY StandsStays DEF Passing
<1>4. s \in {"chosen", "known", "lots", "items", "listings"} =>
        StillChosen(r, p.named, p.items)'
  BY <1>2, ChosenStays DEF Passing
<1>5. s \in {"known", "lots", "items", "listings"} => StillKnown(p.named, p.items, p.before)'
  BY KnownStays DEF Passing
<1>6. s \in {"lots", "items", "listings"} => LotsTaken(DOMAIN p.before, T \cup H)'
  BY KnownStays DEF Passing
<1>7. s = "listings" => OffersTaken(p.items, T \cup H)'
  <2> SUFFICES ASSUME s = "listings"
               PROVE  OffersTaken(p.items, T \cup H)'
    OBVIOUS
  <2>1. p.items \subseteq Item /\ p.items \subseteq T \cup H /\ T \subseteq Listing
    BY DEF Passing, FitTheStage, StillChosen
  <2>2. p.items \subseteq H
    BY <2>1, RowsApart
  <2> QED BY <2>1, <2>2, OffersTakenStays DEF Passing
<1>8. s \in {"late", "update", "decided"} => Covers(r, T \cup H)'
  <2> SUFFICES ASSUME s \in {"late", "update", "decided"}
               PROVE  Covers(r, T \cup H)'
    OBVIOUS
  <2>1. T \subseteq UpdatedRow(r) /\ Covers(r, T \cup H) /\ Stands(r) /\ FirstRow(r) \subseteq H
    BY <1>2 DEF Passing, FitTheStage
  <2> QED BY <2>1, CoversStay
<1> QED BY <1>1, <1>3, <1>4, <1>5, <1>6, <1>7, <1>8 DEF Passing

-----------------------------------------------------------------------------
(* The first of the rows waited for.                                       *)

\* Among rows there is a first one.
LEMMA FirstOfRows ==
    ASSUME NEW T \in SUBSET Row, T # {}
    PROVE  \E r \in T : \A s \in T \ {r} : Precedes(r, s)
<1>1. \A r \in T : KindOf(r) \in Nat /\ Id[r] \in Nat
  BY IdsAreKeys DEF KindOf
<1> DEFINE K == {KindOf(r) : r \in T}
<1>2. K \subseteq Nat /\ K # {}
  BY <1>1
<1>3. PICK k \in K : \A j \in K : ~(<<j, k>> \in OpToRel(<, Nat))
  <2> HIDE DEF K
  <2> QED BY <1>2, NatLessThanWellFounded, WFMin
<1> DEFINE U == {r \in T : KindOf(r) = k}
           D == {Id[r] : r \in U}
<1>4. D \subseteq Nat /\ D # {}
  BY <1>1
<1>5. PICK d \in D : \A e \in D : ~(<<e, d>> \in OpToRel(<, Nat))
  <2> HIDE DEF D
  <2> QED BY <1>4, NatLessThanWellFounded, WFMin
<1>6. PICK r \in U : Id[r] = d
  OBVIOUS
<1>7. ASSUME NEW s \in T \ {r}
      PROVE  Precedes(r, s)
  <2>1. ~(KindOf(s) < k)
    BY <1>1, <1>2, <1>3 DEF OpToRel
  <2>2. KindOf(s) = k => ~(Id[s] < d)
    BY <1>1, <1>4, <1>5 DEF OpToRel
  <2>3. Id[s] # Id[r]
    BY IdsAreKeys
  <2> QED BY <1>1, <1>6, <2>1, <2>2, <2>3 DEF Precedes
<1> QED BY <1>7

LEMMA NextRowIsFirst ==
    ASSUME NEW t \in Txn, todo[t] \in SUBSET Row, todo[t] # {}
    PROVE  /\ NextRow(t) \in todo[t]
           /\ \A s \in todo[t] \ {NextRow(t)} : Precedes(NextRow(t), s)
BY FirstOfRows DEF NextRow

-----------------------------------------------------------------------------
(* The statements of a pass, one by one.                                   *)

LEMMA RequestRows ==
    ASSUME NEW r \in Requests
    PROVE  /\ FirstRow(r) \subseteq Order \cup Lot \cup Item /\ UpdatedRow(r) \subseteq Item
           /\ r.kind \in {"offer", "checkout", "sale", "end", "loss", "status", "revise"} =>
                 FirstRow(r) \subseteq Order
           /\ \A a \in FirstRow(r), b \in FirstRow(r) : a = b
BY DEF FirstRow, UpdatedRow, Requests

LEMMA StartPasses ==
    ASSUME NEW r \in Requests, NEW p
    PROVE  Passing(r, "first", FirstRow(r), {}, p)
<1>1. FirstRow(r) \subseteq Row
  BY RequestRows DEF Row
<1> QED BY <1>1 DEF Passing, FitTheStage, InTurn, UnderWay, Ended

LEMMA RowPasses ==
    ASSUME NEW r, NEW s, NEW T, NEW H, NEW p, Passing(r, s, T, H, p),
           NEW n \in T, \A x \in T \ {n} : Precedes(n, x)
    PROVE  Passing(r, s, T \ {n}, H \cup {n}, p)
<1>1. (T \ {n}) \cup (H \cup {n}) = T \cup H
  OBVIOUS
<1>2. FitTheStage(r, s, T \ {n}, H \cup {n})
  BY DEF Passing, FitTheStage
<1>3. (T \ {n}) \cap (H \cup {n}) = {} /\ InTurn(T \ {n}, H \cup {n})
  BY DEF Passing, InTurn
<1> QED BY <1>1, <1>2, <1>3 DEF Passing

LEMMA FirstStands ==
    ASSUME NEW r \in Requests, AllowedAtFirst(r)
    PROVE  Stands(r)
BY DEF AllowedAtFirst, Stands, MaySetStatus, MayRevise, Editable, Used

LEMMA ChoosingPasses ==
    ASSUME TypeOK, OfferInv, OrderInv, NEW r \in Requests, r.kind \notin {"edit", "bulk"},
           NEW H, NEW p, Passing(r, "first", {}, H, p), FirstRow(r) \subseteq H,
           AllowedAtFirst(r), NEW q, q.named = Named(r), q.items = Given(r)
    PROVE  IF TakesNoPass(r) THEN Passing(r, "update", UpdatedRow(r) \ H, H, q)
                             ELSE Passing(r, "chosen", {}, H, q)
<1>1. Stands(r) /\ H = FirstRow(r) /\ H \subseteq Row
  BY FirstStands DEF Passing, FitTheStage
<1>2. CASE TakesNoPass(r)
  <2> DEFINE T == UpdatedRow(r) \ H
  <2>1. FitTheStage(r, "update", T, H)
    BY <1>1, RequestRows DEF FitTheStage, UnderWay, Ended, Row
  <2>2. InTurn(T, H)
    <3> SUFFICES ASSUME NEW a \in H, NEW b \in T
                 PROVE  Precedes(a, b)
      BY DEF InTurn
    <3>1. r.kind = "add member"
      BY <1>1 DEF UpdatedRow, FirstRow
    <3>2. a \in Lot /\ b \in Item
      BY <1>1, <3>1 DEF UpdatedRow, FirstRow, Requests
    <3> QED BY <3>2, RowsApart DEF Precedes, KindOf
  <2>3. Touched(r) \subseteq T \cup H
    <3>1. CASE r.kind = "status"
      <4>1. ~ReturnsStock(r.order, r.to)
        BY <1>2, <3>1 DEF TakesNoPass
      <4> QED BY <1>1, <3>1, <4>1 DEF Touched, FirstRow
    <3>2. CASE r.kind # "status"
      BY <1>1, <1>2, <3>2 DEF TakesNoPass, Touched, FirstRow, UpdatedRow
    <3> QED BY <3>1, <3>2
  <2>4. r.kind \notin {"checkout", "revise"}
    BY <1>2 DEF TakesNoPass
  <2>5. T \cap H = {}
    OBVIOUS
  <2> HIDE DEF T
  <2>6. Passing(r, "update", T, H, q)
    BY <1>1, <2>1, <2>2, <2>3, <2>4, <2>5 DEF Passing, Covers
  <2> QED BY <1>2, <2>6 DEF T
<1>3. CASE ~TakesNoPass(r)
  <2>1. FitTheStage(r, "chosen", {}, H)
    BY <1>1 DEF FitTheStage, UnderWay, Ended
  <2>2. r.kind \in {"offer", "offer lot", "checkout", "sale", "end", "loss", "split",
                    "status", "revise"}
    BY <1>3 DEF TakesNoPass, Requests
  <2>3. Named(r) \subseteq Listing /\ Given(r) \subseteq Item
    BY <2>2 DEF Named, Given, Requests, TypeOK, Lines, OffersHolding
  <2>4. \A l \in Named(r) : Used(l) \/ (r.kind \in {"checkout", "revise"} /\ l \in r.listings)
    <3>1. ASSUME r.kind \in {"status", "revise"}, NEW l \in Lines(r.order)
          PROVE  Used(l)
      <4>1. r.order \in Order /\ l \in Listing /\ share[r.order][l] # {}
        BY <3>1 DEF Requests, Lines
      <4> QED BY <4>1 DEF OrderInv, LinesAreSold, Used
    <3>2. CASE r.kind \in {"status", "revise"}
      BY <3>1, <3>2 DEF Named
    <3>3. CASE r.kind \in {"checkout", "sale", "end", "offer", "offer lot"}
      BY <1>1, <3>3 DEF Named, Stands
    <3>4. CASE r.kind \in {"loss", "split"}
      BY <3>4 DEF Named, OffersHolding, Live, OnOffer, Used
    <3> QED BY <2>2, <3>2, <3>3, <3>4
  <2>5. StillChosen(r, Named(r), Given(r))
    <3>1. /\ r.kind \in {"loss", "offer"} => r.item \in Given(r)
          /\ r.kind = "offer lot" => Named(r) = {} /\ Given(r) = members[r.lot]
          /\ r.kind = "checkout" => Named(r) = r.listings
          /\ r.kind \in {"sale", "end"} => Named(r) = {r.listing}
          /\ r.kind = "status" => Named(r) = Lines(r.order)
          /\ r.kind = "revise" => Named(r) = Lines(r.order) \cup r.listings
      BY DEF Named, Given
    <3>2. r.kind = "loss" =>
            \A l \in Listing : Live(l) /\ Names(l, r.item) /\ subject[l] \in Lot => l \in Named(r)
      BY DEF Named, OffersHolding
    <3>3. r.kind = "split" =>
            /\ Given(r) \subseteq {r.item}
            /\ \A l \in Named(r) : subject[l] = r.item
            /\ \A l \in Listing : Live(l) /\ subject[l] = r.item => l \in Named(r)
      BY DEF Named, Given
    <3> HIDE DEF Named, Given
    <3> QED BY <2>2, <2>3, <2>4, <3>1, <3>2, <3>3 DEF StillChosen
  <2>6. Passing(r, "chosen", {}, H, q)
    BY <1>1, <2>1, <2>5 DEF Passing, InTurn
  <2> QED BY <1>3, <2>6
<1> QED BY <1>2, <1>3

LEMMA ReachedItems ==
    ASSUME TypeOK, OfferInv, NEW r, NEW l \in Listing
    PROVE  /\ Reached(r, l) \subseteq Item
           /\ Live(l) => OfferedItems(l) \subseteq Reached(r, l)
           /\ subject[l] \in Item => subject[l] \in Reached(r, l)
<1>1. OfferedItems(l) \subseteq Item /\ AffectedItems({l}) \subseteq Item
  BY OfferedItemsType DEF AffectedItems
<1>2. \A i \in Item : Names(l, i) => i \in AffectedItems({l})
  BY DEF AffectedItems
<1>3. Live(l) => OfferedItems(l) \subseteq AffectedItems({l})
  BY <1>1, <1>2, OfferedIsNamed
<1>4. subject[l] \in Item => subject[l] \in AffectedItems({l}) /\ subject[l] \in OfferedItems(l)
  BY <1>2, WhatIsOffered DEF Names
<1> QED BY <1>1, <1>3, <1>4 DEF Reached

LEMMA ReadingPasses ==
    ASSUME TypeOK, OfferInv, NEW r \in Requests,
           NEW H, NEW p, Passing(r, "chosen", {}, H, p), NEW q,
           q.named = p.named,
           q.before = [l \in {m \in p.named : listingStatus[m] # "unused"} |-> Reached(r, l)],
           q.items = p.items \cup
               UNION {q.before[l] : l \in {m \in p.named : listingStatus[m] # "unused"}}
    PROVE  Passing(r, "known", {}, H, q)
<1> DEFINE found == {m \in p.named : listingStatus[m] # "unused"}
<1>1. StillChosen(r, p.named, p.items) /\ Stands(r) /\ FitTheStage(r, "chosen", {}, H)
  BY DEF Passing, UnderWay, Ended
<1>2. p.named \subseteq Listing /\ p.items \subseteq Item
  BY <1>1 DEF StillChosen
<1>3. DOMAIN q.before = found /\ \A l \in found : q.before[l] = Reached(r, l)
  OBVIOUS
<1>4. /\ \A l \in found : q.before[l] \subseteq q.items
      /\ \A i \in q.items : i \in p.items \/ \E l \in found : i \in q.before[l]
      /\ p.items \subseteq q.items
  OBVIOUS
<1>5. \A l \in found : /\ q.before[l] \subseteq Item
                       /\ subject[l] \in Item => subject[l] \in q.before[l]
  BY <1>2, <1>3, ReachedItems
<1>6. StillKnown(q.named, q.items, q.before)
  BY <1>3, <1>4, <1>5 DEF StillKnown, Used
<1>7. q.items \subseteq Item
  BY <1>2, <1>4, <1>5
<1>8. r.kind = "offer lot" => q.items = p.items
  <2>1. r.kind = "offer lot" => found = {}
    BY <1>1 DEF StillChosen
  <2> QED BY <1>4, <2>1
<1>9. r.kind = "split" => q.items \subseteq {r.item}
  <2> SUFFICES ASSUME r.kind = "split", NEW l \in found, NEW i \in q.before[l]
               PROVE  i = r.item
    BY <1>1, <1>4 DEF StillChosen
  <2>1. r.item \in Item /\ l \in Listing /\ subject[l] = r.item
    BY <1>1, <1>2 DEF Requests, StillChosen
  <2>2. i \in AffectedItems({l})
    BY <1>3 DEF Reached
  <2>3. PICK m \in Listing : (m = l \/ pausedBy[m] = l) /\ Names(m, i) /\ i \in Item
    BY <2>2 DEF AffectedItems
  <2>4. CASE m = l
    BY <2>1, <2>3, <2>4 DEF Names, OfferInv, ClaimsOwnItem
  <2>5. CASE m # l
    <3>1. listingStatus[m] = "paused" /\ pausedBy[m] = l
      BY <2>1, <2>3, <2>5, SubjectsApart DEF OfferInv, PausedIsWaiting
    <3>2. subject[m] \in Item /\ Names(l, subject[m])
      BY <3>1 DEF OfferInv, PausedIsWaiting
    <3>3. subject[m] = subject[l]
      BY <2>1, <3>2 DEF Names, OfferInv, ClaimsOwnItem
    <3> QED BY <2>1, <2>3, <3>2, <3>3 DEF Names, OfferInv, ClaimsOwnItem
  <2> QED BY <2>4, <2>5
<1> HIDE DEF found
<1>10. StillChosen(r, q.named, q.items)
  BY <1>1, <1>4, <1>7, <1>8, <1>9 DEF StillChosen
<1>11. FitTheStage(r, "known", {}, H) /\ InTurn({}, H)
  BY <1>1 DEF FitTheStage, UnderWay, Ended, InTurn
<1> QED BY <1>1, <1>6, <1>10, <1>11 DEF Passing

\* The lot of an offer is the lot its coins are members of.
LEMMA LotOfAnOffer ==
    ASSUME TypeOK, OfferInv, NEW l \in Listing, Live(l), NEW k \in Lot, subject[l] = k,
           NEW i \in Item, Names(l, i)
    PROVE  lotStatus[k] = "offered" /\ i \in members[k]
<1>1. claim[l][i] \in HeldBy
  BY SubjectsApart DEF Names
<1> QED BY <1>1 DEF OfferInv, LotListingHoldsMembers

LEMMA LotsPass ==
    ASSUME TypeOK, OfferInv, NEW r \in Requests, NEW H, NEW p,
           Passing(r, "known", {}, H, p)
    PROVE  Passing(r, "lots", LotsOf(p.named \cup OffersHolding(p.items)) \ H, H, p)
<1> DEFINE N == p.named
           I == p.items
           T == LotsOf(N \cup OffersHolding(I)) \ H
<1>1. /\ StillChosen(r, N, I) /\ StillKnown(N, I, p.before) /\ Stands(r)
      /\ H \subseteq FirstRow(r)
  BY DEF Passing, UnderWay, Ended, FitTheStage
<1>2. T \subseteq Lot /\ \A k \in T : \E l \in N \cup OffersHolding(I) : subject[l] = k
  BY DEF LotsOf
<1>3. LotsTaken(DOMAIN p.before, T \cup H)
  <2>1. DOMAIN p.before \subseteq N
    BY <1>1 DEF StillKnown
  <2> QED BY <2>1 DEF LotsTaken, LotsOf
<1>4. FitTheStage(r, "lots", T, H)
  BY <1>1, <1>2, RequestRows DEF FitTheStage, UnderWay, Ended, Row
<1> SUFFICES Passing(r, "lots", T, H, p)
  OBVIOUS
<1> HIDE DEF T
<1>5. ASSUME NEW k \in T, NEW l \in OffersHolding(I), subject[l] = k
      PROVE  /\ lotStatus[k] = "offered" /\ \E i \in I : i \in members[k]
  <2>1. PICK i \in I : Names(l, i) /\ Live(l) /\ l \in Listing
    BY <1>5 DEF OffersHolding
  <2>2. i \in Item /\ k \in Lot
    BY <1>1, <1>2 DEF StillChosen
  <2> QED BY <1>5, <2>1, <2>2, LotOfAnOffer
<1>6. CASE r.kind = "offer lot"
  <2>1. r.lot \in Lot /\ N = {} /\ I = members[r.lot] /\ lotStatus[r.lot] = "assembling"
    BY <1>1, <1>6 DEF Requests, StillChosen, Stands, Assembling
  <2>2. ASSUME NEW k \in T
        PROVE  FALSE
    <3>1. lotStatus[k] = "offered" /\ \E i \in I : i \in members[k]
      BY <1>2, <1>5, <2>1
    <3> QED BY <1>2, <2>1, <3>1 DEF OfferInv, OneLotPerItem
  <2> QED BY <1>1, <1>3, <1>4, <2>2 DEF Passing, InTurn
<1>7. CASE r.kind = "split"
  <2>1. /\ r.item \in Item /\ I \subseteq {r.item} /\ ~InOfferedLot(r.item)
        /\ \A l \in N : subject[l] = r.item
    BY <1>1, <1>7 DEF Requests, StillChosen, Stands
  <2>2. ASSUME NEW k \in T
        PROVE  FALSE
    <3>1. k \notin Item
      BY <1>2, SubjectsApart
    <3>2. lotStatus[k] = "offered" /\ r.item \in members[k]
      BY <1>2, <1>5, <2>1, <3>1
    <3> QED BY <1>2, <2>1, <3>2 DEF InOfferedLot
  <2> QED BY <1>1, <1>3, <1>4, <2>2 DEF Passing, InTurn
<1>8. CASE r.kind \notin {"offer lot", "split"}
  <2>1. H \subseteq Order
    BY <1>1, <1>8, RequestRows DEF StillChosen
  <2>2. InTurn(T, H)
    BY <1>2, <2>1, RowsApart DEF InTurn, Precedes, KindOf
  <2>3. T \cap H = {}
    BY DEF T
  <2> QED BY <1>1, <1>3, <1>4, <2>2, <2>3 DEF Passing
<1> QED BY <1>6, <1>7, <1>8

LEMMA ItemsPass ==
    ASSUME NEW r \in Requests, NEW H, NEW p, FirstRow(r) \subseteq H,
           Passing(r, "lots", {}, H, p)
    PROVE  Passing(r, "items", p.items \ H, H, p)
<1> DEFINE T == p.items \ H
<1>1. /\ StillChosen(r, p.named, p.items) /\ StillKnown(p.named, p.items, p.before)
      /\ LotsTaken(DOMAIN p.before, H) /\ Stands(r)
      /\ H \subseteq FirstRow(r) \cup Lot /\ H \subseteq Row
  BY DEF Passing, UnderWay, Ended, FitTheStage
<1>2. T \subseteq Item
  BY <1>1 DEF StillChosen
<1>3. LotsTaken(DOMAIN p.before, T \cup H) /\ p.items \subseteq T \cup H /\ T \cap H = {}
  BY <1>1 DEF LotsTaken
<1>4. r.kind = "split" => T = {}
  BY <1>1 DEF StillChosen, FirstRow
<1> HIDE DEF T
<1>5. InTurn(T, H)
  <2>1. CASE r.kind = "split"
    BY <1>4, <2>1 DEF InTurn
  <2>2. CASE r.kind # "split"
    <3>1. FirstRow(r) \subseteq Order \cup Lot
      BY <1>1, <2>2 DEF StillChosen, FirstRow, Requests
    <3>2. H \subseteq Order \cup Lot
      BY <1>1, <3>1
    <3> QED BY <1>2, <3>2, RowsApart DEF InTurn, Precedes, KindOf
  <2> QED BY <2>1, <2>2
<1>6. FitTheStage(r, "items", T, H)
  BY <1>1, <1>2 DEF FitTheStage, UnderWay, Ended, Row
<1>7. Passing(r, "items", T, H, p)
  BY <1>1, <1>3, <1>5, <1>6 DEF Passing
<1> QED BY <1>7 DEF T

LEMMA ListingsPass ==
    ASSUME NEW r \in Requests, NEW H, NEW p, Passing(r, "items", {}, H, p)
    PROVE  Passing(r, "listings",
              ({l \in p.named : listingStatus[l] # "unused"} \cup OffersHolding(p.items)) \ H, H, p)
<1> DEFINE T == ({l \in p.named : listingStatus[l] # "unused"} \cup OffersHolding(p.items)) \ H
<1>1. /\ StillChosen(r, p.named, p.items) /\ StillKnown(p.named, p.items, p.before)
      /\ LotsTaken(DOMAIN p.before, H) /\ Stands(r) /\ p.items \subseteq H
      /\ H \subseteq FirstRow(r) \cup Lot \cup Item /\ H \subseteq Row
  BY DEF Passing, UnderWay, Ended, FitTheStage
<1>2. /\ T \subseteq Listing /\ T \cap H = {} /\ OffersHolding(p.items) \subseteq T \cup H
      /\ \A l \in T : Used(l)
  BY <1>1 DEF StillChosen, OffersHolding, Used, Live, OnOffer
<1> HIDE DEF T
<1>3. H \subseteq Order \cup Lot \cup Item
  BY <1>1, RequestRows
<1>4. InTurn(T, H)
  BY <1>2, <1>3, RowsApart DEF InTurn, Precedes, KindOf
<1>5. OffersTaken(p.items, T \cup H)
  BY <1>2, <1>3, RowsApart DEF OffersTaken
<1>6. FitTheStage(r, "listings", T, H)
  BY <1>1, <1>2 DEF FitTheStage, UnderWay, Ended, Row
<1>7. LotsTaken(DOMAIN p.before, T \cup H) /\ p.items \subseteq T \cup H
  BY <1>1 DEF LotsTaken
<1>8. Passing(r, "listings", T, H, p)
  BY <1>1, <1>2, <1>4, <1>5, <1>6, <1>7 DEF Passing
<1> QED BY <1>8 DEF T

-----------------------------------------------------------------------------
(* No later pass locks another row.                                        *)

\* An ending affects the coins of what it ends.
LEMMA AffectedAreOffered ==
    ASSUME TypeOK, OfferInv, NEW E \in SUBSET Listing, NEW i \in AffectedItems(E)
    PROVE  i \in Item /\ \E e \in E : Names(e, i)
<1>1. i \in Item
  BY DEF AffectedItems
<1>2. PICK l \in Listing : (l \in E \/ pausedBy[l] \in E) /\ Names(l, i)
  BY DEF AffectedItems
<1>3. CASE l \in E
  BY <1>1, <1>2, <1>3
<1>4. CASE l \notin E
  <2>1. pausedBy[l] \in E /\ pausedBy[l] # NoOne
    BY <1>2, <1>4, SubjectsApart
  <2>2. subject[l] \in Item /\ Names(pausedBy[l], subject[l])
    BY <2>1 DEF OfferInv, PausedIsWaiting
  <2>3. i = subject[l]
    BY <1>1, <1>2, <2>2 DEF Names, OfferInv, ClaimsOwnItem
  <2> QED BY <1>1, <2>1, <2>2, <2>3
<1> QED BY <1>3, <1>4

\* The offers E surrounded by rows of H, their coins among the items I.
MayEnd(E, I, H) ==
    \A e \in E :
        /\ Live(e) /\ OfferedItems(e) \subseteq I /\ Around(e) \subseteq H
        /\ subject[e] \in Item =>
             \/ listingStatus[e] = "active"
             \/ LotsOf(OffersHolding({subject[e]})) \subseteq H

\* The rows of the passes that follow the first are rows held.
LEMMA LaterIsHeld ==
    ASSUME TypeOK, OfferInv, OrderInv, NEW E \in SUBSET Listing, NEW H, NEW I,
           OffersHolding(I) \subseteq H, I \subseteq H,
           MayEnd(E, I, H)
    PROVE  /\ AffectedItems(E) \subseteq H
           /\ OffersHolding(AffectedItems(E)) \subseteq H
           /\ LotsOf(E \cup OffersHolding(AffectedItems(E))) \subseteq H
           /\ E \subseteq H
<1> USE DEF MayEnd
<1>1. ASSUME NEW i \in AffectedItems(E)
      PROVE  i \in Item /\ \E e \in E : Names(e, i) /\ i \in OfferedItems(e) /\ i \in I
  <2>1. i \in Item /\ \E e \in E : Names(e, i)
    BY <1>1, AffectedAreOffered
  <2>2. PICK e \in E : Names(e, i)
    BY <2>1
  <2>3. i \in OfferedItems(e)
    BY <2>1, <2>2, OfferedIsNamed
  <2> QED BY <2>1, <2>2, <2>3
<1>2. AffectedItems(E) \subseteq H
  BY <1>1
<1>3. OffersHolding(AffectedItems(E)) \subseteq OffersHolding(I)
  BY <1>1 DEF OffersHolding
<1>4. \A e \in E : e \in H /\ \A k \in Lot : subject[e] = k => k \in H
  BY AroundAnOffer
<1>5. ASSUME NEW m \in OffersHolding(AffectedItems(E)), NEW k \in Lot, subject[m] = k
      PROVE  k \in H
  <2>1. PICK i \in AffectedItems(E) : m \in Listing /\ Live(m) /\ Names(m, i)
    BY <1>5 DEF OffersHolding
  <2>2. PICK e \in E : i \in Item /\ Names(e, i) /\ Live(e)
    BY <1>1, <2>1
  <2>3. lotStatus[k] = "offered" /\ i \in members[k]
    BY <1>5, <2>1, <2>2, LotOfAnOffer
  <2>4. CASE subject[e] \in Lot
    <3>1. i \in members[subject[e]]
      BY <2>2, <2>4, LotOfAnOffer
    <3>2. subject[e] = k
      BY <2>3, <2>4, <3>1 DEF OfferInv, OneLotPerItem
    <3> QED BY <1>4, <3>2
  <2>5. CASE subject[e] \in Item
    <3>1. subject[e] = i
      BY <2>2, <2>5 DEF Names, OfferInv, ClaimsOwnItem
    <3>2. CASE listingStatus[e] = "active"
      <4>1. listingStatus[m] = "active"
        BY <1>5, <2>1, SubjectsApart DEF OfferInv, PausedIsWaiting, Live, OnOffer
      <4>2. m = e
        BY <2>1, <2>2, <3>2, <4>1 DEF OfferInv, OneOffer
      <4> QED BY <1>5, <2>5, <4>2, SubjectsApart
    <3>3. CASE LotsOf(OffersHolding({subject[e]})) \subseteq H
      <4>1. m \in OffersHolding({subject[e]})
        BY <2>1, <3>1 DEF OffersHolding
      <4> QED BY <1>5, <3>3, <4>1 DEF LotsOf
    <3> QED BY <2>5, <3>2, <3>3
  <2> QED BY <2>2, <2>4, <2>5 DEF OfferInv, LiveOffersSomething, TypeOK
<1>6. LotsOf(E \cup OffersHolding(AffectedItems(E))) \subseteq H
  BY <1>4, <1>5 DEF LotsOf
<1> QED BY <1>2, <1>3, <1>4, <1>6

\* What is held at the end of the pass covers the request, and no later pass
\* locks another row.
LEMMA PassCovers ==
    ASSUME TypeOK, OfferInv, OrderInv, NEW t \in Txn, request[t] \in Requests,
           request[t].kind \notin {"edit", "bulk"}, FirstRow(request[t]) \subseteq held[t],
           Passing(request[t], "listings", {}, held[t], plan[t]),
           ~SetChanged(t), ~LotUnheld(t), ~Unknown(t)
    PROVE  /\ LaterRows(t) \subseteq held[t]
           /\ Passing(request[t], "late", {}, held[t], plan[t])
<1> DEFINE r == request[t]
           H == held[t]
           N == plan[t].named
           I == plan[t].items
           B == plan[t].before
<1>1. /\ StillChosen(r, N, I) /\ StillKnown(N, I, B) /\ LotsTaken(DOMAIN B, H) /\ Stands(r)
      /\ I \subseteq H /\ OffersTaken(I, H) /\ H \subseteq Row
  BY DEF Passing, UnderWay, Ended, FitTheStage
<1>2. N \subseteq H
  BY DEF Unknown
<1>3. \A l \in N : l \in Listing /\ Used(l) /\ l \in DOMAIN B
  BY <1>1, <1>2 DEF StillChosen, StillKnown, OffersTaken
<1>4. OffersHolding(I) \subseteq H /\ I \subseteq Item
  BY <1>1 DEF OffersTaken, StillChosen
<1>5. \A l \in N : Live(l) => OfferedItems(l) \subseteq I
  <2> SUFFICES ASSUME NEW l \in N, Live(l)
               PROVE  OfferedItems(l) \subseteq I
    OBVIOUS
  <2>1. Reached(r, l) = B[l] /\ B[l] \subseteq I
    BY <1>1, <1>3 DEF SetChanged, StillKnown
  <2>2. OfferedItems(l) \subseteq Reached(r, l)
    BY <1>3, ReachedItems
  <2> QED BY <2>1, <2>2
<1>6. \A l \in N : /\ subject[l] \in Item => subject[l] \in H
                   /\ subject[l] \in Lot => subject[l] \in H
  BY <1>1, <1>3 DEF StillKnown, LotsTaken
<1>0. /\ r \in Requests /\ r.kind \notin {"edit", "bulk"} /\ FirstRow(r) \subseteq H
      /\ request[t] = r /\ held[t] = H
  OBVIOUS
<1>18. Covers(r, H) => Passing(r, "late", {}, H, plan[t])
  BY <1>1 DEF Passing, FitTheStage, InTurn, UnderWay, Ended
<1> HIDE DEF r, H, N, I, B
<1>7. ASSUME NEW l \in Listing, Live(l), OfferedItems(l) \subseteq I,
             subject[l] \in Lot => subject[l] \in H
      PROVE  Around(l) \subseteq H
  <2>1. OfferedItems(l) \subseteq H
    BY <1>1, <1>7
  <2>2. OffersHolding(OfferedItems(l)) \subseteq H
    BY <1>4, <1>7 DEF OffersHolding
  <2>3. LotsOf({l}) \subseteq H
    BY <1>7 DEF LotsOf
  <2> QED BY <2>1, <2>2, <2>3 DEF Around
<1>8. \A l \in N : Live(l) => Around(l) \subseteq H
  BY <1>3, <1>5, <1>6, <1>7
<1>9. \A L : L \subseteq N => Surroundings(L) \subseteq H
  BY <1>8 DEF Surroundings
<1>10. r.kind \in {"checkout", "revise"} => r.listings \subseteq N
  BY <1>1 DEF StillChosen
<1>11. r.kind \in {"loss", "offer"} => LotsOf(OffersHolding({r.item})) \subseteq H
  BY <1>0 DEF LotUnheld
<1>12. r.kind \in {"loss", "offer"} =>
          r.item \in I /\ r.item \in H /\ OffersHolding({r.item}) \subseteq H
  BY <1>1, <1>4 DEF StillChosen, OffersHolding
<1>13. ASSUME r.kind = "loss", NEW l \in OffersHolding({r.item})
       PROVE  /\ l \in Listing /\ Live(l) /\ OfferedItems(l) \subseteq I /\ Around(l) \subseteq H
              /\ subject[l] \in Item => subject[l] = r.item
  <2>1. l \in Listing /\ Live(l) /\ Names(l, r.item) /\ r.item \in Item
    BY <1>0, <1>13 DEF OffersHolding, Requests
  <2>2. CASE subject[l] \in Lot
    <3>1. l \in N
      BY <1>1, <1>13, <2>1, <2>2 DEF StillChosen
    <3> QED BY <1>5, <1>8, <2>1, <2>2, <3>1, SubjectsApart
  <2>3. CASE subject[l] \in Item
    <3>1. subject[l] = r.item
      BY <2>1, <2>3 DEF Names, OfferInv, ClaimsOwnItem
    <3>2. OfferedItems(l) \subseteq I
      BY <1>12, <1>13, <2>1, <2>3, <3>1, WhatIsOffered
    <3> QED BY <1>7, <2>1, <2>3, <3>1, <3>2, SubjectsApart
  <2> QED BY <2>1, <2>2, <2>3 DEF OfferInv, LiveOffersSomething, TypeOK
<1>14. Touched(r) \subseteq H
  <2>1. CASE r.kind = "offer"
    BY <1>12, <2>1 DEF Touched
  <2>2. CASE r.kind = "offer lot"
    <3>1. I = members[r.lot] /\ r.lot \in H
      BY <1>0, <1>1, <2>2 DEF StillChosen, FirstRow
    <3> QED BY <1>1, <1>4, <2>2, <3>1 DEF Touched
  <2>3. CASE r.kind = "checkout"
    BY <1>9, <1>10, <2>3 DEF Touched
  <2>4. CASE r.kind \in {"sale", "end"}
    <3>1. N = {r.listing}
      BY <1>1, <2>4 DEF StillChosen
    <3>2. Surroundings({r.listing}) \subseteq H
      BY <1>9, <3>1
    <3>3. \A i \in Item : subject[r.listing] = i => i \in H
      BY <1>6, <3>1
    <3> QED BY <2>4, <3>2, <3>3 DEF Touched
  <2>5. CASE r.kind = "loss"
    BY <1>12, <1>13, <2>5 DEF Touched, Surroundings
  <2>6. CASE r.kind = "split"
    <3>1. \A l \in Listing : Live(l) /\ subject[l] = r.item => l \in N
      BY <1>1, <2>6 DEF StillChosen
    <3>2. r.item \in H
      BY <1>0, <2>6 DEF FirstRow
    <3> QED BY <1>8, <2>6, <3>1, <3>2 DEF Touched, Surroundings
  <2>7. CASE r.kind \in {"status", "revise"}
    <3>1. Lines(r.order) \subseteq N
      BY <1>1, <2>7 DEF StillChosen
    <3>2. ReturnRows(Lines(r.order)) \subseteq H
      BY <1>2, <1>6, <3>1 DEF ReturnRows, N, H
    <3>3. r.order \in H
      BY <1>0, <2>7 DEF FirstRow
    <3>4. r.kind = "revise" => Surroundings(r.listings \ Lines(r.order)) \subseteq H
      BY <1>9, <1>10
    <3> QED BY <2>7, <3>2, <3>3, <3>4 DEF Touched
  <2> QED BY <1>1, <2>1, <2>2, <2>3, <2>4, <2>5, <2>6, <2>7 DEF StillChosen
<1>15. Ending(r) \in SUBSET Listing /\ MayEnd(Ending(r), I, H)
  <2> USE DEF MayEnd
  <2>1. CASE r.kind \in {"checkout", "revise"}
    <3>1. \A e \in Ending(r) : e \in N /\ Live(e) /\ subject[e] \in Lot
      BY <1>10, <2>1 DEF Ending, LotsSoldOut, SoldOutBy
    <3> QED BY <1>3, <1>5, <1>8, <3>1, SubjectsApart
  <2>2. CASE r.kind = "sale"
    <3>1. \A e \in Ending(r) : e \in N /\ listingStatus[e] = "active" /\ Live(e)
      BY <1>1, <2>2 DEF Ending, StillChosen, Live, OnOffer
    <3> QED BY <1>3, <1>5, <1>8, <3>1
  <2>3. CASE r.kind = "loss"
    <3>1. Ending(r) = OffersHolding({r.item})
      BY <2>3 DEF Ending
    <3> QED BY <1>11, <1>13, <2>3, <3>1
  <2>4. CASE r.kind \notin {"checkout", "revise", "sale", "loss"}
    <3>1. Ending(r) = {}
      BY <1>0, <2>4 DEF Ending
    <3> QED BY <3>1
  <2> QED BY <2>1, <2>2, <2>3, <2>4
<1>16. LaterRows(t) \subseteq H
  <2> DEFINE E == Ending(r)
             A == AffectedItems(E)
  <2>1. /\ A \subseteq H /\ OffersHolding(A) \subseteq H /\ E \subseteq H
        /\ LotsOf(E \cup OffersHolding(A)) \subseteq H
    <3>1. I \subseteq H /\ OffersHolding(I) \subseteq H
      BY <1>1, <1>4
    <3>2. E \in SUBSET Listing /\ MayEnd(E, I, H)
      BY <1>15
    <3> HIDE DEF E
    <3> QED BY <3>1, <3>2, LaterIsHeld
  <2>2. CASE r.kind # "offer"
    <3>1. LaterRows(t) = LotsOf(E \cup OffersHolding(A)) \cup A \cup (E \cup OffersHolding(A))
      BY <1>0, <2>2 DEF LaterRows
    <3> QED BY <2>1, <3>1
  <2>3. CASE r.kind = "offer"
    <3>1. E = {} /\ A = {}
      BY <2>3 DEF Ending, AffectedItems
    <3>2. LaterRows(t) = LotsOf(OffersHolding({r.item})) \cup {r.item} \cup OffersHolding({r.item})
      BY <1>0, <2>3, <3>1 DEF LaterRows
    <3> QED BY <1>11, <1>12, <2>3, <3>2
  <2> QED BY <2>2, <2>3
<1>17. Covers(r, H)
  BY <1>3, <1>10, <1>14 DEF Covers
<1> QED BY <1>0, <1>16, <1>17, <1>18

-----------------------------------------------------------------------------
(* Requests lock in order, and lock what they write.                       *)

Planned(p) ==
    p = [named |-> p.named, items |-> p.items, ended |-> p.ended, before |-> p.before]

\* Every transaction holds and waits for rows in their order, and holds what
\* its request touches when it writes.
PassInvariant ==
    /\ LockInvariant
    /\ plan = [t \in Txn |-> plan[t]] /\ \A t \in Txn : Planned(plan[t])
    /\ \A t \in Txn : Passing(request[t], stage[t], todo[t], held[t], plan[t])

LEMMA IdlePasses ==
    ASSUME NEW r, NEW s, ~UnderWay(s), NEW p
    PROVE  Passing(r, s, {}, {}, p) /\ Passing(r, s, {}, {}, p)'
BY DEF Passing, FitTheStage, InTurn, UnderWay, Ended

LEMMA AllMayPass ==
    ASSUME LockInvariant, RequestsAreApart, NEW t \in Txn
    PROVE  /\ TypeOK /\ OfferInv /\ OrderInv
           /\ request[t] \in Requests /\ request[t].kind \notin {"edit", "bulk"}
           /\ UnderWay(stage[t]) /\ stage[t] # "first" => FirstRow(request[t]) \subseteq held[t]
           /\ stage[t] = "first" /\ todo[t] = {} => FirstRow(request[t]) \subseteq held[t]
<1>1. PICK scene \in Scenarios : \A v \in Txn : request[v] \in scene.requests
  BY DEF LockInvariant
<1>2. request[t] \in Requests /\ request[t].kind \notin {"edit", "bulk"}
  BY <1>1, ScenariosAreRequests DEF RequestsAreApart, EditsAreAlone
<1> QED BY <1>2 DEF LockInvariant, UnderWay, Ended

\* A statement of t that leaves it with what passes, leaves all with it.
LEMMA StatementPasses ==
    ASSUME PassInvariant, RequestsAreApart, LockInvariant', UNCHANGED <<vars, request>>,
           NEW t \in Txn, Planned(plan'[t]),
           Passing(request[t], stage'[t], todo'[t], held'[t], plan'[t]),
           plan' = [u \in Txn |-> plan'[u]],
           \A u \in Txn \ {t} : /\ stage'[u] = stage[u] /\ todo'[u] = todo[u]
                                /\ held'[u] = held[u] /\ plan'[u] = plan[u]
    PROVE  PassInvariant'
<1>1. ASSUME NEW u \in Txn, NEW s, NEW T, NEW H, NEW p, Passing(request[u], s, T, H, p),
             UnderWay(s) /\ s # "first" => FirstRow(request[u]) \subseteq H
      PROVE  Passing(request[u], s, T, H, p)'
  <2>1. LockInvariant /\ OfferInv'
    BY DEF PassInvariant, LockInvariant
  <2>2. /\ TypeOK /\ OfferInv /\ OrderInv
        /\ request[u] \in Requests /\ request[u].kind \notin {"edit", "bulk"}
    BY <2>1, AllMayPass
  <2>3. Elsewhere(request[u], H)
    BY NothingElsewhere
  <2> DEFINE r == request[u]
  <2>4. Passing(r, s, T, H, p)'
    <3>1. /\ r \in Requests /\ r.kind \notin {"edit", "bulk"} /\ Elsewhere(r, H)
          /\ (UnderWay(s) /\ s # "first" => FirstRow(r) \subseteq H) /\ Passing(r, s, T, H, p)
          /\ r' = r
      BY <1>1, <2>2, <2>3
    <3> HIDE DEF r
    <3> QED BY <2>1, <2>2, <3>1, PassingStays
  <2> QED BY <2>4
<1>2. \A u \in Txn : UnderWay(stage'[u]) /\ stage'[u] # "first" =>
         FirstRow(request[u]) \subseteq held'[u]
  BY DEF LockInvariant, FirstRow, UnderWay
<1>3. \A u \in Txn : Passing(request[u], stage'[u], todo'[u], held'[u], plan'[u])
  BY DEF PassInvariant
<1>4. ASSUME NEW u \in Txn
      PROVE  Passing(request[u], stage[u], todo[u], held[u], plan[u])'
  <2>1. PICK s, T, H, p : s = stage'[u] /\ T = todo'[u] /\ H = held'[u] /\ p = plan'[u]
    OBVIOUS
  <2>2. /\ Passing(request[u], s, T, H, p)
        /\ (UnderWay(s) /\ s # "first" => FirstRow(request[u]) \subseteq H)
    BY <1>2, <1>3, <2>1
  <2>3. Passing(request[u], s, T, H, p)'
    BY <1>1, <2>2
  <2> QED BY <2>1, <2>3
<1> QED BY <1>4 DEF PassInvariant

LEMMA MovingOnPasses ==
    ASSUME PassInvariant, RequestsAreApart, LockInvariant', UNCHANGED <<vars, request>>,
           NEW t \in Txn, NEW s, NEW T, NEW H, NEW p,
           stage' = [stage EXCEPT ![t] = s], todo' = [todo EXCEPT ![t] = T],
           held' = [held EXCEPT ![t] = H], plan' = [plan EXCEPT ![t] = p],
           Planned(p), Passing(request[t], s, T, H, p)
    PROVE  PassInvariant'
<1>1. /\ stage = [u \in Txn |-> stage[u]] /\ todo = [u \in Txn |-> todo[u]]
      /\ held = [u \in Txn |-> held[u]] /\ plan = [u \in Txn |-> plan[u]]
  BY DEF PassInvariant, LockInvariant
<1>2. stage'[t] = s /\ todo'[t] = T /\ held'[t] = H /\ plan'[t] = p
  BY <1>1
<1>3. plan' = [u \in Txn |-> plan'[u]]
  BY <1>1
<1>4. \A u \in Txn \ {t} : /\ stage'[u] = stage[u] /\ todo'[u] = todo[u]
                           /\ held'[u] = held[u] /\ plan'[u] = plan[u]
  BY <1>1
<1>5. Planned(plan'[t]) /\ Passing(request[t], stage'[t], todo'[t], held'[t], plan'[t])
  BY <1>2
<1> QED BY <1>3, <1>4, <1>5, StatementPasses

LEMMA LeavingPasses ==
    ASSUME PassInvariant, RequestsAreApart, LockInvariant', UNCHANGED <<vars, request, plan>>,
           NEW t \in Txn, NEW as \in Ended, Leave(t, as)
    PROVE  PassInvariant'
<1>1. ~UnderWay(as) /\ plan' = [plan EXCEPT ![t] = plan[t]] /\ Planned(plan[t])
  BY DEF UnderWay, PassInvariant
<1>2. Passing(request[t], as, {}, {}, plan[t])
  BY <1>1, IdlePasses
<1> QED BY <1>1, <1>2, MovingOnPasses DEF Leave

LEMMA GoingPasses ==
    ASSUME PassInvariant, RequestsAreApart, LockInvariant', UNCHANGED <<vars, request, held>>,
           NEW t \in Txn, NEW s, NEW rows, GoTo(t, s, rows), NEW p, Planned(p),
           plan' = [plan EXCEPT ![t] = p], Passing(request[t], s, rows \ held[t], held[t], p)
    PROVE  PassInvariant'
<1>1. held' = [held EXCEPT ![t] = held[t]]
  BY DEF PassInvariant, LockInvariant
<1> QED BY <1>1, MovingOnPasses DEF GoTo

\* Through its first pass and any that follow, a statement leaves the rows in
\* their order.
LEMMA LockingPasses ==
    ASSUME PassInvariant, RequestsAreApart, LockInvariant', UNCHANGED vars, NEW t \in Txn,
           \/ Start(t) \/ LockRow(t) \/ LockLots(t) \/ LockItems(t) \/ LockListings(t)
           \/ LockAgain(t)
    PROVE  PassInvariant'
<1> DEFINE r == request[t]
<1>1. /\ LockInvariant /\ Passing(r, stage[t], todo[t], held[t], plan[t])
      /\ plan = [plan EXCEPT ![t] = plan[t]] /\ Planned(plan[t])
  BY DEF PassInvariant
<1>2. TypeOK /\ OfferInv /\ OrderInv /\ r \in Requests /\ r.kind \notin {"edit", "bulk"}
  BY <1>1, AllMayPass
<1>3. ASSUME UnderWay(stage[t]), stage[t] # "first"
      PROVE  FirstRow(r) \subseteq held[t]
  BY <1>1, <1>3 DEF LockInvariant
<1>4. CASE Start(t)
  <2>1. stage[t] = "new" /\ GoTo(t, "first", FirstRow(r)) /\ UNCHANGED <<vars, request, held, plan>>
    BY <1>4 DEF Start
  <2>2. held[t] = {}
    BY <1>1, <2>1 DEF Passing, FitTheStage, UnderWay
  <2>3. Passing(r, "first", FirstRow(r) \ held[t], held[t], plan[t])
    BY <1>2, <2>2, StartPasses
  <2> QED BY <1>1, <2>1, <2>3, GoingPasses
<1>5. CASE LockRow(t)
  <2> DEFINE n == NextRow(t)
  <2>1. /\ UNCHANGED <<vars, request, stage, plan>> /\ todo[t] # {}
        /\ held' = [held EXCEPT ![t] = held[t] \cup {n}]
        /\ todo' = [todo EXCEPT ![t] = todo[t] \ {n}]
        /\ stage' = [stage EXCEPT ![t] = stage[t]]
    BY <1>1, <1>5 DEF LockRow, LockInvariant
  <2>2. todo[t] \in SUBSET Row
    BY <1>1 DEF Passing, FitTheStage
  <2>3. n \in todo[t] /\ \A s \in todo[t] \ {n} : Precedes(n, s)
    BY <2>1, <2>2, NextRowIsFirst
  <2> HIDE DEF n, r
  <2>4. Passing(r, stage[t], todo[t] \ {n}, held[t] \cup {n}, plan[t])
    BY <1>1, <2>3, RowPasses
  <2> QED BY <1>1, <2>1, <2>4, MovingOnPasses DEF r
<1>6. CASE LockLots(t)
  <2>1. Passing(r, "known", {}, held[t], plan[t])
    BY <1>1, <1>6 DEF LockLots, Through
  <2>2. Passing(r, "lots", LotsOf(plan[t].named \cup OffersHolding(plan[t].items)) \ held[t],
                held[t], plan[t])
    BY <1>2, <2>1, LotsPass
  <2> QED BY <1>1, <1>6, <2>2, GoingPasses DEF LockLots
<1>7. CASE LockItems(t)
  <2>1. Passing(r, "lots", {}, held[t], plan[t]) /\ FirstRow(r) \subseteq held[t]
    BY <1>1, <1>3, <1>7 DEF LockItems, Through, UnderWay, Ended
  <2>2. Passing(r, "items", plan[t].items \ held[t], held[t], plan[t])
    BY <1>2, <2>1, ItemsPass
  <2> QED BY <1>1, <1>7, <2>2, GoingPasses DEF LockItems
<1>8. CASE LockListings(t)
  <2>1. Passing(r, "items", {}, held[t], plan[t])
    BY <1>1, <1>8 DEF LockListings, Through
  <2>2. Passing(r, "listings",
           ({l \in plan[t].named : listingStatus[l] # "unused"} \cup OffersHolding(plan[t].items))
               \ held[t], held[t], plan[t])
    BY <1>2, <2>1, ListingsPass
  <2> QED BY <1>1, <1>8, <2>2, GoingPasses DEF LockListings
<1>9. CASE LockAgain(t)
  <2>1. Passing(r, "listings", {}, held[t], plan[t]) /\ FirstRow(r) \subseteq held[t]
    BY <1>1, <1>3, <1>9 DEF LockAgain, Through, UnderWay, Ended
  <2>2. LaterRows(t) \subseteq held[t] /\ Passing(r, "late", {}, held[t], plan[t])
    BY <1>2, <1>9, <2>1, PassCovers DEF LockAgain
  <2>3. LaterRows(t) \ held[t] = {}
    BY <2>2
  <2>4. Passing(r, "late", LaterRows(t) \ held[t], held[t], plan[t])
    BY <2>2, <2>3
  <2>5. GoTo(t, "late", LaterRows(t)) /\ UNCHANGED <<vars, request, held, plan>>
    BY <1>9 DEF LockAgain
  <2> QED BY <1>1, <2>4, <2>5, GoingPasses
<1> QED BY <1>4, <1>5, <1>6, <1>7, <1>8, <1>9

\* What the unlocked reads choose passes too, and so does a request decided.
LEMMA ReadsPass ==
    ASSUME PassInvariant, RequestsAreApart, LockInvariant', UNCHANGED vars, NEW t \in Txn,
           Choose(t) \/ ReadItems(t) \/ Decide(t)
    PROVE  PassInvariant'
<1> DEFINE r == request[t]
<1>1. /\ LockInvariant /\ Passing(r, stage[t], todo[t], held[t], plan[t])
      /\ plan = [plan EXCEPT ![t] = plan[t]] /\ Planned(plan[t])
      /\ plan = [u \in Txn |-> plan[u]]
  BY DEF PassInvariant
<1>2. TypeOK /\ OfferInv /\ OrderInv /\ r \in Requests /\ r.kind \notin {"edit", "bulk"}
  BY <1>1, AllMayPass
<1>3. CASE Choose(t)
  <2> DEFINE q == [named |-> Named(r), items |-> Given(r),
                   ended |-> {l \in Named(r) : listingStatus[l] = "ended"},
                   before |-> plan[t].before]
  <2>1. /\ stage[t] = "first" /\ todo[t] = {} /\ AllowedAtFirst(r)
        /\ UNCHANGED <<vars, request, held>>
        /\ IF TakesNoPass(r) THEN GoTo(t, "update", UpdatedRow(r)) ELSE GoTo(t, "chosen", {})
    BY <1>3 DEF Choose, Through
  <2>2. plan' = [plan EXCEPT ![t] = q]
    BY <1>3 DEF Choose
  <2>3. Planned(q) /\ q.named = Named(r) /\ q.items = Given(r)
    BY DEF Planned
  <2>4. Passing(r, "first", {}, held[t], plan[t]) /\ FirstRow(r) \subseteq held[t]
    BY <1>1, <2>1, AllMayPass
  <2> HIDE DEF q
  <2>5. IF TakesNoPass(r) THEN Passing(r, "update", UpdatedRow(r) \ held[t], held[t], q)
                          ELSE Passing(r, "chosen", {}, held[t], q)
    BY <1>2, <2>1, <2>3, <2>4, ChoosingPasses
  <2>6. CASE TakesNoPass(r)
    BY <2>1, <2>2, <2>3, <2>5, <2>6, GoingPasses
  <2>7. CASE ~TakesNoPass(r)
    <3>1. Passing(r, "chosen", {} \ held[t], held[t], q)
      BY <2>5, <2>7
    <3> QED BY <2>1, <2>2, <2>3, <2>7, <3>1, GoingPasses
  <2> QED BY <2>6, <2>7
<1>4. CASE ReadItems(t)
  <2> DEFINE found == {l \in plan[t].named : listingStatus[l] # "unused"}
             before == [l \in found |-> Reached(r, l)]
             items == plan[t].items \cup UNION {before[l] : l \in found}
             q == [named |-> plan[t].named, items |-> items,
                   ended |-> plan[t].ended, before |-> before]
  <2>1. /\ stage[t] = "chosen" /\ todo[t] = {} /\ UNCHANGED <<vars, request, held>>
        /\ GoTo(t, "known", {})
    BY <1>4 DEF ReadItems, Through
  <2>2. plan' = [plan EXCEPT ![t] = q]
    BY <1>4 DEF ReadItems
  <2>3. /\ Planned(q) /\ q.named = plan[t].named
        /\ q.before = [l \in found |-> Reached(r, l)]
        /\ q.items = plan[t].items \cup UNION {q.before[l] : l \in found}
    BY DEF Planned
  <2>4. Passing(r, "chosen", {}, held[t], plan[t])
    BY <1>1, <2>1
  <2> HIDE DEF q
  <2>5. Passing(r, "known", {}, held[t], q)
    BY <1>2, <2>3, <2>4, ReadingPasses
  <2>6. Passing(r, "known", {} \ held[t], held[t], q)
    BY <2>5
  <2> QED BY <2>1, <2>2, <2>3, <2>6, GoingPasses
<1>5. CASE Decide(t)
  <2>1. /\ stage[t] \in {"late", "update"} /\ todo[t] = {}
        /\ UNCHANGED <<vars, request, held, plan>> /\ GoTo(t, "decided", {})
    BY <1>5 DEF Decide, Locked, Through
  <2>2. UnderWay("decided") /\ UnderWay("late") /\ UnderWay("update")
    BY DEF UnderWay, Ended
  <2>3. Passing(r, "decided", {}, held[t], plan[t])
    BY <1>1, <2>1, <2>2 DEF Passing, FitTheStage
  <2>4. Passing(r, "decided", {} \ held[t], held[t], plan[t])
    BY <2>3
  <2> QED BY <1>1, <2>1, <2>4, GoingPasses
<1> QED BY <1>3, <1>4, <1>5

LEMMA EndsPass ==
    ASSUME PassInvariant, RequestsAreApart, LockInvariant', UNCHANGED vars, NEW t \in Txn,
           Fail(t) \/ Refuse(t) \/ Lose(t)
    PROVE  PassInvariant'
<1>1. UNCHANGED <<vars, request, plan>> /\ \E as \in Ended : Leave(t, as)
  BY DEF Fail, Refuse, Lose, Ended
<1> QED BY <1>1, LeavingPasses

\* A commit: what the others have passed stands, since the rows it wrote were
\* its own.
LEMMA CommitPasses ==
    ASSUME PassInvariant, RequestsAreApart, NEW t \in Txn, Commit(t)
    PROVE  PassInvariant'
<1>1. LockInvariant /\ LockInvariant' /\ TypeOK /\ OfferInv /\ OrderInv /\ OfferInv'
  BY CommitKeeps DEF PassInvariant, RequestsAreApart, LockInvariant
<1>2. \A u \in Txn : request[u] \in Requests /\ request[u].kind \notin {"edit", "bulk"}
  BY <1>1, AllMayPass
<1>3. /\ stage[t] = "decided" /\ Effect(t) /\ UNCHANGED <<request, plan>>
      /\ Leave(t, "committed")
  BY DEF Commit
<1>4. Allowed(request[t]) /\ Touched(request[t]) \subseteq held[t]
  <2>1. UnderWay("decided")
    BY DEF UnderWay, Ended
  <2>2. Allowed(request[t])
    BY <1>1, <1>3, <2>1 DEF LockInvariant
  <2>3. Passing(request[t], "decided", todo[t], held[t], plan[t])
    BY <1>3 DEF PassInvariant
  <2> QED BY <2>2, <2>3 DEF Passing, FitTheStage, Covers
<1>5. /\ stage'[t] = "committed" /\ todo'[t] = {} /\ held'[t] = {} /\ plan' = plan
      /\ \A u \in Txn \ {t} :
           stage'[u] = stage[u] /\ todo'[u] = todo[u] /\ held'[u] = held[u]
  BY <1>1, <1>3 DEF Leave, LockInvariant
<1>6. ASSUME NEW u \in Txn \ {t}
      PROVE  Passing(request[u], stage[u], todo[u], held[u], plan[u])'
  <2>1. Elsewhere(request[u], held[u])
    BY <1>1, <1>2, <1>3, <1>4, CommitElsewhere DEF LockInvariant
  <2>2. /\ Passing(request[u], stage[u], todo[u], held[u], plan[u])
        /\ (UnderWay(stage[u]) /\ stage[u] # "first" => FirstRow(request[u]) \subseteq held[u])
    BY <1>1, AllMayPass DEF PassInvariant
  <2>3. PICK r, s, T, H, p : /\ r = request[u] /\ s = stage[u] /\ T = todo[u]
                             /\ H = held[u] /\ p = plan[u]
    OBVIOUS
  <2>4. /\ r \in Requests /\ r.kind \notin {"edit", "bulk"} /\ Elsewhere(r, H)
        /\ Passing(r, s, T, H, p) /\ (UnderWay(s) /\ s # "first" => FirstRow(r) \subseteq H)
    BY <1>2, <2>1, <2>2, <2>3
  <2>5. Passing(r, s, T, H, p)'
    BY <1>1, <2>4, PassingStays
  <2>6. r = request'[u] /\ s = stage'[u] /\ T = todo'[u] /\ H = held'[u] /\ p = plan'[u]
    BY <1>3, <1>5, <2>3
  <2> QED BY <2>5, <2>6
<1>7. Passing(request[t], stage[t], todo[t], held[t], plan[t])'
  <2>1. PICK r, s, p : r = request'[t] /\ s = stage'[t] /\ p = plan'[t]
    OBVIOUS
  <2>2. ~UnderWay(s)
    BY <1>5, <2>1 DEF UnderWay, Ended
  <2>3. Passing(r, s, {}, {}, p)'
    BY <2>2, IdlePasses
  <2> QED BY <1>5, <2>1, <2>3
<1>8. (plan = [u \in Txn |-> plan[u]])' /\ \A u \in Txn : Planned(plan[u])'
  BY <1>5 DEF PassInvariant, Planned
<1> QED BY <1>1, <1>6, <1>7, <1>8 DEF PassInvariant

LEMMA HistoryPasses ==
    ASSUME PassInvariant, LockInvariant', MakeHistory
    PROVE  PassInvariant'
<1>1. past # <<>> /\ UNCHANGED <<request, lockVars>>
  BY DEF MakeHistory
<1>2. \A u \in Txn : stage[u] = "new" /\ todo[u] = {} /\ held[u] = {}
  BY <1>1 DEF PassInvariant, LockInvariant, Passing, FitTheStage, UnderWay
<1>3. ASSUME NEW u \in Txn
      PROVE  Passing(request[u], stage[u], todo[u], held[u], plan[u])'
  <2>1. PICK r, s, p : r = request'[u] /\ s = stage'[u] /\ p = plan'[u]
    OBVIOUS
  <2>2. ~UnderWay(s) /\ todo'[u] = {} /\ held'[u] = {}
    BY <1>1, <1>2, <2>1 DEF UnderWay, lockVars
  <2>3. Passing(r, s, {}, {}, p)'
    BY <2>2, IdlePasses
  <2> QED BY <2>1, <2>2, <2>3
<1>4. (plan = [u \in Txn |-> plan[u]])' /\ \A u \in Txn : Planned(plan[u])'
  BY <1>1 DEF PassInvariant, Planned, lockVars
<1> QED BY <1>3, <1>4 DEF PassInvariant

LEMMA StillPasses ==
    ASSUME PassInvariant, RequestsAreApart, LockInvariant', UNCHANGED allVars
    PROVE  PassInvariant'
<1>1. UNCHANGED <<vars, request, stage, todo, held, plan>>
  BY DEF allVars, lockVars
<1>2. /\ plan' = [u \in Txn |-> plan'[u]]
      /\ \A u \in Txn : /\ Planned(plan'[u])
                        /\ Passing(request[u], stage'[u], todo'[u], held'[u], plan'[u])
  BY <1>1 DEF PassInvariant
<1>3. CASE Txn = {}
  BY <1>2, <1>3 DEF PassInvariant
<1>4. ASSUME NEW t \in Txn
      PROVE  PassInvariant'
  BY <1>1, <1>2, StatementPasses
<1> QED BY <1>3, <1>4

LEMMA PassStep ==
    ASSUME PassInvariant, RequestsAreApart, [LockNext]_allVars
    PROVE  PassInvariant'
<1>1. LockInvariant'
  BY LockStep DEF PassInvariant, RequestsAreApart
<1>2. CASE UNCHANGED allVars
  BY <1>1, <1>2, StillPasses
<1>3. CASE MakeHistory
  BY <1>1, <1>3, HistoryPasses
<1>4. ASSUME NEW t \in Txn, GoOn(t) \/ Lose(t)
      PROVE  PassInvariant'
  <2>1. CASE Commit(t)
    BY <2>1, CommitPasses
  <2>2. CASE ~Commit(t)
    <3>1. UNCHANGED vars
      BY <1>4, <2>2, StatementKeeps DEF GoOn, PassInvariant
    <3> QED BY <1>1, <1>4, <2>2, <3>1, LockingPasses, ReadsPass, EndsPass DEF GoOn
  <2> QED BY <2>1, <2>2
<1> QED BY <1>2, <1>3, <1>4 DEF LockNext, AllOver

LEMMA PassStarts ==
    ASSUME LockInit
    PROVE  PassInvariant
<1>1. LockInvariant
  BY LockStarts
<1>2. /\ stage = [t \in Txn |-> "new"] /\ todo = [t \in Txn |-> {}]
      /\ held = [t \in Txn |-> {}] /\ plan = [t \in Txn |-> NoPlan]
  BY DEF LockInit
<1>3. \A t \in Txn : Passing(request[t], "new", {}, {}, plan[t])
  BY IdlePasses DEF UnderWay
<1>4. Planned(NoPlan)
  BY DEF Planned, NoPlan
<1> QED BY <1>1, <1>2, <1>3, <1>4 DEF PassInvariant

\* A transaction waits only for rows that come after every row it holds, through
\* its first pass, a row at a time, and the passes its endings take, whatever the
\* others write meanwhile (offering_writes.py, lock_for_sale and _acquire).
THEOREM LocksInOrderHolds ==
    ASSUME RequestsAreApart
    PROVE  LockSpec => []LocksInOrder
<1>1. LockInit => PassInvariant
  BY PassStarts
<1>2. PassInvariant /\ [LockNext]_allVars => PassInvariant'
  BY PassStep
<1>3. PassInvariant => LocksInOrder
  BY DEF PassInvariant, Passing, InTurn, LocksInOrder
<1> QED BY <1>1, <1>2, <1>3, PTL DEF LockSpec

LEMMA RowsWritten ==
    ASSUME NEW W, WritesOnly(W), NEW r \in Row, Exists(r), RowOf(r)' # RowOf(r)
    PROVE  r \in W
<1>1. CASE r \in Item
  <2>1. r \notin Lot /\ r \notin Listing
    BY <1>1, RowsApart
  <2>2. SameItemRow(r) => RowOf(r)' = RowOf(r)
    BY <1>1, <2>1, Zenon DEF SameItemRow, RowOf
  <2> QED BY <1>1, <2>2 DEF WritesOnly
<1>2. CASE r \in Lot
  <2>1. r \notin Item /\ r \notin Listing
    BY <1>2, RowsApart
  <2>2. SameLotRow(r) => RowOf(r)' = RowOf(r)
    BY <1>2, <2>1, Zenon DEF SameLotRow, RowOf
  <2>3. lotStatus[r] # "absent"
    BY <1>2, <2>1 DEF Exists
  <2> QED BY <1>2, <2>2, <2>3 DEF WritesOnly
<1>3. CASE r \in Listing
  <2>1. r \notin Item /\ r \notin Lot
    BY <1>3, RowsApart
  <2>2. SameListingRow(r) => RowOf(r)' = RowOf(r)
    BY <1>3, <2>1, Zenon DEF SameListingRow, RowOf
  <2>3. listingStatus[r] # "unused"
    BY <1>3, <2>1 DEF Exists
  <2> QED BY <1>3, <2>2, <2>3 DEF WritesOnly
<1>4. CASE r \in Order
  <2>1. r \notin Item /\ r \notin Lot /\ r \notin Listing
    BY <1>4, RowsApart
  <2>2. SameOrderRow(r) => RowOf(r)' = RowOf(r)
    BY <1>4, <2>1, Zenon DEF SameOrderRow, RowOf
  <2>3. orderStatus[r] # "none"
    BY <1>4, <2>1 DEF Exists
  <2> QED BY <1>4, <2>2, <2>3 DEF WritesOnly
<1> QED BY <1>1, <1>2, <1>3, <1>4 DEF Row

LEMMA WrittenLocked ==
    ASSUME PassInvariant, RequestsAreApart, [LockNext]_allVars, past = <<>>,
           NEW r \in Row, Exists(r), RowOf(r)' # RowOf(r)
    PROVE  \E t \in Txn : r \in held[t] \ held'[t]
<1>1. LockInvariant
  BY DEF PassInvariant
<1>2. ~(UNCHANGED vars)
  <2> SUFFICES ASSUME UNCHANGED vars
               PROVE  FALSE
    OBVIOUS
  <2>1. WritesOnly({})
    BY DEF WritesOnly, SameItemRow, SameLotRow, SameListingRow, SameOrderRow, vars,
           itemVars, lotVars, listingVars, orderVars
  <2> QED BY <2>1, RowsWritten
<1>3. ~MakeHistory /\ ~(UNCHANGED allVars)
  BY <1>2 DEF MakeHistory, allVars
<1>4. PICK t \in Txn : GoOn(t) \/ Lose(t)
  BY <1>3 DEF LockNext, AllOver
<1>5. Commit(t)
  BY <1>1, <1>2, <1>4, StatementKeeps DEF GoOn
<1>6. stage[t] = "decided" /\ Effect(t) /\ Leave(t, "committed")
  BY <1>5 DEF Commit
<1>7. UnderWay("decided")
  BY DEF UnderWay, Ended
<1>8. Allowed(request[t])
  BY <1>1, <1>6, <1>7 DEF LockInvariant
<1>9. Touched(request[t]) \subseteq held[t]
  <2>1. Passing(request[t], "decided", todo[t], held[t], plan[t])
    BY <1>6 DEF PassInvariant
  <2> QED BY <2>1 DEF Passing, FitTheStage, Covers
<1>10. WritesOnly(Touched(request[t]))
  BY <1>1, <1>6, <1>8, AllMayPass, EffectWrites
<1>11. r \in Touched(request[t])
  BY <1>10, RowsWritten
<1>12. held'[t] = {}
  BY <1>1, <1>6 DEF Leave, LockInvariant
<1> QED BY <1>9, <1>11, <1>12

\* A transaction writes no row that another could have written meanwhile: every
\* coin, lot, listing and order a commit changes is one it locked, those that its
\* endings reach and those that joined what it named after it read it included
\* (offering_writes.py, lock_for_sale and refuse_if_lot_unheld).
THEOREM LockedBeforeWrittenHolds ==
    ASSUME RequestsAreApart
    PROVE  LockSpec => LockedBeforeWritten
<1>1. LockInit => PassInvariant
  BY PassStarts
<1>2. PassInvariant /\ [LockNext]_allVars => PassInvariant'
  BY PassStep
<1> DEFINE Locked_ == past = <<>> => \A r \in Row :
                Exists(r) /\ RowOf(r)' # RowOf(r) => \E t \in Txn : r \in held[t] \ held'[t]
<1>3. PassInvariant /\ [LockNext]_allVars => Locked_
  BY WrittenLocked
<1> QED BY <1>1, <1>2, <1>3, PTL DEF LockSpec, LockedBeforeWritten
=============================================================================
