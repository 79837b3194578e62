------------------------------- MODULE Offering -------------------------------
(***************************************************************************)
(* Putting items on offer and ending offers (backend/app/offering_writes.py *)
(* and the two routes of routers/offers.py that call it).  Ending is an     *)
(* operator, EndOffers, because checkout, a recorded sale, an item edit and *)
(* a split end offers inside their own transactions.                        *)
(***************************************************************************)
EXTENDS SaleState

-----------------------------------------------------------------------------
(* Ending.                                                                 *)

\* Mutant: an ending brings back whatever is paused, for whichever listing.
AnyPaused(E) == {p \in Listing : listingStatus[p] = "paused"} \ E

\* The shop listings that come back when the listings E end.
PausedBy(E) == {p \in Listing : listingStatus[p] = "paused" /\ pausedBy[p] \in E} \ E

\* An item that sold elsewhere does not come back to the shop.
Closing(E, sold) == IF sold THEN E \cup PausedBy(E) ELSE E
Resuming(E, sold) == IF sold THEN {} ELSE PausedBy(E)

StatusAfter(E, sold) ==
    [l \in Listing |-> IF l \in Closing(E, sold) THEN "ended"
                       ELSE IF l \in Resuming(E, sold) THEN "active"
                       ELSE listingStatus[l]]

\* Only a claim that still holds something moves; an old listing's missing
\* claim is written when its listing is paused or resumed, never released.
Moved(l, i, to) ==
    IF claim[l][i] \in HeldBy THEN to
    ELSE IF /\ to # "released"
            /\ subject[l] = i
            /\ \A j \in Item : claim[l][j] = "none"
         THEN to
    ELSE claim[l][i]

\* Mutant: the claims of a resumed listing are forgotten.
ClaimAfterEndingOnly(E, sold) ==
    [l \in Listing |-> [i \in Item |->
        IF l \in Closing(E, sold) THEN Moved(l, i, "released") ELSE claim[l][i]]]

ClaimAfter(E, sold) ==
    [l \in Listing |-> [i \in Item |->
        IF l \in Closing(E, sold) THEN Moved(l, i, "released")
        ELSE IF l \in Resuming(E, sold) THEN Moved(l, i, "active")
        ELSE claim[l][i]]]

StillOffered(i, status, held) ==
    \E l \in Listing : status[l] \in OnOffer /\ (subject[l] = i \/ held[l][i] \in HeldBy)

\* Mutant: only an item a listing names itself, never a lot's members.
ItemsNamedBy(E) == {i \in Item : \E l \in E : subject[l] = i}

AffectedItems(E) ==
    {i \in Item : \E l \in Listing : (l \in E \/ pausedBy[l] \in E) /\ Names(l, i)}

\* Mutant: nobody asks whether something else still offers the item.
ComingHomeUnasked(E, sold, filed) ==
    IF sold THEN {} ELSE {i \in AffectedItems(E) : filed[i] = "listed"}

\* The items an unsold ending leaves with nothing offering them.  `filed` is
\* the disposition the caller has already written in this transaction.
ComingHome(E, sold, filed) ==
    IF sold THEN {}
    ELSE {i \in AffectedItems(E) :
            /\ filed[i] = "listed"
            /\ ~StillOffered(i, StatusAfter(E, sold), ClaimAfter(E, sold))}

\* end_offer for each listing of E, all on offer.
EndOffers(E, sold, filed) ==
    LET home == ComingHome(E, sold, filed)
        ended == ClaimAfter(E, sold)
        lots == {k \in Lot : \E l \in E : subject[l] = k}
    IN  /\ listingStatus' = StatusAfter(E, sold)
        /\ pausedBy' = [l \in Listing |->
              IF l \in E \cup PausedBy(E) THEN NoOne ELSE pausedBy[l]]
        /\ claim' = [l \in Listing |-> [i \in Item |->
              IF i \in home /\ ended[l][i] \in HeldBy THEN "released" ELSE ended[l][i]]]
        /\ disposition' = [i \in Item |-> IF i \in home THEN "held" ELSE filed[i]]
        /\ lotStatus' = [k \in Lot |->
              IF k \in lots THEN (IF sold THEN "sold" ELSE "dissolved") ELSE lotStatus[k]]
        /\ members' = [k \in Lot |-> IF k \in lots THEN {} ELSE members[k]]

\* Mutant: an offer already ended is ended again.
EndListingTwice(l) ==
    /\ listingStatus[l] # "unused"
    /\ OrdersHoldingStock(l) = {}
    /\ EndOffers({l}, FALSE, disposition)
    /\ UNCHANGED <<itemStatus, gone, subject, venue, quantity, orderVars>>

\* POST /listings/{id}/end.  An order that could still return its stock to
\* the listing refuses the ending, asked inside the transaction that ends it.
EndListing(l) ==
    /\ Live(l)
    /\ OrdersHoldingStock(l) = {}
    /\ EndOffers({l}, FALSE, disposition)
    /\ UNCHANGED <<itemStatus, gone, subject, venue, quantity, orderVars>>

\* The same request for a listing that has ended already.  It ends nothing and
\* asks no order, but still sends home an item that was filed as listed by hand.
EndListingAgain(l) ==
    LET home == ComingHome({l}, FALSE, disposition)
    IN  /\ listingStatus[l] = "ended"
        /\ disposition' = [i \in Item |-> IF i \in home THEN "held" ELSE disposition[i]]
        /\ claim' = [m \in Listing |-> [i \in Item |->
              IF i \in home /\ claim[m][i] \in HeldBy THEN "released" ELSE claim[m][i]]]
        /\ UNCHANGED <<itemStatus, gone, listingStatus, subject, venue, quantity,
                       pausedBy, lotVars, orderVars>>

-----------------------------------------------------------------------------
(* Offering.                                                               *)

\* Mutant: what the item is filed as is asked, the orders are not.
SoldByFilingOnly(i) == disposition[i] \in SoldAway

SaleRefused(i) == disposition[i] \in SoldAway \/ OrdersHolding(i) # {}

\* Mutant: sold items are offered again.
OfferableThoughSold(i) == ~NotOurs(i) /\ ~InOfferedLot(i)

Offerable(i) == ~NotOurs(i) /\ ~SaleRefused(i) /\ ~InOfferedLot(i)

\* Mutant: an offer on another platform is set aside like a shop listing.
FreeOfShopOnly(i, v, inLot) ==
    \A h \in OffersHolding({i}) : venue[h] = "store" => (v = "store" => inLot)

\* Refused while live on another platform; live in the shop, it is paused for
\* an offer elsewhere or for its lot, and refused a second shop offer.
FreeFor(i, v, inLot) ==
    \A h \in OffersHolding({i}) :
        venue[h] = "store" /\ (v = "store" => inLot)

\* Listing l is written for `subj`, holding the items S.
OfferRows(l, subj, S, v) ==
    LET displaced == OffersHolding(S)
    IN  /\ listingStatus[l] = "unused"
        /\ \A i \in S : Offerable(i) /\ FreeFor(i, v, subj \in Lot)
        /\ listingStatus' = [m \in Listing |-> IF m = l THEN "active"
                                 ELSE IF m \in displaced THEN "paused"
                                 ELSE listingStatus[m]]
        /\ pausedBy' = [m \in Listing |-> IF m \in displaced THEN l ELSE pausedBy[m]]
        /\ claim' = [m \in Listing |-> [i \in Item |->
              IF m = l THEN (IF i \in S THEN "active" ELSE "none")
              ELSE IF m \in displaced THEN Moved(m, i, "paused")
              ELSE claim[m][i]]]
        /\ subject' = [subject EXCEPT ![l] = subj]
        /\ venue' = [venue EXCEPT ![l] = v]
        /\ quantity' = [quantity EXCEPT ![l] = 1]
        /\ disposition' = [i \in Item |-> IF i \in S THEN "listed" ELSE disposition[i]]
        /\ UNCHANGED <<itemStatus, gone, orderVars>>

Offer(l, subj, S, v) == OfferRows(l, subj, S, v) /\ UNCHANGED members

\* POST /offers for one item.
OfferItem(l, i, v) ==
    /\ Offer(l, i, {i}, v)
    /\ UNCHANGED lotStatus

\* POST /offers for a lot: every member or none.
OfferLot(l, k, v) ==
    /\ lotStatus[k] = "assembling"
    /\ members[k] # {}
    /\ Offer(l, k, members[k], v)
    /\ lotStatus' = [lotStatus EXCEPT ![k] = "offered"]
=============================================================================
