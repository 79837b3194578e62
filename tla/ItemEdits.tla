------------------------------ MODULE ItemEdits ------------------------------
(***************************************************************************)
(* What may happen to an item that is, or may be, on offer: a receipt, an  *)
(* edit of its status or disposition, a split into pieces, a deletion      *)
(* (backend/app/routers/inventory.py, splitting.py).  The first three end  *)
(* every offer that holds the item.                                        *)
(***************************************************************************)
EXTENDS Offering

Here(i) == gone[i] = "no"

\* POST /inventory/receive with outcome "received": offers are not touched.
ReceiveItem(i) ==
    /\ Here(i)
    /\ itemStatus[i] # "received"
    /\ itemStatus' = [itemStatus EXCEPT ![i] = "received"]
    /\ UNCHANGED <<gone, disposition, listingVars, lotVars, orderVars>>

\* The other outcomes: the offers are ended whatever the status was.
RecordLoss(i) ==
    /\ Here(i)
    /\ itemStatus' = [itemStatus EXCEPT ![i] = "away"]
    /\ EndOffers(OffersHolding({i}), FALSE, disposition)
    /\ UNCHANGED <<gone, subject, venue, quantity, orderVars>>

\* What an edit writes, ending the offers E.
WriteStanding(i, status, filedAs, E) ==
    /\ itemStatus' = [itemStatus EXCEPT ![i] = status]
    /\ EndOffers(E, FALSE, [disposition EXCEPT ![i] = filedAs])
    /\ UNCHANGED <<gone, subject, venue, quantity, orderVars>>

\* PATCH /inventory/{id} and POST /inventory/bulk, when the edit changes the
\* item's standing.  An offer the item is in ends with a changed standing.
EditStanding(i, status, filedAs) ==
    /\ <<status, filedAs>> # <<itemStatus[i], disposition[i]>>
    /\ WriteStanding(i, status, filedAs, OffersHolding({i}))

\* POST /inventory/{id}/split.  The pieces are new items, outside Item.
SplitItem(i) ==
    /\ Here(i)
    /\ ~SoldThisItem(i)
    /\ ~InOfferedLot(i)
    /\ gone' = [gone EXCEPT ![i] = "split"]
    /\ EndOffers({l \in Listing : subject[l] = i /\ Live(l)}, FALSE, disposition)
    /\ UNCHANGED <<itemStatus, subject, venue, quantity, orderVars>>

\* DELETE /inventory/{id}.
DeleteItem(i) ==
    /\ Here(i)
    /\ ~EverOffered(i)
    /\ ~InOpenLot(i)
    /\ gone' = [gone EXCEPT ![i] = "deleted"]
    /\ UNCHANGED <<itemStatus, disposition, listingVars, lotVars, orderVars>>
=============================================================================
