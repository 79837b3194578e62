----------------------------- MODULE LotAssembly -----------------------------
(***************************************************************************)
(* Assembling sales lots (backend/app/lot_writes.py, called by             *)
(* routers/lots.py).  A lot is assembled a coin at a time, and from its    *)
(* offer on its membership is frozen.                                      *)
(***************************************************************************)
EXTENDS SaleState

\* Mutant: an offered lot is not frozen.
AssemblingOrOffered(k) == lotStatus[k] \in {"assembling", "offered"}

Assembling(k) == lotStatus[k] = "assembling"

CreateLot(k) ==
    /\ lotStatus[k] = "absent"
    /\ lotStatus' = [lotStatus EXCEPT ![k] = "assembling"]
    /\ UNCHANGED <<members, itemVars, listingVars, orderVars>>

\* Deleting the row deletes its memberships; the id is free again because a
\* lot never offered is named by nothing else.
DeleteLot(k) ==
    /\ Assembling(k)
    /\ lotStatus' = [lotStatus EXCEPT ![k] = "absent"]
    /\ members' = [members EXCEPT ![k] = {}]
    /\ UNCHANGED <<itemVars, listingVars, orderVars>>

\* A lot claims a whole item: one with units promised to an order, or more
\* than one unit on a listing, is refused.
Partial(i) ==
    \/ \E l \in Listing : subject[l] = i /\ Live(l) /\ quantity[l] > 1
    \/ OrdersHolding(i) # {}

AddMember(k, i) ==
    /\ Assembling(k)
    /\ ~NotOurs(i)
    /\ disposition[i] \notin SoldAway
    /\ ~Partial(i)
    /\ ~InOpenLot(i)
    /\ members' = [members EXCEPT ![k] = @ \cup {i}]
    /\ UNCHANGED <<lotStatus, itemVars, listingVars, orderVars>>

RemoveMember(k, i) ==
    /\ Assembling(k)
    /\ i \in members[k]
    /\ members' = [members EXCEPT ![k] = @ \ {i}]
    /\ UNCHANGED <<lotStatus, itemVars, listingVars, orderVars>>
=============================================================================
