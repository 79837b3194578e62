------------------------------ MODULE MCSaleLocks ------------------------------
(* Small instances of the shop's concurrent requests for TLC.               *)
EXTENDS SaleLocks, TLC

CONSTANTS i1, i2, k1, l1, l2, l3, l4, o1, o2

NothingOld == [l \in Listing |-> NoOne]

\* A shop listing has a higher id than the lot's that pauses it, and an item
\* that comes second on a listing that comes first.
Ids ==
    o1 :> 1 @@ o2 :> 2 @@ k1 :> 4 @@ i1 :> 5 @@ i2 :> 6
        @@ l1 :> 9 @@ l2 :> 8 @@ l3 :> 7 @@ l4 :> 10

OfferReq(l, i, v) == [kind |-> "offer", listing |-> l, item |-> i, venue |-> v]
OfferLotReq(l, k, v) == [kind |-> "offer lot", listing |-> l, lot |-> k, venue |-> v]
EndReq(l) == [kind |-> "end", listing |-> l]
CreateReq(k) == [kind |-> "create lot", lot |-> k]
AddReq(k, i) == [kind |-> "add member", lot |-> k, item |-> i]
RemoveReq(k, i) == [kind |-> "remove member", lot |-> k, item |-> i]
CheckoutReq(o, L) == [kind |-> "checkout", order |-> o, listings |-> L]
SaleReq(o, l) == [kind |-> "sale", order |-> o, listing |-> l]
StatusReq(o, to) == [kind |-> "status", order |-> o, to |-> to]
ReviseReq(o, L) == [kind |-> "revise", order |-> o, listings |-> L]
ItemReq(what, i) == [kind |-> what, item |-> i]
BulkReq(i, to, d) == [kind |-> "bulk", item |-> i, to |-> to, filed |-> d]
EditReq(i, to, d) == [kind |-> "edit", item |-> i, to |-> to, filed |-> d]

\* Two coins in the shop; a lot of the two, offered in the shop over them; the
\* first coin on another platform over its shop listing.
TwoInShop == <<OfferReq(l1, i1, "store"), OfferReq(l2, i2, "store")>>
Assembled == <<CreateReq(k1), AddReq(k1, i1), AddReq(k1, i2)>>
LotReady == <<OfferReq(l1, i1, "store")>> \o Assembled
LotInShop == LotReady \o <<OfferLotReq(l2, k1, "store")>>
Elsewhere == <<OfferReq(l1, i1, "store"), OfferReq(l2, i1, "market")>>

Ordered == TwoInShop \o <<CreateReq(k1), CheckoutReq(o1, {l1})>>

FirstAway == <<EditReq(i1, "away", "held"), OfferReq(l2, i2, "store")>>

SeveralHistories == {TwoInShop, LotReady, LotInShop, Elsewhere}

\* A lot is offered, and what it holds is bought, sold, ended, split ...
MarketRequests ==
    { CheckoutReq(o1, {l1, l2}), CheckoutReq(o2, {l2}), SaleReq(o2, l2), EndReq(l2),
      OfferReq(l3, i1, "market"), OfferReq(l4, i1, "market"), OfferReq(l4, i2, "store"),
      OfferLotReq(l4, k1, "market"),
      AddReq(k1, i1), RemoveReq(k1, i2), [kind |-> "delete lot", lot |-> k1],
      ItemReq("split", i1), ItemReq("delete item", i2) }

\* ... and lost or edited, with nobody offering a lot.
LossRequests ==
    { CheckoutReq(o1, {l1, l2}), SaleReq(o2, l2), EndReq(l2),
      OfferReq(l3, i1, "market"), OfferReq(l4, i2, "store"),
      RemoveReq(k1, i2), [kind |-> "delete lot", lot |-> k1], ItemReq("split", i1),
      ItemReq("loss", i1), ItemReq("loss", i2), ItemReq("receive", i1),
      EditReq(i1, "away", "held"), EditReq(i2, "received", "sold"), BulkReq(i1, "away", "listed") }

\* An order of the first coin is cancelled, refunded, packed or revised while the
\* shop goes on.
OrderRequests ==
    { StatusReq(o1, "cancelled"), StatusReq(o1, "refunded"), StatusReq(o1, "packed"),
      ReviseReq(o1, {l2}), ReviseReq(o1, {l1, l2}), CheckoutReq(o2, {l2}),
      EndReq(l1), EndReq(l2), OfferReq(l3, i1, "market"), OfferReq(l4, i2, "market"),
      AddReq(k1, i1), AddReq(k1, i2), ItemReq("split", i2), ItemReq("delete item", i2),
      EditReq(i2, "received", "held") }

ShopRequests == MarketRequests \cup OrderRequests

ShopHistories == SeveralHistories \cup {Ordered}

\* A lot is offered and taken off sale again while a coin of it is offered or bought.
LotRequests ==
    { OfferLotReq(l4, k1, "market"), EndReq(l4), OfferReq(l3, i1, "market"),
      CheckoutReq(o1, {l1}) }

JustReady == {LotReady}

AnOrder == {Ordered}

\* The races that go another way than the code's comments say.
LotOffer == {OfferLotReq(l3, k1, "market")}
LossesDuringLotOffer == LotOffer \cup {ItemReq("loss", i1), ItemReq("loss", i2)}
CancelDuringLoss == {StatusReq(o1, "cancelled"), ItemReq("loss", i1)}
EditDuringOffer == {BulkReq(i1, "away", "listed"), OfferReq(l1, i1, "store")}

JustAssembled == {Assembled}
FiledAsListed == {<<EditReq(i1, "received", "listed")>>}

LossHistories == SeveralHistories \cup {FirstAway}

Scenario(requests, histories) == [requests |-> requests, histories |-> histories]
TheShop == {Scenario(ShopRequests, ShopHistories), Scenario(LossRequests, LossHistories)}
ALotComesAndGoes == {Scenario(LotRequests, JustReady)}
TwoLosses == {Scenario(LossesDuringLotOffer, JustAssembled)}
ACancelledOrder == {Scenario(CancelDuringLoss, AnOrder)}
AnEditedCoin == {Scenario(EditDuringOffer, FiledAsListed)}

TxnSymmetry == Permutations(Txn)
=============================================================================
