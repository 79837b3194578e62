------------------------------ MODULE MCAuctions ------------------------------
(* A small instance of the auctions for TLC.                                *)
EXTENDS AuctionInvariant, TLC

NothingOld == [l \in Listing |-> NoOne]

\* Two spellings of one buyer, another buyer, and a blank.
Spellings == {"CoinFan88", "coinfan88", "Other", ""}
Keys == [n \in Spellings |-> CASE n = "" -> "" [] n = "Other" -> "other" [] OTHER -> "coinfan88"]

Symmetric == Permutations(Item) \cup Permutations(Listing) \cup Permutations(Order)
                 \cup Permutations(Lot)
=============================================================================
