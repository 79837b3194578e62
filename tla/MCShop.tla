-------------------------------- MODULE MCShop --------------------------------
(* Small instances of the shop for TLC.                                     *)
EXTENDS ShopInvariant, TLC

NothingOld == [l \in Listing |-> NoOne]

\* One coin is already on a claimless shop listing.
FirstOld ==
    LET old == CHOOSE l \in Listing : TRUE
        coin == CHOOSE i \in Item : TRUE
    IN  [l \in Listing |-> IF l = old THEN coin ELSE NoOne]

Symmetric ==
    Permutations(Item) \cup Permutations(Listing) \cup Permutations(Order)
\* ... with the one old listing fixed.
SymmetricButOld ==
    Permutations({l \in Listing : FirstOld[l] = NoOne})
=============================================================================
