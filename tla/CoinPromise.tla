----------------------------- MODULE CoinPromise -----------------------------
(***************************************************************************)
(* What the shop promises about each coin, with no word about listings,    *)
(* claims, lots or locks: a coin is at home, on sale, or promised to one   *)
(* order.  It becomes promised only from being on sale, it is never passed *)
(* from one order to another, and an order that lets go of its coins puts  *)
(* back on sale exactly the ones it held.                                  *)
(***************************************************************************)
CONSTANTS Item, Order    \* neither "home" nor "on sale" is an Order

VARIABLE place

Coins(p) == {i \in Item : place[i] = p}

Move(S, to) == place' = [i \in Item |-> IF i \in S THEN to ELSE place[i]]

Init == place \in [Item -> {"home", "on sale"}]

\* An offer, or an ending that withdraws some of what it offered.
PutOnSale == \E S \in SUBSET Coins("home") : S # {} /\ Move(S, "on sale")
Withdraw == \E S \in SUBSET Coins("on sale") : S # {} /\ Move(S, "home")

\* A sale, or a revision of order o: coins are taken from the shelf and put
\* back on it in one step.
Trade(o) ==
    \E T \in SUBSET Coins("on sale"), G \in SUBSET Coins(o) :
        /\ T \cup G # {}
        /\ place' = [i \in Item |-> IF i \in T THEN o
                                    ELSE IF i \in G THEN "on sale"
                                    ELSE place[i]]

\* Every coin of an order leaves with it; from then on the order has no claim.
Leave(o) == Coins(o) # {} /\ Move(Coins(o), "home")

Next == PutOnSale \/ Withdraw \/ \E o \in Order : Trade(o) \/ Leave(o)

Spec == Init /\ [][Next]_place
=============================================================================
