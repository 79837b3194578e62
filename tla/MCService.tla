------------------------------ MODULE MCService ------------------------------
(***************************************************************************)
(* The parts of the service whose requests wait for each other and must    *)
(* each be answered: a browser's session, first orders, an auction's own   *)
(* row and the image store.  They share no state, so a behaviour is of     *)
(* one desk, chosen at the start, with the others at rest.                 *)
(***************************************************************************)
EXTENDS TabSession, FirstOrders, AuctionLocks, ImageStore, TLC

VARIABLE desk

CONSTANTS c1, c2, c3, t1, t2

TwoCallsInOneTab == c1 :> t1 @@ c2 :> t1 @@ c3 :> t2

serviceVars ==
  <<desk, tabVars, firstOrderVars, lockedVars, imageVars>>

Init ==
  /\ desk \in {"tabs", "orders", "auction", "images"}
  /\ TabInit /\ FirstOrdersInit /\ LockedInit /\ ImagesInit

AtTabs ==
  /\ desk = "tabs"
  /\ UNCHANGED <<desk, firstOrderVars, lockedVars, imageVars>>
  /\ TabNext

AtOrders ==
  /\ desk = "orders"
  /\ UNCHANGED <<desk, tabVars, lockedVars, imageVars>>
  /\ FirstOrdersNext

AtAuction ==
  /\ desk = "auction"
  /\ UNCHANGED <<desk, tabVars, firstOrderVars, imageVars>>
  /\ LockedNext

AtImages ==
  /\ desk = "images"
  /\ UNCHANGED <<desk, tabVars, firstOrderVars, lockedVars>>
  /\ ImagesNext

Next == AtTabs \/ AtOrders \/ AtAuction \/ AtImages

(* Each step that is fair is of a request already begun, and a desk at     *)
(* rest has none: its fairness asks nothing of the other desks.            *)
Spec ==
  /\ Init /\ [][Next]_serviceVars
  /\ TabFairness /\ FirstOrdersFairness
  /\ LockedFairness /\ ImagesFairness

-----------------------------------------------------------------------------
\* Each request is answered, whatever it waits for: a refresh another call has
\* under way, another's insert of the same customer, an auction's row, the
\* coins and the content of a photograph.
RequestsAreAnswered ==
  CallsAreAnswered /\ OrdersAreAnswered /\ TransitionsEnd /\ PhotosEnd

=============================================================================
