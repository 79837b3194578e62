---------------------------- MODULE ServiceProofs ----------------------------
(*****************************************************************************)
(* The service's requests that wait for each other, proved for however many  *)
(* requests, tabs and accounts there are and however they interleave: the    *)
(* first orders of an account, an auction's own row, a browser's session,    *)
(* and the accounts whose rows are written under their versions.  And the    *)
(* throttle of sign-ins, proved for however many sign-ins overlap, from      *)
(* whatever addresses and names and however long the clock runs: what a      *)
(* table counts is the window, attempts stay few, and tables stay bounded.   *)
(*****************************************************************************)
EXTENDS FirstOrders, AuctionLocks, TabSession, Accounts, Throttle,
        FiniteSetTheorems, SequenceTheorems, WellFoundedInduction, TLAPS

-----------------------------------------------------------------------------
(* First orders of an account, and the customer row they make.             *)

LEMMA BoundsAreNumbers ==
    /\ MaxPending \in Nat /\ MaxPending >= 1
    /\ Cardinality(Shopper) \in Nat
<1>1. MaxPending \in Nat /\ MaxPending >= 1
  BY FirstOrdersAssumption
<1>2. Cardinality(Shopper) \in Nat
  BY FiniteThreads, FS_CardinalityType
<1> QED BY <1>1, <1>2

\* The pending orders of a customer, and the requests about to place one, are
\* finitely many.
LEMMA CountsAreNumbers ==
    ASSUME FirstOrdersTypeOK, NEW c
    PROVE  /\ IsFiniteSet(CountedOf(c)) /\ Cardinality(CountedOf(c)) \in Nat
           /\ IsFiniteSet(PendingOf(c)) /\ Cardinality(PendingOf(c)) \in Nat
           /\ Cardinality(CountedOf(c)) <= Cardinality(PendingOf(c))
           /\ IsFiniteSet(PlacingFor(c)) /\ Cardinality(PlacingFor(c)) \in Nat
           /\ Cardinality(PlacingFor(c)) <= Cardinality(Shopper)
<1>1. PendingOf(c) \in SUBSET pending /\ IsFiniteSet(pending)
  BY DEF PendingOf, FirstOrdersTypeOK
<1>2. PlacingFor(c) \in SUBSET Shopper /\ IsFiniteSet(Shopper)
  BY FiniteThreads DEF PlacingFor
<1>3. IsFiniteSet(PendingOf(c))
  BY <1>1, FS_Subset
<1>5. CountedOf(c) \in SUBSET PendingOf(c)
  BY DEF CountedOf, PendingOf, FirstOrdersTypeOK
<1>6. IsFiniteSet(CountedOf(c)) /\ Cardinality(CountedOf(c)) <= Cardinality(PendingOf(c))
  BY <1>3, <1>5, FS_Subset
<1>4. IsFiniteSet(PlacingFor(c)) /\ Cardinality(PlacingFor(c)) <= Cardinality(Shopper)
  BY <1>2, FS_Subset
<1> QED BY <1>3, <1>4, <1>6, FS_CardinalityType

LEMMA FirstOrdersTypeStep ==
    ASSUME FirstOrdersTypeOK, OrdersForItsCustomer, [FirstOrdersNext]_firstOrderVars
    PROVE  FirstOrdersTypeOK'
<1> USE DEF FirstOrdersTypeOK
<1>1. ASSUME NEW s \in Shopper, Look(s)
      PROVE  FirstOrdersTypeOK'
  BY <1>1 DEF Look, orderVars, Goes
<1>2. ASSUME NEW s \in Shopper, Insert(s)
      PROVE  FirstOrdersTypeOK'
  BY <1>2 DEF Insert, orderVars, Goes
<1>3. ASSUME NEW s \in Shopper, ReadWinner(s)
      PROVE  FirstOrdersTypeOK'
  BY <1>3 DEF ReadWinner, orderVars, Goes
<1>4. ASSUME NEW s \in Shopper, CountPending(s)
      PROVE  FirstOrdersTypeOK'
  BY <1>4 DEF CountPending, orderVars, Goes
<1>5. ASSUME NEW s \in Shopper, GiveUp(s)
      PROVE  FirstOrdersTypeOK'
  BY <1>5 DEF GiveUp, orderVars, Goes, RolledBack
<1>6. ASSUME NEW s \in Shopper, Place(s)
      PROVE  FirstOrdersTypeOK'
  <2>1. customerOf[s] \in Shopper
    BY <1>6 DEF Place, CommitsCustomer, Goes, OrdersForItsCustomer
  <2>2. /\ pending' = pending \cup {<<placed + 1, customerOf[s]>>}
        /\ placed' = placed + 1
    BY <1>6 DEF Place
  <2>3. IsFiniteSet(pending')
    BY <2>2, FS_AddElement
  <2> QED BY <1>6, <2>1, <2>2, <2>3 DEF Place, CommitsCustomer, Goes
<1>8. ASSUME NEW s \in Shopper, MakeCustomer(s)
      PROVE  FirstOrdersTypeOK'
  BY <1>8 DEF MakeCustomer, CommitsCustomer, Goes, orderVars
<1>9. ASSUME NEW c \in rows, ConsoleOrder(c)
      PROVE  FirstOrdersTypeOK'
  <2>1. IsFiniteSet(pending')
    BY <1>9, FS_AddElement DEF ConsoleOrder
  <2> QED BY <1>9, <2>1 DEF ConsoleOrder
<1>10. ASSUME NEW p \in moved, SetBack(p)
      PROVE  FirstOrdersTypeOK'
  <2>1. IsFiniteSet(pending')
    BY <1>10, FS_AddElement DEF SetBack
  <2> QED BY <1>10, <2>1 DEF SetBack
<1>7. ASSUME NEW p \in pending, Settled(p)
      PROVE  FirstOrdersTypeOK'
  <2>1. IsFiniteSet(pending')
    BY <1>7, FS_RemoveElement DEF Settled
  <2> QED BY <1>7, <2>1 DEF Settled
<1> QED
  BY <1>1, <1>2, <1>3, <1>4, <1>5, <1>6, <1>7, <1>8, <1>9, <1>10
  DEF FirstOrdersNext, ShopperStep, firstOrderVars, orderVars

-----------------------------------------------------------------------------
(* The ceiling.                                                            *)

\* Fewer orders counted and fewer about to be placed are within the ceiling too.
LEMMA FewerAreInRoom ==
    ASSUME FirstOrdersTypeOK, RoomIsCharged, NEW c \in Shopper,
           CountedOf(c)' \subseteq CountedOf(c), PlacingFor(c)' \subseteq PlacingFor(c)
    PROVE  Cardinality(CountedOf(c)') + Cardinality(PlacingFor(c)')
               <= MaxPending + Cardinality(Shopper) - 1
<1>1. /\ IsFiniteSet(CountedOf(c)) /\ Cardinality(CountedOf(c)) \in Nat
      /\ IsFiniteSet(PlacingFor(c)) /\ Cardinality(PlacingFor(c)) \in Nat
  BY CountsAreNumbers
<1>2. Cardinality(CountedOf(c)') \in Nat /\ Cardinality(CountedOf(c)') <= Cardinality(CountedOf(c))
  BY <1>1, FS_Subset, FS_CardinalityType
<1>3. Cardinality(PlacingFor(c)') \in Nat /\ Cardinality(PlacingFor(c)') <= Cardinality(PlacingFor(c))
  BY <1>1, FS_Subset, FS_CardinalityType
<1>4. Cardinality(CountedOf(c)) + Cardinality(PlacingFor(c)) <= MaxPending + Cardinality(Shopper) - 1
  BY DEF RoomIsCharged
<1> QED BY <1>1, <1>2, <1>3, <1>4, BoundsAreNumbers

\* A request that has counted has found room for one more, and is itself one of
\* the requests that may be about to place.
LEMMA CountingKeepsRoom ==
    ASSUME FirstOrdersTypeOK, RoomIsCharged, NEW s \in Shopper, CountPending(s)
    PROVE  RoomIsCharged'
<1> SUFFICES ASSUME NEW c \in Shopper
             PROVE  Cardinality(CountedOf(c)') + Cardinality(PlacingFor(c)')
                        <= MaxPending + Cardinality(Shopper) - 1
  BY DEF RoomIsCharged
<1>1. CountedOf(c)' = CountedOf(c)
  BY DEF CountPending, orderVars, CountedOf, orderVars
<1>2. CASE c = customerOf[s]
  <2>1. Cardinality(CountedOf(c)) < MaxPending
    BY <1>2, CountsAreNumbers, BoundsAreNumbers DEF CountPending, orderVars, HasRoom
  <2>2. PlacingFor(c)' \in SUBSET Shopper
    BY DEF PlacingFor
  <2>3. Cardinality(PlacingFor(c)') \in Nat /\ Cardinality(PlacingFor(c)') <= Cardinality(Shopper)
    BY <2>2, FiniteThreads, FS_Subset, FS_CardinalityType
  <2> QED BY <1>1, <2>1, <2>3, CountsAreNumbers, BoundsAreNumbers
<1>3. CASE c # customerOf[s]
  <2>1. PlacingFor(c)' = PlacingFor(c)
    BY <1>3 DEF PlacingFor, CountPending, Goes, FirstOrdersTypeOK
  <2> QED BY <1>1, <2>1, FewerAreInRoom
<1> QED BY <1>2, <1>3

\* An order placed is one more counted and one less about to be.
LEMMA PlacingKeepsRoom ==
    ASSUME FirstOrdersTypeOK, OrdersForItsCustomer, RoomIsCharged, NEW s \in Shopper, Place(s)
    PROVE  RoomIsCharged'
<1> SUFFICES ASSUME NEW c \in Shopper
             PROVE  Cardinality(CountedOf(c)') + Cardinality(PlacingFor(c)')
                        <= MaxPending + Cardinality(Shopper) - 1
  BY DEF RoomIsCharged
<1>1. /\ counted' = counted \cup {<<placed + 1, customerOf[s]>>}
      /\ shopper[s] = "place" /\ shopper' = [shopper EXCEPT ![s] = "new"]
      /\ customerOf' = [customerOf EXCEPT ![s] = NoCustomer]
  BY DEF Place, CommitsCustomer, Goes
<1>2. CASE c = customerOf[s]
  <2>1. CountedOf(c)' = CountedOf(c) \cup {<<placed + 1, c>>}
    BY <1>1, <1>2 DEF CountedOf
  <2>2. s \in PlacingFor(c) /\ PlacingFor(c)' = PlacingFor(c) \ {s}
    BY <1>1, <1>2 DEF PlacingFor, FirstOrdersTypeOK
  <2> DEFINE held == CountedOf(c)
             near == PlacingFor(c)
  <2>3. /\ IsFiniteSet(held) /\ Cardinality(held) \in Nat
        /\ IsFiniteSet(near) /\ Cardinality(near) \in Nat
    BY CountsAreNumbers
  <2>4. Cardinality(held) + Cardinality(near) <= MaxPending + Cardinality(Shopper) - 1
    BY DEF RoomIsCharged
  <2> HIDE DEF held, near
  <2>5. Cardinality(held \cup {<<placed + 1, c>>}) \in {Cardinality(held), Cardinality(held) + 1}
    BY <2>3, FS_AddElement
  <2>6. Cardinality(near \ {s}) = Cardinality(near) - 1
    BY <2>2, <2>3, FS_RemoveElement DEF near
  <2> QED BY <2>1, <2>2, <2>3, <2>4, <2>5, <2>6, BoundsAreNumbers DEF held, near
<1>3. CASE c # customerOf[s]
  <2>1. CountedOf(c)' \subseteq CountedOf(c)
    BY <1>1, <1>3 DEF CountedOf
  <2>2. PlacingFor(c)' \subseteq PlacingFor(c)
    BY <1>1 DEF PlacingFor, FirstOrdersTypeOK
  <2> QED BY <2>1, <2>2, FewerAreInRoom
<1> QED BY <1>2, <1>3

-----------------------------------------------------------------------------
(* The customer row.                                                       *)

LEMMA FirstOrdersStep ==
    ASSUME FirstOrdersTypeOK, FirstOrdersInv, [FirstOrdersNext]_firstOrderVars
    PROVE  FirstOrdersInv'
<1> DEFINE Rows == OneRowAtMost /\ InsertedIsUnderWay /\ OrdersForItsCustomer /\ PendingHasCustomer
<1> USE DEF FirstOrdersInv
<1>1. ASSUME \A c \in Shopper : /\ CountedOf(c)' \subseteq CountedOf(c)
                                /\ PlacingFor(c)' \subseteq PlacingFor(c)
      PROVE  RoomIsCharged'
  BY <1>1, FewerAreInRoom DEF RoomIsCharged
<1>2. ASSUME NEW s \in Shopper, Look(s)
      PROVE  FirstOrdersInv'
  <2>1. Rows'
    BY <1>2 DEF Look, orderVars, Goes, FirstOrdersTypeOK, OneRowAtMost, InsertedIsUnderWay,
                OrdersForItsCustomer, PendingHasCustomer
  <2>2. \A c \in Shopper : CountedOf(c)' \subseteq CountedOf(c) /\ PlacingFor(c)' \subseteq PlacingFor(c)
    BY <1>2 DEF Look, orderVars, Goes, FirstOrdersTypeOK, CountedOf, PlacingFor
  <2> QED BY <1>1, <2>1, <2>2
<1>3. ASSUME NEW s \in Shopper, Insert(s)
      PROVE  FirstOrdersInv'
  <2>1. Rows'
    <3>1. CASE Taken
      BY <1>3, <3>1 DEF Insert, orderVars, Taken, Goes, FirstOrdersTypeOK, OneRowAtMost, InsertedIsUnderWay,
                OrdersForItsCustomer, PendingHasCustomer
    <3>2. CASE ~Taken
      <4>1. rows = {} /\ inserted = {} /\ inserted' = {s} /\ rows' = {}
        BY <1>3, <3>2 DEF Insert, orderVars, Taken
      <4>2. shopper[s] = "insert"
        BY <1>3, <3>2 DEF Insert, orderVars, Goes
      <4> QED BY <1>3, <3>2, <4>1, <4>2 DEF Insert, orderVars, Taken, Goes, FirstOrdersTypeOK, OneRowAtMost,
                InsertedIsUnderWay, OrdersForItsCustomer, PendingHasCustomer
    <3> QED BY <3>1, <3>2
  <2>2. \A c \in Shopper : CountedOf(c)' \subseteq CountedOf(c) /\ PlacingFor(c)' \subseteq PlacingFor(c)
    BY <1>3 DEF Insert, orderVars, Goes, FirstOrdersTypeOK, CountedOf, PlacingFor
  <2> QED BY <1>1, <2>1, <2>2
<1>4. ASSUME NEW s \in Shopper, ReadWinner(s)
      PROVE  FirstOrdersInv'
  <2>1. Cardinality(rows) = 1
    <3>1. PICK r \in rows : TRUE
      BY <1>4 DEF ReadWinner, orderVars, Goes, OrdersForItsCustomer
    <3>2. rows = {r}
      BY <3>1 DEF OneRowAtMost
    <3> QED BY <3>2, FS_Singleton
  <2>2. Rows'
    BY <1>4, <2>1 DEF ReadWinner, orderVars, Goes, FirstOrdersTypeOK, OneRowAtMost, InsertedIsUnderWay,
                OrdersForItsCustomer, PendingHasCustomer
  <2>3. \A c \in Shopper : CountedOf(c)' \subseteq CountedOf(c) /\ PlacingFor(c)' \subseteq PlacingFor(c)
    BY <1>4 DEF ReadWinner, orderVars, Goes, FirstOrdersTypeOK, CountedOf, PlacingFor
  <2> QED BY <1>1, <2>2, <2>3
<1>5. ASSUME NEW s \in Shopper, CountPending(s)
      PROVE  FirstOrdersInv'
  <2>1. Rows'
    BY <1>5 DEF CountPending, orderVars, Goes, FirstOrdersTypeOK, OneRowAtMost, InsertedIsUnderWay,
                OrdersForItsCustomer, PendingHasCustomer
  <2> QED BY <1>5, <2>1, CountingKeepsRoom
<1>6. ASSUME NEW s \in Shopper, GiveUp(s)
      PROVE  FirstOrdersInv'
  <2>1. Rows'
    BY <1>6 DEF GiveUp, orderVars, RolledBack, Goes, FirstOrdersTypeOK, OneRowAtMost, InsertedIsUnderWay,
                OrdersForItsCustomer, PendingHasCustomer
  <2>2. \A c \in Shopper : CountedOf(c)' \subseteq CountedOf(c) /\ PlacingFor(c)' \subseteq PlacingFor(c)
    BY <1>6 DEF GiveUp, orderVars, Goes, FirstOrdersTypeOK, CountedOf, PlacingFor
  <2> QED BY <1>1, <2>1, <2>2
<1>7. ASSUME NEW s \in Shopper, Place(s)
      PROVE  FirstOrdersInv'
  <2>1. Rows'
    BY <1>7 DEF Place, CommitsCustomer, Goes, FirstOrdersTypeOK, OneRowAtMost, InsertedIsUnderWay,
                OrdersForItsCustomer, PendingHasCustomer
  <2> QED BY <1>7, <2>1, PlacingKeepsRoom
<1>8. ASSUME NEW p \in pending, Settled(p)
      PROVE  FirstOrdersInv'
  <2>1. Rows'
    BY <1>8 DEF Settled, OneRowAtMost, InsertedIsUnderWay, OrdersForItsCustomer, PendingHasCustomer
  <2>2. \A c \in Shopper : CountedOf(c)' \subseteq CountedOf(c) /\ PlacingFor(c)' \subseteq PlacingFor(c)
    BY <1>8 DEF Settled, CountedOf, PlacingFor
  <2> QED BY <1>1, <2>1, <2>2
<1>10. ASSUME NEW s \in Shopper, MakeCustomer(s)
      PROVE  FirstOrdersInv'
  <2>1. Rows'
    BY <1>10 DEF MakeCustomer, CommitsCustomer, orderVars, Goes, FirstOrdersTypeOK, OneRowAtMost,
                InsertedIsUnderWay, OrdersForItsCustomer, PendingHasCustomer
  <2>2. \A c \in Shopper : CountedOf(c)' \subseteq CountedOf(c) /\ PlacingFor(c)' \subseteq PlacingFor(c)
    BY <1>10 DEF MakeCustomer, CommitsCustomer, orderVars, Goes, FirstOrdersTypeOK, CountedOf, PlacingFor
  <2> QED BY <1>1, <2>1, <2>2
<1>11. ASSUME NEW c \in rows, ConsoleOrder(c)
      PROVE  FirstOrdersInv'
  <2>1. Rows'
    BY <1>11 DEF ConsoleOrder, OneRowAtMost, InsertedIsUnderWay, OrdersForItsCustomer, PendingHasCustomer
  <2>2. \A d \in Shopper : CountedOf(d)' \subseteq CountedOf(d) /\ PlacingFor(d)' \subseteq PlacingFor(d)
    BY <1>11 DEF ConsoleOrder, CountedOf, PlacingFor
  <2> QED BY <1>1, <2>1, <2>2
<1>12. ASSUME NEW p \in moved, SetBack(p)
      PROVE  FirstOrdersInv'
  <2>1. Rows'
    BY <1>12 DEF SetBack, OneRowAtMost, InsertedIsUnderWay, OrdersForItsCustomer, PendingHasCustomer
  <2>2. \A d \in Shopper : CountedOf(d)' \subseteq CountedOf(d) /\ PlacingFor(d)' \subseteq PlacingFor(d)
    BY <1>12 DEF SetBack, CountedOf, PlacingFor
  <2> QED BY <1>1, <2>1, <2>2
<1>9. CASE UNCHANGED firstOrderVars
  <2>1. Rows'
    BY <1>9 DEF firstOrderVars, orderVars, OneRowAtMost, InsertedIsUnderWay, OrdersForItsCustomer,
                PendingHasCustomer
  <2>2. \A c \in Shopper : CountedOf(c)' \subseteq CountedOf(c) /\ PlacingFor(c)' \subseteq PlacingFor(c)
    BY <1>9 DEF firstOrderVars, orderVars, CountedOf, PlacingFor
  <2> QED BY <1>1, <2>1, <2>2
<1> QED
  BY <1>2, <1>3, <1>4, <1>5, <1>6, <1>7, <1>8, <1>9, <1>10, <1>11, <1>12
  DEF FirstOrdersNext, ShopperStep

LEMMA FirstOrdersStart ==
    ASSUME FirstOrdersInit
    PROVE  FirstOrdersTypeOK /\ FirstOrdersInv
<1>1. FirstOrdersTypeOK
  BY FS_EmptySet DEF FirstOrdersInit, FirstOrdersTypeOK
<1>2. /\ OneRowAtMost /\ InsertedIsUnderWay /\ OrdersForItsCustomer /\ PendingHasCustomer
  BY DEF FirstOrdersInit, OneRowAtMost, InsertedIsUnderWay, OrdersForItsCustomer,
         PendingHasCustomer
<1>3. RoomIsCharged
  <2> SUFFICES ASSUME NEW c \in Shopper
               PROVE  Cardinality(CountedOf(c)) + Cardinality(PlacingFor(c))
                          <= MaxPending + Cardinality(Shopper) - 1
    BY DEF RoomIsCharged
  <2>1. CountedOf(c) = {} /\ PlacingFor(c) = {}
    BY DEF FirstOrdersInit, CountedOf, PlacingFor
  <2>2. Cardinality(CountedOf(c)) = 0 /\ Cardinality(PlacingFor(c)) = 0
    BY <2>1, FS_EmptySet
  <2> QED BY <2>2, BoundsAreNumbers
<1> QED BY <1>1, <1>2, <1>3 DEF FirstOrdersInv

\* The overlapping first orders of an account end up with one customer, which
\* exists, and what its checkouts place overruns the ceiling on unpaid orders by no
\* more than themselves (order_writes.py, customer_for_user and refuse_too_many_pending).
THEOREM OneCustomerInBoundsHolds == FirstOrdersSpec => []OneCustomerInBounds
<1>1. FirstOrdersInit => FirstOrdersTypeOK /\ FirstOrdersInv
  BY FirstOrdersStart
<1>2. FirstOrdersTypeOK /\ FirstOrdersInv /\ [FirstOrdersNext]_firstOrderVars
          => (FirstOrdersTypeOK /\ FirstOrdersInv)'
  BY FirstOrdersTypeStep, FirstOrdersStep DEF FirstOrdersInv
<1>3. FirstOrdersTypeOK /\ FirstOrdersInv => OneCustomerInBounds
  <2> SUFFICES ASSUME FirstOrdersTypeOK, FirstOrdersInv
               PROVE  OneCustomer /\ CheckoutsAreBounded
    BY DEF OneCustomerInBounds
  <2>1. Cardinality(rows) <= 1
    <3>1. CASE rows = {}
      BY <3>1, FS_EmptySet
    <3>2. ASSUME NEW r \in rows
          PROVE  Cardinality(rows) <= 1
      <4>1. rows = {r}
        BY <3>2 DEF FirstOrdersInv, OneRowAtMost
      <4> QED BY <4>1, FS_Singleton
    <3> QED BY <3>1, <3>2
  <2>2. OneCustomer
    BY <2>1 DEF OneCustomer, FirstOrdersInv, OrdersForItsCustomer, PendingHasCustomer
  <2>3. CheckoutsAreBounded
    <3> SUFFICES ASSUME NEW c \in rows
                 PROVE  Cardinality(CountedOf(c)) <= MaxPending + Cardinality(Shopper) - 1
      BY DEF CheckoutsAreBounded
    <3>1. Cardinality(CountedOf(c)) + Cardinality(PlacingFor(c))
              <= MaxPending + Cardinality(Shopper) - 1
      BY DEF FirstOrdersInv, RoomIsCharged, FirstOrdersTypeOK
    <3> QED BY <3>1, CountsAreNumbers, BoundsAreNumbers
  <2> QED BY <2>2, <2>3
<1> QED BY <1>1, <1>2, <1>3, PTL DEF FirstOrdersSpec

-----------------------------------------------------------------------------
(* An auction's own row, and the transitions that wait for it.             *)

LEMMA LockedTypeStep ==
    ASSUME LockedTypeOK, [LockedNext]_lockedVars
    PROVE  LockedTypeOK'
<1>1. CASE UNCHANGED lockedVars
  BY <1>1 DEF lockedVars, LockedTypeOK
<1>2. ASSUME NEW t \in Transition, NEW k \in Kind, Load(t, k)
      PROVE  LockedTypeOK'
  <2>1. [row |-> row, slots |-> slots] \in [row : AuctionRow, slots : SUBSET Nat]
    BY DEF LockedTypeOK
  <2> QED BY <1>2, <2>1 DEF Load, LockedTypeOK
<1>3. ASSUME NEW t \in Transition, LockAuction(t)
      PROVE  LockedTypeOK'
  <2>1. seen' \in [Transition -> [row : AuctionRow, slots : SUBSET Nat]]
    BY <1>3 DEF LockAuction, ReadAgain, LockedTypeOK
  <2> QED BY <1>3, <2>1 DEF LockAuction, LockedTypeOK
<1>4. ASSUME NEW t \in Transition, LockCoins(t)
      PROVE  LockedTypeOK'
  BY <1>4 DEF LockCoins, LockedTypeOK
<1>5. ASSUME NEW t \in Transition, Answer(t)
      PROVE  /\ kind' \in [Transition -> Kind \cup {"none"}]
             /\ at' \in [Transition -> {"new", "read", "auction", "coins"}]
             /\ seen' \in [Transition -> [row : AuctionRow, slots : SUBSET Nat]]
             /\ holder' \in [{"auction", "coins"} -> Transition \cup {NoHolder}]
  <2>1. Unread \in [row : AuctionRow, slots : SUBSET Nat]
    BY DEF Unread, AuctionRow, Status
  <2> QED BY <1>5, <2>1 DEF Answer, Release, LockedTypeOK
<1>6. ASSUME NEW t \in Transition, RefuseStatus(t)
      PROVE  LockedTypeOK'
  BY <1>5, <1>6 DEF RefuseStatus, LockedTypeOK
<1>7. ASSUME NEW t \in Transition, Write(t)
      PROVE  LockedTypeOK'
  <2>1. seen[t].row \in AuctionRow /\ kind[t] \in Kind \cup {"none"} /\ row \in AuctionRow
        /\ slots \subseteq Nat /\ added \in Nat
    BY DEF LockedTypeOK
  <2>2. StatusFrom(kind[t], seen[t].row.status) \in Status
    BY <2>1 DEF StatusFrom, AuctionRow, Status
  <2>3. Written(t) \in AuctionRow
    BY <2>1, <2>2 DEF Written, AuctionRow
  <2>4. SlotsAfter(t) \subseteq Nat
    BY <2>1 DEF SlotsAfter
  <2>5. row' \in AuctionRow /\ slots' \subseteq Nat /\ added' \in Nat
    <3>1. CASE UNCHANGED <<row, slots, added>>
      BY <2>1, <3>1
    <3>2. CASE /\ row' = (IF WritesAuction(kind[t]) THEN Written(t) ELSE row)
               /\ slots' = SlotsAfter(t)
               /\ added' = (IF kind[t] = "add" THEN added + 1 ELSE added)
      <4>1. row' = Written(t) \/ row' = row
        BY <3>2
      <4>2. added' = added + 1 \/ added' = added
        BY <3>2
      <4> QED BY <2>1, <2>3, <2>4, <3>2, <4>1, <4>2
    <3> QED BY <1>7, <3>1, <3>2 DEF Write
  <2> QED BY <1>5, <1>7, <2>5 DEF Write, LockedTypeOK
<1> QED BY <1>1, <1>2, <1>3, <1>4, <1>6, <1>7 DEF LockedNext, TransitionStep

\* An answered request has let go, and the others have not noticed.
LEMMA AnswerFrees ==
    ASSUME LockedTypeOK, NEW t \in Transition, Answer(t)
    PROVE  /\ \A u \in Transition : u # t => /\ at'[u] = at[u] /\ kind'[u] = kind[u]
                                              /\ seen'[u] = seen[u]
           /\ \A u \in Transition : u # t /\ holder["auction"] = u => holder'["auction"] = u
           /\ at'[t] = "new" /\ seen'[t].row.version = 0
BY DEF Answer, Release, Unread, LockedTypeOK

\* Whoever may write the auction row, or has the lock, is alone with it.
LEMMA WritesAlone ==
    ASSUME LockedTypeOK, LockedInv, NEW t \in Transition, Write(t),
           NEW u \in Transition, u # t, at[u] \in {"auction", "coins"}, LocksAuction(kind[u])
    PROVE  UNCHANGED <<row, slots, added>>
<1>1. holder["auction"] = u
  BY DEF LockedInv, HoldsWhatItReads
<1>2. ~FreeRow("auction", t)
  BY <1>1, NobodyIsNoRequest DEF FreeRow
<1>3. ~LocksAuction(kind[t]) \/ at[t] = "read"
  BY <1>1 DEF Write, LockedInv, HoldsWhatItReads
<1>4. ~WritesAuction(kind[t])
  BY <1>2 DEF Write
<1>5. kind[t] \notin {"add", "remove", "cancel"}
  BY <1>3, <1>4 DEF Write, LocksAuction, WritesAuction
<1> QED BY <1>4, <1>5 DEF Write, SlotsAfter

\* A transition writes what it decides from the row there is.
LEMMA WritesFromCurrent ==
    ASSUME LockedTypeOK, LockedInv, NEW t \in Transition, Write(t),
           ~UNCHANGED <<row, slots>>
    PROVE  /\ kind[t] \in Kind /\ Accepts(kind[t], row.status)
           /\ row' = IF WritesAuction(kind[t])
                     THEN [status |-> StatusFrom(kind[t], row.status),
                           version |-> row.version + 1]
                     ELSE row
           /\ slots' = SlotsAfter(t)
           /\ seen[t].row = row
<1>1. kind[t] # "none"
  BY DEF Write, SlotsAfter, WritesAuction
<1>2. ~(WritesAuction(kind[t]) /\ ~Fresh(t))
  BY DEF Write
<1>3. seen[t].row = row
  <2>1. CASE LocksAuction(kind[t])
    BY <2>1 DEF Write, LockedInv, LockedIsCurrent, LocksAuction
  <2>2. CASE WritesAuction(kind[t])
    BY <1>2, <2>2 DEF Fresh, LockedInv, VersionTellsStatus
  <2>3. CASE ~LocksAuction(kind[t]) /\ ~WritesAuction(kind[t])
    BY <2>3 DEF Write, LocksAuction, SlotsAfter
  <2> QED BY <2>1, <2>2, <2>3
<1> QED BY <1>1, <1>2, <1>3 DEF Write, Written, LockedTypeOK

LEMMA LockedStep ==
    ASSUME LockedTypeOK, LockedInv, [LockedNext]_lockedVars, LockedTypeOK'
    PROVE  LockedInv'
<1>1. CASE UNCHANGED lockedVars
  BY <1>1 DEF lockedVars, LockedInv, HoldsWhatItReads, UnlockedStayRead, VersionTellsStatus,
              CancelledIsEmpty, LockedIsCurrent, VersionsBegin
<1>2. ASSUME NEW t \in Transition, NEW k \in Kind, Load(t, k)
      PROVE  LockedInv'
  <2>1. /\ at' = [at EXCEPT ![t] = "read"] /\ kind' = [kind EXCEPT ![t] = k]
        /\ seen' = [seen EXCEPT ![t] = [row |-> row, slots |-> slots]]
        /\ UNCHANGED <<row, slots, holder>>
    BY <1>2 DEF Load
  <2>2. \A u \in Transition : u # t => /\ at'[u] = at[u] /\ kind'[u] = kind[u]
                                       /\ seen'[u] = seen[u]
    BY <2>1 DEF LockedTypeOK
  <2>3. at'[t] = "read" /\ seen'[t].row = row
    BY <2>1 DEF LockedTypeOK
  <2>4. HoldsWhatItReads' /\ UnlockedStayRead' /\ CancelledIsEmpty' /\ LockedIsCurrent'
    BY <2>1, <2>2, <2>3 DEF LockedInv, HoldsWhatItReads, UnlockedStayRead, CancelledIsEmpty,
                            LockedIsCurrent
  <2>5. VersionTellsStatus'
    BY <2>1, <2>2, <2>3 DEF LockedInv, VersionTellsStatus, LockedTypeOK, AuctionRow
  <2> QED BY <2>1, <2>4, <2>5 DEF LockedInv, VersionsBegin
<1>3. ASSUME NEW t \in Transition, LockAuction(t)
      PROVE  LockedInv'
  <2>1. /\ at' = [at EXCEPT ![t] = "auction"]
        /\ seen' = [seen EXCEPT ![t].row = row]
        /\ holder' = [holder EXCEPT !["auction"] = t]
        /\ holder["auction"] \in {NoHolder, t}
        /\ LocksAuction(kind[t]) /\ UNCHANGED <<kind, row, slots>>
    BY <1>3 DEF LockAuction, ReadAgain, FreeRow
  <2>2. \A u \in Transition : u # t => at'[u] = at[u] /\ seen'[u] = seen[u]
    BY <2>1 DEF LockedTypeOK
  <2>3. at'[t] = "auction" /\ seen'[t].row = row /\ holder'["auction"] = t
    BY <2>1 DEF LockedTypeOK
  <2>4. \A u \in Transition :
            u # t => ~(at[u] \in {"auction", "coins"} /\ LocksAuction(kind[u]))
    BY <2>1, NobodyIsNoRequest DEF LockedInv, HoldsWhatItReads
  <2>5. HoldsWhatItReads' /\ UnlockedStayRead' /\ CancelledIsEmpty'
    BY <2>1, <2>2, <2>3, <2>4 DEF LockedInv, HoldsWhatItReads, UnlockedStayRead,
                                  CancelledIsEmpty
  <2>6. LockedIsCurrent'
    <3>1. \A u \in Transition : at'[u] = "coins" => u # t /\ at[u] = "coins"
      BY <2>2, <2>3
    <3> QED BY <2>1, <2>2, <2>3, <2>4, <3>1 DEF LockedInv, LockedIsCurrent
  <2>7. VersionTellsStatus'
    BY <2>1, <2>2, <2>3 DEF LockedInv, VersionTellsStatus, LockedTypeOK, AuctionRow
  <2> QED BY <2>1, <2>5, <2>6, <2>7 DEF LockedInv, VersionsBegin
<1>4. ASSUME NEW t \in Transition, LockCoins(t)
      PROVE  LockedInv'
  <2>1. /\ at' = [at EXCEPT ![t] = "coins"]
        /\ holder' = [holder EXCEPT !["coins"] = t]
        /\ \/ at[t] = "auction" /\ kind[t] # "edit"
           \/ at[t] = "read" /\ ~LocksAuction(kind[t]) /\ kind[t] \notin {"schedule", "close"}
        /\ GridFits(t) /\ UNCHANGED <<kind, seen, row, slots>>
    BY <1>4 DEF LockCoins
  <2>2. /\ \A u \in Transition : u # t => at'[u] = at[u]
        /\ at'[t] = "coins" /\ holder'["auction"] = holder["auction"]
    BY <2>1 DEF LockedTypeOK
  <2>3. at[t] = "auction" => LocksAuction(kind[t]) /\ kind[t] \notin {"edit", "schedule", "close"}
    BY <2>1 DEF LockedInv, UnlockedStayRead, LocksAuction
  <2>4. at[t] = "read" => kind[t] \notin {"edit", "schedule", "close"}
    BY <2>1 DEF LocksAuction
  <2>5. HoldsWhatItReads' /\ UnlockedStayRead' /\ CancelledIsEmpty' /\ VersionTellsStatus'
    BY <2>1, <2>2, <2>3, <2>4 DEF LockedInv, HoldsWhatItReads, UnlockedStayRead,
                                  CancelledIsEmpty, VersionTellsStatus
  <2>6. LockedIsCurrent'
    BY <2>1, <2>2, <2>3 DEF LockedInv, LockedIsCurrent, GridFits
  <2> QED BY <2>1, <2>5, <2>6 DEF LockedInv, VersionsBegin
<1>6. ASSUME NEW t \in Transition, RefuseStatus(t)
      PROVE  LockedInv'
  <2>1. Answer(t) /\ UNCHANGED <<row, slots>>
    BY <1>6 DEF RefuseStatus
  <2>2. /\ \A u \in Transition : u # t => /\ at'[u] = at[u] /\ kind'[u] = kind[u]
                                          /\ seen'[u] = seen[u]
        /\ \A u \in Transition : u # t /\ holder["auction"] = u => holder'["auction"] = u
        /\ at'[t] = "new" /\ seen'[t].row.version = 0
    BY <2>1, AnswerFrees
  <2>3. HoldsWhatItReads' /\ UnlockedStayRead' /\ CancelledIsEmpty' /\ LockedIsCurrent'
    BY <2>1, <2>2 DEF LockedInv, HoldsWhatItReads, UnlockedStayRead, CancelledIsEmpty,
                      LockedIsCurrent
  <2>4. VersionTellsStatus'
    <3> SUFFICES ASSUME NEW u \in Transition
                 PROVE  /\ seen'[u].row.version <= row.version
                        /\ seen'[u].row.version = row.version => seen'[u].row = row
      BY <2>1 DEF VersionTellsStatus
    <3>1. row.version \in Nat \ {0}
      BY DEF LockedTypeOK, LockedInv, VersionsBegin, AuctionRow
    <3> QED BY <2>2, <3>1 DEF LockedInv, VersionTellsStatus
  <2> QED BY <2>3, <2>4, <2>1 DEF LockedInv, VersionsBegin
<1>7. ASSUME NEW t \in Transition, Write(t)
      PROVE  LockedInv'
  <2>1. Answer(t)
    BY <1>7 DEF Write
  <2>2. /\ \A u \in Transition : u # t => /\ at'[u] = at[u] /\ kind'[u] = kind[u]
                                          /\ seen'[u] = seen[u]
        /\ \A u \in Transition : u # t /\ holder["auction"] = u => holder'["auction"] = u
        /\ at'[t] = "new" /\ seen'[t].row.version = 0
    BY <2>1, AnswerFrees
  <2>3. HoldsWhatItReads' /\ UnlockedStayRead'
    BY <2>2 DEF LockedInv, HoldsWhatItReads, UnlockedStayRead
  <2>4. CASE UNCHANGED <<row, slots>>
    <3>1. CancelledIsEmpty' /\ LockedIsCurrent' /\ VersionsBegin'
      BY <2>2, <2>4 DEF LockedInv, CancelledIsEmpty, LockedIsCurrent, VersionsBegin
    <3>2. VersionTellsStatus'
      BY <2>2, <2>4, SMTT(20) DEF LockedInv, VersionTellsStatus, VersionsBegin, LockedTypeOK, AuctionRow
    <3> QED BY <2>3, <3>1, <3>2 DEF LockedInv
  <2>5. CASE ~UNCHANGED <<row, slots>>
    <3>1. /\ kind[t] \in Kind /\ Accepts(kind[t], row.status)
          /\ row' = IF WritesAuction(kind[t])
                    THEN [status |-> StatusFrom(kind[t], row.status), version |-> row.version + 1]
                    ELSE row
          /\ slots' = SlotsAfter(t)
      BY <1>7, <2>5, WritesFromCurrent
    <3>2. row' = row \/ row'.version = row.version + 1
      BY <3>1
    <3>3. row.version \in Nat /\ \A u \in Transition : seen[u].row.version \in Nat
      BY DEF LockedTypeOK, AuctionRow
    <3>4. VersionTellsStatus' /\ VersionsBegin'
      BY <2>2, <3>2, <3>3 DEF LockedInv, VersionTellsStatus, VersionsBegin
    <3>5. CancelledIsEmpty'
      BY <3>1 DEF LockedInv, CancelledIsEmpty, StatusFrom, Accepts, SlotsAfter,
                  WritesAuction, Kind
    <3>6. \A u \in Transition : u # t => ~(at[u] \in {"auction", "coins"} /\ LocksAuction(kind[u]))
      BY <1>7, <2>5, WritesAlone
    <3>7. LocksAuction("settle")
      BY DEF LocksAuction
    <3>8. LockedIsCurrent'
      BY <2>2, <3>6, <3>7 DEF LockedIsCurrent
    <3> QED BY <2>3, <3>4, <3>5, <3>8 DEF LockedInv
  <2> QED BY <2>4, <2>5
<1> QED BY <1>1, <1>2, <1>3, <1>4, <1>6, <1>7 DEF LockedNext, TransitionStep

LEMMA LockedStart ==
    ASSUME LockedInit
    PROVE  LockedTypeOK /\ LockedInv
BY DEF LockedInit, LockedTypeOK, LockedInv, VersionsBegin, HoldsWhatItReads, UnlockedStayRead,
       VersionTellsStatus, CancelledIsEmpty, LockedIsCurrent, Unread, AuctionRow, Status

\* A step of the auction's walk, by what the row says when it is written.
LEMMA WalkStep ==
    ASSUME LockedTypeOK, LockedInv, [LockedNext]_lockedVars
    PROVE  /\ row'.status # row.status =>
                 \E k \in Kind : Accepts(k, row.status) /\ row'.status = StatusFrom(k, row.status)
           /\ row.status \in {"closed", "settled"} /\ row'.status # "cancelled" => slots' = slots
           /\ row.status = "cancelled" => slots' = {}
<1>1. CASE UNCHANGED <<row, slots>>
  BY <1>1 DEF LockedInv, CancelledIsEmpty
<1>2. ASSUME NEW t \in Transition, Write(t), ~UNCHANGED <<row, slots>>
      PROVE  /\ row'.status # row.status =>
                   \E k \in Kind : /\ Accepts(k, row.status)
                                   /\ row'.status = StatusFrom(k, row.status)
             /\ row.status \in {"closed", "settled"} /\ row'.status # "cancelled" =>
                   slots' = slots
             /\ row.status = "cancelled" => slots' = {}
  <2>1. /\ kind[t] \in Kind /\ Accepts(kind[t], row.status)
        /\ row' = IF WritesAuction(kind[t])
                  THEN [status |-> StatusFrom(kind[t], row.status), version |-> row.version + 1]
                  ELSE row
        /\ slots' = SlotsAfter(t)
    BY <1>2, WritesFromCurrent
  <2>2. row'.status # row.status =>
            \E k \in Kind : Accepts(k, row.status) /\ row'.status = StatusFrom(k, row.status)
    BY <2>1
  <2>3. row.status \in {"closed", "settled"} /\ row'.status # "cancelled" => slots' = slots
    BY <2>1 DEF Accepts, StatusFrom, SlotsAfter, WritesAuction, Kind
  <2>4. row.status = "cancelled" => slots' = {}
    BY <2>1 DEF Accepts, SlotsAfter, Kind, LockedInv, CancelledIsEmpty
  <2> QED BY <2>2, <2>3, <2>4
<1>3. UNCHANGED <<row, slots>> \/ \E t \in Transition : Write(t)
  BY DEF LockedNext, TransitionStep, lockedVars, Load, LockAuction, LockCoins, RefuseStatus
<1> QED BY <1>1, <1>2, <1>3

\* What a transition read under the auction's lock still holds when it writes, so
\* the walk of an auction is legal (auctions.py, _lock_auction and the handlers).
THEOREM DecidedUnderTheLockHolds == LockedSpec => DecidedUnderTheLock
<1>1. LockedInit => LockedTypeOK /\ LockedInv
  BY LockedStart
<1>2. LockedTypeOK /\ LockedInv /\ [LockedNext]_lockedVars => (LockedTypeOK /\ LockedInv)'
  BY LockedTypeStep, LockedStep
<1>3. LockedInv => LockedIsCurrent
  BY DEF LockedInv
<1>4. LockedTypeOK /\ LockedInv /\ [LockedNext]_lockedVars =>
          [/\ row'.status # row.status =>
                 \E k \in Kind : Accepts(k, row.status) /\ row'.status = StatusFrom(k, row.status)
           /\ row.status \in {"closed", "settled"} /\ row'.status # "cancelled" => slots' = slots
           /\ row.status = "cancelled" => slots' = {}]_lockedVars
  BY WalkStep
<1> QED BY <1>1, <1>2, <1>3, <1>4, PTL DEF LockedSpec, DecidedUnderTheLock, WalkIsLegal

-----------------------------------------------------------------------------
(* A browser's session, and the refreshes of its tabs.                     *)

LEMMA PairsArePairs ==
    ASSUME TabTypeOK
    PROVE  PairsInUse \subseteq Pair
BY DEF TabTypeOK, PairsInUse

LEMMA NextPairIsNew ==
    ASSUME TabTypeOK
    PROVE  /\ NextPair \in Pair /\ NextPair # NoPair
           /\ NextPair.serial = serial + 1 /\ NextPair.version = version
BY DEF TabTypeOK, NextPair, NoPair, Pair

LEMMA TabTypeStep ==
    ASSUME TabTypeOK, [TabNext]_tabVars
    PROVE  TabTypeOK'
<1> NoPair \in Pair /\ NextPair \in Pair
  BY NextPairIsNew DEF NoPair, Pair
<1> USE TabSessionAssumption
<1>1. CASE UNCHANGED tabVars
  BY <1>1 DEF tabVars, TabTypeOK
<1>2. CASE SignIn
  BY <1>2 DEF SignIn, Issue, TabTypeOK
<1>3. CASE SignOut
  BY <1>3 DEF SignOut, TabTypeOK
<1>4. CASE Retire
  BY <1>4 DEF Retire, TabTypeOK
<1>5. ASSUME NEW n \in fresh, Expire(n)
      PROVE  TabTypeOK'
  BY <1>5 DEF Expire, TabTypeOK
<1>6. ASSUME NEW c \in Call, Send(c)
      PROVE  TabTypeOK'
  BY <1>6 DEF Send, TabTypeOK
<1>7. ASSUME NEW c \in Call, ServerAnswers(c)
      PROVE  TabTypeOK'
  BY <1>7 DEF ServerAnswers, Resting, TabTypeOK
<1>8. ASSUME NEW c \in Call, TakeStored(c)
      PROVE  TabTypeOK'
  BY <1>8 DEF TakeStored, TabTypeOK
<1>9. ASSUME NEW c \in Call, JoinRefresh(c)
      PROVE  TabTypeOK'
  <2>1. TabOf[c] \in Tab
    OBVIOUS
  <2> QED BY <1>9, <2>1 DEF JoinRefresh, TabTypeOK
<1>10. ASSUME NEW c \in Call, ReplayAnswered(c)
       PROVE  TabTypeOK'
  BY <1>10 DEF ReplayAnswered, Resting, TabTypeOK
<1>11. ASSUME NEW t \in Tab, ServerRefreshes(t)
       PROVE  TabTypeOK'
  BY <1>11 DEF ServerRefreshes, Issue, TabTypeOK
<1>12. ASSUME NEW t \in Tab, RefreshFails(t)
       PROVE  TabTypeOK'
  BY <1>12 DEF RefreshFails, TabTypeOK
<1>13. ASSUME NEW t \in Tab, RefreshOver(t)
       PROVE  TabTypeOK'
  <2>1. refreshing[t].got \in Pair
    BY DEF TabTypeOK
  <2>2. call' \in [Call -> [at : {"idle", "out", "refused", "waiting", "replayed"}, with : Pair]]
    BY <1>13, <2>1 DEF RefreshOver, Resting, TabTypeOK
  <2>3. stored' \in Pair
    BY <1>13, <2>1 DEF RefreshOver, TabTypeOK
  <2>4. NoRefresh \in [at : {"none", "out", "issued", "refused", "failed"},
                       with : Pair, got : Pair]
    BY DEF NoRefresh
  <2> QED BY <1>13, <2>2, <2>3, <2>4 DEF RefreshOver, TabTypeOK
<1> QED BY <1>1, <1>2, <1>3, <1>4, <1>5, <1>6, <1>7, <1>8, <1>9, <1>10, <1>11, <1>12, <1>13
        DEF TabNext, CallStep, RefreshStep

\* A step that brings no pair into use, and neither signs in nor undoes a
\* retirement, leaves a session over that was over, and one where there was one.
LEMMA NoNewPair ==
    ASSUME TabTypeOK, TabTypeOK', TabInv, PairsInUse' \subseteq PairsInUse,
           version' >= version, left => left'
    PROVE  OneSession' /\ (SessionOver => SessionOver')
<1>1. \A p \in PairsInUse : p.version \in Nat /\ p.version <= version
  BY PairsArePairs DEF TabInv, OneSession, Pair
<1>2. version \in Nat /\ version' \in Nat
  BY DEF TabTypeOK
<1>3. OneSession'
  BY <1>1, <1>2 DEF OneSession, TabInv
<1>4. SessionOver => SessionOver'
  BY <1>1, <1>2 DEF SessionOver
<1> QED BY <1>3, <1>4

LEMMA TabStep ==
    ASSUME TabTypeOK, TabTypeOK', TabInv, ~HastySignIn, [TabNext]_tabVars
    PROVE  TabInv'
<1> USE TabSessionAssumption
<1>1. CASE UNCHANGED tabVars
  BY <1>1 DEF tabVars, TabInv, OneSession, SessionOver, PairsInUse, EndsWhenOver,
              ReplaysAreFresh, OnlyRetiredIsDropped
<1>2. CASE SignIn
  <2>1. /\ \A c \in Call : call'[c] = Resting
        /\ \A t \in Tab : refreshing'[t] = NoRefresh
        /\ stored' = NextPair /\ version' = version /\ wronged' = wronged
        /\ fresh' = fresh \cup {serial + 1}
    BY <1>2 DEF SignIn, Issue
  <2>2. PairsInUse' = {NextPair}
    BY <2>1, NextPairIsNew DEF PairsInUse, Resting, NoRefresh
  <2>3. OneSession'
    BY <2>1, <2>2, NextPairIsNew DEF OneSession, TabTypeOK
  <2>4. EndsWhenOver' /\ ReplaysAreFresh'
    BY <2>1, NextPairIsNew DEF EndsWhenOver, ReplaysAreFresh, Resting, NoRefresh
  <2> QED BY <2>1, <2>3, <2>4 DEF TabInv, OnlyRetiredIsDropped
<1>3. CASE SignOut
  <2>1. PairsInUse' \subseteq PairsInUse
    BY <1>3 DEF SignOut, PairsInUse
  <2>2. version' \in {version, version + 1} /\ left' = TRUE
    BY <1>3 DEF SignOut
  <2>3. OneSession'
    BY <2>1, <2>2, NoNewPair DEF TabTypeOK
  <2>4. EndsWhenOver' /\ ReplaysAreFresh'
    BY <1>3, <2>2 DEF SignOut, TabInv, EndsWhenOver, SessionOver, ReplaysAreFresh
  <2> QED BY <1>3, <2>3, <2>4 DEF SignOut, TabInv, OnlyRetiredIsDropped
<1>4. CASE Retire
  <2>1. PairsInUse' = PairsInUse
    BY <1>4 DEF Retire, PairsInUse
  <2>2. version' = version + 1 /\ UNCHANGED <<stored, call, refreshing, fresh, left, wronged>>
    BY <1>4 DEF Retire
  <2>3. OneSession' /\ (SessionOver => SessionOver')
    BY <2>1, <2>2, NoNewPair DEF TabTypeOK
  <2> QED BY <2>2, <2>3 DEF TabInv, EndsWhenOver, ReplaysAreFresh, OnlyRetiredIsDropped
<1>5. ASSUME NEW n \in fresh, Expire(n)
      PROVE  TabInv'
  <2>1. PairsInUse' = PairsInUse
    BY <1>5 DEF Expire, PairsInUse
  <2>2. /\ fresh' = fresh \ {n}
        /\ UNCHANGED <<stored, call, refreshing, version, left, wronged>>
    BY <1>5 DEF Expire
  <2>3. ReplaysAreFresh'
    BY <1>5, <2>2 DEF Expire, TabInv, ReplaysAreFresh, Resting
  <2> QED BY <2>1, <2>2, <2>3 DEF TabInv, OneSession, SessionOver, EndsWhenOver,
                                  OnlyRetiredIsDropped
<1>6. ASSUME NEW c \in Call, Send(c)
      PROVE  TabInv'
  <2>1. /\ call'[c] = [at |-> "out", with |-> stored] /\ stored # NoPair
        /\ \A d \in Call : d # c => call'[d] = call[d]
        /\ UNCHANGED <<stored, refreshing, version, fresh, left, wronged>>
    BY <1>6 DEF Send, TabTypeOK
  <2>2. PairsInUse' \subseteq PairsInUse
    BY <2>1 DEF PairsInUse
  <2>3. OneSession' /\ (SessionOver => SessionOver')
    BY <2>1, <2>2, NoNewPair DEF TabTypeOK
  <2>4. ReplaysAreFresh'
    BY <2>1 DEF TabInv, ReplaysAreFresh
  <2> QED BY <2>1, <2>3, <2>4 DEF TabInv, EndsWhenOver, OnlyRetiredIsDropped
<1>7. ASSUME NEW c \in Call, ServerAnswers(c)
      PROVE  TabInv'
  <2>1. /\ call'[c] = Resting \/ (call'[c].at = "refused" /\ call'[c].with = call[c].with)
        /\ call[c].at = "out"
        /\ \A d \in Call : d # c => call'[d] = call[d]
        /\ UNCHANGED <<stored, refreshing, version, fresh, left, wronged>>
    BY <1>7 DEF ServerAnswers, TabTypeOK
  <2>2. PairsInUse' \subseteq PairsInUse
    BY <2>1 DEF PairsInUse, Resting
  <2>3. OneSession' /\ (SessionOver => SessionOver')
    BY <2>1, <2>2, NoNewPair DEF TabTypeOK
  <2>4. call[c] # Resting
    BY <2>1 DEF Resting
  <2>5. ReplaysAreFresh'
    BY <2>1, <2>4 DEF TabInv, ReplaysAreFresh, Resting
  <2> QED BY <2>1, <2>3, <2>5 DEF TabInv, EndsWhenOver, OnlyRetiredIsDropped
<1>8. ASSUME NEW c \in Call, TakeStored(c)
      PROVE  TabInv'
  <2>1. /\ call'[c] = [at |-> "replayed", with |-> stored]
        /\ stored # NoPair /\ stored.serial # call[c].with.serial /\ call[c].at = "refused"
        /\ \A d \in Call : d # c => call'[d] = call[d]
        /\ UNCHANGED <<stored, refreshing, version, fresh, left, wronged>>
    BY <1>8 DEF TakeStored, RefreshedMeanwhile, TabTypeOK
  <2>2. PairsInUse' \subseteq PairsInUse
    BY <2>1 DEF PairsInUse
  <2>3. OneSession' /\ (SessionOver => SessionOver')
    BY <2>1, <2>2, NoNewPair DEF TabTypeOK
  <2>4. call[c] # Resting
    BY <2>1 DEF Resting
  <2>5. ReplaysAreFresh'
    BY <2>1, <2>4 DEF TabInv, ReplaysAreFresh
  <2> QED BY <2>1, <2>3, <2>5 DEF TabInv, EndsWhenOver, OnlyRetiredIsDropped
<1>9. ASSUME NEW c \in Call, JoinRefresh(c)
      PROVE  TabInv'
  <2> DEFINE t == TabOf[c]
  <2>1. /\ t \in Tab
        /\ call'[c].at = "waiting" /\ call'[c].with = call[c].with /\ call[c].at = "refused"
        /\ \A d \in Call : d # c => call'[d] = call[d]
        /\ UNCHANGED <<stored, version, fresh, left, wronged>>
    BY <1>9 DEF JoinRefresh, TabTypeOK
  <2>2. \/ refreshing' = refreshing
        \/ /\ refreshing'[t].at = "refused" => stored = NoPair
           /\ refreshing'[t].at = "out" => stored # NoPair
           /\ refreshing'[t].with = stored /\ refreshing'[t].got = NoPair
           /\ \A u \in Tab : u # t => refreshing'[u] = refreshing[u]
    BY <1>9, <2>1 DEF JoinRefresh, TabTypeOK
  <2> HIDE DEF t
  <2>3. \A u \in Tab : /\ refreshing'[u].with \in {refreshing[u].with, stored}
                       /\ refreshing'[u].got \in {refreshing[u].got, NoPair}
                       /\ refreshing'[u].at = "refused" =>
                              refreshing[u].at = "refused" \/ stored = NoPair
                       /\ refreshing'[u].at = "out" =>
                              \/ refreshing[u].at = "out" /\ refreshing'[u] = refreshing[u]
                              \/ refreshing'[u].with # NoPair
    BY <2>2
  <2>4. \A d \in Call : call'[d].with = call[d].with
    BY <2>1
  <2>5. PairsInUse' \subseteq PairsInUse
    BY <2>1, <2>3, <2>4 DEF PairsInUse
  <2>6. OneSession' /\ (SessionOver => SessionOver')
    BY <2>1, <2>5, NoNewPair DEF TabTypeOK
  <2>7. EndsWhenOver'
    BY <2>1, <2>3, <2>6 DEF TabInv, EndsWhenOver
  <2>8. call[c] # Resting
    BY <2>1 DEF Resting
  <2>9. ReplaysAreFresh'
    BY <2>1, <2>3, <2>8 DEF TabInv, ReplaysAreFresh
  <2> QED BY <2>1, <2>6, <2>7, <2>9 DEF TabInv, OnlyRetiredIsDropped
<1>10. ASSUME NEW c \in Call, ReplayAnswered(c)
       PROVE  TabInv'
  <2>1. /\ call'[c] = Resting /\ call[c].at = "replayed"
        /\ \A d \in Call : d # c => call'[d] = call[d]
        /\ UNCHANGED <<refreshing, version, fresh, left>>
        /\ IF Accesses(call[c].with) THEN UNCHANGED <<stored, wronged>>
           ELSE stored' = NoPair /\ wronged' = (wronged \/ Wrongs)
    BY <1>10 DEF ReplayAnswered, TabTypeOK
  <2>2. stored' \in {stored, NoPair}
    BY <2>1
  <2>3. PairsInUse' \subseteq PairsInUse
    BY <2>1, <2>2 DEF PairsInUse, Resting
  <2>4. OneSession' /\ (SessionOver => SessionOver')
    BY <2>1, <2>3, NoNewPair DEF TabTypeOK
  <2>5. CASE Accesses(call[c].with)
    BY <2>1, <2>4, <2>5 DEF TabInv, EndsWhenOver, ReplaysAreFresh, OnlyRetiredIsDropped, Resting
  <2>6. CASE ~Accesses(call[c].with)
    <3>1. call[c].with \in PairsInUse /\ call[c].with.version # version
      BY <2>1, <2>6 DEF Accesses, TabInv, ReplaysAreFresh, PairsInUse
    <3>2. SessionOver
      BY <3>1 DEF SessionOver, TabInv, OneSession
    <3>3. ~Wrongs
      BY <3>2 DEF Wrongs, Refreshes, SessionOver, PairsInUse
    <3>4. stored' = NoPair /\ ~wronged'
      BY <2>1, <2>6, <3>3 DEF TabInv, OnlyRetiredIsDropped
    <3>5. ReplaysAreFresh'
      BY <2>1, <3>4 DEF TabInv, ReplaysAreFresh, Resting
    <3> QED BY <2>1, <2>4, <3>2, <3>4, <3>5 DEF TabInv, EndsWhenOver, OnlyRetiredIsDropped
  <2> QED BY <2>5, <2>6
<1>11. ASSUME NEW t \in Tab, ServerRefreshes(t)
       PROVE  TabInv'
  <2>1. /\ refreshing[t].at = "out" /\ refreshing'[t].with = refreshing[t].with
        /\ \A u \in Tab : u # t => refreshing'[u] = refreshing[u]
        /\ UNCHANGED <<stored, call, version, left, wronged>>
    BY <1>11 DEF ServerRefreshes, TabTypeOK
  <2>2. CASE Refreshes(refreshing[t].with)
    <3>1. /\ refreshing'[t].at = "issued" /\ refreshing'[t].got = NextPair
          /\ fresh' = fresh \cup {serial + 1}
      BY <1>11, <2>2 DEF ServerRefreshes, Issue, TabTypeOK
    <3>2. refreshing[t].with \in PairsInUse /\ refreshing[t].with.version = version
      BY <2>2 DEF Refreshes, PairsInUse
    <3>3. PairsInUse' \subseteq PairsInUse \cup {NextPair}
      BY <2>1, <3>1 DEF PairsInUse
    <3>4. \A p \in PairsInUse' : p.version = version
      BY <3>2, <3>3, NextPairIsNew DEF TabInv, OneSession
    <3>5. OneSession'
      BY <2>1, <3>4 DEF OneSession, TabTypeOK
    <3>6. SessionOver => left
      BY <3>2 DEF SessionOver
    <3>7. EndsWhenOver'
      BY <2>1, <3>1, <3>6 DEF TabInv, EndsWhenOver, SessionOver
    <3>8. ReplaysAreFresh'
      BY <2>1, <3>1, NextPairIsNew DEF TabInv, ReplaysAreFresh
    <3> QED BY <2>1, <3>5, <3>7, <3>8 DEF TabInv, OnlyRetiredIsDropped
  <2>3. CASE ~Refreshes(refreshing[t].with)
    <3>1. refreshing'[t].at = "refused" /\ refreshing'[t].got = refreshing[t].got /\ fresh' = fresh
      BY <1>11, <2>3 DEF ServerRefreshes, TabTypeOK
    <3>2. PairsInUse' \subseteq PairsInUse
      BY <2>1, <3>1 DEF PairsInUse
    <3>3. OneSession' /\ (SessionOver => SessionOver')
      BY <2>1, <3>2, NoNewPair DEF TabTypeOK
    <3>4. SessionOver
      <4>1. refreshing[t].with \in PairsInUse /\ refreshing[t].with.version # version
        BY <2>1, <2>3 DEF Refreshes, PairsInUse, TabInv, EndsWhenOver
      <4> QED BY <4>1 DEF SessionOver, TabInv, OneSession
    <3>5. ReplaysAreFresh'
      BY <2>1, <3>1 DEF TabInv, ReplaysAreFresh
    <3> QED BY <2>1, <3>3, <3>4, <3>5 DEF TabInv, EndsWhenOver, OnlyRetiredIsDropped
  <2> QED BY <2>2, <2>3
<1>12. ASSUME NEW t \in Tab, RefreshFails(t)
       PROVE  TabInv'
  <2>1. /\ refreshing'[t].with = refreshing[t].with /\ refreshing'[t].got = refreshing[t].got
        /\ refreshing'[t].at = "failed"
        /\ \A u \in Tab : u # t => refreshing'[u] = refreshing[u]
        /\ UNCHANGED <<stored, call, version, fresh, left, wronged>>
    BY <1>12 DEF RefreshFails, TabTypeOK
  <2>2. PairsInUse' \subseteq PairsInUse
    BY <2>1 DEF PairsInUse
  <2>3. OneSession' /\ (SessionOver => SessionOver')
    BY <2>1, <2>2, NoNewPair DEF TabTypeOK
  <2>4. ReplaysAreFresh'
    BY <2>1 DEF TabInv, ReplaysAreFresh
  <2> QED BY <2>1, <2>3, <2>4 DEF TabInv, EndsWhenOver, OnlyRetiredIsDropped
<1>13. ASSUME NEW t \in Tab, RefreshOver(t)
       PROVE  TabInv'
  <2> DEFINE got == refreshing[t].got
  <2>1. /\ refreshing'[t] = NoRefresh
        /\ \A u \in Tab : u # t => refreshing'[u] = refreshing[u]
        /\ UNCHANGED <<version, fresh, left>>
    BY <1>13 DEF RefreshOver, TabTypeOK
  <2>2. \A c \in Call :
            \/ call'[c] = call[c]
            \/ call'[c] = Resting
            \/ got # NoPair /\ call'[c] = [at |-> "replayed", with |-> got]
    BY <1>13 DEF RefreshOver
  <2>3. \/ got # NoPair /\ stored' = got
        \/ got = NoPair /\ stored' = stored
        \/ got = NoPair /\ refreshing[t].at = "refused" /\ stored' = NoPair
    BY <1>13 DEF RefreshOver, EndsSession
  <2>4. wronged' = (wronged \/ (got = NoPair /\ refreshing[t].at = "refused"
                                /\ Waiting(t) # {} /\ Wrongs))
    BY <1>13 DEF RefreshOver, EndsSession
  <2>5. got = refreshing[t].got
    OBVIOUS
  <2> HIDE DEF got
  <2>6. PairsInUse' \subseteq PairsInUse
    <3>1. \A c \in Call : call'[c].with \in {call[c].with, NoPair, got}
      BY <2>2 DEF Resting
    <3>2. \A u \in Tab : /\ refreshing'[u].with \in {refreshing[u].with, NoPair}
                         /\ refreshing'[u].got \in {refreshing[u].got, NoPair}
      BY <2>1 DEF NoRefresh
    <3>3. stored' \in {stored, NoPair, got}
      BY <2>3
    <3> QED BY <2>5, <3>1, <3>2, <3>3 DEF PairsInUse
  <2>7. OneSession' /\ (SessionOver => SessionOver')
    BY <2>1, <2>6, NoNewPair DEF TabTypeOK
  <2>8. EndsWhenOver'
    BY <2>1, <2>3, <2>7 DEF TabInv, EndsWhenOver, NoRefresh
  <2>9. ReplaysAreFresh'
    <3>1. \A u \in Tab : refreshing'[u].got # NoPair => refreshing'[u].got.serial \in fresh
      BY <2>1 DEF TabInv, ReplaysAreFresh, NoRefresh
    <3>2. got # NoPair => got.serial \in fresh
      BY <2>5 DEF TabInv, ReplaysAreFresh
    <3>3. \A c \in Call : call'[c].at = "replayed" =>
              call'[c].with # NoPair /\ call'[c].with.serial \in fresh
      BY <2>2, <3>2 DEF TabInv, ReplaysAreFresh, Resting
    <3>4. \A c \in Call : stored' # NoPair /\ call'[c] # Resting
                          /\ call'[c].with.serial # stored'.serial => stored'.serial \in fresh
      <4>1. CASE got # NoPair
        BY <2>3, <3>2, <4>1
      <4>2. CASE got = NoPair
        BY <2>2, <2>3, <4>2 DEF TabInv, ReplaysAreFresh
      <4> QED BY <4>1, <4>2
    <3> QED BY <2>1, <3>1, <3>3, <3>4 DEF ReplaysAreFresh
  <2>10. refreshing[t].at = "refused" => ~Wrongs
    BY DEF Wrongs, Refreshes, TabInv, EndsWhenOver, SessionOver, PairsInUse
  <2>11. OnlyRetiredIsDropped'
    BY <2>4, <2>10 DEF TabInv, OnlyRetiredIsDropped
  <2> QED BY <2>7, <2>8, <2>9, <2>11 DEF TabInv
<1> QED BY <1>1, <1>2, <1>3, <1>4, <1>5, <1>6, <1>7, <1>8, <1>9, <1>10, <1>11, <1>12, <1>13
        DEF TabNext, CallStep, RefreshStep

LEMMA TabStart ==
    ASSUME TabInit
    PROVE  TabTypeOK /\ TabInv
<1>1. TabTypeOK
  BY DEF TabInit, TabTypeOK, Resting, NoRefresh, NoPair, Pair
<1>2. PairsInUse = {}
  BY DEF TabInit, PairsInUse, Resting, NoRefresh
<1>3. OneSession /\ EndsWhenOver /\ ReplaysAreFresh /\ OnlyRetiredIsDropped
  BY <1>2 DEF TabInit, OneSession, EndsWhenOver, SessionOver, ReplaysAreFresh,
              OnlyRetiredIsDropped, Resting, NoRefresh
<1> QED BY <1>1, <1>3 DEF TabInv

\* Whatever tabs, calls and failing answers there are, a session is dropped only
\* when it was signed out or the server retired it, as long as nobody signs in
\* while requests of the last session are out (shared/api.js).
THEOREM OnlyRetiredIsDroppedHolds ==
    ASSUME ~HastySignIn
    PROVE  TabSpec => []OnlyRetiredIsDropped
<1>1. TabInit => TabTypeOK /\ TabInv
  BY TabStart
<1>2. TabTypeOK /\ TabInv /\ [TabNext]_tabVars => (TabTypeOK /\ TabInv)'
  BY TabTypeStep, TabStep
<1>3. TabInv => OnlyRetiredIsDropped
  BY DEF TabInv
<1> QED BY <1>1, <1>2, <1>3, PTL DEF TabSpec

-----------------------------------------------------------------------------
(* Accounts, their sessions, and the managers among them.                  *)

\* The columns of an account's row, one by one.
LEMMA Columns ==
    ASSUME NEW m, NEW a, NEW v, NEW p, NEW o, NEW had,
           had = [manager |-> m, active |-> a, version |-> v, password |-> p, oldHash |-> o]
    PROVE  /\ had.manager = m /\ had.active = a /\ had.version = v
           /\ had.password = p /\ had.oldHash = o
           /\ m \in BOOLEAN /\ a \in BOOLEAN /\ v \in Nat /\ p \in Nat /\ o \in BOOLEAN =>
                  had \in AccountRow
BY DEF AccountRow

ColumnsFrom(r, does, had, current) ==
    /\ r.manager = (\/ does = "promote" /\ ~had.manager
                    \/ current.manager /\ ~(does = "demote" /\ had.manager))
    /\ r.active = (\/ does = "activate" /\ ~had.active
                   \/ current.active /\ ~(does = "deactivate" /\ had.active))
    /\ r.version = IF VersionAfter(does, had) # had.version
                   THEN VersionAfter(does, had) ELSE current.version
    /\ r.password = IF does = "set password" THEN had.password + 1
                    ELSE IF does = "login" /\ had.oldHash THEN had.password
                    ELSE current.password
    /\ r.oldHash = (current.oldHash /\ does # "set password" /\ ~(does = "login" /\ had.oldHash))
    /\ had \in AccountRow /\ current \in AccountRow => r \in AccountRow

LEMMA RowColumns ==
    ASSUME NEW does, NEW had, NEW current
    PROVE  ColumnsFrom(RowAfter(does, had, current), does, had, current)
<1> DEFINE m == \/ does = "promote" /\ ~had.manager
                \/ current.manager /\ ~(does = "demote" /\ had.manager)
           a == \/ does = "activate" /\ ~had.active
                \/ current.active /\ ~(does = "deactivate" /\ had.active)
           v == IF VersionAfter(does, had) # had.version
                THEN VersionAfter(does, had) ELSE current.version
           p == IF does = "set password" THEN had.password + 1
                ELSE IF does = "login" /\ had.oldHash THEN had.password ELSE current.password
           o == current.oldHash /\ does # "set password" /\ ~(does = "login" /\ had.oldHash)
           r == RowAfter(does, had, current)
<1>1. r = [manager |-> m, active |-> a, version |-> v, password |-> p, oldHash |-> o]
  BY DEF RowAfter
<1>2. m \in BOOLEAN /\ a \in BOOLEAN /\ o \in BOOLEAN
  OBVIOUS
<1>3. had \in AccountRow /\ current \in AccountRow => v \in Nat /\ p \in Nat
  <2> SUFFICES ASSUME had \in AccountRow, current \in AccountRow
               PROVE  v \in Nat /\ p \in Nat
    OBVIOUS
  <2>1. had.version \in Nat /\ had.password \in Nat /\ current.version \in Nat /\ current.password \in Nat
    BY DEF AccountRow
  <2>2. VersionAfter(does, had) \in Nat
    BY <2>1 DEF VersionAfter
  <2>3. had.password + 1 \in Nat
    BY <2>1
  <2> QED BY <2>1, <2>2, <2>3, Zenon
<1> HIDE DEF m, a, v, p, o, r
<1>4. r.manager = m /\ r.active = a /\ r.version = v /\ r.password = p /\ r.oldHash = o
  BY <1>1, Columns
<1>5. had \in AccountRow /\ current \in AccountRow => r \in AccountRow
  BY <1>1, <1>2, <1>3, Columns
<1> QED BY <1>4, <1>5 DEF m, a, v, p, o, r, ColumnsFrom

\* What a request reads when it begins is current, as long as no other is
\* writing the row.
LEMMA BegunStep ==
    ASSUME AccountsTypeOK, AccountsInv, ~SameRowOverlap,
           NEW v \in Visit, NEW does \in AccountKind, NEW a \in Account, NEW password \in Nat,
           NEW step \in {"write", "count"},
           visit[v] = Idle, MayBegin(a, does),
           visit' = [visit EXCEPT ![v] = Begun(does, a, password, step)],
           UNCHANGED <<account, issued, retired>>,
           does \in {"login", "refresh"} => password = account[a].password,
           step = "count" => does \in {"demote", "deactivate"},
           does \in {"demote", "deactivate"} /\ step = "write" =>
               ~(account[a].manager /\ account[a].active)
    PROVE  AccountsTypeOK' /\ AccountsInv'
<1> DEFINE b == Begun(does, a, password, step)
<1>1. b \in [kind : AccountKind, of : Account, row : AccountRow, password : Nat,
             at : {"write", "count", "counting", "counted"}, counted : SUBSET Account]
  BY DEF Begun, AccountsTypeOK
<1>2. b.kind = does /\ b.of = a /\ b.row = account[a] /\ b.password = password /\ b.at = step
  BY DEF Begun
<1>3. visit'[v] = b /\ \A w \in Visit : w # v => visit'[w] = visit[w]
  BY DEF AccountsTypeOK
<1> HIDE DEF b
<1>4. AccountsTypeOK'
  BY <1>1 DEF AccountsTypeOK, b
<1>5. Writes(v)' => WritesRow(does, account[a])
  BY <1>2, <1>3 DEF Writes
<1>6. \A w \in Visit : w # v => (Writes(w)' <=> Writes(w))
  BY <1>3 DEF Writes
<1>7. WritesRow(does, account[a]) =>
          \A w \in Visit : w # v /\ Writes(w) => visit[w].of # a
  BY DEF MayBegin, Writes
<1>8. WritersAreCurrent'
  BY <1>2, <1>3, <1>5, <1>6, <1>7 DEF AccountsInv, WritersAreCurrent
<1>9. LossesAreCounted'
  BY <1>2, <1>3 DEF AccountsInv, LossesAreCounted, Managers, Manages
<1>10. VersionTellsPassword'
  <2>1. account[a].version \in Nat
    BY DEF AccountsTypeOK, AccountRow
  <2> QED BY <1>2, <1>3, <2>1 DEF AccountsInv, VersionTellsPassword
<1> QED BY <1>4, <1>8, <1>9, <1>10
        DEF AccountsInv, RetiredIsPast, SomeManager, Managers, Manages

LEMMA BeginStep ==
    ASSUME AccountsTypeOK, AccountsInv, ~SameRowOverlap, NEW v \in Visit,
           \/ \E a \in Account : BeginLogin(v, a)
           \/ \E does \in {"refresh", "logout"}, t \in issued : BeginWithToken(v, does, t)
           \/ \E does \in AccountKinds, a \in Account : BeginManaging(v, does, a)
    PROVE  AccountsTypeOK' /\ AccountsInv'
<1> USE AccountsAssumption
<1>1. ASSUME NEW a \in Account, BeginLogin(v, a)
      PROVE  AccountsTypeOK' /\ AccountsInv'
  <2>1. "login" \in AccountKind /\ account[a].password \in Nat
    BY DEF AccountKind, AccountsTypeOK, AccountRow
  <2> QED BY <1>1, <2>1, BegunStep DEF BeginLogin
<1>2. ASSUME NEW does \in {"refresh", "logout"}, NEW t \in issued, BeginWithToken(v, does, t)
      PROVE  AccountsTypeOK' /\ AccountsInv'
  <2>1. does \in AccountKind /\ t.of \in Account /\ t.password \in Nat
    BY DEF AccountKind, AccountsTypeOK
  <2>2. t.password = account[t.of].password
    BY <1>2 DEF BeginWithToken, Accepted, AccountsInv, VersionTellsPassword
  <2> QED BY <1>2, <2>1, <2>2, BegunStep DEF BeginWithToken
<1>3. ASSUME NEW does \in AccountKinds, NEW a \in Account, BeginManaging(v, does, a)
      PROVE  AccountsTypeOK' /\ AccountsInv'
  <2> DEFINE step == FirstStep(does, account[a])
  <2>1. does \in AccountKind /\ does \notin {"login", "refresh"} /\ 0 \in Nat
    BY <1>3 DEF BeginManaging
  <2>2. /\ step \in {"write", "count"}
        /\ step = "count" => does \in {"demote", "deactivate"}
        /\ does \in {"demote", "deactivate"} /\ step = "write" =>
               ~(account[a].manager /\ account[a].active)
    BY DEF FirstStep
  <2>3. /\ visit[v] = Idle /\ MayBegin(a, does) /\ UNCHANGED <<account, issued, retired>>
        /\ visit' = [visit EXCEPT ![v] = Begun(does, a, 0, step)]
    BY <1>3 DEF BeginManaging
  <2> HIDE DEF step
  <2> QED BY <2>1, <2>2, <2>3, BegunStep
<1> QED BY <1>1, <1>2, <1>3

\* A count goes on only when there is more than one manager in it.
LEMMA CountStep ==
    ASSUME AccountsTypeOK, AccountsInv, NEW v \in Visit, StartCount(v) \/ Count(v)
    PROVE  AccountsTypeOK' /\ AccountsInv'
<1>1. Managers \subseteq Account /\ visit[v] # Idle /\ UNCHANGED <<account, issued, retired>>
  BY DEF Managers, StartCount, Count
<1>2. visit[v] \in [kind : AccountKind, of : Account, row : AccountRow, password : Nat,
                    at : {"write", "count", "counting", "counted"}, counted : SUBSET Account]
  BY <1>1 DEF AccountsTypeOK
<1>3. \/ visit'[v] = Idle
      \/ /\ visit'[v].at \in {"counting", "counted"} /\ visit[v].at # "write"
         /\ visit'[v] = [visit[v] EXCEPT !.at = visit'[v].at, !.counted = visit'[v].counted]
         /\ visit'[v].counted \subseteq Managers
         /\ visit'[v].at = "counted" => Cardinality(visit'[v].counted) > 1
  <2>1. CASE StartCount(v)
    BY <1>2, <2>1 DEF StartCount, AccountsTypeOK
  <2>2. CASE Count(v)
    <3>1. CountedAgain(v) \subseteq Managers /\ CountedAgain(v) \subseteq Account
      BY <1>1 DEF CountedAgain
    <3>2. IsFiniteSet(CountedAgain(v))
      BY <3>1, SomeAccounts, FS_Subset
    <3>3. Cardinality(CountedAgain(v)) \in Nat
      BY <3>2, FS_CardinalityType
    <3>4. CASE Cardinality(CountedAgain(v)) <= 1
      BY <2>2, <3>4 DEF Count, AccountsTypeOK
    <3>5. CASE Cardinality(CountedAgain(v)) > 1
      BY <1>2, <2>2, <3>1, <3>3, <3>5 DEF Count, AccountsTypeOK
    <3> QED BY <3>3, <3>4, <3>5
  <2> QED BY <2>1, <2>2
<1>4. /\ \A w \in Visit : w # v => visit'[w] = visit[w]
      /\ visit' = [visit EXCEPT ![v] = visit'[v]]
  BY DEF StartCount, Count, AccountsTypeOK
<1>5. visit'[v] = Idle \/
      /\ visit'[v] \in [kind : AccountKind, of : Account, row : AccountRow, password : Nat,
                        at : {"write", "count", "counting", "counted"}, counted : SUBSET Account]
      /\ visit'[v].kind = visit[v].kind /\ visit'[v].of = visit[v].of
      /\ visit'[v].row = visit[v].row /\ visit'[v].password = visit[v].password
  BY <1>1, <1>2, <1>3
<1>6. AccountsTypeOK'
  BY <1>1, <1>4, <1>5 DEF AccountsTypeOK
<1>7. \A w \in Visit : Writes(w)' => Writes(w)
  BY <1>1, <1>4, <1>5 DEF Writes
<1>8. WritersAreCurrent'
  BY <1>1, <1>4, <1>5, <1>7 DEF AccountsInv, WritersAreCurrent, Writes
<1>9. LossesAreCounted'
  BY <1>1, <1>3, <1>4, <1>5 DEF AccountsInv, LossesAreCounted, Managers, Manages
<1>10. VersionTellsPassword'
  BY <1>1, <1>4, <1>5 DEF AccountsInv, VersionTellsPassword
<1> QED BY <1>1, <1>6, <1>8, <1>9, <1>10
        DEF AccountsInv, RetiredIsPast, SomeManager, Managers, Manages

\* What an answer makes of the account's row.
LEMMA AnsweredRow ==
    ASSUME AccountsTypeOK, AccountsInv, NEW v \in Visit, AnswerVisit(v),
           NEW a, a = visit[v].of, NEW does, does = visit[v].kind,
           NEW had, had = visit[v].row, NEW current, current = account[a]
    PROVE  /\ \A b \in Account : b # a => account'[b] = account[b]
           /\ account'[a].version \in {current.version, current.version + 1}
           /\ account'[a].version = current.version => account'[a].password = current.password
           /\ MovesVersion(does) /\ (does = "deactivate" => had.active) =>
                  had.version = current.version /\ account'[a].version = current.version + 1
           /\ does \notin {"demote", "deactivate"} => (Manages(a) => Manages(a)')
           /\ ~Writes(v) => account'[a] = current
           /\ does \in {"login", "refresh"} =>
                  account'[a].version = current.version /\ account'[a].password = current.password
<1>1. /\ visit[v] # Idle /\ a \in Account /\ does \in AccountKind /\ had \in AccountRow
      /\ current \in AccountRow
  BY DEF AnswerVisit, AccountsTypeOK
<1>2. account'[a] = RowAfter(does, had, current) /\ \A b \in Account : b # a => account'[b] = account[b]
  BY <1>1 DEF AnswerVisit, AccountsTypeOK
<1>3. ColumnsFrom(account'[a], does, had, current)
  BY <1>2, RowColumns
<1>4. Writes(v) => had = current
  BY DEF AccountsInv, WritersAreCurrent
<1>5. Writes(v) <=> WritesRow(does, had)
  BY <1>1 DEF Writes
<1>6. current.version \in Nat /\ current.password \in Nat /\ had.version \in Nat
  BY <1>1 DEF AccountRow
<1>7. CASE ~Writes(v)
  <2>1. does \in {"login", "refresh"} /\ (does = "login" => ~had.oldHash)
    BY <1>5, <1>7 DEF WritesRow
  <2>2. VersionAfter(does, had) = had.version /\ ~MovesVersion(does)
    BY <2>1 DEF VersionAfter, MovesVersion
  <2>3. account'[a].version = current.version /\ account'[a].password = current.password
    BY <1>3, <2>1, <2>2 DEF ColumnsFrom
  <2>4. account'[a] = current
    <3>1. account'[a] \in AccountRow
      BY <1>1, <1>3 DEF ColumnsFrom
    <3>2. current.manager \in BOOLEAN /\ current.active \in BOOLEAN /\ current.oldHash \in BOOLEAN
      BY <1>1 DEF AccountRow
    <3>3. /\ account'[a].manager = (\/ does = "promote" /\ ~had.manager
                                    \/ current.manager /\ ~(does = "demote" /\ had.manager))
          /\ account'[a].active = (\/ does = "activate" /\ ~had.active
                                   \/ current.active /\ ~(does = "deactivate" /\ had.active))
          /\ account'[a].oldHash = (current.oldHash /\ does # "set password"
                                    /\ ~(does = "login" /\ had.oldHash))
      BY <1>3 DEF ColumnsFrom
    <3>4. /\ account'[a].manager = current.manager /\ account'[a].active = current.active
          /\ account'[a].oldHash = current.oldHash
      BY <2>1, <3>2, <3>3
    <3> QED BY <1>1, <2>3, <3>1, <3>4 DEF AccountRow
  <2>5. Manages(a) => Manages(a)'
    BY <2>4 DEF Manages
  <2> QED BY <1>2, <1>6, <1>7, <2>2, <2>4, <2>5
<1>8. CASE Writes(v)
  <2>1. ColumnsFrom(account'[a], does, current, current)
    BY <1>4, <1>8, <1>3
  <2>2. account'[a].version = VersionAfter(does, current)
    BY <2>1 DEF ColumnsFrom
  <2>3. VersionAfter(does, current) =
            IF MovesVersion(does) /\ (does = "deactivate" => current.active)
            THEN current.version + 1 ELSE current.version
    BY DEF VersionAfter
  <2>4. does # "set password" => account'[a].password = current.password
    BY <2>1 DEF ColumnsFrom
  <2>5. does = "set password" => account'[a].version = current.version + 1
    BY <2>2, <2>3 DEF MovesVersion
  <2>6. does \notin {"demote", "deactivate"} =>
            (current.manager => account'[a].manager) /\ (current.active => account'[a].active)
    BY <2>1 DEF ColumnsFrom
  <2>7. does \notin {"demote", "deactivate"} => (Manages(a) => Manages(a)')
    BY <2>6 DEF Manages
  <2>8. does \in {"login", "refresh"} => ~MovesVersion(does) /\ does # "set password"
    BY DEF MovesVersion
  <2>9. account'[a].version \in {current.version, current.version + 1}
    BY <2>2, <2>3
  <2>10. account'[a].version = current.version => account'[a].password = current.password
    <3>1. CASE does = "set password"
      <4>1. current.version + 1 # current.version
        BY <1>6
      <4> QED BY <2>5, <3>1, <4>1
    <3>2. CASE does # "set password"
      BY <2>4, <3>2
    <3> QED BY <3>1, <3>2
  <2>11. does \in {"login", "refresh"} =>
             account'[a].version = current.version /\ account'[a].password = current.password
    BY <2>2, <2>3, <2>4, <2>8
  <2> QED BY <1>2, <1>4, <1>8, <2>2, <2>3, <2>7, <2>9, <2>10, <2>11
<1> QED BY <1>7, <1>8

LEMMA AnswerTyped ==
    ASSUME AccountsTypeOK, NEW v \in Visit, AnswerVisit(v)
    PROVE  AccountsTypeOK'
<1>1. /\ visit[v].of \in Account /\ visit[v].kind \in AccountKind /\ visit[v].row \in AccountRow
      /\ visit[v].password \in Nat /\ account[visit[v].of] \in AccountRow
      /\ visit[v].row.version \in Nat
  BY DEF AnswerVisit, AccountsTypeOK, AccountRow
<1>2. ColumnsFrom(RowAfter(visit[v].kind, visit[v].row, account[visit[v].of]),
                  visit[v].kind, visit[v].row, account[visit[v].of])
  BY RowColumns
<1>3. RowAfter(visit[v].kind, visit[v].row, account[visit[v].of]) \in AccountRow
  BY <1>1, <1>2 DEF ColumnsFrom
<1>4. account' \in [Account -> AccountRow]
  BY <1>1, <1>3 DEF AnswerVisit, AccountsTypeOK
<1>5. issued' \subseteq [of : Account, tv : Nat, password : Nat]
  BY <1>1 DEF AnswerVisit, VersionIssued, AccountsTypeOK
<1>6. retired' \in [Account -> Nat]
  BY <1>1 DEF AnswerVisit, AccountsTypeOK
<1> QED BY <1>4, <1>5, <1>6 DEF AnswerVisit, AccountsTypeOK

LEMMA AnswerStep ==
    ASSUME AccountsTypeOK, AccountsInv, NEW v \in Visit, AnswerVisit(v)
    PROVE  AccountsInv'
<1>1. PICK a, does, had, current :
          a = visit[v].of /\ does = visit[v].kind /\ had = visit[v].row /\ current = account[a]
  OBVIOUS
<1>2. /\ visit[v] # Idle /\ a \in Account /\ does \in AccountKind /\ had \in AccountRow
      /\ current \in AccountRow /\ had.version \in Nat /\ current.version \in Nat
      /\ visit[v].at \in {"write", "counted"} /\ visit[v].password \in Nat
  BY <1>1 DEF AnswerVisit, AccountsTypeOK, AccountRow
<1>3. /\ \A b \in Account : b # a => account'[b] = account[b]
      /\ account'[a].version \in {current.version, current.version + 1}
      /\ account'[a].version = current.version => account'[a].password = current.password
      /\ MovesVersion(does) /\ (does = "deactivate" => had.active) =>
             had.version = current.version /\ account'[a].version = current.version + 1
      /\ does \notin {"demote", "deactivate"} => (Manages(a) => Manages(a)')
      /\ ~Writes(v) => account'[a] = current
      /\ does \in {"login", "refresh"} =>
             account'[a].version = current.version /\ account'[a].password = current.password
  BY <1>1, AnsweredRow
<1>4. visit'[v] = Idle /\ \A w \in Visit : w # v => visit'[w] = visit[w]
  BY DEF AnswerVisit, AccountsTypeOK
<1>5. ~Writes(v)' /\ \A w \in Visit : w # v => (Writes(w)' <=> Writes(w))
  BY <1>4 DEF Writes
<1>6. Writes(v) => had = current
  BY <1>1 DEF AccountsInv, WritersAreCurrent
<1>7. WritersAreCurrent'
  <2> SUFFICES ASSUME NEW w \in Visit, Writes(w)'
               PROVE  /\ visit'[w].row = account'[visit'[w].of]
                      /\ \A u \in Visit \ {w} : Writes(u)' => visit'[u].of # visit'[w].of
    BY DEF WritersAreCurrent
  <2>1. w # v /\ visit'[w] = visit[w] /\ Writes(w) /\ visit[w].of \in Account
    BY <1>4, <1>5 DEF Writes, AccountsTypeOK
  <2>2. visit[w].row = account[visit[w].of]
    BY <2>1 DEF AccountsInv, WritersAreCurrent
  <2>3. CASE visit[w].of = a
    <3>1. ~Writes(v)
      BY <1>1, <2>1, <2>3 DEF AccountsInv, WritersAreCurrent
    <3> QED BY <1>1, <1>3, <1>4, <1>5, <2>1, <2>2, <2>3, <3>1 DEF AccountsInv, WritersAreCurrent
  <2>4. CASE visit[w].of # a
    BY <1>3, <1>4, <1>5, <2>1, <2>2, <2>4 DEF AccountsInv, WritersAreCurrent
  <2> QED BY <2>3, <2>4
<1>8. does \in {"demote", "deactivate"} => Writes(v) /\ RowFree(v, a)
  BY <1>1, <1>2 DEF Writes, WritesRow, AnswerVisit
<1>9. \A b \in Account : b # a => (Manages(b) => Manages(b)')
  BY <1>3 DEF Manages
<1>10. LossesAreCounted'
  <2> SUFFICES ASSUME NEW w \in Visit, w # v, visit[w] # Idle, visit[w].at = "counted"
               PROVE  visit[w].counted \subseteq Managers'
    BY <1>4 DEF AccountsInv, LossesAreCounted
  <2>1. visit[w].counted \subseteq Managers
    BY DEF AccountsInv, LossesAreCounted
  <2>2. does \in {"demote", "deactivate"} => a \notin visit[w].counted
    BY <1>8 DEF RowFree
  <2> QED BY <1>3, <1>9, <2>1, <2>2 DEF Managers
<1>11. SomeManager'
  <2>1. CASE does \notin {"demote", "deactivate"}
    BY <1>3, <1>9, <2>1 DEF AccountsInv, SomeManager, Managers
  <2>2. CASE does \in {"demote", "deactivate"} /\ visit[v].at = "write"
    <3>1. ~Manages(a)
      BY <1>1, <1>2, <1>6, <1>8, <2>2 DEF AccountsInv, LossesAreCounted, Manages
    <3> QED BY <1>9, <3>1 DEF AccountsInv, SomeManager, Managers
  <2>3. CASE visit[v].at = "counted"
    <3>1. visit[v].counted \subseteq Managers /\ Cardinality(visit[v].counted) > 1
      BY <1>2, <2>3 DEF AccountsInv, LossesAreCounted
    <3>2. IsFiniteSet({a}) /\ Cardinality({a}) = 1
      BY FS_Singleton
    <3>3. ~(visit[v].counted \subseteq {a})
      <4> SUFFICES ASSUME visit[v].counted \subseteq {a}
                   PROVE  FALSE
        OBVIOUS
      <4>1. Cardinality(visit[v].counted) \in Nat /\ Cardinality(visit[v].counted) <= 1
        BY <3>2, FS_Subset, FS_CardinalityType
      <4> QED BY <3>1, <4>1
    <3>4. PICK b \in visit[v].counted : b # a
      BY <3>3
    <3>5. b \in Account /\ Manages(b)
      BY <3>1, <3>4 DEF Managers
    <3> QED BY <1>9, <3>4, <3>5 DEF SomeManager, Managers
  <2> QED BY <1>2, <2>1, <2>2, <2>3
<1>12. RetiredIsPast'
  <2> SUFFICES ASSUME NEW b \in Account
               PROVE  retired'[b] < account'[b].version
    BY DEF RetiredIsPast
  <2>1. retired[b] < account[b].version /\ retired[b] \in Nat /\ account[b].version \in Nat
    BY DEF AccountsInv, RetiredIsPast, AccountsTypeOK, AccountRow
  <2>2. CASE MovesVersion(does) /\ (does = "deactivate" => had.active)
    <3>1. retired' = [retired EXCEPT ![a] = IF @ < had.version THEN had.version ELSE @]
      BY <1>1, <2>2 DEF AnswerVisit
    <3>2. b # a => retired'[b] = retired[b]
      BY <3>1 DEF AccountsTypeOK
    <3>3. b = a => retired'[b] \in {retired[b], had.version}
      BY <3>1 DEF AccountsTypeOK
    <3> QED BY <1>1, <1>2, <1>3, <2>1, <2>2, <3>2, <3>3
  <2>3. CASE ~(MovesVersion(does) /\ (does = "deactivate" => had.active))
    <3>1. retired' = retired
      BY <1>1, <2>3 DEF AnswerVisit
    <3> QED BY <1>1, <1>2, <1>3, <2>1, <3>1
  <2> QED BY <2>2, <2>3
<1>13. VersionTellsPassword'
  <2>1. ASSUME NEW t \in issued
        PROVE  /\ t.tv <= account'[t.of].version
               /\ t.tv = account'[t.of].version => t.password = account'[t.of].password
    <3>1. /\ t.of \in Account /\ t.tv \in Nat /\ t.tv <= account[t.of].version
          /\ t.tv = account[t.of].version => t.password = account[t.of].password
      BY DEF AccountsInv, VersionTellsPassword, AccountsTypeOK
    <3>2. CASE t.of = a
      BY <1>1, <1>2, <1>3, <3>1, <3>2
    <3>3. CASE t.of # a
      BY <1>3, <3>1, <3>3
    <3> QED BY <3>2, <3>3
  <2>2. ASSUME NEW t \in issued', t \notin issued
        PROVE  /\ t.tv <= account'[t.of].version
               /\ t.tv = account'[t.of].version => t.password = account'[t.of].password
    <3>1. /\ does \in {"login", "refresh"} /\ t.of = a /\ t.tv = had.version
          /\ t.password = visit[v].password
      BY <1>1, <2>2 DEF AnswerVisit, VersionIssued
    <3>2. /\ had.version <= current.version
          /\ had.version = current.version => visit[v].password = current.password
      BY <1>1, <1>2, <3>1 DEF AccountsInv, VersionTellsPassword
    <3> QED BY <1>3, <3>1, <3>2
  <2>3. ASSUME NEW w \in Visit, visit'[w] # Idle, visit'[w].kind \in {"login", "refresh"}
        PROVE  /\ visit'[w].row.version <= account'[visit'[w].of].version
               /\ visit'[w].row.version = account'[visit'[w].of].version =>
                      visit'[w].password = account'[visit'[w].of].password
    <3>1. w # v /\ visit'[w] = visit[w] /\ visit[w].of \in Account /\ visit[w].row.version \in Nat
      BY <1>4, <2>3 DEF AccountsTypeOK, AccountRow
    <3>2. /\ visit[w].row.version <= account[visit[w].of].version
          /\ visit[w].row.version = account[visit[w].of].version =>
                 visit[w].password = account[visit[w].of].password
      BY <2>3, <3>1 DEF AccountsInv, VersionTellsPassword
    <3>3. CASE visit[w].of = a
      BY <1>1, <1>2, <1>3, <3>1, <3>2, <3>3
    <3>4. CASE visit[w].of # a
      BY <1>3, <3>1, <3>2, <3>4
    <3> QED BY <3>3, <3>4
  <2> QED BY <2>1, <2>2, <2>3 DEF VersionTellsPassword
<1> QED BY <1>7, <1>10, <1>11, <1>12, <1>13 DEF AccountsInv

LEMMA AccountsStart ==
    ASSUME AccountsInit
    PROVE  AccountsTypeOK /\ AccountsInv
<1>1. AccountsTypeOK
  BY DEF AccountsInit, AccountsTypeOK, AccountRow
<1>2. \A v \in Visit : visit[v] = Idle
  BY DEF AccountsInit
<1>3. WritersAreCurrent /\ LossesAreCounted
  BY <1>2 DEF WritersAreCurrent, LossesAreCounted, Writes
<1>4. RetiredIsPast /\ VersionTellsPassword
  BY <1>2 DEF AccountsInit, RetiredIsPast, VersionTellsPassword
<1>5. SomeManager
  BY SomeAccounts DEF AccountsInit, SomeManager, Managers, Manages
<1> QED BY <1>1, <1>3, <1>4, <1>5 DEF AccountsInv

LEMMA AccountsStep ==
    ASSUME AccountsTypeOK, AccountsInv, ~SameRowOverlap, [AccountsNext]_accountVars
    PROVE  AccountsTypeOK' /\ AccountsInv'
<1>1. CASE UNCHANGED accountVars
  BY <1>1 DEF accountVars, AccountsTypeOK, AccountsInv, WritersAreCurrent, LossesAreCounted,
              RetiredIsPast, VersionTellsPassword, SomeManager, Managers, Manages, Writes
<1>2. CASE AccountsNext
  <2>1. PICK v \in Visit :
            \/ \E a \in Account : BeginLogin(v, a)
            \/ \E does \in {"refresh", "logout"}, t \in issued : BeginWithToken(v, does, t)
            \/ \E does \in AccountKinds, a \in Account : BeginManaging(v, does, a)
            \/ VisitStep(v)
    BY <1>2 DEF AccountsNext
  <2> QED BY <2>1, BeginStep, CountStep, AnswerTyped, AnswerStep DEF VisitStep
<1> QED BY <1>1, <1>2

\* As long as no two requests write one account's row at the same time, somebody
\* is left who can manage the site, and no two counts wait for each other
\* (routers/users.py, _refuse_last_admin and _admin_count).
THEOREM ManagersRemainHolds ==
    ASSUME ~SameRowOverlap
    PROVE  AccountsSpec => []ManagersRemain
<1>1. AccountsInit => AccountsTypeOK /\ AccountsInv
  BY AccountsStart
<1>2. AccountsTypeOK /\ AccountsInv /\ [AccountsNext]_accountVars =>
          (AccountsTypeOK /\ AccountsInv)'
  BY AccountsStep
<1>3. CountsDoNotCircle
  BY DEF CountsDoNotCircle, CountBlocked, RowFree
<1>4. AccountsInv => ManagersRemain
  BY <1>3 DEF AccountsInv, ManagersRemain
<1> QED BY <1>1, <1>2, <1>4, PTL DEF AccountsSpec

\* Under the same condition a session that was ended stays ended, and a password
\* that was replaced opens nothing (routers/auth.py, routers/users.py).
THEOREM EndedSessionsStayEndedHolds ==
    ASSUME ~SameRowOverlap
    PROVE  AccountsSpec => []EndedSessionsStayEnded
<1>1. AccountsInit => AccountsTypeOK /\ AccountsInv
  BY AccountsStart
<1>2. AccountsTypeOK /\ AccountsInv /\ [AccountsNext]_accountVars =>
          (AccountsTypeOK /\ AccountsInv)'
  BY AccountsStep
<1>3. AccountsTypeOK /\ AccountsInv => EndedSessionsStayEnded
  <2> SUFFICES ASSUME AccountsTypeOK, AccountsInv, NEW t \in issued
               PROVE  /\ t.tv <= retired[t.of] => t.tv # account[t.of].version
                      /\ t.password # account[t.of].password => t.tv # account[t.of].version
    BY DEF EndedSessionsStayEnded, RetiredStaysRetired, OldPasswordOpensNothing
  <2>1. /\ t.of \in Account /\ t.tv \in Nat /\ retired[t.of] \in Nat
        /\ account[t.of].version \in Nat
    BY DEF AccountsTypeOK, AccountRow
  <2> QED BY <2>1 DEF AccountsInv, RetiredIsPast, VersionTellsPassword
<1> QED BY <1>1, <1>2, <1>3, PTL DEF AccountsSpec

-----------------------------------------------------------------------------
(* The throttle of sign-ins: numbers.                                     *)

\* A finite set of numbers has a least one and a greatest one.
LEMMA LeastOf ==
    ASSUME NEW T \in SUBSET Nat, IsFiniteSet(T), T # {}
    PROVE  \E m \in T : \A n \in T : m <= n
<1> DEFINE Below(m) == {n \in T : n < m}
           F == {Below(m) : m \in T}
<1>1. F \subseteq FiniteSubsetsOf(T) /\ F # {}
  <2>1. \A m \in T : IsFiniteSet(Below(m)) /\ Below(m) \subseteq T
    BY FS_Subset
  <2> QED BY <2>1 DEF FiniteSubsetsOf
<1>2. PICK x \in F : \A y \in F : ~(<<y, x>> \in StrictSubsetOrdering(T))
  BY <1>1, FS_StrictSubsetOrderingWellFounded, WFMin
<1>3. PICK m \in T : x = Below(m)
  OBVIOUS
<1>4. ASSUME NEW n \in T, ~(m <= n)
      PROVE  FALSE
  <2>1. n < m /\ m \in Nat /\ n \in Nat
    BY <1>4
  <2>2. \A k \in T : k \in Nat /\ (k < n => k < m)
    BY <2>1
  <2>3. Below(n) \subseteq Below(m)
    BY <2>2
  <2>4. n \in Below(m) /\ n \notin Below(n)
    BY <2>1
  <2>5. <<Below(n), Below(m)>> \in StrictSubsetOrdering(T)
    BY <2>3, <2>4 DEF StrictSubsetOrdering
  <2> QED BY <1>2, <1>3, <2>5
<1> QED BY <1>3, <1>4


LEMMA NoMore ==
    ASSUME NEW m \in Int, NEW n \in Int, NEW t \in Int, NEW b \in Int, m <= n, n + t <= b
    PROVE  m + t <= b
OBVIOUS

-----------------------------------------------------------------------------
(* Taking the oldest away.                                                 *)

FirstIs(s, cut, i) ==
    /\ i \in 1..Len(s) + 1
    /\ \A j \in 1..i - 1 : s[j] <= cut
    /\ i <= Len(s) => s[i] > cut

LEMMA FirstAfterIs ==
    ASSUME NEW s \in Seq(Int), NEW cut \in Int
    PROVE  FirstIs(s, cut, FirstAfter(s, cut))
<1> DEFINE T == {i \in 1..Len(s) : s[i] > cut}
<1>1. Len(s) \in Nat /\ \A j \in 1..Len(s) : s[j] \in Int
  OBVIOUS
<1>2. \E i \in 1..Len(s) + 1 : FirstIs(s, cut, i)
  <2>1. CASE T = {}
    <3>1. FirstIs(s, cut, Len(s) + 1)
      BY <1>1, <2>1 DEF FirstIs
    <3> QED BY <1>1, <3>1
  <2>2. CASE T # {}
    <3>1. IsFiniteSet(1..Len(s))
      BY <1>1, FS_Interval
    <3>2. T \in SUBSET Nat /\ IsFiniteSet(T)
      BY <3>1, FS_Subset
    <3>3. PICK m \in T : \A n \in T : m <= n
      BY <2>2, <3>2, LeastOf
    <3>4. FirstIs(s, cut, m)
      BY <1>1, <3>3 DEF FirstIs
    <3> QED BY <1>1, <3>3, <3>4
  <2> QED BY <2>1, <2>2
<1> QED BY <1>2 DEF FirstIs, FirstAfter

LEMMA FirstIsUnique ==
    ASSUME NEW s \in Seq(Int), NEW cut \in Int, NEW i, FirstIs(s, cut, i)
    PROVE  i = FirstAfter(s, cut)
<1>1. FirstIs(s, cut, FirstAfter(s, cut))
  BY FirstAfterIs
<1>2. Len(s) \in Nat /\ \A j \in 1..Len(s) : s[j] \in Int
  OBVIOUS
<1> DEFINE f == FirstAfter(s, cut)
<1>3. i \in 1..Len(s) + 1 /\ f \in 1..Len(s) + 1
  BY <1>1 DEF FirstIs
<1> HIDE DEF f
<1>4. ASSUME i < f
      PROVE  FALSE
  <2>1. i \in 1..f - 1 /\ i \in 1..Len(s)
    BY <1>2, <1>3, <1>4
  <2> QED BY <1>1, <1>2, <2>1 DEF FirstIs, f
<1>5. ASSUME f < i
      PROVE  FALSE
  <2>1. f \in 1..i - 1 /\ f \in 1..Len(s)
    BY <1>2, <1>3, <1>5
  <2>2. s[f] <= cut /\ s[f] \in Int
    BY <1>2, <2>1 DEF FirstIs
  <2>3. s[f] > cut
    BY <1>1, <2>1 DEF FirstIs, f
  <2> QED BY <2>2, <2>3
<1> QED BY <1>2, <1>3, <1>4, <1>5 DEF f

LEMMA SinceIs ==
    ASSUME NEW s \in Seq(Int), NEW cut \in Int
    PROVE  /\ Since(s, cut) \in Seq(Int)
           /\ Len(Since(s, cut)) = Len(s) + 1 - FirstAfter(s, cut)
           /\ \A i \in 1..Len(s) + 1 - FirstAfter(s, cut) :
                  Since(s, cut)[i] = s[FirstAfter(s, cut) + i - 1]
           /\ FirstAfter(s, cut) \in 1..Len(s) + 1
<1> DEFINE f == FirstAfter(s, cut)
<1>1. f \in 1..Len(s) + 1 /\ Len(s) \in Nat
  BY FirstAfterIs DEF FirstIs
<1>2. \A i \in f..Len(s) : s[i] \in Int
  BY <1>1
<1>3. /\ SubSeq(s, f, Len(s)) \in Seq(Int)
      /\ Len(SubSeq(s, f, Len(s))) = IF f <= Len(s) THEN Len(s) - f + 1 ELSE 0
      /\ \A i \in 1..Len(s) - f + 1 : SubSeq(s, f, Len(s))[i] = s[f + i - 1]
  <2> HIDE DEF f
  <2>1. f \in Int /\ Len(s) \in Int
    BY <1>1
  <2> QED BY <1>2, <2>1, SubSeqProperties
<1>4. Len(s) - f + 1 = Len(s) + 1 - f /\ (~(f <= Len(s)) => Len(s) + 1 - f = 0)
  BY <1>1
<1> HIDE DEF f
<1>5. Since(s, cut) = SubSeq(s, f, Len(s))
  BY DEF Since, f
<1> QED BY <1>1, <1>3, <1>4, <1>5 DEF f

LEMMA SinceShorter ==
    ASSUME NEW s \in Seq(Int), NEW cut \in Int
    PROVE  Len(Since(s, cut)) <= Len(s) /\ Len(Since(s, cut)) \in Nat /\ Len(s) \in Nat
<1>1. Len(s) \in Nat
  OBVIOUS
<1>3. FirstAfter(s, cut) \in 1..Len(s) + 1
  BY SinceIs
<1>2. Len(Since(s, cut)) = Len(s) + 1 - FirstAfter(s, cut)
  BY SinceIs
<1> QED BY <1>1, <1>2, <1>3

LEMMA SinceNothing ==
    ASSUME NEW cut \in Int
    PROVE  Since(<<>>, cut) = <<>> /\ <<>> \in Seq(Int)
<1>1. <<>> \in Seq(Int) /\ Len(<<>>) = 0
  BY EmptySeq
<1>2. Since(<<>>, cut) \in Seq(Int) /\ Len(Since(<<>>, cut)) = 0
  <2>1. Len(Since(<<>>, cut)) <= 0 /\ Len(Since(<<>>, cut)) \in Nat
    BY <1>1, SinceShorter
  <2>2. Since(<<>>, cut) \in Seq(Int)
    BY <1>1, SinceIs
  <2> QED BY <2>1, <2>2
<1> QED BY <1>1, <1>2, EmptySeq

\* Two cuts, the earlier one first, are the later one.
LEMMA SinceTwice ==
    ASSUME NEW s \in Seq(Int), NEW cut \in Int, NEW later \in Int, cut <= later
    PROVE  Since(Since(s, cut), later) = Since(s, later)
<1> DEFINE f == FirstAfter(s, cut)
           r == Since(s, cut)
           g == FirstAfter(r, later)
<1>1. /\ r \in Seq(Int) /\ Len(r) = Len(s) + 1 - f /\ f \in 1..Len(s) + 1
      /\ \A i \in 1..Len(r) : r[i] = s[f + i - 1]
  BY SinceIs
<1>2. FirstIs(s, cut, f)
  BY FirstAfterIs
<1>3. FirstIs(r, later, g)
  BY <1>1, FirstAfterIs
<1>4. Len(s) \in Nat /\ \A j \in 1..Len(s) : s[j] \in Int
  OBVIOUS
<1> HIDE DEF f, g, r
<1>5. FirstIs(s, later, f + g - 1)
  <2>1. f + g - 1 \in 1..Len(s) + 1 /\ f \in Nat /\ g \in Nat
    BY <1>1, <1>3, <1>4 DEF FirstIs
  <2>2. ASSUME NEW j \in 1..(f + g - 1) - 1
        PROVE  s[j] <= later
    <3>1. CASE j \in 1..f - 1
      BY <1>2, <1>4, <2>1, <3>1 DEF FirstIs
    <3>2. CASE j >= f
      <4>1. j - f + 1 \in 1..g - 1 /\ j - f + 1 \in 1..Len(r)
        BY <1>1, <1>3, <1>4, <2>1, <2>2, <3>2 DEF FirstIs
      <4>2. r[j - f + 1] <= later /\ r[j - f + 1] = s[f + (j - f + 1) - 1]
        BY <1>1, <1>3, <4>1 DEF FirstIs
      <4>3. f + (j - f + 1) - 1 = j
        BY <2>1
      <4> QED BY <4>2, <4>3
    <3> QED BY <2>1, <2>2, <3>1, <3>2
  <2>3. ASSUME f + g - 1 <= Len(s)
        PROVE  s[f + g - 1] > later
    <3>1. g <= Len(r) /\ g \in 1..Len(r)
      BY <1>1, <1>3, <1>4, <2>1, <2>3 DEF FirstIs
    <3> QED BY <1>1, <1>3, <3>1 DEF FirstIs
  <2> QED BY <2>1, <2>2, <2>3 DEF FirstIs
<1>6. f + g - 1 = FirstAfter(s, later)
  BY <1>5, FirstIsUnique
<1>7. /\ Since(s, later) \in Seq(Int) /\ Len(Since(s, later)) = Len(s) + 1 - (f + g - 1)
      /\ \A i \in 1..Len(s) + 1 - (f + g - 1) : Since(s, later)[i] = s[(f + g - 1) + i - 1]
  BY <1>6, SinceIs
<1>8. /\ Since(r, later) \in Seq(Int) /\ Len(Since(r, later)) = Len(r) + 1 - g
      /\ \A i \in 1..Len(r) + 1 - g : Since(r, later)[i] = r[g + i - 1]
  BY <1>1, SinceIs DEF g
<1>9. f \in Nat /\ g \in 1..Len(r) + 1 /\ Len(r) \in Nat
  BY <1>1, <1>3, <1>4 DEF FirstIs
<1>10. Len(Since(r, later)) = Len(Since(s, later))
  BY <1>1, <1>4, <1>7, <1>8, <1>9
<1>11. ASSUME NEW i \in 1..Len(Since(r, later))
       PROVE  Since(r, later)[i] = Since(s, later)[i]
  <2>1. i \in 1..Len(r) + 1 - g /\ i \in 1..Len(s) + 1 - (f + g - 1) /\ i \in Nat
    BY <1>7, <1>8, <1>10
  <2>2. g + i - 1 \in 1..Len(r) /\ f + (g + i - 1) - 1 = (f + g - 1) + i - 1
    BY <1>9, <2>1
  <2> QED BY <1>1, <1>7, <1>8, <2>1, <2>2
<1>12. Since(r, later) = Since(s, later)
  BY <1>7, <1>8, <1>10, <1>11, SeqEqual
<1> QED BY <1>12 DEF r

\* What comes after the cut stays.
LEMMA SinceAppend ==
    ASSUME NEW s \in Seq(Int), NEW cut \in Int, NEW x \in Int, x > cut
    PROVE  Since(Append(s, x), cut) = Append(Since(s, cut), x)
<1> DEFINE f == FirstAfter(s, cut)
           r == Since(s, cut)
           a == Append(s, x)
<1>1. /\ r \in Seq(Int) /\ Len(r) = Len(s) + 1 - f /\ f \in 1..Len(s) + 1
      /\ \A i \in 1..Len(r) : r[i] = s[f + i - 1]
  BY SinceIs
<1>2. FirstIs(s, cut, f)
  BY FirstAfterIs
<1>3. Len(s) \in Nat /\ a \in Seq(Int) /\ Len(a) = Len(s) + 1 /\ a[Len(s) + 1] = x
      /\ \A j \in 1..Len(s) : a[j] = s[j]
  OBVIOUS
<1>4. Append(r, x) \in Seq(Int) /\ Len(Append(r, x)) = Len(r) + 1
      /\ Append(r, x)[Len(r) + 1] = x /\ \A j \in 1..Len(r) : Append(r, x)[j] = r[j]
  BY <1>1
<1> HIDE DEF f, r, a
<1>5. FirstIs(a, cut, f)
  <2>1. f \in 1..Len(a) + 1
    BY <1>1, <1>3
  <2>2. ASSUME NEW j \in 1..f - 1
        PROVE  a[j] <= cut
    <3>0. s[j] <= cut
      BY <1>2, <2>2 DEF FirstIs
    <3>1. j \in 1..Len(s) /\ s[j] <= cut
      BY <1>1, <1>3, <2>2, <3>0
    <3> QED BY <1>3, <3>1
  <2>3. ASSUME f <= Len(a)
        PROVE  a[f] > cut
    <3>1. CASE f <= Len(s)
      <4>1. f \in 1..Len(s) /\ s[f] > cut
        BY <1>1, <1>2, <1>3, <3>1 DEF FirstIs
      <4> QED BY <1>3, <4>1
    <3>2. CASE f = Len(s) + 1
      BY <1>3, <3>2
    <3> QED BY <1>1, <1>3, <2>3, <3>1, <3>2
  <2> QED BY <2>1, <2>2, <2>3 DEF FirstIs
<1>6. f = FirstAfter(a, cut)
  BY <1>3, <1>5, FirstIsUnique
<1>7. /\ Since(a, cut) \in Seq(Int) /\ Len(Since(a, cut)) = Len(a) + 1 - f
      /\ \A i \in 1..Len(a) + 1 - f : Since(a, cut)[i] = a[f + i - 1]
  BY <1>3, <1>6, SinceIs
<1>8. Len(Since(a, cut)) = Len(Append(r, x)) /\ Len(r) \in Nat /\ f \in Nat
  BY <1>1, <1>3, <1>4, <1>7
<1>9. ASSUME NEW i \in 1..Len(Since(a, cut))
      PROVE  Since(a, cut)[i] = Append(r, x)[i]
  <2>1. Since(a, cut)[i] = a[f + i - 1] /\ i \in Nat
    <3>1. i \in 1..Len(a) + 1 - f
      BY <1>7, <1>9
    <3>2. Since(a, cut)[i] = a[f + i - 1]
      BY <1>7, <3>1
    <3>3. i \in Nat
      BY <1>3, <1>8, <3>1
    <3> QED BY <3>2, <3>3
  <2>2. CASE i \in 1..Len(r)
    <3>1. f + i - 1 \in 1..Len(s)
      BY <1>1, <1>3, <1>8, <2>2
    <3> QED BY <1>1, <1>3, <1>4, <2>1, <2>2, <3>1
  <2>3. CASE i = Len(r) + 1
    <3>1. f + i - 1 = Len(s) + 1
      BY <1>1, <1>3, <1>8, <2>3
    <3> QED BY <1>3, <1>4, <2>1, <2>3, <3>1
  <2> QED BY <1>4, <1>8, <1>9, <2>2, <2>3
<1> QED BY <1>4, <1>7, <1>8, <1>9, SeqEqual DEF r, a

-----------------------------------------------------------------------------
(* What pruning, appending and forgetting do to a table.                   *)

LEMMA CutIs ==
    ASSUME now \in Nat
    PROVE  Cut \in Int /\ now > Cut /\ now \in Int
BY ThrottleAssumption DEF Cut

LEMMA InWindowIs ==
    ASSUME NEW table, IsTable(table), NEW cut \in Int, NEW k
    PROVE  /\ InWindow(table, cut, k) \in Seq(Int)
           /\ Len(InWindow(table, cut, k)) \in Nat
<1>1. CASE k \in DOMAIN table
  <2>1. table[k] \in Seq(Int)
    BY <1>1 DEF IsTable
  <2> QED BY <1>1, <2>1, SinceIs, SinceShorter DEF InWindow
<1>2. CASE k \notin DOMAIN table
  BY <1>2, SinceNothing DEF InWindow
<1> QED BY <1>1, <1>2

\* A prune takes away only what is out of the window.
LEMMA PrunedIs ==
    ASSUME NEW table, IsTable(table), now \in Nat, NEW keys
    PROVE  /\ IsTable(Pruned(table, keys))
           /\ DOMAIN Pruned(table, keys) \subseteq DOMAIN table
           /\ \A k : InWindow(Pruned(table, keys), Cut, k) = InWindow(table, Cut, k)
<1> DEFINE kept == {k \in DOMAIN table : k \in keys => Recent(table[k]) # <<>>}
           p == [k \in kept |-> IF k \in keys THEN Recent(table[k]) ELSE table[k]]
<1>1. Pruned(table, keys) = p
  BY DEF Pruned
<1>2. Cut \in Int /\ IsFiniteSet(DOMAIN table)
  BY CutIs DEF IsTable
<1>3. \A k \in DOMAIN table : table[k] \in Seq(Int) /\ Recent(table[k]) \in Seq(Int)
  <2>1. \A k \in DOMAIN table : table[k] \in Seq(Int)
    BY DEF IsTable
  <2> QED BY <1>2, <2>1, SinceIs DEF Recent
<1>4. kept \subseteq DOMAIN table /\ DOMAIN p = kept
  OBVIOUS
<1>5. IsFiniteSet(kept)
  BY <1>2, <1>4, FS_Subset
<1>6. IsTable(p)
  BY <1>3, <1>4, <1>5 DEF IsTable
<1>7. ASSUME NEW k
      PROVE  InWindow(p, Cut, k) = InWindow(table, Cut, k)
  <2>1. CASE k \notin DOMAIN table
    BY <1>4, <2>1 DEF InWindow
  <2>2. CASE k \in DOMAIN table /\ k \notin keys
    BY <2>2 DEF InWindow
  <2>3. CASE k \in DOMAIN table /\ k \in keys /\ k \in kept
    <3>1. p[k] = Since(table[k], Cut)
      BY <2>3 DEF Recent
    <3>2. Since(Since(table[k], Cut), Cut) = Since(table[k], Cut)
      BY <1>2, <1>3, <2>3, SinceTwice
    <3> QED BY <1>4, <2>3, <3>1, <3>2 DEF InWindow
  <2>4. CASE k \in DOMAIN table /\ k \in keys /\ k \notin kept
    <3>1. Since(table[k], Cut) = <<>>
      BY <2>4 DEF Recent
    <3> QED BY <1>4, <2>4, <3>1 DEF InWindow
  <2> QED BY <2>1, <2>2, <2>3, <2>4
<1> QED BY <1>1, <1>4, <1>6, <1>7

\* An attempt adds itself to the window of its key, and to no other.
LEMMA AppendedIs ==
    ASSUME NEW table, IsTable(table), now \in Nat, NEW k
    PROVE  /\ IsTable(Appended(table, k))
           /\ InWindow(Appended(table, k), Cut, k) = Append(InWindow(table, Cut, k), now)
           /\ \A m : m # k => InWindow(Appended(table, k), Cut, m) = InWindow(table, Cut, m)
<1> DEFINE p == Pruned(table, {k})
           a == [m \in DOMAIN p \cup {k} |->
                    IF m # k THEN p[m]
                    ELSE IF k \in DOMAIN p THEN Append(p[k], now) ELSE <<now>>]
<1>1. Appended(table, k) = a
  BY DEF Appended
<1>2. /\ IsTable(p)
      /\ \A m : InWindow(p, Cut, m) = InWindow(table, Cut, m)
  BY PrunedIs
<1>3. Cut \in Int /\ now > Cut /\ now \in Int
  BY CutIs
<1> HIDE DEF p
<1>4. \A m \in DOMAIN p : p[m] \in Seq(Int)
  BY <1>2 DEF IsTable
<1>5. IsFiniteSet(DOMAIN p \cup {k})
  BY <1>2, FS_AddElement DEF IsTable
<1>6. IsTable(a)
  <2>1. \A m \in DOMAIN p \cup {k} : a[m] \in Seq(Int)
    BY <1>3, <1>4
  <2> QED BY <1>5, <2>1 DEF IsTable
<1>7. InWindow(a, Cut, k) = Append(InWindow(p, Cut, k), now)
  <2>1. InWindow(a, Cut, k) = Since(a[k], Cut)
    BY DEF InWindow
  <2>2. CASE k \in DOMAIN p
    <3>1. a[k] = Append(p[k], now) /\ p[k] \in Seq(Int)
      BY <1>4, <2>2
    <3>2. Since(a[k], Cut) = Append(Since(p[k], Cut), now)
      BY <1>3, <3>1, SinceAppend
    <3> QED BY <2>1, <2>2, <3>2 DEF InWindow
  <2>3. CASE k \notin DOMAIN p
    <3>1. a[k] = <<now>> /\ <<now>> = Append(<<>>, now)
      BY <2>3
    <3>2. Since(<<>>, Cut) = <<>> /\ <<>> \in Seq(Int)
      BY <1>3, SinceNothing
    <3>3. Since(Append(<<>>, now), Cut) = Append(Since(<<>>, Cut), now)
      BY <1>3, <3>2, SinceAppend
    <3> QED BY <2>1, <2>3, <3>1, <3>2, <3>3 DEF InWindow
  <2> QED BY <2>2, <2>3
<1>8. ASSUME NEW m, m # k
      PROVE  InWindow(a, Cut, m) = InWindow(p, Cut, m)
  BY <1>8 DEF InWindow
<1> QED BY <1>1, <1>2, <1>6, <1>7, <1>8

\* Keys forgotten leave the others as they were.
LEMMA WithoutIsTable ==
    ASSUME NEW table, IsTable(table), NEW gone
    PROVE  IsTable(Without(table, gone))
<1>1. IsFiniteSet(DOMAIN table) /\ \A k \in DOMAIN table : table[k] \in Seq(Int)
  BY DEF IsTable
<1>2. IsFiniteSet(DOMAIN table \ gone)
  BY <1>1, FS_Subset
<1> QED BY <1>1, <1>2 DEF IsTable, Without

LEMMA WithoutKeys ==
    ASSUME NEW table, NEW gone
    PROVE  DOMAIN Without(table, gone) = DOMAIN table \ gone
BY DEF Without

LEMMA WithoutKeeps ==
    ASSUME NEW table, NEW gone, NEW cut, NEW k, k \notin gone
    PROVE  InWindow(Without(table, gone), cut, k) = InWindow(table, cut, k)
BY DEF Without, InWindow

\* What a sweep forgets is what the table holds too much.
LEMMA ForgettableIs ==
    ASSUME NEW table, IsTable(table), NEW gone \in Forgettable(table)
    PROVE  Cardinality(DOMAIN table \ gone) <= MaxKeys
<1>1. gone \subseteq DOMAIN table /\ Cardinality(gone) = Excess(table)
  BY DEF Forgettable
<1>2. IsFiniteSet(DOMAIN table) /\ MaxKeys \in Nat
  BY ThrottleAssumption DEF IsTable
<1>3. Cardinality(DOMAIN table) \in Nat
  BY <1>2, FS_CardinalityType
<1>4. Cardinality(DOMAIN table \ gone) = Cardinality(DOMAIN table) - Cardinality(DOMAIN table \cap gone)
  BY <1>2, FS_Difference, FS_Subset
<1>5. DOMAIN table \cap gone = gone
  BY <1>1
<1>6. Cardinality(DOMAIN table \ gone) = Cardinality(DOMAIN table) - Excess(table)
  BY <1>1, <1>4, <1>5
<1>7. CASE Cardinality(DOMAIN table) > MaxKeys
  <2>1. Excess(table) = Cardinality(DOMAIN table) - MaxKeys
    BY <1>7 DEF Excess
  <2> QED BY <1>2, <1>3, <1>6, <2>1
<1>8. CASE ~(Cardinality(DOMAIN table) > MaxKeys)
  <2>1. Excess(table) = 0
    BY <1>8 DEF Excess
  <2> QED BY <1>2, <1>3, <1>6, <1>8, <2>1
<1> QED BY <1>7, <1>8

-----------------------------------------------------------------------------
(* The sign-ins under way.                                                 *)

LEMMA TryingIs ==
    ASSUME NEW under, NEW l, NEW k
    PROVE  /\ IsFiniteSet(Caller) /\ Cardinality(Caller) \in Nat
           /\ IsFiniteSet(TryingIn(under, l, k))
           /\ Cardinality(TryingIn(under, l, k)) \in Nat
           /\ Cardinality(TryingIn(under, l, k)) <= Cardinality(Caller)
<1>1. TryingIn(under, l, k) \subseteq Caller
  BY DEF TryingIn
<1>2. IsFiniteSet(Caller)
  BY FiniteCallers
<1> QED BY <1>1, <1>2, FS_Subset, FS_CardinalityType

\* An answered sign-in is one less for its own keys, and none more for others.
LEMMA OneAnswered ==
    ASSUME NEW under, NEW c \in Caller, NEW l \in Limit, under = [d \in Caller |-> under[d]],
           NEW k, k # NoName
    PROVE  LET after == [under EXCEPT ![c] = Nobody]
           IN  /\ Cardinality(TryingIn(after, l, k)) <= Cardinality(TryingIn(under, l, k))
               /\ under[c][l] = k =>
                    /\ Cardinality(TryingIn(after, l, k)) + 1 = Cardinality(TryingIn(under, l, k))
                    /\ Cardinality(TryingIn(after, l, k)) + 1 <= Cardinality(Caller)
<1> DEFINE after == [under EXCEPT ![c] = Nobody]
<1>1. Nobody[l] = NoName
  BY DEF Nobody, Limit, LimitKey
<1>2. \A d \in Caller : after[d] = IF d = c THEN Nobody ELSE under[d]
  OBVIOUS
<1>3. TryingIn(after, l, k) = TryingIn(under, l, k) \ {c}
  BY <1>1, <1>2 DEF TryingIn
<1>4. IsFiniteSet(TryingIn(under, l, k)) /\ Cardinality(TryingIn(under, l, k)) \in Nat
      /\ Cardinality(TryingIn(under, l, k)) <= Cardinality(Caller)
  BY TryingIs
<1>5. Cardinality(TryingIn(after, l, k)) <= Cardinality(TryingIn(under, l, k))
  BY <1>3, <1>4, FS_Subset
<1>6. ASSUME under[c][l] = k
      PROVE  Cardinality(TryingIn(after, l, k)) + 1 = Cardinality(TryingIn(under, l, k))
  <2>1. c \in TryingIn(under, l, k)
    BY <1>6 DEF TryingIn
  <2>2. Cardinality(TryingIn(after, l, k)) = Cardinality(TryingIn(under, l, k)) - 1
    BY <1>3, <1>4, <2>1, FS_RemoveElement
  <2> QED BY <1>4, <2>2
<1> QED BY <1>4, <1>5, <1>6, TryingIs

-----------------------------------------------------------------------------
(* What the invariant says, and that it starts so.                         *)

LEMMA LimitsAre ==
    /\ Limit = {"address", "account"}
    /\ LimitKey["address"] = Address /\ LimitKey["account"] = Username
    /\ \A l \in Limit : Attempts[l] \in Nat /\ Attempts[l] >= 1
    /\ \A l \in Limit : NoName \notin LimitKey[l]
BY ThrottleAssumption DEF Limit, LimitKey

LEMMA InvIs ==
    ASSUME ThrottleInv, NEW l \in Limit
    PROVE  /\ now \in Nat /\ Cut \in Int
           /\ IsTable(tables[l]) /\ Cardinality(DOMAIN tables[l]) <= MaxKeys
           /\ failed[l] = [k \in LimitKey[l] |-> failed[l][k]]
           /\ \A k \in LimitKey[l] : failed[l][k] \in Seq(Int) /\ Len(failed[l][k]) \in Nat
           /\ \A k \in LimitKey[l] \ lost[l] :
                /\ InWindow(tables[l], Cut, k) = failed[l][k]
                /\ Len(failed[l][k]) + Cardinality(TryingIn(trying, l, k))
                       <= Attempts[l] + Cardinality(Caller) - 1
<1>1. failed[l] \in [LimitKey[l] -> Seq(Int)]
  BY DEF ThrottleInv, ThrottleTypeOK
<1>2. \A k \in LimitKey[l] : failed[l][k] \in Seq(Int) /\ Len(failed[l][k]) \in Nat
  BY <1>1
<1>3. now \in Nat /\ IsTable(tables[l])
  BY DEF ThrottleInv, ThrottleTypeOK
<1> QED BY <1>1, <1>2, <1>3, CutIs DEF ThrottleInv, WindowIsHeld, RoomForTrying, TableIsBounded

LEMMA CallerIs ==
    ASSUME ThrottleInv, NEW c \in Caller, trying[c] # Nobody
    PROVE  /\ trying[c].address = trying[c]["address"] /\ trying[c].account = trying[c]["account"]
           /\ trying[c]["address"] \in Address
           /\ trying[c]["account"] \in Username \cup {NoName}
BY DEF ThrottleInv, ThrottleTypeOK

\* Every action leaves the table of each limit within the invariant.
PerLimit(l, table, cut, under, ours, gone) ==
    /\ IsTable(table) /\ Cardinality(DOMAIN table) <= MaxKeys
    /\ ours \in [LimitKey[l] -> Seq(Int)]
    /\ \A k \in LimitKey[l] \ gone :
        /\ InWindow(table, cut, k) = ours[k]
        /\ Len(ours[k]) + Cardinality(TryingIn(under, l, k))
               <= Attempts[l] + Cardinality(Caller) - 1

LEMMA ThrottleInitOK ==
    ASSUME ThrottleInit
    PROVE  ThrottleInv
<1>1. now = 0 /\ now \in Nat /\ Cut \in Int
  BY CutIs DEF ThrottleInit
<1>2. ASSUME NEW l \in Limit
      PROVE  PerLimit(l, tables[l], Cut, trying, failed[l], lost[l])
  <2>1. tables[l] = [k \in {} |-> <<>>] /\ failed[l] = [k \in LimitKey[l] |-> <<>>]
    BY <1>2 DEF ThrottleInit
  <2>2. DOMAIN tables[l] = {} /\ IsTable(tables[l])
    BY <2>1, FS_EmptySet DEF IsTable
  <2>3. Cardinality(DOMAIN tables[l]) <= MaxKeys
    BY <2>2, FS_EmptySet, ThrottleAssumption
  <2>4. failed[l] \in [LimitKey[l] -> Seq(Int)] /\ \A k \in LimitKey[l] : failed[l][k] = <<>>
    BY <2>1, EmptySeq
  <2>5. ASSUME NEW k \in LimitKey[l]
        PROVE  /\ InWindow(tables[l], Cut, k) = failed[l][k]
               /\ Len(failed[l][k]) + Cardinality(TryingIn(trying, l, k))
                     <= Attempts[l] + Cardinality(Caller) - 1
    <3>1. Len(failed[l][k]) = 0
      BY <2>4
    <3>2. /\ Cardinality(Caller) \in Nat /\ Cardinality(TryingIn(trying, l, k)) \in Nat
          /\ Cardinality(TryingIn(trying, l, k)) <= Cardinality(Caller)
      BY TryingIs
    <3>3. Attempts[l] \in Nat /\ Attempts[l] >= 1
      BY LimitsAre
    <3> QED BY <2>2, <2>4, <3>1, <3>2, <3>3 DEF InWindow
  <2> QED BY <2>2, <2>3, <2>4, <2>5 DEF PerLimit
<1>3. ThrottleTypeOK
  <2>1. trying \in [Caller -> [address : Address, account : Username \cup {NoName}] \cup {Nobody}]
    BY DEF ThrottleInit
  <2>2. records \in [Limit -> Nat]
    BY DEF ThrottleInit
  <2>3. /\ tables = [l \in Limit |-> tables[l]] /\ failed = [l \in Limit |-> failed[l]]
        /\ lost = [l \in Limit |-> lost[l]]
    BY DEF ThrottleInit
  <2> QED BY <1>1, <1>2, <2>1, <2>2, <2>3 DEF ThrottleTypeOK, PerLimit
<1> QED BY <1>2, <1>3 DEF ThrottleInv, WindowIsHeld, RoomForTrying, TableIsBounded, PerLimit

\* A step that keeps the types and leaves each limit within the invariant keeps it.
LEMMA Gathered ==
    ASSUME now' \in Nat, records' \in [Limit -> Nat],
           trying' \in [Caller -> [address : Address, account : Username \cup {NoName}] \cup {Nobody}],
           tables' = [l \in Limit |-> tables'[l]], failed' = [l \in Limit |-> failed'[l]],
           lost' = [l \in Limit |-> lost'[l]],
           \A l \in Limit :
               PerLimit(l, tables'[l], now' - Window, trying', failed'[l], lost'[l])
    PROVE  ThrottleInv'
<1>1. ThrottleTypeOK'
  BY DEF ThrottleTypeOK, PerLimit
<1>2. WindowIsHeld'
  BY DEF WindowIsHeld, PerLimit, Cut
<1>3. RoomForTrying'
  BY DEF RoomForTrying, PerLimit
<1>4. TableIsBounded'
  BY DEF TableIsBounded, PerLimit
<1> QED BY <1>1, <1>2, <1>3, <1>4 DEF ThrottleInv

-----------------------------------------------------------------------------
(* One step per action.                                                    *)

\* What is older than the window falls out of what is held and of what counts.
LEMMA TickOK ==
    ASSUME ThrottleInv, Tick
    PROVE  ThrottleInv'
<1> DEFINE later == now + 1 - Window
<1>1. now \in Nat /\ now' = now + 1 /\ tables' = tables /\ records' = records
      /\ trying' = trying /\ lost' = lost
      /\ failed' = [l \in Limit |-> [k \in LimitKey[l] |-> Since(failed[l][k], later)]]
  BY DEF Tick, ThrottleInv, ThrottleTypeOK
<1>2. now' \in Nat /\ later \in Int /\ Cut \in Int /\ Cut <= later /\ now' - Window = later
  BY <1>1, ThrottleAssumption DEF Cut
<1> HIDE DEF later
<1>3. ASSUME NEW l \in Limit
      PROVE  PerLimit(l, tables[l], later, trying, failed'[l], lost[l])
  <2>1. failed'[l] = [k \in LimitKey[l] |-> Since(failed[l][k], later)]
    BY <1>1
  <2>2. /\ IsTable(tables[l]) /\ Cardinality(DOMAIN tables[l]) <= MaxKeys
        /\ \A k \in LimitKey[l] : failed[l][k] \in Seq(Int)
        /\ \A k \in LimitKey[l] \ lost[l] :
                /\ InWindow(tables[l], Cut, k) = failed[l][k]
                /\ Len(failed[l][k]) + Cardinality(TryingIn(trying, l, k))
                       <= Attempts[l] + Cardinality(Caller) - 1
    BY InvIs
  <2>3. failed'[l] \in [LimitKey[l] -> Seq(Int)]
    BY <1>2, <2>1, <2>2, SinceIs
  <2>4. ASSUME NEW k \in LimitKey[l] \ lost[l]
        PROVE  /\ InWindow(tables[l], later, k) = failed'[l][k]
               /\ Len(failed'[l][k]) + Cardinality(TryingIn(trying, l, k))
                     <= Attempts[l] + Cardinality(Caller) - 1
    <3>1. failed'[l][k] = Since(failed[l][k], later) /\ failed[l][k] \in Seq(Int)
      BY <2>1, <2>2, <2>4
    <3>2. InWindow(tables[l], later, k) = Since(InWindow(tables[l], Cut, k), later)
      <4>1. CASE k \in DOMAIN tables[l]
        <5>1. tables[l][k] \in Seq(Int)
          BY <2>2, <4>1 DEF IsTable
        <5>2. Since(Since(tables[l][k], Cut), later) = Since(tables[l][k], later)
          BY <1>2, <5>1, SinceTwice
        <5> QED BY <4>1, <5>2 DEF InWindow
      <4>2. CASE k \notin DOMAIN tables[l]
        BY <1>2, <4>2, SinceNothing DEF InWindow
      <4> QED BY <4>1, <4>2
    <3>3. Len(failed'[l][k]) <= Len(failed[l][k]) /\ Len(failed'[l][k]) \in Nat
          /\ Len(failed[l][k]) \in Nat
      BY <1>2, <3>1, SinceShorter
    <3>4. /\ Cardinality(Caller) \in Nat /\ Cardinality(TryingIn(trying, l, k)) \in Nat
          /\ Attempts[l] \in Nat
      BY TryingIs, LimitsAre
    <3>5. Len(failed[l][k]) + Cardinality(TryingIn(trying, l, k))
             <= Attempts[l] + Cardinality(Caller) - 1
      BY <2>2, <2>4
    <3>6. InWindow(tables[l], later, k) = failed'[l][k]
      BY <2>2, <2>4, <3>1, <3>2
    <3>7. Len(failed'[l][k]) + Cardinality(TryingIn(trying, l, k))
             <= Attempts[l] + Cardinality(Caller) - 1
      <4>1. /\ Len(failed'[l][k]) \in Int /\ Len(failed[l][k]) \in Int
            /\ Cardinality(TryingIn(trying, l, k)) \in Int
            /\ Attempts[l] + Cardinality(Caller) - 1 \in Int
        BY <3>3, <3>4
      <4>2. Len(failed'[l][k]) <= Len(failed[l][k])
        BY <3>3
      <4> QED BY <3>5, <4>1, <4>2, NoMore, Zenon
    <3> QED BY <3>6, <3>7
  <2> QED BY <2>2, <2>3, <2>4 DEF PerLimit
<1>4. records \in [Limit -> Nat]
      /\ trying \in [Caller -> [address : Address, account : Username \cup {NoName}] \cup {Nobody}]
      /\ tables = [l \in Limit |-> tables[l]] /\ lost = [l \in Limit |-> lost[l]]
  BY DEF ThrottleInv, ThrottleTypeOK
<1>5. failed' = [l \in Limit |-> failed'[l]]
  BY <1>1
<1> QED BY <1>1, <1>2, <1>3, <1>4, <1>5, Gathered

\* A sign-in is let in only while its keys have an attempt left, so one more
\* under way still fits.
LEMMA ArriveOK ==
    ASSUME ThrottleInv, NEW c \in Caller, NEW address \in Address,
           NEW name \in Username \cup {NoName}, Arrive(c, address, name)
    PROVE  ThrottleInv'
<1>1. /\ now \in Nat /\ now' = now /\ records' = records /\ failed' = failed /\ lost' = lost
      /\ trying[c] = Nobody /\ records \in [Limit -> Nat]
      /\ trying \in [Caller -> [address : Address, account : Username \cup {NoName}] \cup {Nobody}]
      /\ tables = [l \in Limit |-> tables[l]] /\ lost = [l \in Limit |-> lost[l]]
      /\ failed = [l \in Limit |-> failed[l]]
  BY DEF Arrive, ThrottleInv, ThrottleTypeOK
<1> DEFINE asked == [address |-> address, account |-> name]
<1>2. /\ tables' = [l \in Limit |-> tables'[l]]
      /\ \A l \in Limit : tables'[l] = tables[l] \/ \E keys : tables'[l] = Pruned(tables[l], keys)
  <2>1. CASE Spent("address", address)
    <3>1. tables' = [tables EXCEPT !["address"] = Pruned(@, {address})]
      BY <2>1 DEF Arrive
    <3>2. \A l \in Limit : tables'[l] = IF l = "address" THEN Pruned(tables[l], {address}) ELSE tables[l]
      BY <1>1, <3>1
    <3>3. tables' = [l \in Limit |-> tables'[l]]
      BY <1>1, <3>1
    <3> QED BY <3>2, <3>3
  <2>2. CASE ~Spent("address", address)
    <3>1. tables' = [l \in Limit |-> Pruned(tables[l], IF l = "address" THEN {address} ELSE {name})]
      BY <2>2 DEF Arrive
    <3> QED BY <3>1
  <2> QED BY <2>1, <2>2
<1>3. \/ trying' = trying
      \/ /\ trying' = [trying EXCEPT ![c] = asked]
         /\ ~Spent("address", address) /\ (name # NoName => ~Spent("account", name))
  BY DEF Arrive
<1>4. trying' \in [Caller -> [address : Address, account : Username \cup {NoName}] \cup {Nobody}]
  BY <1>1, <1>3
<1>5. Cut = now' - Window
  BY <1>1 DEF Cut
<1>6. ASSUME NEW l \in Limit
      PROVE  PerLimit(l, tables'[l], Cut, trying', failed[l], lost[l])
  <2>1. /\ IsTable(tables[l]) /\ Cardinality(DOMAIN tables[l]) <= MaxKeys
        /\ failed[l] = [k \in LimitKey[l] |-> failed[l][k]]
        /\ \A k \in LimitKey[l] : failed[l][k] \in Seq(Int) /\ Len(failed[l][k]) \in Nat
        /\ \A k \in LimitKey[l] \ lost[l] :
                /\ InWindow(tables[l], Cut, k) = failed[l][k]
                /\ Len(failed[l][k]) + Cardinality(TryingIn(trying, l, k))
                       <= Attempts[l] + Cardinality(Caller) - 1
    BY InvIs
  <2>2. /\ IsTable(tables'[l]) /\ DOMAIN tables'[l] \subseteq DOMAIN tables[l]
        /\ \A k : InWindow(tables'[l], Cut, k) = InWindow(tables[l], Cut, k)
    <3>1. CASE tables'[l] = tables[l]
      BY <2>1, <3>1
    <3>2. CASE \E keys : tables'[l] = Pruned(tables[l], keys)
      BY <1>1, <2>1, <3>2, PrunedIs
    <3> QED BY <1>2, <3>1, <3>2
  <2>3. Cardinality(DOMAIN tables'[l]) <= MaxKeys
    <3>1. IsFiniteSet(DOMAIN tables[l])
      BY <2>1 DEF IsTable
    <3>2. /\ Cardinality(DOMAIN tables'[l]) <= Cardinality(DOMAIN tables[l])
          /\ Cardinality(DOMAIN tables'[l]) \in Nat /\ Cardinality(DOMAIN tables[l]) \in Nat
      BY <2>2, <3>1, FS_Subset, FS_CardinalityType
    <3> QED BY <2>1, <3>2, ThrottleAssumption
  <2>4. failed[l] \in [LimitKey[l] -> Seq(Int)]
    BY <2>1
  <2>5. ASSUME NEW k \in LimitKey[l] \ lost[l]
        PROVE  Len(failed[l][k]) + Cardinality(TryingIn(trying', l, k))
                   <= Attempts[l] + Cardinality(Caller) - 1
    <3>0. Len(failed[l][k]) + Cardinality(TryingIn(trying, l, k))
             <= Attempts[l] + Cardinality(Caller) - 1
      BY <2>1, <2>5
    <3>1. /\ Cardinality(Caller) \in Nat /\ Cardinality(TryingIn(trying', l, k)) \in Nat
          /\ Cardinality(TryingIn(trying', l, k)) <= Cardinality(Caller)
          /\ Attempts[l] \in Nat /\ Attempts[l] >= 1 /\ Len(failed[l][k]) \in Nat
      BY <2>1, <2>5, TryingIs, LimitsAre
    <3>2. CASE TryingIn(trying', l, k) = TryingIn(trying, l, k)
      BY <3>0, <3>2
    <3>3. CASE TryingIn(trying', l, k) # TryingIn(trying, l, k)
      <4>1. trying' = [trying EXCEPT ![c] = asked] /\ trying' # trying
            /\ ~Spent("address", address) /\ (name # NoName => ~Spent("account", name))
        BY <1>3, <3>3
      <4>2. asked[l] = k
        <5>1. SUFFICES ASSUME asked[l] # k
                       PROVE  TryingIn(trying', l, k) = TryingIn(trying, l, k)
          BY <3>3
        <5>2. \A d \in Caller : trying'[d] = IF d = c THEN asked ELSE trying[d]
          BY <1>1, <4>1
        <5>3. Nobody[l] = NoName /\ k # NoName
          BY <2>5, LimitsAre DEF Nobody
        <5>4. trying'[c][l] # k /\ trying[c][l] # k
          BY <1>1, <5>1, <5>2, <5>3
        <5>5. \A d \in Caller : trying'[d][l] = k <=> trying[d][l] = k
          BY <5>2, <5>4
        <5> QED BY <5>5 DEF TryingIn
      <4>3. ~Spent(l, k)
        <5>1. CASE l = "address"
          BY <4>1, <4>2, <5>1
        <5>2. CASE l = "account"
          <6>1. name = k /\ name # NoName
            BY <2>5, <4>2, <5>2, LimitsAre
          <6> QED BY <4>1, <5>2, <6>1
        <5> QED BY <5>1, <5>2, LimitsAre
      <4>4. Len(failed[l][k]) <= Attempts[l] - 1
        <5>1. InWindow(tables[l], Cut, k) = failed[l][k]
          BY <2>1, <2>5
        <5>2. CASE k \in DOMAIN tables[l]
          <6>1. failed[l][k] = Recent(tables[l][k])
            BY <5>1, <5>2 DEF InWindow, Recent
          <6>2. ~(Len(Recent(tables[l][k])) >= Attempts[l])
            BY <4>3, <5>2 DEF Spent
          <6> QED BY <3>1, <6>1, <6>2
        <5>3. CASE k \notin DOMAIN tables[l]
          <6>1. failed[l][k] = <<>>
            BY <5>1, <5>3 DEF InWindow
          <6>2. Len(failed[l][k]) = 0
            BY <6>1
          <6> QED BY <3>1, <6>2
        <5> QED BY <5>2, <5>3
      <4> QED BY <3>1, <4>4
    <3> QED BY <3>2, <3>3
  <2>6. \A k \in LimitKey[l] \ lost[l] : InWindow(tables'[l], Cut, k) = failed[l][k]
    BY <2>1, <2>2
  <2> QED BY <2>2, <2>3, <2>4, <2>5, <2>6 DEF PerLimit
<1> QED BY <1>1, <1>2, <1>4, <1>5, <1>6, Gathered

\* An answer that counts no attempt leaves the sign-in's own room behind.
LEMMA AnsweredKeeps ==
    ASSUME ThrottleInv, NEW c \in Caller, trying[c] # Nobody, NEW l \in Limit,
           NEW k \in LimitKey[l] \ lost[l]
    PROVE  Len(failed[l][k]) + Cardinality(TryingIn([trying EXCEPT ![c] = Nobody], l, k))
               <= Attempts[l] + Cardinality(Caller) - 1
<1> DEFINE after == [trying EXCEPT ![c] = Nobody]
<1>1. Len(failed[l][k]) \in Nat /\
      Len(failed[l][k]) + Cardinality(TryingIn(trying, l, k)) <= Attempts[l] + Cardinality(Caller) - 1
  BY InvIs
<1>2. trying = [d \in Caller |-> trying[d]] /\ k # NoName
  BY LimitsAre DEF ThrottleInv, ThrottleTypeOK
<1>3. Cardinality(TryingIn(after, l, k)) <= Cardinality(TryingIn(trying, l, k))
  BY <1>2, OneAnswered
<1>4. /\ Cardinality(Caller) \in Nat /\ Cardinality(TryingIn(trying, l, k)) \in Nat
      /\ Cardinality(TryingIn(after, l, k)) \in Nat /\ Attempts[l] \in Nat
  BY TryingIs, LimitsAre
<1> QED BY <1>1, <1>3, <1>4

\* The right password empties what is held and what counts of the account alike.
LEMMA SucceedOK ==
    ASSUME ThrottleInv, NEW c \in Caller, Succeed(c)
    PROVE  ThrottleInv'
<1> DEFINE after == [trying EXCEPT ![c] = Nobody]
           name == trying[c].account
           rest == Without(tables["account"], {name})
<1>1. /\ now \in Nat /\ now' = now /\ records' = records /\ lost' = lost
      /\ trying' = after /\ trying[c] # Nobody /\ name # NoName
      /\ records \in [Limit -> Nat]
      /\ trying \in [Caller -> [address : Address, account : Username \cup {NoName}] \cup {Nobody}]
      /\ tables = [l \in Limit |-> tables[l]] /\ lost = [l \in Limit |-> lost[l]]
      /\ failed = [l \in Limit |-> failed[l]]
  BY DEF Succeed, ThrottleInv, ThrottleTypeOK
<1>2. tables' = [tables EXCEPT !["account"] = rest]
      /\ failed' = [failed EXCEPT !["account"][name] = <<>>]
  BY DEF Succeed
<1>3. name \in Username /\ name \in LimitKey["account"]
  BY <1>1, CallerIs, LimitsAre
<1>4. Cut = now' - Window /\ trying' \in [Caller -> [address : Address, account : Username \cup {NoName}] \cup {Nobody}]
  BY <1>1 DEF Cut
<1>5. tables' = [l \in Limit |-> tables'[l]] /\ failed' = [l \in Limit |-> failed'[l]]
  BY <1>1, <1>2
<1>6. ASSUME NEW l \in Limit
      PROVE  PerLimit(l, tables'[l], Cut, trying', failed'[l], lost[l])
  <2>1. /\ IsTable(tables[l]) /\ Cardinality(DOMAIN tables[l]) <= MaxKeys /\ Cut \in Int
        /\ failed[l] = [k \in LimitKey[l] |-> failed[l][k]]
        /\ \A k \in LimitKey[l] : failed[l][k] \in Seq(Int)
        /\ \A k \in LimitKey[l] \ lost[l] : InWindow(tables[l], Cut, k) = failed[l][k]
    BY InvIs
  <2>2. \A k \in LimitKey[l] \ lost[l] :
            Len(failed[l][k]) + Cardinality(TryingIn(trying', l, k))
               <= Attempts[l] + Cardinality(Caller) - 1
    BY <1>1, AnsweredKeeps
  <2>3. CASE l = "address"
    <3>1. tables'[l] = tables[l] /\ failed'[l] = failed[l]
      BY <1>1, <1>2, <2>3
    <3>2. failed[l] \in [LimitKey[l] -> Seq(Int)]
      BY <2>1
    <3> QED BY <2>1, <2>2, <3>1, <3>2 DEF PerLimit
  <2>4. CASE l = "account"
    <3>1. tables'[l] = rest /\ failed'[l] = [failed[l] EXCEPT ![name] = <<>>]
      BY <1>1, <1>2, <2>4
    <3>2. \A k \in LimitKey[l] : failed'[l][k] = IF k = name THEN <<>> ELSE failed[l][k]
      BY <2>1, <3>1
    <3>3. failed'[l] \in [LimitKey[l] -> Seq(Int)]
      <4>1. failed[l] \in [LimitKey[l] -> Seq(Int)]
        BY <2>1
      <4>2. <<>> \in Seq(Int)
        BY EmptySeq
      <4> QED BY <3>1, <4>1, <4>2
    <3>4. IsTable(rest) /\ \A k : k # name => InWindow(rest, Cut, k) = InWindow(tables[l], Cut, k)
      BY <2>1, <2>4, WithoutIsTable, WithoutKeeps
    <3>5. Cardinality(DOMAIN rest) <= MaxKeys
      <4>1. IsFiniteSet(DOMAIN tables[l]) /\ DOMAIN rest \subseteq DOMAIN tables[l]
        <5>1. DOMAIN rest = DOMAIN tables[l] \ {name}
          BY <2>4, WithoutKeys
        <5> QED BY <2>1, <5>1 DEF IsTable
      <4>2. /\ Cardinality(DOMAIN rest) <= Cardinality(DOMAIN tables[l])
            /\ Cardinality(DOMAIN rest) \in Nat /\ Cardinality(DOMAIN tables[l]) \in Nat
        BY <4>1, FS_Subset, FS_CardinalityType
      <4> QED BY <2>1, <4>2, ThrottleAssumption
    <3>6. ASSUME NEW k \in LimitKey[l] \ lost[l]
          PROVE  /\ InWindow(rest, Cut, k) = failed'[l][k]
                 /\ Len(failed'[l][k]) + Cardinality(TryingIn(trying', l, k))
                        <= Attempts[l] + Cardinality(Caller) - 1
      <4>1. CASE k = name
        <5>1. failed'[l][k] = <<>> /\ InWindow(rest, Cut, k) = <<>>
          BY <3>2, <4>1 DEF InWindow, Without
        <5>2. /\ Cardinality(Caller) \in Nat /\ Cardinality(TryingIn(trying', l, k)) \in Nat
              /\ Cardinality(TryingIn(trying', l, k)) <= Cardinality(Caller)
              /\ Attempts[l] \in Nat /\ Attempts[l] >= 1 /\ Len(<<>>) = 0
          BY TryingIs, LimitsAre, EmptySeq
        <5> QED BY <5>1, <5>2
      <4>2. CASE k # name
        BY <2>1, <2>2, <3>2, <3>4, <4>2
      <4> QED BY <4>1, <4>2
    <3> HIDE DEF rest
    <3> QED BY <3>1, <3>3, <3>4, <3>5, <3>6 DEF PerLimit
  <2> QED BY <2>3, <2>4, LimitsAre
<1> QED BY <1>1, <1>4, <1>5, <1>6, Gathered

LEMMA DisabledOK ==
    ASSUME ThrottleInv, NEW c \in Caller, Disabled(c)
    PROVE  ThrottleInv'
<1>1. /\ now \in Nat /\ now' = now /\ records' = records /\ lost' = lost
      /\ tables' = tables /\ failed' = failed
      /\ trying' = [trying EXCEPT ![c] = Nobody] /\ trying[c] # Nobody
      /\ records \in [Limit -> Nat]
      /\ trying \in [Caller -> [address : Address, account : Username \cup {NoName}] \cup {Nobody}]
      /\ tables = [l \in Limit |-> tables[l]] /\ lost = [l \in Limit |-> lost[l]]
      /\ failed = [l \in Limit |-> failed[l]]
  BY DEF Disabled, ThrottleInv, ThrottleTypeOK
<1>2. Cut = now' - Window /\ trying' \in [Caller -> [address : Address, account : Username \cup {NoName}] \cup {Nobody}]
  BY <1>1 DEF Cut
<1>3. ASSUME NEW l \in Limit
      PROVE  PerLimit(l, tables[l], Cut, trying', failed[l], lost[l])
  <2>1. /\ IsTable(tables[l]) /\ Cardinality(DOMAIN tables[l]) <= MaxKeys
        /\ failed[l] = [k \in LimitKey[l] |-> failed[l][k]]
        /\ \A k \in LimitKey[l] : failed[l][k] \in Seq(Int)
        /\ \A k \in LimitKey[l] \ lost[l] : InWindow(tables[l], Cut, k) = failed[l][k]
    BY InvIs
  <2>2. \A k \in LimitKey[l] \ lost[l] :
            Len(failed[l][k]) + Cardinality(TryingIn(trying', l, k))
               <= Attempts[l] + Cardinality(Caller) - 1
    BY <1>1, AnsweredKeeps
  <2>3. failed[l] \in [LimitKey[l] -> Seq(Int)]
    BY <2>1
  <2> QED BY <2>1, <2>2, <2>3 DEF PerLimit
<1> QED BY <1>1, <1>2, <1>3, Gathered

\* A failure adds itself to what is held and to what counts, and takes the room
\* its own sign-in had; a sweep forgets only keys it says it lost.
LEMMA FailOK ==
    ASSUME ThrottleInv, NEW c \in Caller, Fail(c)
    PROVE  ThrottleInv'
<1> DEFINE of == IF trying[c].account = NoName THEN {"address"} ELSE Limit
           keys == trying[c]
           grown == [l \in Limit |-> Appended(tables[l], keys[l])]
           swept == [l \in Limit |-> Pruned(grown[l], DOMAIN grown[l])]
           Due(l) == l \in of /\ Sweeps(l, grown[l])
           Forgotten(l) == IF Due(l) THEN Forgettable(swept[l]) ELSE {{}}
<1>1. PICK byAddress \in Forgotten("address"), byAccount \in Forgotten("account") :
        LET forgotten == [address |-> byAddress, account |-> byAccount]
        IN  /\ tables' = [l \in Limit |->
                    IF Due(l) THEN Without(swept[l], forgotten[l])
                    ELSE IF l \in of THEN grown[l] ELSE tables[l]]
            /\ records' = [l \in Limit |->
                    IF Due(l) THEN 0 ELSE IF l \in of THEN records[l] + 1 ELSE records[l]]
            /\ lost' = [l \in Limit |-> lost[l] \cup forgotten[l]]
            /\ failed' = [l \in Limit |->
                    IF l \in of /\ keys[l] \notin lost[l]
                    THEN [failed[l] EXCEPT ![keys[l]] = Append(@, now)]
                    ELSE failed[l]]
  BY DEF Fail, Record
<1> DEFINE forgotten == [address |-> byAddress, account |-> byAccount]
<1>2. /\ now \in Nat /\ now' = now
      /\ trying' = [trying EXCEPT ![c] = Nobody] /\ trying[c] # Nobody
      /\ records \in [Limit -> Nat]
      /\ trying \in [Caller -> [address : Address, account : Username \cup {NoName}] \cup {Nobody}]
      /\ trying = [d \in Caller |-> trying[d]]
  BY DEF Fail, ThrottleInv, ThrottleTypeOK
<1>3. /\ Cut = now' - Window /\ Cut \in Int
      /\ trying' \in [Caller -> [address : Address, account : Username \cup {NoName}] \cup {Nobody}]
  BY <1>2, CutIs DEF Cut
<1>4. \A l \in Limit : forgotten[l] \in Forgotten(l)
  BY <1>1, LimitsAre
<1>5. \A l \in of : l \in Limit /\ keys[l] \in LimitKey[l]
  BY <1>2, CallerIs, LimitsAre
<1>6. \A l \in Limit : l \notin of => keys[l] = NoName
  BY <1>2, CallerIs, LimitsAre
<1>7. /\ tables' = [l \in Limit |->
                    IF Due(l) THEN Without(swept[l], forgotten[l])
                    ELSE IF l \in of THEN grown[l] ELSE tables[l]]
      /\ records' = [l \in Limit |->
                    IF Due(l) THEN 0 ELSE IF l \in of THEN records[l] + 1 ELSE records[l]]
      /\ lost' = [l \in Limit |-> lost[l] \cup forgotten[l]]
      /\ failed' = [l \in Limit |->
                    IF l \in of /\ keys[l] \notin lost[l]
                    THEN [failed[l] EXCEPT ![keys[l]] = Append(@, now)]
                    ELSE failed[l]]
  BY <1>1
<1>8. \A l \in Limit : /\ grown[l] = Appended(tables[l], keys[l])
                       /\ swept[l] = Pruned(grown[l], DOMAIN grown[l])
  OBVIOUS
<1>9. \A l \in Limit : /\ Due(l) => forgotten[l] \in Forgettable(swept[l])
                       /\ ~Due(l) => forgotten[l] = {}
                       /\ Due(l) => l \in of
                       /\ l \in of /\ ~Due(l) => ~(Cardinality(DOMAIN grown[l]) > MaxKeys)
  BY <1>4 DEF Sweeps
<1> HIDE DEF of, keys, grown, swept, Due, Forgotten, forgotten
<1>10. records' \in [Limit -> Nat]
  BY <1>2, <1>7
<1>11. ASSUME NEW l \in Limit
       PROVE  PerLimit(l, tables'[l], Cut, trying', failed'[l], lost'[l])
  <2>1. /\ IsTable(tables[l]) /\ Cardinality(DOMAIN tables[l]) <= MaxKeys
        /\ failed[l] = [k \in LimitKey[l] |-> failed[l][k]]
        /\ \A k \in LimitKey[l] : failed[l][k] \in Seq(Int) /\ Len(failed[l][k]) \in Nat
        /\ \A k \in LimitKey[l] \ lost[l] :
                /\ InWindow(tables[l], Cut, k) = failed[l][k]
                /\ Len(failed[l][k]) + Cardinality(TryingIn(trying, l, k))
                       <= Attempts[l] + Cardinality(Caller) - 1
    BY InvIs
  <2>2. \A k \in LimitKey[l] \ lost[l] :
            Len(failed[l][k]) + Cardinality(TryingIn(trying', l, k))
               <= Attempts[l] + Cardinality(Caller) - 1
    BY <1>2, AnsweredKeeps
  <2>3. CASE l \notin of
    <3>1. tables'[l] = tables[l] /\ failed'[l] = failed[l] /\ lost[l] \subseteq lost'[l]
      BY <1>7, <1>9, <2>3
    <3>2. failed[l] \in [LimitKey[l] -> Seq(Int)]
      BY <2>1
    <3> QED BY <2>1, <2>2, <3>1, <3>2 DEF PerLimit
  <2>4. CASE l \in of
    <3> DEFINE key == keys[l]
    <3>1. key \in LimitKey[l]
      BY <1>5, <2>4
    <3>2. /\ IsTable(grown[l])
          /\ InWindow(grown[l], Cut, key) = Append(InWindow(tables[l], Cut, key), now)
          /\ \A m : m # key => InWindow(grown[l], Cut, m) = InWindow(tables[l], Cut, m)
      BY <1>2, <1>8, <2>1, AppendedIs
    <3>3. /\ IsTable(tables'[l]) /\ Cardinality(DOMAIN tables'[l]) <= MaxKeys
          /\ \A k : k \notin lost'[l] =>
                InWindow(tables'[l], Cut, k) = InWindow(grown[l], Cut, k)
      <4>1. CASE Due(l)
        <5>1. /\ tables'[l] = Without(swept[l], forgotten[l])
              /\ forgotten[l] \subseteq lost'[l] /\ forgotten[l] \in Forgettable(swept[l])
          BY <1>7, <1>9, <4>1
        <5>2. /\ IsTable(swept[l])
              /\ \A k : InWindow(swept[l], Cut, k) = InWindow(grown[l], Cut, k)
          BY <1>2, <1>8, <3>2, PrunedIs
        <5>3. /\ IsTable(tables'[l])
              /\ \A k : k \notin forgotten[l] =>
                    InWindow(tables'[l], Cut, k) = InWindow(swept[l], Cut, k)
          BY <5>1, <5>2, WithoutIsTable, WithoutKeeps
        <5>4. Cardinality(DOMAIN swept[l] \ forgotten[l]) <= MaxKeys
          BY <5>1, <5>2, ForgettableIs
        <5>5. DOMAIN tables'[l] = DOMAIN swept[l] \ forgotten[l]
          BY <5>1, WithoutKeys
        <5> QED BY <5>1, <5>2, <5>3, <5>4, <5>5
      <4>2. CASE ~Due(l)
        <5>1. tables'[l] = grown[l] /\ ~(Cardinality(DOMAIN grown[l]) > MaxKeys)
          BY <1>7, <1>9, <2>4, <4>2
        <5>2. Cardinality(DOMAIN grown[l]) \in Nat
          BY <3>2, FS_CardinalityType DEF IsTable
        <5>3. Cardinality(DOMAIN grown[l]) <= MaxKeys
          BY <5>1, <5>2, ThrottleAssumption
        <5> QED BY <3>2, <5>1, <5>3
      <4> QED BY <4>1, <4>2
    <3>4. \A k \in LimitKey[l] :
            failed'[l][k] = IF key \notin lost[l] /\ k = key THEN Append(failed[l][k], now)
                            ELSE failed[l][k]
      BY <1>7, <2>1, <2>4
    <3>5. failed'[l] \in [LimitKey[l] -> Seq(Int)]
      <4>1. now \in Int /\ \A k \in LimitKey[l] : Append(failed[l][k], now) \in Seq(Int)
        BY <1>2, <2>1
      <4>2. failed'[l] = IF key \notin lost[l]
                         THEN [failed[l] EXCEPT ![key] = Append(@, now)] ELSE failed[l]
        BY <1>7, <2>4
      <4> QED BY <2>1, <3>1, <4>1, <4>2
    <3>6. ASSUME NEW k \in LimitKey[l] \ lost'[l]
          PROVE  /\ InWindow(tables'[l], Cut, k) = failed'[l][k]
                 /\ Len(failed'[l][k]) + Cardinality(TryingIn(trying', l, k))
                        <= Attempts[l] + Cardinality(Caller) - 1
      <4>1. k \in LimitKey[l] \ lost[l]
        BY <1>7, <3>6
      <4>2. CASE k # key
        BY <2>1, <2>2, <3>2, <3>3, <3>4, <3>6, <4>1, <4>2
      <4>3. CASE k = key
        <5>1. failed'[l][k] = Append(failed[l][k], now)
          BY <3>4, <4>1, <4>3
        <5>2. InWindow(tables'[l], Cut, k) = failed'[l][k]
          BY <2>1, <3>2, <3>3, <3>6, <4>1, <4>3, <5>1
        <5>3. Len(failed'[l][k]) = Len(failed[l][k]) + 1 /\ Len(failed[l][k]) \in Nat
          BY <2>1, <4>1, <5>1
        <5>4. trying[c][l] = k /\ k # NoName
          BY <4>1, <4>3, LimitsAre DEF keys
        <5>5. Cardinality(TryingIn(trying', l, k)) + 1 = Cardinality(TryingIn(trying, l, k))
          BY <1>2, <5>4, OneAnswered
        <5>6. /\ Cardinality(Caller) \in Nat /\ Cardinality(TryingIn(trying, l, k)) \in Nat
              /\ Cardinality(TryingIn(trying', l, k)) \in Nat /\ Attempts[l] \in Nat
          BY TryingIs, LimitsAre
        <5>7. Len(failed[l][k]) + Cardinality(TryingIn(trying, l, k))
                <= Attempts[l] + Cardinality(Caller) - 1
          BY <2>1, <4>1
        <5>8. /\ Len(failed[l][k]) \in Int /\ Attempts[l] + Cardinality(Caller) - 1 \in Int
              /\ Cardinality(TryingIn(trying', l, k)) \in Int
              /\ Cardinality(TryingIn(trying, l, k)) \in Int
          BY <5>3, <5>6
        <5>9. Len(failed'[l][k]) + Cardinality(TryingIn(trying', l, k))
                <= Attempts[l] + Cardinality(Caller) - 1
          BY <5>3, <5>5, <5>7, <5>8
        <5> QED BY <5>2, <5>9
      <4> QED BY <4>2, <4>3
    <3> QED BY <3>3, <3>5, <3>6 DEF PerLimit
  <2> QED BY <2>3, <2>4
<1>12. /\ tables' = [l \in Limit |-> tables'[l]] /\ failed' = [l \in Limit |-> failed'[l]]
       /\ lost' = [l \in Limit |-> lost'[l]]
  BY <1>7
<1> QED BY <1>2, <1>3, <1>10, <1>11, <1>12, Gathered

-----------------------------------------------------------------------------
\* However many sign-ins overlap, whatever the names and addresses and however
\* often a table is swept: what a table counts of a key it has not forgotten is
\* what failed within the window, a key fails at most its attempts and once for
\* each other sign-in under way, and no table outgrows its bound (throttle.py).
THEOREM AttemptsAreLimitedHolds == ThrottleSpec => []AttemptsAreLimited
<1>1. ThrottleInit => ThrottleInv
  BY ThrottleInitOK
<1>2. ThrottleInv /\ [ThrottleNext]_throttleVars => ThrottleInv'
  <2> SUFFICES ASSUME ThrottleInv, [ThrottleNext]_throttleVars
               PROVE  ThrottleInv'
    OBVIOUS
  <2>1. CASE Tick
    BY <2>1, TickOK
  <2>2. CASE \E c \in Caller :
                \/ \E address \in Address, name \in Username \cup {NoName} :
                        Arrive(c, address, name)
                \/ Fail(c) \/ Succeed(c) \/ Disabled(c)
    BY <2>2, ArriveOK, FailOK, SucceedOK, DisabledOK
  <2>3. CASE UNCHANGED throttleVars
    BY <2>3 DEF throttleVars, ThrottleInv, ThrottleTypeOK, WindowIsHeld, RoomForTrying,
                TableIsBounded, Cut, IsTable, InWindow, TryingIn
  <2> QED BY <2>1, <2>2, <2>3 DEF ThrottleNext
<1>3. ThrottleInv => AttemptsAreLimited
  <2> SUFFICES ASSUME ThrottleInv
               PROVE  AttemptsAreLimited
    OBVIOUS
  <2>1. ASSUME NEW l \in Limit, NEW k \in LimitKey[l] \ lost[l]
        PROVE  /\ HeldInWindow(l, k) = Len(failed[l][k])
               /\ Len(failed[l][k]) <= Attempts[l] + Cardinality(Caller) - 1
    <3>1. /\ InWindow(tables[l], Cut, k) = failed[l][k] /\ Len(failed[l][k]) \in Nat
          /\ Len(failed[l][k]) + Cardinality(TryingIn(trying, l, k))
                <= Attempts[l] + Cardinality(Caller) - 1
      BY InvIs
    <3>2. /\ Cardinality(Caller) \in Nat /\ Cardinality(TryingIn(trying, l, k)) \in Nat
          /\ Attempts[l] \in Nat
      BY TryingIs, LimitsAre
    <3>3. HeldInWindow(l, k) = Len(failed[l][k])
      <4>1. CASE k \in DOMAIN tables[l]
        BY <3>1, <4>1 DEF HeldInWindow, InWindow, Recent
      <4>2. CASE k \notin DOMAIN tables[l]
        <5>1. failed[l][k] = <<>> /\ Len(<<>>) = 0
          BY <3>1, <4>2, EmptySeq DEF InWindow
        <5> QED BY <4>2, <5>1 DEF HeldInWindow
      <4> QED BY <4>1, <4>2
    <3> QED BY <3>1, <3>2, <3>3
  <2>2. TableIsBounded
    BY DEF ThrottleInv
  <2> QED BY <2>1, <2>2 DEF AttemptsAreLimited, CountsAreTheWindow, FailuresAreFew
<1> QED BY <1>1, <1>2, <1>3, PTL DEF ThrottleSpec
==============================================================================
