------------------------------- MODULE FirstOrders -------------------------------
(***************************************************************************)
(* The orders of one account placed at the same time: its customer row is  *)
(* found or made, and a checkout counts the unpaid orders it holds before  *)
(* it places another (order_writes.py, customer_for_user and               *)
(* refuse_too_many_pending; routers/orders.py, create_order).  Nobody      *)
(* counts before an order a manager places for the account, gives to it,   *)
(* or sets back to pending.  READ COMMITTED: a statement sees what was     *)
(* committed when it started.  An insert waits for another, uncommitted    *)
(* one of the same account.                                                *)
(***************************************************************************)
EXTENDS Integers, FiniteSets

CONSTANTS
    Shopper,       \* the requests of the account that may be under way at once
    MaxPending,    \* MAX_PENDING_ORDERS
    MaxOrders      \* bound: the orders placed in all

ASSUME FirstOrdersAssumption == {MaxPending, MaxOrders} \subseteq Nat \ {0}

\* The routes are plain functions, which FastAPI runs in a pool of threads.
ASSUME FiniteThreads == IsFiniteSet(Shopper)

VARIABLES
    shopper,      \* per request: how far it is
    customerOf,   \* per request: the customer row it orders for, named by who made it
    rows,         \* the committed customer rows of the account
    inserted,     \* the rows inserted and not committed yet
    pending,      \* the committed orders waiting for payment: <<number, customer>>
    counted,      \* those of them a checkout placed and nobody has moved since
    moved,        \* orders moved on from pending that may be set back to it
    placed        \* how many orders were placed so far

orderVars == <<pending, counted, moved, placed>>
firstOrderVars == <<shopper, customerOf, rows, inserted, orderVars>>

NoCustomer == "none"

FirstOrdersInit ==
    /\ shopper = [s \in Shopper |-> "new"]
    /\ customerOf = [s \in Shopper |-> NoCustomer]
    /\ rows = {}
    /\ inserted = {}
    /\ pending = {} /\ counted = {} /\ moved = {}
    /\ placed = 0

Goes(s, from, to) == shopper[s] = from /\ shopper' = [shopper EXCEPT ![s] = to]

Look(s) ==
    /\ placed < MaxOrders
    /\ IF rows = {}
       THEN Goes(s, "new", "insert") /\ UNCHANGED customerOf
       ELSE /\ Goes(s, "new", "count")
            /\ \E r \in rows : customerOf' = [customerOf EXCEPT ![s] = r]
    /\ UNCHANGED <<rows, inserted, orderVars>>

\* Mutant: no unique index on the customer's account.
NeverTaken == FALSE

Taken == rows # {}

\* The insert, in a savepoint, once no other is uncommitted.
Insert(s) ==
    /\ Taken \/ inserted = {}
    /\ IF Taken
       THEN Goes(s, "insert", "lost") /\ UNCHANGED <<customerOf, inserted>>
       ELSE /\ Goes(s, "insert", "count")
            /\ customerOf' = [customerOf EXCEPT ![s] = s]
            /\ inserted' = inserted \cup {s}
    /\ UNCHANGED <<rows, orderVars>>

\* The loser reads the row the winner wrote: scalar_one wants exactly one.
ReadWinner(s) ==
    /\ IF Cardinality(rows) = 1
       THEN /\ Goes(s, "lost", "count")
            /\ \E r \in rows : customerOf' = [customerOf EXCEPT ![s] = r]
       ELSE Goes(s, "lost", "crashed") /\ UNCHANGED customerOf
    /\ UNCHANGED <<rows, inserted, orderVars>>

PendingOf(c) == {p \in pending : p[2] = c}

\* Mutant: the ceiling itself is let through.
HasRoomAtCeiling(s) == Cardinality(PendingOf(customerOf[s])) <= MaxPending

HasRoom(s) == Cardinality(PendingOf(customerOf[s])) < MaxPending

CountPending(s) ==
    /\ HasRoom(s) /\ Goes(s, "count", "place")
    /\ UNCHANGED <<customerOf, rows, inserted, orderVars>>

\* Mutant: the refusal leaves its transaction open.
NotRolledBack(s) == inserted

RolledBack(s) == inserted \ {s}

\* Too many, or the stock refused it: rolled back, its customer row too.
GiveUp(s) ==
    /\ \/ Goes(s, "count", "new") /\ ~HasRoom(s)
       \/ Goes(s, "place", "new")
    /\ inserted' = RolledBack(s)
    /\ customerOf' = [customerOf EXCEPT ![s] = NoCustomer]
    /\ UNCHANGED <<rows, orderVars>>

\* The request commits, its customer row with it.
CommitsCustomer(s) ==
    /\ rows' = rows \cup (inserted \cap {s})
    /\ inserted' = inserted \ {s}
    /\ customerOf' = [customerOf EXCEPT ![s] = NoCustomer]

Place(s) ==
    /\ Goes(s, "place", "new")
    /\ placed' = placed + 1
    /\ pending' = pending \cup {<<placed', customerOf[s]>>}
    /\ counted' = counted \cup {<<placed', customerOf[s]>>}
    /\ CommitsCustomer(s)
    /\ UNCHANGED moved

\* A manager asks for the account's customer and orders nothing.
MakeCustomer(s) == Goes(s, "count", "new") /\ CommitsCustomer(s) /\ UNCHANGED orderVars

\* A manager places an order for the customer, or gives it another's.
ConsoleOrder(c) ==
    /\ placed < MaxOrders
    /\ placed' = placed + 1
    /\ pending' = pending \cup {<<placed', c>>}
    /\ UNCHANGED <<shopper, customerOf, rows, inserted, counted, moved>>

\* An order is paid for and may come back, or it is cancelled, refunded or given
\* to another customer and does not.
Settled(p) ==
    /\ pending' = pending \ {p}
    /\ counted' = counted \ {p}
    /\ moved' \in {moved, moved \cup {p}}
    /\ UNCHANGED <<shopper, customerOf, rows, inserted, placed>>

SetBack(p) ==
    /\ pending' = pending \cup {p}
    /\ moved' = moved \ {p}
    /\ UNCHANGED <<shopper, customerOf, rows, inserted, counted, placed>>

ShopperStep(s) ==
    \/ Insert(s) \/ ReadWinner(s) \/ CountPending(s)
    \/ GiveUp(s) \/ Place(s) \/ MakeCustomer(s)

FirstOrdersNext ==
    \/ \E s \in Shopper : Look(s) \/ ShopperStep(s)
    \/ \E c \in rows : ConsoleOrder(c)
    \/ \E p \in pending : Settled(p)
    \/ \E p \in moved : SetBack(p)

\* A request is begun by nobody's duty; once it is, it goes on, and those who
\* wait for an insert of another are woken in turn.
FirstOrdersFairness == \A s \in Shopper : SF_firstOrderVars(ShopperStep(s))

FirstOrdersSpec ==
    FirstOrdersInit /\ [][FirstOrdersNext]_firstOrderVars /\ FirstOrdersFairness

-----------------------------------------------------------------------------
\* Whichever of the first orders of an account commits first, or gives up,
\* they all end up with one customer, and it exists.
OneCustomer ==
    /\ Cardinality(rows) <= 1
    /\ \A p \in pending : p[2] \in rows
    /\ \A s \in Shopper : shopper[s] # "crashed"

CountedOf(c) == {p \in counted : p[2] = c}

\* The ceiling is soft, but what is placed at the shop's checkout passes it only by
\* the requests under way at one moment: of the unpaid orders of an account, those
\* its checkouts placed are never more than it, plus one for each other request.
CheckoutsAreBounded ==
    \A c \in rows : Cardinality(CountedOf(c)) <= MaxPending + Cardinality(Shopper) - 1

\* Each request is answered: the loser of an insert does not wait for ever.
OrdersAreAnswered == \A s \in Shopper : []<>(shopper[s] = "new")

\* First orders that overlap make one customer, and overrun its ceiling by no
\* more than themselves.
OneCustomerInBounds == OneCustomer /\ CheckoutsAreBounded

-----------------------------------------------------------------------------
(* The inductive invariant behind OneCustomerInBounds.                     *)

FirstOrdersTypeOK ==
    /\ shopper \in [Shopper -> {"new", "insert", "lost", "count", "place", "crashed"}]
    /\ customerOf \in [Shopper -> Shopper \cup {NoCustomer}]
    /\ rows \subseteq Shopper
    /\ inserted \subseteq Shopper
    /\ pending \subseteq Nat \X Shopper
    /\ IsFiniteSet(pending)
    /\ counted \subseteq pending
    /\ moved \subseteq Nat \X Shopper
    /\ placed \in Nat

\* The committed row and the one being inserted are never two.
OneRowAtMost == \A r, q \in rows \cup inserted : r = q

\* A row not committed yet is the row of the request that inserted it.
InsertedIsUnderWay ==
    \A s \in inserted : shopper[s] \in {"count", "place"} /\ customerOf[s] = s

\* A request counts and places for a committed row, or for its own insert; the
\* loser of an insert finds the winner's row.
OrdersForItsCustomer ==
    \A s \in Shopper :
        /\ shopper[s] \in {"count", "place"} =>
              customerOf[s] \in rows \/ (s \in inserted /\ customerOf[s] = s)
        /\ shopper[s] = "lost" => rows # {}
        /\ shopper[s] # "crashed"

PendingHasCustomer == \A p \in pending \cup moved : p[2] \in rows

\* The requests that have counted the orders of customer c and place one more.
PlacingFor(c) == {s \in Shopper : shopper[s] = "place" /\ customerOf[s] = c}

\* A request that has counted is charged to the ceiling as if it had placed.
RoomIsCharged ==
    \A c \in Shopper :
        Cardinality(CountedOf(c)) + Cardinality(PlacingFor(c))
            <= MaxPending + Cardinality(Shopper) - 1

FirstOrdersInv ==
    /\ OneRowAtMost
    /\ InsertedIsUnderWay
    /\ OrdersForItsCustomer
    /\ PendingHasCustomer
    /\ RoomIsCharged
=============================================================================
