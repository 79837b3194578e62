----------------------------- MODULE AuctionLocks -----------------------------
(***************************************************************************)
(* The transitions of one auction made at the same time (auctions.py,      *)
(* _lock_auction).  Those that reach its coins take the auction row first  *)
(* and the coins' rows after it, and read the auction again under the      *)
(* lock; schedule and close touch the auction row only and rely on its     *)
(* version column.  A receipt of a coin takes the coins' rows alone.       *)
(***************************************************************************)
EXTENDS Integers, FiniteSets

CONSTANTS
    Transition,    \* the requests that may be under way at the same time
    MaxLots,       \* bound: the lots ever added
    MaxWrites      \* bound: the writes of the auction row

ASSUME LockedAssumption == {MaxLots, MaxWrites} \subseteq Nat \ {0}

Kind ==
    {"add", "remove", "edit", "schedule", "consign", "close", "cancel", "settle", "receipt"}

VARIABLES
    kind,        \* what each request asks
    at,          \* "new", "read", "auction", "coins" or how it ended
    seen,        \* the auction as the request last read it
    row,         \* the auction row: status and version
    slots,       \* the auction_lot rows, numbered as they were added
    added,       \* how many were ever added
    holder       \* who holds the auction row and the coins' rows

lockedVars == <<kind, at, seen, row, slots, added, holder>>

NoHolder == "nobody"

ASSUME NobodyIsNoRequest == NoHolder \notin Transition

\* Mutants: a cancellation, or an added lot, takes no auction row.
LocksAuctionButCancel(k) == k \in {"add", "remove", "edit", "consign", "settle"}
LocksAuctionButAdd(k) == k \in {"remove", "edit", "consign", "cancel", "settle"}

LocksAuction(k) == k \in {"add", "remove", "edit", "consign", "cancel", "settle"}

Accepts(k, status) ==
    CASE k = "add" -> status \in {"draft", "scheduled"}
      [] k \in {"remove", "edit"} -> status \in {"draft", "scheduled", "consigned"}
      [] k = "schedule" -> status = "draft"
      [] k = "consign" -> status = "scheduled"
      [] k = "close" -> status \in {"scheduled", "consigned"}
      [] k = "cancel" -> status \notin {"settled", "cancelled"}
      [] k = "settle" -> status = "closed"
      [] OTHER -> TRUE

StatusFrom(k, status) ==
    CASE k = "schedule" -> "scheduled"
      [] k = "consign" -> "consigned"
      [] k = "close" -> "closed"
      [] k = "cancel" -> "cancelled"
      [] k = "settle" -> "settled"
      [] OTHER -> status

Unread == [row |-> [status |-> "draft", version |-> 0], slots |-> {}]

LockedInit ==
    /\ kind = [t \in Transition |-> "none"]
    /\ at = [t \in Transition |-> "new"]
    /\ seen = [t \in Transition |-> Unread]
    /\ row = [status |-> "draft", version |-> 1]
    /\ slots = {}
    /\ added = 0
    /\ holder = [r \in {"auction", "coins"} |-> NoHolder]

\* The auction is loaded, unlocked; a settlement's grid is filled in from it.
Load(t, k) ==
    /\ at[t] = "new"
    /\ added < MaxLots /\ row.version <= MaxWrites
    /\ k \in {"remove", "edit"} => slots # {}
    /\ kind' = [kind EXCEPT ![t] = k]
    /\ at' = [at EXCEPT ![t] = "read"]
    /\ seen' = [seen EXCEPT ![t] = [row |-> row, slots |-> slots]]
    /\ UNCHANGED <<row, slots, added, holder>>

FreeRow(r, t) == holder[r] \in {NoHolder, t}

Release(t) == holder' = [r \in DOMAIN holder |-> IF holder[r] = t THEN NoHolder ELSE holder[r]]

Answer(t) ==
    /\ at' = [at EXCEPT ![t] = "new"]
    /\ kind' = [kind EXCEPT ![t] = "none"]
    /\ seen' = [seen EXCEPT ![t] = Unread]
    /\ Release(t)

\* Mutant: the row is locked and the copy read before the lock is believed.
KeepStale(t) == UNCHANGED seen

ReadAgain(t) == seen' = [seen EXCEPT ![t].row = row]

\* SELECT ... FOR UPDATE of the auction, read again.
LockAuction(t) ==
    /\ at[t] = "read"
    /\ LocksAuction(kind[t])
    /\ FreeRow("auction", t)
    /\ holder' = [holder EXCEPT !["auction"] = t]
    /\ at' = [at EXCEPT ![t] = "auction"]
    /\ ReadAgain(t)
    /\ UNCHANGED <<kind, row, slots, added>>

\* The grid names the lots there are: every lot, and no other.
GridFits(t) == kind[t] = "settle" => seen[t].slots = slots

\* The rows of the coins, in one pass, once the status allows it.
LockCoins(t) ==
    /\ \/ at[t] = "auction" /\ kind[t] # "edit"
       \/ at[t] = "read" /\ ~LocksAuction(kind[t]) /\ kind[t] \notin {"schedule", "close"}
    /\ Accepts(kind[t], seen[t].row.status)
    /\ GridFits(t)
    /\ FreeRow("coins", t)
    /\ holder' = [holder EXCEPT !["coins"] = t]
    /\ at' = [at EXCEPT ![t] = "coins"]
    /\ UNCHANGED <<kind, seen, row, slots, added>>

RefuseStatus(t) ==
    /\ at[t] = "auction" \/ (at[t] = "read" /\ ~LocksAuction(kind[t]))
    /\ ~Accepts(kind[t], seen[t].row.status) \/ ~GridFits(t)
    /\ Answer(t)
    /\ UNCHANGED <<row, slots, added>>

WritesAuction(k) == k \in {"schedule", "consign", "close", "cancel", "settle"}

\* The UPDATE of the auction row: it waits for the row, and finds the version
\* it read or none.
Fresh(t) == seen[t].row.version = row.version

Written(t) ==
    [status |-> StatusFrom(kind[t], seen[t].row.status),
     version |-> row.version + 1]

SlotsAfter(t) ==
    CASE kind[t] = "add" -> slots \cup {added + 1}
      [] kind[t] = "remove" -> slots \ {CHOOSE n \in seen[t].slots : \A m \in seen[t].slots : n <= m}
      [] kind[t] = "cancel" -> {}
      [] OTHER -> slots

Write(t) ==
    /\ \/ at[t] = "coins"
       \/ at[t] = "auction" /\ kind[t] = "edit"
       \/ at[t] = "read" /\ kind[t] \in {"schedule", "close"}
    /\ Accepts(kind[t], seen[t].row.status)
    /\ WritesAuction(kind[t]) => FreeRow("auction", t)
    /\ IF WritesAuction(kind[t]) /\ ~Fresh(t)
       THEN UNCHANGED <<row, slots, added>>
       ELSE /\ row' = IF WritesAuction(kind[t]) THEN Written(t) ELSE row
            /\ slots' = SlotsAfter(t)
            /\ added' = IF kind[t] = "add" THEN added + 1 ELSE added
    /\ Answer(t)

TransitionStep(t) ==
    LockAuction(t) \/ LockCoins(t) \/ RefuseStatus(t) \/ Write(t)

LockedNext ==
    \E t \in Transition : TransitionStep(t) \/ \E k \in Kind : Load(t, k)

\* The database hands a row to those who wait for it in turn.
LockedFairness == \A t \in Transition : SF_lockedVars(TransitionStep(t))

LockedSpec == LockedInit /\ [][LockedNext]_lockedVars /\ LockedFairness

-----------------------------------------------------------------------------
\* Each status is reached from one the walk allows, whatever else commits
\* between a transition's reads and its write, and the lots of an auction that
\* has closed are left as they are: only a cancellation drops them.
WalkIsLegal ==
    [][/\ row'.status # row.status =>
             \E k \in Kind : Accepts(k, row.status) /\ row'.status = StatusFrom(k, row.status)
       /\ row.status \in {"closed", "settled"} /\ row'.status # "cancelled" => slots' = slots
       /\ row.status = "cancelled" => slots' = {}]_lockedVars

\* What a transition read of the auction under its lock is still so when it
\* writes, the lots of a settlement's grid included: the loser of two
\* settlements is refused by the status it reads, never by a stale version
\* after it has worked through every lot.
LockedIsCurrent ==
    \A t \in Transition :
        /\ at[t] \in {"auction", "coins"} /\ LocksAuction(kind[t]) => seen[t].row = row
        /\ at[t] = "coins" /\ kind[t] = "settle" => seen[t].slots = slots

\* No request waits for ever for the rows another holds.
TransitionsEnd == \A t \in Transition : []<>(at[t] = "new")

\* The walk of an auction is legal because what a transition read under the
\* lock still holds when it writes.
DecidedUnderTheLock == []LockedIsCurrent /\ WalkIsLegal

-----------------------------------------------------------------------------
(* The inductive invariant behind DecidedUnderTheLock.                     *)

Status == {"draft", "scheduled", "consigned", "closed", "cancelled", "settled"}

AuctionRow == [status : Status, version : Nat]

LockedTypeOK ==
    /\ kind \in [Transition -> Kind \cup {"none"}]
    /\ at \in [Transition -> {"new", "read", "auction", "coins"}]
    /\ seen \in [Transition -> [row : AuctionRow, slots : SUBSET Nat]]
    /\ row \in AuctionRow
    /\ slots \subseteq Nat
    /\ added \in Nat
    /\ holder \in [{"auction", "coins"} -> Transition \cup {NoHolder}]

\* A request that has read the auction under its lock holds the row until it ends.
HoldsWhatItReads ==
    \A t \in Transition : at[t] \in {"auction", "coins"} /\ LocksAuction(kind[t]) =>
        holder["auction"] = t

\* The two transitions that take no lock go from what they read to their write.
UnlockedStayRead ==
    \A t \in Transition :
        /\ at[t] = "auction" => LocksAuction(kind[t])
        /\ at[t] = "coins" => kind[t] \notin {"edit", "schedule", "close"}

\* A version is written once: whoever read it read the status that came with it.
VersionTellsStatus ==
    \A t \in Transition :
        /\ seen[t].row.version <= row.version
        /\ seen[t].row.version = row.version => seen[t].row = row

VersionsBegin == row.version >= 1

CancelledIsEmpty == row.status = "cancelled" => slots = {}

LockedInv ==
    /\ HoldsWhatItReads
    /\ UnlockedStayRead
    /\ VersionTellsStatus
    /\ VersionsBegin
    /\ CancelledIsEmpty
    /\ LockedIsCurrent
=============================================================================
