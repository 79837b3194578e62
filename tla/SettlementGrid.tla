---------------------------- MODULE SettlementGrid ----------------------------
(***************************************************************************)
(* The grid a manager fills in to settle an auction, and what is refused   *)
(* of it before anything is written (backend/app/auctions.py).  A grid is  *)
(* a sequence of lines, as the request gives them.                         *)
(***************************************************************************)
EXTENDS Integers, Sequences, FiniteSets

CONSTANTS
    Name,      \* buyers' usernames as typed, "" for a field left blank
    Key,       \* [Name -> STRING]: the name trimmed and with its case folded
    NoBuyer    \* Key of a blank: the house's one undisclosed buyer

Result == {"sold", "unsold", "withdrawn"}

\* A hammer price left out, fit for money, or not (negative, below a cent).
Hammer == {"none", "money", "not money"}

\* Mutant: the spelling is the buyer.
SpelledKey(name) == name

BuyerKey(name) == IF Key[name] = "" THEN NoBuyer ELSE Key[name]

IsSold(line) == line.result = "sold"

LinesOf(l, lines) == {n \in DOMAIN lines : lines[n].lot = l}

\* The line that counts for lot l is the first; a second is a problem.
LineOf(l, lines) ==
    lines[CHOOSE n \in LinesOf(l, lines) : \A m \in LinesOf(l, lines) : n <= m]

PlacedLots(lots, lines) == {l \in lots : LinesOf(l, lines) # {}}

SoldLots(lots, lines) ==
    {l \in PlacedLots(lots, lines) : IsSold(LineOf(l, lines))}

\* Lines of another auction's lots, and lots given two results.
UnplacedLines(lots, lines) == {n \in DOMAIN lines : lines[n].lot \notin lots}
Duplicated(lots, lines) == {l \in lots : Cardinality(LinesOf(l, lines)) > 1}

\* "conflict" is answered 409, "bad input" 422.
LotProblems(l, lines, namesBuyers) ==
    IF LinesOf(l, lines) = {} THEN {"conflict"}
    ELSE LET line == LineOf(l, lines)
         IN  (IF ~IsSold(line) /\ line.hammer # "none" THEN {"conflict"} ELSE {})
             \cup (IF IsSold(line) /\ line.hammer = "none" THEN {"conflict"} ELSE {})
             \cup (IF IsSold(line) /\ line.hammer = "not money" THEN {"bad input"} ELSE {})
             \cup (IF IsSold(line) /\ namesBuyers /\ BuyerKey(line.buyer) = NoBuyer
                   THEN {"conflict"} ELSE {})

\* Mutant: two spellings of one buyer may each be given fees.
FeeProblemsBySpelling(lots, lines, fees) ==
    LET bought == {BuyerKey(LineOf(l, lines).buyer) : l \in SoldLots(lots, lines)}
    IN  (IF \E n \in DOMAIN fees : BuyerKey(fees[n].buyer) \notin bought
         THEN {"conflict"} ELSE {})
        \cup (IF \E n \in DOMAIN fees : fees[n].amount = "not money" THEN {"bad input"} ELSE {})

\* Fees come one group per buyer.  A group that repeats a buyer is a conflict
\* and its amounts are not read.
FeeProblems(lots, lines, fees) ==
    LET bought == {BuyerKey(LineOf(l, lines).buyer) : l \in SoldLots(lots, lines)}
        Repeats(n) == \E m \in 1..(n - 1) : BuyerKey(fees[m].buyer) = BuyerKey(fees[n].buyer)
    IN  (IF \E n \in DOMAIN fees : Repeats(n) \/ BuyerKey(fees[n].buyer) \notin bought
         THEN {"conflict"} ELSE {})
        \cup (IF \E n \in DOMAIN fees : ~Repeats(n) /\ fees[n].amount = "not money"
              THEN {"bad input"} ELSE {})

\* The lots that come home, and nowhere said to bring them back to.
CustodyProblems(lots, lines, atHouse, backTo) ==
    IF atHouse /\ ~backTo /\ PlacedLots(lots, lines) # SoldLots(lots, lines)
    THEN {"conflict"} ELSE {}

\* SettleIn: two fee groups of one spelling would overwrite each other in the
\* mapping the route builds, and are refused before it is built.
FeesReadable(fees) ==
    \A m, n \in DOMAIN fees : fees[m].buyer = fees[n].buyer => m = n

GridProblems(lots, lines, fees, namesBuyers, atHouse, backTo) ==
    (IF UnplacedLines(lots, lines) # {} \/ Duplicated(lots, lines) # {}
     THEN {"conflict"} ELSE {})
    \cup UNION {LotProblems(l, lines, namesBuyers) : l \in lots}
    \cup FeeProblems(lots, lines, fees)
    \cup CustodyProblems(lots, lines, atHouse, backTo)

\* What the request is answered: every problem is reported at once, as bad
\* input only when nothing else is wrong.
GridAnswer(problems) ==
    CASE problems = {} -> 200
      [] problems = {"bad input"} -> 422
      [] OTHER -> 409

\* One order per buyer, however each lot spelled the name.
BuyerGroups(lots, lines) ==
    LET sold == SoldLots(lots, lines)
        keys == {BuyerKey(LineOf(l, lines).buyer) : l \in sold}
    IN  {{l \in sold : BuyerKey(LineOf(l, lines).buyer) = k} : k \in keys}
=============================================================================
