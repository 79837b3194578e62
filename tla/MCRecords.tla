------------------------------ MODULE MCRecords ------------------------------
(***************************************************************************)
(* The records the service keeps beside its items: accounts and the        *)
(* throttle of their sign-ins, the photographs of items, backups, the      *)
(* vocabulary, what an item holds by its kind, purchases, and the records  *)
(* of where an item was, what it became and what its pieces cost.  They    *)
(* share no state, so a behaviour is of one desk, chosen at the start,     *)
(* with the others at rest.                                                *)
(***************************************************************************)
EXTENDS Accounts, Throttle, PhotoLinks, Backups, Vocabulary,
        ItemKinds, Purchases, ItemRecords, TLC

VARIABLE desk

FewAttempts == [address |-> 2, account |-> 2]
CaseAside == [l \in Label |-> IF l = "X" THEN "x" ELSE l]

Part(count, value) == [count |-> count, value |-> value]
Divisions ==
  {[mode |-> "equal", parts |-> <<Part(1, 0), Part(1, 0), Part(1, 0)>>],
   [mode |-> "relative", parts |-> <<Part(2, 1), Part(1, 3)>>],
   [mode |-> "relative", parts |-> <<Part(1, 0), Part(2, 0)>>]}

recordsVars ==
  <<desk, accountVars, throttleVars, linkVars, backupVars, vocabularyVars,
    kindVars, purchaseVars, itemRecordVars>>

(* A desk at rest holds a blank item. *)
KindsAtRest ==
  /\ item = [kind |-> "coin", start |-> NoYear, end |-> NoYear,
             noDate |-> FALSE, row |-> CoinRow(FALSE, Empty)]
              @@ [f \in Sided |-> Empty]
  /\ late = {} /\ stale = FALSE /\ named = FALSE

\* Two values are there at the start and a third may be made; the items hold the
\* one, and held or hold the other.
StartsMarked ==
  LET one == CHOOSE v \in Value : TRUE
      other == CHOOSE v \in Value \ {one} : TRUE
  IN IF desk = "vocabulary"
     THEN /\ values = {one, other}
          /\ \A i \in Article : marks[i][one] = "held" /\ marks[i][other] # "none"
     ELSE values = {}

\* Requests are alike whatever they are about, and so are sign-ins and clerks;
\* and so are the images.
Alike == Permutations(Request) \cup Permutations(Photograph)

\* An item starts ordered and nowhere, or received and on a shelf.
StartsInItsPlace ==
  /\ (holding.place = NoPlace) = (holding.status = "ordered")
  /\ desk # "histories" => holding.status = "ordered"

Init ==
  /\ desk \in {"accounts", "throttle", "photographs", "backups", "vocabulary",
              "kinds", "purchases", "histories"}
  /\ AccountsInit /\ ThrottleInit /\ LinksInit /\ BackupsInit
  /\ VocabularyInit /\ StartsMarked
  /\ PurchasesInit /\ (desk # "purchases" => list = "vendors")
  /\ ItemRecordsInit /\ StartsInItsPlace
  /\ IF desk = "kinds" THEN KindsInit ELSE KindsAtRest

AtAccounts ==
  /\ desk = "accounts"
  /\ UNCHANGED <<desk, throttleVars, linkVars, backupVars, vocabularyVars, kindVars,
                 purchaseVars, itemRecordVars>>
  /\ AccountsNext

AtThrottle ==
  /\ desk = "throttle"
  /\ UNCHANGED <<desk, accountVars, linkVars, backupVars, vocabularyVars, kindVars,
                 purchaseVars, itemRecordVars>>
  /\ ThrottleNext

AtPhotographs ==
  /\ desk = "photographs"
  /\ UNCHANGED <<desk, accountVars, throttleVars, backupVars, vocabularyVars, kindVars,
                 purchaseVars, itemRecordVars>>
  /\ LinksNext

AtBackups ==
  /\ desk = "backups"
  /\ UNCHANGED <<desk, accountVars, throttleVars, linkVars, vocabularyVars, kindVars,
                 purchaseVars, itemRecordVars>>
  /\ BackupsNext

AtVocabulary ==
  /\ desk = "vocabulary"
  /\ UNCHANGED <<desk, accountVars, throttleVars, linkVars, backupVars, kindVars,
                 purchaseVars, itemRecordVars>>
  /\ VocabularyNext

AtKinds ==
  /\ desk = "kinds"
  /\ UNCHANGED <<desk, accountVars, throttleVars, linkVars, backupVars,
                 vocabularyVars, purchaseVars, itemRecordVars>>
  /\ KindsNext

AtPurchases ==
  /\ desk = "purchases"
  /\ UNCHANGED <<desk, accountVars, throttleVars, linkVars, backupVars,
                 vocabularyVars, kindVars, itemRecordVars>>
  /\ PurchasesNext

AtHistories ==
  /\ desk = "histories"
  /\ UNCHANGED <<desk, accountVars, throttleVars, linkVars, backupVars,
                 vocabularyVars, kindVars, purchaseVars>>
  /\ ItemRecordsNext

Next ==
  AtAccounts \/ AtThrottle \/ AtPhotographs \/ AtBackups \/ AtVocabulary
    \/ AtKinds \/ AtPurchases \/ AtHistories

Spec == Init /\ [][Next]_recordsVars

=============================================================================
