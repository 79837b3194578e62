----------------------------- MODULE PhotoLinks -----------------------------
(***************************************************************************)
(* Which photographs are filed on which items, in what place, and which of *)
(* an item's is its primary, the one the shop shows first (image_links.py, *)
(* routers/image_links.py, routers/images.py).  A request reads the link   *)
(* or the image it is about, holds the rows of the items in id order, and  *)
(* writes under the hold; its write and commit are one step.  A filing     *)
(* takes the next place of the item, or the place its caller names, which  *)
(* may be taken already: places are an order, ids break its ties.          *)
(* photo_import.py files at the place in a file's name, having looked      *)
(* before anything is held.                                                *)
(***************************************************************************)
EXTENDS Integers, FiniteSets

CONSTANTS
    Filing,          \* the requests that may be under way at once
    Photograph,      \* the images there may be
    Piece,           \* the items, numbered
    Position,        \* the places a caller may name
    DeleteOverlaps,  \* an image is deleted while it is being filed, moved or shown first
    MaxLinks,        \* bound: the links ever made
    MaxPlace         \* bound: the greatest place a link can be in

ASSUME LinksAssumption ==
    /\ Piece \subseteq Nat /\ DeleteOverlaps \in BOOLEAN /\ "free" \notin Filing
    /\ {MaxLinks, MaxPlace} \subseteq Nat \ {0}
    /\ Position \subseteq Int /\ \A n \in Position : n <= MaxPlace

VARIABLES
    shelf,     \* the images that exist
    links,     \* the item_image rows
    numbered,  \* the links made so far
    filing,    \* per request: what it does and how far it is
    pieceOf    \* who holds each item's row

linkVars == <<shelf, links, numbered, filing, pieceOf>>

Nothing == [does |-> "nothing"]
Free == "free"
Unseen == [looked |-> FALSE, first |-> FALSE, place |-> 0]
AnyPlace == {}

On(i, ls) == {l \in ls : l.piece = i}
Primaries(i, ls) == {l \in On(i, ls) : l.primary}

LinksInit ==
    /\ shelf = {}
    /\ links = {}
    /\ numbered = 0
    /\ filing = [f \in Filing |-> Nothing]
    /\ pieceOf = [i \in Piece |-> Free]

About(f) == IF filing[f] = Nothing THEN {} ELSE {filing[f].image}
DoesTo(does, p) == \E f \in Filing : p \in About(f) /\ filing[f].does \in does

Overlaps(does, p) ==
    \/ DeleteOverlaps
    \/ /\ ~DoesTo({"delete"}, p)
       /\ does = "delete" =>
              ~DoesTo({"upload", "attach", "import", "move", "detach", "show first"}, p)

Begins(f, does, p, link, from, to, holds, asked, at) ==
    /\ Overlaps(does, p)
    /\ filing' = [filing EXCEPT ![f] =
           [does |-> does, image |-> p, link |-> link, from |-> from, to |-> to,
            holds |-> holds, asked |-> asked, at |-> at, saw |-> Unseen]]
    /\ UNCHANGED <<shelf, links, numbered, pieceOf>>

Filed(p, i) == {l \in links : l.image = p /\ l.piece = i}

\* An upload brings its image and goes last; a filing of one already there
\* names the image, and may name a place.
BeginFile(f, does, p, i, asked, at) ==
    /\ does = "attach" => p \in shelf
    /\ does = "upload" => at = AnyPlace
    /\ Begins(f, does, p, 0, i, i, {i}, asked, at)

\* A file of the library names its item and place n.  Whether the picture is
\* on the item, the place taken, and its primary another, is read unlocked.
BeginImport(f, p, i, n) ==
    /\ n >= 1 /\ Filed(p, i) = {} /\ \A l \in On(i, links) : l.place # n
    /\ Begins(f, "import", p, 0, i, i, {i}, n = 1 /\ Primaries(i, links) = {}, {n})

BeginMove(f, l, i) ==
    Begins(f, "move", l.image, l.id, l.piece, i, {l.piece, i}, FALSE, AnyPlace)
BeginDetach(f, l) ==
    Begins(f, "detach", l.image, l.id, l.piece, l.piece, {l.piece}, FALSE, AnyPlace)
BeginShowFirst(f, l) ==
    Begins(f, "show first", l.image, l.id, l.piece, l.piece, {l.piece}, TRUE, AnyPlace)

\* The items the image is on are read here, unlocked.
BeginDelete(f, p) ==
    /\ p \in shelf
    /\ Begins(f, "delete", p, 0, 0, 0, {l.piece : l \in {k \in links : k.image = p}},
              FALSE, AnyPlace)

Wanted(f) == {i \in filing[f].holds : pieceOf[i] # f}
FirstWanted(f) == CHOOSE i \in Wanted(f) : \A j \in Wanted(f) : i <= j

HoldPiece(f) ==
    /\ Wanted(f) # {}
    /\ pieceOf[FirstWanted(f)] = Free
    /\ pieceOf' = [pieceOf EXCEPT ![FirstWanted(f)] = f]
    /\ UNCHANGED <<shelf, links, numbered, filing>>

\* Mutant: the items' rows are not waited for.
HoldsNothing(f) == TRUE

HoldsAll(f) == Wanted(f) = {}

Ready(f, does) == filing[f].does = does /\ HoldsAll(f)
Looked(f) == filing[f].saw.looked

Answers(f) ==
    /\ filing' = [filing EXCEPT ![f] = Nothing]
    /\ pieceOf' = [i \in Piece |-> IF pieceOf[i] = f THEN Free ELSE pieceOf[i]]

Demoted(ls, i) == {[l EXCEPT !.primary = l.primary /\ l.piece # i] : l \in ls}

FirstOn(ls, i) ==
    CHOOSE l \in On(i, ls) : \A k \in On(i, ls) :
        l.place < k.place \/ (l.place = k.place /\ l.id <= k.id)

\* Mutant: the place is not filled again.
VacancyLeft(ls, pieces) == ls

\* fill_primary_vacancy: the first in order of those that remain.
VacancyFilled(ls, pieces) ==
    LET vacant == {i \in pieces : On(i, ls) # {} /\ Primaries(i, ls) = {}}
        heirs == {FirstOn(ls, i) : i \in vacant}
    IN (ls \ heirs) \cup {[l EXCEPT !.primary = TRUE] : l \in heirs}

\* Mutant: the place of the last, not the one behind it.
LastPlace(ls, i) ==
    IF On(i, ls) = {} THEN 1 ELSE CHOOSE n \in {l.place : l \in On(i, ls)} :
                                      \A l \in On(i, ls) : l.place <= n

NextPlace(ls, i) ==
    IF On(i, ls) = {} THEN 1 ELSE 1 + (CHOOSE n \in {l.place : l \in On(i, ls)} :
                                           \A l \in On(i, ls) : l.place <= n)

\* Mutant: the primary makes room for any photograph.
RoomMadeForAny(ls, i, asked) == Demoted(ls, i)

RoomMade(ls, i, asked) == IF asked THEN Demoted(ls, i) ELSE ls

PlaceFor(f) ==
    IF filing[f].at = AnyPlace THEN NextPlace(links, filing[f].to)
    ELSE CHOOSE n \in filing[f].at : TRUE

\* Under the hold: is there a primary, and which place is it filed in?
LookAround(f) ==
    /\ \E does \in {"upload", "attach", "import", "move"} : Ready(f, does)
    /\ ~Looked(f)
    /\ PlaceFor(f) <= MaxPlace
    /\ filing' = [filing EXCEPT ![f].saw =
           [looked |-> TRUE, first |-> Primaries(filing[f].to, links) = {}, place |-> PlaceFor(f)]]
    /\ UNCHANGED <<shelf, links, numbered, pieceOf>>

\* attach: the first photograph of an item is its primary, asked or not.
FileIt(f, does) ==
    /\ Ready(f, does) /\ Looked(f)
    /\ LET i == filing[f].to
           asked == filing[f].asked
       IN /\ Filed(filing[f].image, i) = {}
          /\ does = "attach" => filing[f].image \in shelf
          /\ numbered < MaxLinks
          /\ links' = RoomMade(links, i, asked) \cup
                 {[id |-> numbered + 1, image |-> filing[f].image, piece |-> i,
                   primary |-> (asked \/ filing[f].saw.first), place |-> filing[f].saw.place]}
    /\ shelf' = shelf \cup {filing[f].image}
    /\ numbered' = numbered + 1
    /\ Answers(f)

ShownFirst(l) == {[k EXCEPT !.primary = (k.id = l.id \/ (k.primary /\ k.piece # l.piece))] : k \in links}

\* The picture is on the item already: uploaded again, it is shown first if asked.
UploadAgain(f) ==
    /\ Ready(f, "upload")
    /\ \E l \in Filed(filing[f].image, filing[f].to) :
           links' = IF filing[f].asked THEN ShownFirst(l) ELSE links
    /\ Answers(f)
    /\ UNCHANGED <<shelf, numbered>>

\* _still_on: the link, if it is still there and on the item it was read on.
StillOn(f) == {l \in links : l.id = filing[f].link /\ l.piece = filing[f].from}

Move(f) ==
    /\ Ready(f, "move") /\ Looked(f)
    /\ \E l \in StillOn(f) :
        LET to == filing[f].to
            others == links \ {l}
        IN /\ l.piece # to /\ Filed(l.image, to) = {}
           /\ links' = VacancyFilled(others \cup
                  {[id |-> l.id, image |-> l.image, piece |-> to,
                    primary |-> filing[f].saw.first, place |-> filing[f].saw.place]}, {l.piece})
    /\ Answers(f)
    /\ UNCHANGED <<shelf, numbered>>

ShowFirst(f) ==
    /\ Ready(f, "show first")
    /\ \E l \in StillOn(f) : links' = ShownFirst(l)
    /\ Answers(f)
    /\ UNCHANGED <<shelf, numbered>>

Detach(f) ==
    /\ Ready(f, "detach")
    /\ \E l \in StillOn(f) : links' = VacancyFilled(links \ {l}, {l.piece})
    /\ Answers(f)
    /\ UNCHANGED <<shelf, numbered>>

\* The image's links go with it, wherever they are by now; the items read
\* before are the ones looked after.
Delete(f) ==
    /\ Ready(f, "delete")
    /\ shelf' = shelf \ {filing[f].image}
    /\ links' = VacancyFilled({l \in links : l.image # filing[f].image}, filing[f].holds)
    /\ Answers(f)
    /\ UNCHANGED numbered

\* Refused: nothing is written.  Any request can also fail.
Refuse(f) ==
    /\ Answers(f)
    /\ UNCHANGED <<shelf, links, numbered>>

FilingStep(f) ==
    \/ HoldPiece(f) \/ LookAround(f)
    \/ FileIt(f, "upload") \/ FileIt(f, "attach") \/ FileIt(f, "import") \/ UploadAgain(f)
    \/ Move(f) \/ ShowFirst(f) \/ Detach(f) \/ Delete(f) \/ Refuse(f)

FilingBegins(f) ==
    \/ \E does \in {"upload", "attach"}, p \in Photograph, i \in Piece, asked \in BOOLEAN,
          at \in {AnyPlace} \cup {{n} : n \in Position} : BeginFile(f, does, p, i, asked, at)
    \/ \E p \in Photograph, i \in Piece, n \in Position : BeginImport(f, p, i, n)
    \/ \E l \in links : BeginDetach(f, l) \/ BeginShowFirst(f, l)
                            \/ \E i \in Piece : BeginMove(f, l, i)
    \/ \E p \in Photograph : BeginDelete(f, p)

LinksNext ==
    \E f \in Filing :
        \/ filing[f] = Nothing /\ FilingBegins(f)
        \/ filing[f] # Nothing /\ FilingStep(f)

LinksSpec == LinksInit /\ [][LinksNext]_linkVars

-----------------------------------------------------------------------------
\* Whatever filings, moves and deletions overlap, an item with photographs has
\* exactly one primary: the shop shows a buyer nothing of one with none.
OnePrimaryEach ==
    \A i \in Piece : On(i, links) # {} => Cardinality(Primaries(i, links)) = 1

Finishes(f) == filing[f] # Nothing /\ filing'[f] = Nothing

\* A photograph filed with no place named goes behind all its item has, however
\* the filings overlap: the order of an item is the order they were filed in.
ArrivesLast ==
    [][\A f \in Filing, k \in links' :
           (Finishes(f) /\ filing[f].at = AnyPlace
              /\ \A l \in links : l.id = k.id => l.piece # k.piece)
              => \A l \in On(k.piece, links') \ {k} : l.place < k.place]_linkVars

\* The primary of an item is replaced only by one that was to be it, as a person
\* asked or as the file _01 of an item seen without one: a photograph that merely
\* arrives never takes its place.
PrimaryIsNotTaken ==
    [][\A l \in links, k \in links' :
           (l.primary /\ k.id = l.id /\ k.piece = l.piece /\ ~k.primary)
              => \E f \in Filing : Finishes(f) /\ filing[f].asked = TRUE]_linkVars

\* An item's photographs keep one primary, which changes only when it is asked
\* to, and arrive in order, whatever filings and moves overlap.
PhotographsInOrder == []OnePrimaryEach /\ ArrivesLast /\ PrimaryIsNotTaken

\* An import takes no primary away: the design promises that an item's primary
\* is kept, and the file reported.
ImportsTakeNone ==
    [][\A f \in Filing, l \in links, k \in links' :
           (Finishes(f) /\ filing[f].does = "import" /\ l.primary /\ k.id = l.id
              /\ k.piece = l.piece) => k.primary]_linkVars

-----------------------------------------------------------------------------
(* The inductive invariant behind PhotographsInOrder.                      *)

Files == {"upload", "attach", "import", "move"}
Doings == Files \cup {"detach", "show first", "delete"}

\* The rows as they can be, the links made so far being n.
Sound(ls, n) ==
    /\ \A l \in ls :
        /\ l = [id |-> l.id, image |-> l.image, piece |-> l.piece,
                primary |-> l.primary, place |-> l.place]
        /\ l.id \in 1..n /\ l.piece \in Piece /\ l.primary \in BOOLEAN
        /\ l.place \in Int
    /\ \A k, l \in ls : k.id = l.id => k = l

AFiling(r) ==
    /\ r = [does |-> r.does, image |-> r.image, link |-> r.link, from |-> r.from, to |-> r.to,
            holds |-> r.holds, asked |-> r.asked, at |-> r.at, saw |-> r.saw]
    /\ r.does \in Doings /\ r.asked \in BOOLEAN /\ r.at \subseteq Position
    /\ r.does # "delete" => {r.from, r.to} \subseteq Piece /\ r.holds = {r.from, r.to}
    /\ r.does = "show first" => r.asked
    /\ r.does \notin Files => r.saw = Unseen
    /\ r.does \in {"upload", "move"} => r.at = AnyPlace

LinksTypeOK ==
    /\ numbered \in Nat /\ Sound(links, numbered)
    /\ pieceOf \in [Piece -> Filing \cup {Free}]
    /\ filing = [f \in Filing |-> filing[f]]
    /\ \A f \in Filing : filing[f] # Nothing =>
            AFiling(filing[f]) /\ filing[f].link \in 0..numbered

\* A link is about one image for good.
LinkKeepsImage ==
    \A f \in Filing, l \in links :
        filing[f] # Nothing /\ l.id = filing[f].link => l.image = filing[f].image

AtMostOne(ls) == \A k, l \in ls : k.primary /\ l.primary /\ k.piece = l.piece => k = l

SomePrimary(ls) == \A l \in ls : Primaries(l.piece, ls) # {}

\* What a request saw of its item stays so while it holds it.
SeenIsTrue ==
    \A f \in Filing : filing[f] # Nothing /\ Looked(f) =>
        LET i == filing[f].to IN
        /\ pieceOf[i] = f
        /\ filing[f].saw.place \in Int
        /\ filing[f].at = AnyPlace => \A l \in On(i, links) : l.place < filing[f].saw.place
        /\ filing[f].saw.first \in BOOLEAN
        /\ filing[f].saw.first => Primaries(i, links) = {}
        /\ ~DeleteOverlaps /\ Primaries(i, links) = {} => filing[f].saw.first

DeletesAlone ==
    \A f, g \in Filing :
        f # g /\ filing[f] # Nothing /\ filing[g] # Nothing /\ filing[f].does = "delete"
            => filing[f].image # filing[g].image

\* No photograph strays from the items its deletion holds.
DeletedIsHeld ==
    \A f \in Filing, l \in links :
        filing[f] # Nothing /\ filing[f].does = "delete" /\ l.image = filing[f].image
            => l.piece \in filing[f].holds

LinksInv ==
    /\ LinksTypeOK /\ LinkKeepsImage /\ AtMostOne(links) /\ SeenIsTrue
    /\ ~DeleteOverlaps => SomePrimary(links) /\ DeletesAlone /\ DeletedIsHeld
=============================================================================
