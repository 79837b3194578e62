----------------------------- MODULE ImageStore -----------------------------
(***************************************************************************)
(* Stored photographs: a row per image, named files per content, and the   *)
(* locks that keep the two together (image_store.py, routers/images.py,    *)
(* image_enlarge.py, photo_import.py).  A content is the hash of cleansed  *)
(* bytes; its original and renditions are one file here.  READ COMMITTED:  *)
(* a statement sees what was committed when it started, and what its own   *)
(* transaction wrote.                                                      *)
(***************************************************************************)
EXTENDS Integers, FiniteSets

CONSTANTS
    PhotoRequest,  \* the requests and tool runs that may be under way at once
    Content,       \* the pictures there are
    Coin,          \* the items, numbered: a row of each can be held
    ImportOverlaps,\* the library's import runs while requests are served
    MaxImages      \* bound: the image rows ever inserted

ASSUME ImageAssumption ==
    /\ Coin \subseteq Nat /\ MaxImages \in Nat \ {0}
    /\ ImportOverlaps \in BOOLEAN

VARIABLES
    images,      \* the committed rows: id -> content, or NoContent
    inserts,     \* ids given out so far
    filedOn,     \* the committed item_image rows: <<image, coin>>
    files,       \* the contents whose files are on disk
    photo,       \* per request: what it does, and how far it is
    contentOf,   \* who holds each content's hash
    coinOf,      \* who holds each item's row
    excused      \* contents left behind by a failure

imageVars == <<images, inserts, filedOn, files, photo, contentOf, coinOf, excused>>

NoContent == "no content"
NoOne == "no one"

\* Requests run in a pool of threads, and the items table has finitely many rows.
ASSUME FinitePhotos == IsFiniteSet(PhotoRequest) /\ IsFiniteSet(Coin)

\* What stands for no row's content, and for no holder, is none.
ASSUME NobodyIsNoPhoto == NoOne \notin PhotoRequest /\ NoContent \notin Content

ImageId == 1..MaxImages
NoPhoto == [does |-> "nothing"]

Held == {images[id] : id \in ImageId} \ {NoContent}

ImagesInit ==
    /\ images = [id \in ImageId |-> NoContent]
    /\ inserts = 0
    /\ filedOn = {}
    /\ files = {}
    /\ photo = [p \in PhotoRequest |-> NoPhoto]
    /\ contentOf = [c \in Content |-> NoOne]
    /\ coinOf = [i \in Coin |-> NoOne]
    /\ excused = {}

At(p, step) == photo[p] # NoPhoto /\ photo[p].at = step
Moves(p, step) == photo' = [photo EXCEPT ![p].at = step]

\* Mutant: an upload holds the content before the item it is filed on.
HoldsFirstUpload(does) == IF does = "delete" THEN "coins" ELSE "content"

HoldsFirst(does) == IF does \in {"upload", "delete"} THEN "coins" ELSE "content"

Doing(does) == {p \in PhotoRequest : photo[p] # NoPhoto /\ photo[p].does \in does}

MayOverlap(does) ==
    ImportOverlaps \/ (Doing({"import"}) = {} /\ (does = "import" => Doing({"upload", "delete", "enlarge"}) = {}))

Starts(p, does, id, c, coins) ==
    /\ photo[p] = NoPhoto
    /\ MayOverlap(does)
    /\ photo' = [photo EXCEPT ![p] =
           [does |-> does, at |-> HoldsFirst(does), id |-> id, content |-> c, coins |-> coins,
            inserting |-> FALSE, drops |-> NoContent]]
    /\ UNCHANGED <<images, inserts, filedOn, files, contentOf, coinOf, excused>>

HasRoomForImage == inserts + Cardinality(Doing({"upload", "import"})) < MaxImages

\* Filed on a coin or on none.  The library's import, unlike the service,
\* hashes a file before it looks for the item it names.
StartUpload(p, c, coins) == HasRoomForImage /\ Starts(p, "upload", 0, c, coins)

StartImport(p, c, i) ==
    /\ HasRoomForImage
    /\ Starts(p, "import", 0, c, {i})

\* The row's content and its items are read here, before anything is held.
StartDelete(p, id) ==
    /\ images[id] # NoContent
    /\ Starts(p, "delete", id, images[id], {l[2] : l \in {k \in filedOn : k[1] = id}})

\* A better copy of a photograph; the tool is run by hand, one at a time.
StartEnlarge(p, id, c) ==
    /\ Doing({"enlarge"}) = {}
    /\ images[id] \notin {NoContent, c}
    /\ Starts(p, "enlarge", id, c, {})

UnheldCoins(p) == {i \in photo[p].coins : coinOf[i] # p}
NextCoin(p) == CHOOSE i \in UnheldCoins(p) : \A j \in UnheldCoins(p) : i <= j

\* FOR UPDATE, one row after the other in id order.
HoldCoins(p) ==
    /\ At(p, "coins")
    /\ IF UnheldCoins(p) = {}
       THEN Moves(p, IF HoldsFirst(photo[p].does) = "coins" THEN "content" ELSE "write") /\ UNCHANGED coinOf
       ELSE /\ coinOf[NextCoin(p)] = NoOne
            /\ coinOf' = [coinOf EXCEPT ![NextCoin(p)] = p]
            /\ UNCHANGED photo
    /\ UNCHANGED <<images, inserts, filedOn, files, contentOf, excused>>

\* Mutant: the hash is not held.
HoldsAnyway(p, c) == TRUE

CanHold(p, c) == contentOf[c] \in {NoOne, p}

HoldContent(p) ==
    /\ \/ At(p, "content") /\ Moves(p, IF photo[p].does = "delete" THEN "write" ELSE "look")
       \/ At(p, "committed") /\ Moves(p, "remove")
    /\ LET c == IF At(p, "content") THEN photo[p].content ELSE photo[p].drops
       IN CanHold(p, c) /\ contentOf' = [contentOf EXCEPT ![c] = p]
    /\ UNCHANGED <<images, inserts, filedOn, files, coinOf, excused>>

Frees(p) ==
    /\ contentOf' = [c \in Content |-> IF contentOf[c] = p THEN NoOne ELSE contentOf[c]]
    /\ coinOf' = [i \in Coin |-> IF coinOf[i] = p THEN NoOne ELSE coinOf[i]]

Ends(p) == Frees(p) /\ photo' = [photo EXCEPT ![p] = NoPhoto]

Known(c) == {id \in ImageId : images[id] = c}
AfterLook(p) == IF HoldsFirst(photo[p].does) = "content" /\ photo[p].does # "enlarge" THEN "coins" ELSE "write"

\* Content no row holds: its files are put before its row is written.
PutFiles(p) ==
    /\ At(p, "look") /\ Known(photo[p].content) = {}
    /\ files' = files \cup {photo[p].content}
    /\ IF photo[p].does = "enlarge"
       THEN Moves(p, "write") /\ UNCHANGED inserts
       ELSE /\ inserts' = inserts + 1
            /\ photo' = [photo EXCEPT ![p].at = AfterLook(p), ![p].id = inserts', ![p].inserting = TRUE]
    /\ UNCHANGED <<images, filedOn, contentOf, coinOf, excused>>

\* The row there is answers an upload; a photograph held as another is left.
AnswerWithRow(p) ==
    /\ At(p, "look") /\ Known(photo[p].content) # {}
    /\ IF photo[p].does = "enlarge"
       THEN Ends(p)
       ELSE /\ \E id \in Known(photo[p].content) :
                   photo' = [photo EXCEPT ![p].at = AfterLook(p), ![p].id = id]
            /\ UNCHANGED <<contentOf, coinOf>>
    /\ UNCHANGED <<images, inserts, filedOn, files, excused>>

Gone(p) == images[photo[p].id] = NoContent /\ ~photo[p].inserting

CommitUpload(p) ==
    /\ At(p, "write") /\ photo[p].does \in {"upload", "import"} /\ ~Gone(p)
    /\ images' = [images EXCEPT ![photo[p].id] = IF photo[p].inserting THEN photo[p].content ELSE @]
    /\ filedOn' = filedOn \cup ({photo[p].id} \X photo[p].coins)
    /\ excused' = IF photo[p].inserting THEN excused \ {photo[p].content} ELSE excused
    /\ Ends(p)
    /\ UNCHANGED <<inserts, files>>

\* The row went meanwhile: a filing on it, or its replacement, is refused.
CommitRefused(p) ==
    /\ At(p, "write") /\ photo[p].does # "delete" /\ Gone(p)
    /\ excused' = IF photo[p].does = "enlarge" THEN excused \cup {photo[p].content} ELSE excused
    /\ Ends(p)
    /\ UNCHANGED <<images, inserts, filedOn, files>>

\* Committed: the holds go, and the content nobody may hold now is asked of again.
Commits(p, dropped) ==
    /\ photo' = [photo EXCEPT ![p].at = "committed", ![p].drops = dropped]
    /\ Frees(p)
    /\ UNCHANGED <<inserts, files>>

CommitEnlarge(p) ==
    /\ At(p, "write") /\ photo[p].does = "enlarge" /\ ~Gone(p)
    /\ images' = [images EXCEPT ![photo[p].id] = photo[p].content]
    /\ excused' = excused \ {photo[p].content}
    /\ Commits(p, images[photo[p].id])
    /\ UNCHANGED filedOn

\* The row goes by its id, whatever content it holds by now.
CommitDelete(p) ==
    /\ At(p, "write") /\ photo[p].does = "delete"
    /\ images' = [images EXCEPT ![photo[p].id] = NoContent]
    /\ filedOn' = {l \in filedOn : l[1] # photo[p].id}
    /\ excused' = excused \cup ({images[photo[p].id]} \ {NoContent, photo[p].content})
    /\ Commits(p, photo[p].content)

\* Mutants: the removal does not ask again; or a replacement's old files stay.
NotAskedAgain(c) == FALSE
NeverRemoved(c) == TRUE

StillHeld(c) == Known(c) # {}

RemoveUnheld(p) ==
    /\ At(p, "remove")
    /\ files' = IF StillHeld(photo[p].drops) THEN files ELSE files \ {photo[p].drops}
    /\ excused' = excused \cap files'
    /\ Ends(p)
    /\ UNCHANGED <<images, inserts, filedOn>>

\* What is left on disk by a request that ends here.
Leaves(p) ==
    CASE At(p, "write") -> (IF photo[p].does # "delete" THEN {photo[p].content} ELSE {})
      [] At(p, "coins") /\ photo[p].inserting -> {photo[p].content}
      [] At(p, "committed") \/ At(p, "remove") -> {photo[p].drops}
      [] OTHER -> {}

\* A request fails or its process dies: rolled back, its files stay.
Dies(p) ==
    /\ photo[p] # NoPhoto
    /\ excused' = excused \cup ((Leaves(p) \cap files) \ Held)
    /\ Ends(p)
    /\ UNCHANGED <<images, inserts, filedOn, files>>

PhotoStep(p) ==
    \/ HoldCoins(p) \/ HoldContent(p)
    \/ PutFiles(p) \/ AnswerWithRow(p)
    \/ CommitUpload(p) \/ CommitRefused(p) \/ CommitEnlarge(p) \/ CommitDelete(p)
    \/ RemoveUnheld(p)

PhotoStarts(p) ==
    \/ \E c \in Content, coins \in {{}} \cup {{i} : i \in Coin} : StartUpload(p, c, coins)
    \/ \E c \in Content, i \in Coin : StartImport(p, c, i)
    \/ \E id \in ImageId : StartDelete(p, id)
    \/ \E id \in ImageId, c \in Content : StartEnlarge(p, id, c)

ImagesNext == \E p \in PhotoRequest : PhotoStarts(p) \/ PhotoStep(p) \/ Dies(p)

\* A lock is handed to those who wait for it in turn.
ImagesFairness == \A p \in PhotoRequest : SF_imageVars(PhotoStep(p))

ImagesSpec == ImagesInit /\ [][ImagesNext]_imageVars /\ ImagesFairness

-----------------------------------------------------------------------------
\* Every picture a row names is on disk, and no two rows hold one picture,
\* whatever uploads, deletions and enlargements of it overlap.
RowsHaveTheirFiles ==
    /\ Held \subseteq files
    /\ \A c \in Content : Cardinality(Known(c)) <= 1

\* Files no row names are only those of a request under way, of one that
\* died, or of one refused by what had become of its row.
NothingLeftBehind ==
    files \ Held \subseteq excused \cup UNION {Leaves(p) : p \in PhotoRequest}

WaitsFor(p) ==
    CASE At(p, "coins") /\ UnheldCoins(p) # {} -> {coinOf[NextCoin(p)]} \ {NoOne}
      [] At(p, "content") -> {contentOf[photo[p].content]} \ {NoOne, p}
      [] At(p, "committed") -> {contentOf[photo[p].drops]} \ {NoOne, p}
      [] OTHER -> {}

\* Items are held before contents by anything that holds both, so that no two
\* requests each hold what the other waits for (image_links.py, hold_items).
NobodyWaitsInACircle ==
    \A S \in SUBSET PhotoRequest : S = {} \/ \E p \in S : WaitsFor(p) \cap S = {}

\* Each request comes to its end.
PhotosEnd == \A p \in PhotoRequest : []<>(photo[p] = NoPhoto)

\* Files follow rows: a row's picture is there, and only a picture whose
\* request died or was overtaken is left without one.
FilesFollowRows == RowsHaveTheirFiles /\ NothingLeftBehind /\ NobodyWaitsInACircle

-----------------------------------------------------------------------------
(* The inductive invariant behind FilesFollowRows.                         *)

PhotoRecord ==
    [does : {"upload", "import", "delete", "enlarge"},
     at : {"coins", "content", "look", "write", "committed", "remove"},
     id : Nat, content : Content, coins : SUBSET Coin,
     inserting : BOOLEAN, drops : Content \cup {NoContent}]

ImagesTypeOK ==
    /\ images \in [ImageId -> Content \cup {NoContent}]
    /\ inserts \in Nat
    /\ filedOn \subseteq Nat \X Coin
    /\ files \subseteq Content
    /\ photo \in [PhotoRequest -> PhotoRecord \cup {NoPhoto}]
    /\ contentOf \in [Content -> PhotoRequest \cup {NoOne}]
    /\ coinOf \in [Coin -> PhotoRequest \cup {NoOne}]

Works(p) == photo[p] # NoPhoto

\* Which steps each kind of request passes through, and what it knows there.
StepsFit ==
    \A p \in PhotoRequest : Works(p) =>
        /\ photo[p].at \in {"committed", "remove"} =>
               photo[p].does \in {"delete", "enlarge"} /\ photo[p].drops \in Content
        /\ photo[p].inserting =>
               /\ photo[p].does \in {"upload", "import"}
               /\ photo[p].at = "write" \/ (photo[p].does = "import" /\ photo[p].at = "coins")
        /\ photo[p].at = "look" => photo[p].does # "delete"
        /\ photo[p].at = "coins" => photo[p].does # "enlarge"
        /\ \/ photo[p].does \in {"delete", "enlarge"} \/ photo[p].at = "write"
           \/ photo[p].does = "import" /\ photo[p].at = "coins"
           => photo[p].id \in ImageId

\* What a request holds at which step, and that nobody else holds anything.
ContentsAreHeld ==
    /\ \A p \in PhotoRequest : Works(p) =>
        /\ \/ photo[p].at \in {"look", "write"}
           \/ photo[p].does = "import" /\ photo[p].at = "coins"
           => contentOf[photo[p].content] = p
        /\ photo[p].at = "remove" => contentOf[photo[p].drops] = p
    /\ \A c \in Content, p \in PhotoRequest : contentOf[c] = p =>
        Works(p) /\ (photo[p].at \in {"look", "write", "remove"} \/ photo[p].does = "import")

CoinsAreHeld ==
    /\ \A i \in Coin, p \in PhotoRequest : coinOf[i] = p =>
        /\ Works(p) /\ i \in photo[p].coins
        /\ photo[p].does = "import" => photo[p].at \in {"coins", "write"}
    /\ \A p \in PhotoRequest, i, j \in Coin :
        At(p, "coins") /\ coinOf[i] = p /\ j \in UnheldCoins(p) => i < j

ImportsAlone ==
    \A p, q \in PhotoRequest : Works(p) /\ Works(q) /\ p # q => photo[p].does # "import"

\* A row being inserted is nobody else's, and there is room for those to come.
NewRowsApart ==
    /\ \A p \in PhotoRequest : Works(p) /\ photo[p].inserting =>
        /\ images[photo[p].id] = NoContent /\ photo[p].id <= inserts
        /\ \A q \in PhotoRequest \ {p} : Works(q) /\ photo[q].inserting =>
               photo[q].id # photo[p].id
    /\ \A id \in ImageId : images[id] # NoContent => id <= inserts

ToInsert == {p \in Doing({"upload", "import"}) : ~photo[p].inserting}

RoomIsKept == inserts + Cardinality(ToInsert) <= MaxImages

\* A request that brings a content has its files on disk, and nobody's row has it.
Brings(p) == photo[p].inserting \/ (photo[p].does = "enlarge" /\ photo[p].at = "write")

BroughtAreNew ==
    \A p \in PhotoRequest : Works(p) /\ Brings(p) =>
        photo[p].content \in files /\ Known(photo[p].content) = {}

RowsApart ==
    \A i, j \in ImageId : images[i] = images[j] /\ images[i] # NoContent => i = j

\* A content no row holds is brought, or dropped, by somebody.
Owes(p, c) ==
    /\ Works(p)
    /\ \/ Brings(p) /\ c = photo[p].content
       \/ photo[p].at \in {"committed", "remove"} /\ c = photo[p].drops

UnheldAreOwed ==
    \A c \in files : c \in Held \/ c \in excused \/ \E p \in PhotoRequest : Owes(p, c)

HoldsInv == StepsFit /\ ContentsAreHeld /\ CoinsAreHeld

FilesInv ==
    NewRowsApart /\ RoomIsKept /\ BroughtAreNew /\ RowsApart /\ Held \subseteq files /\ UnheldAreOwed
=============================================================================
