----------------------------- MODULE ImageProofs -----------------------------
(*****************************************************************************)
(* Files follow rows, whatever uploads, deletions, enlargements and imports  *)
(* of one picture overlap, and requests never wait for each other in a       *)
(* circle, proved for any number of requests, pictures and items.            *)
(*****************************************************************************)
EXTENDS ImageStore, FiniteSetTheorems, WellFoundedInduction, TLAPS

-----------------------------------------------------------------------------
(* Numbers, and the item a request holds next.                             *)

\* A finite set of numbers has a least and a greatest one.
LEMMA LeastOf ==
    ASSUME NEW T \in SUBSET Nat, IsFiniteSet(T), T # {}
    PROVE  \E m \in T : \A n \in T : m <= n
<1> DEFINE Below(m) == {n \in T : n < m}
           F == {Below(m) : m \in T}
<1>1. F \subseteq FiniteSubsetsOf(T) /\ F # {}
  <2>1. \A m \in T : IsFiniteSet(Below(m)) /\ Below(m) \subseteq T
    BY FS_Subset
  <2> QED BY <2>1 DEF FiniteSubsetsOf
<1>2. PICK x \in F : \A y \in F : ~(<<y, x>> \in StrictSubsetOrdering(T))
  BY <1>1, FS_StrictSubsetOrderingWellFounded, WFMin
<1>3. PICK m \in T : x = Below(m)
  OBVIOUS
<1>4. ASSUME NEW n \in T, ~(m <= n)
      PROVE  FALSE
  <2>1. n < m /\ m \in Nat /\ n \in Nat
    BY <1>4
  <2>2. \A k \in T : k \in Nat /\ (k < n => k < m)
    BY <2>1
  <2>3. Below(n) \subseteq Below(m)
    BY <2>2
  <2>4. n \in Below(m) /\ n \notin Below(n)
    BY <2>1
  <2>5. <<Below(n), Below(m)>> \in StrictSubsetOrdering(T)
    BY <2>3, <2>4 DEF StrictSubsetOrdering
  <2> QED BY <1>2, <1>3, <2>5
<1> QED BY <1>3, <1>4

LEMMA GreatestOf ==
    ASSUME NEW T \in SUBSET Nat, IsFiniteSet(T), T # {}
    PROVE  \E m \in T : \A n \in T : n <= m
<1> DEFINE Above(m) == {n \in T : m < n}
           F == {Above(m) : m \in T}
<1>1. F \subseteq FiniteSubsetsOf(T) /\ F # {}
  <2>1. \A m \in T : IsFiniteSet(Above(m)) /\ Above(m) \subseteq T
    BY FS_Subset
  <2> QED BY <2>1 DEF FiniteSubsetsOf
<1>2. PICK x \in F : \A y \in F : ~(<<y, x>> \in StrictSubsetOrdering(T))
  BY <1>1, FS_StrictSubsetOrderingWellFounded, WFMin
<1>3. PICK m \in T : x = Above(m)
  OBVIOUS
<1>4. ASSUME NEW n \in T, ~(n <= m)
      PROVE  FALSE
  <2>1. m < n /\ m \in Nat /\ n \in Nat
    BY <1>4
  <2>2. \A k \in T : k \in Nat /\ (n < k => m < k)
    BY <2>1
  <2>3. Above(n) \subseteq Above(m)
    BY <2>2
  <2>4. n \in Above(m) /\ n \notin Above(n)
    BY <2>1
  <2>5. <<Above(n), Above(m)>> \in StrictSubsetOrdering(T)
    BY <2>3, <2>4 DEF StrictSubsetOrdering
  <2> QED BY <1>2, <1>3, <2>5
<1> QED BY <1>3, <1>4

LEMMA NextCoinIsLeast ==
    ASSUME ImagesTypeOK, NEW p \in PhotoRequest, Works(p), UnheldCoins(p) # {}
    PROVE  /\ NextCoin(p) \in UnheldCoins(p) /\ NextCoin(p) \in Coin /\ UnheldCoins(p) \subseteq Coin
           /\ \A j \in UnheldCoins(p) : NextCoin(p) <= j
<1>1. UnheldCoins(p) \subseteq Coin /\ UnheldCoins(p) \in SUBSET Nat
  BY ImageAssumption DEF ImagesTypeOK, UnheldCoins, Works, PhotoRecord
<1>2. IsFiniteSet(UnheldCoins(p))
  BY <1>1, FinitePhotos, FS_Subset
<1>3. \E m \in UnheldCoins(p) : \A n \in UnheldCoins(p) : m <= n
  BY <1>1, <1>2, LeastOf
<1> QED BY <1>1, <1>3 DEF NextCoin

-----------------------------------------------------------------------------
(* What the parts of a step do.                                            *)

OthersKeep(p) == \A q \in PhotoRequest : q # p => photo'[q] = photo[q]

MovedTo(p, step) ==
    /\ OthersKeep(p)
    /\ photo' \in [PhotoRequest -> PhotoRecord \cup {NoPhoto}]
    /\ photo'[p] # NoPhoto /\ photo'[p].at = step
    /\ photo'[p].does = photo[p].does /\ photo'[p].id = photo[p].id
    /\ photo'[p].content = photo[p].content /\ photo'[p].coins = photo[p].coins
    /\ photo'[p].inserting = photo[p].inserting /\ photo'[p].drops = photo[p].drops

LEMMA MovesKeeps ==
    ASSUME ImagesTypeOK, NEW p \in PhotoRequest, Works(p),
           NEW step \in {"coins", "content", "look", "write", "committed", "remove"},
           Moves(p, step)
    PROVE  MovedTo(p, step)
<1>1. photo[p] \in PhotoRecord
  BY DEF ImagesTypeOK, Works
<1>2. [photo[p] EXCEPT !.at = step] \in PhotoRecord
  BY <1>1 DEF PhotoRecord
<1>3. \A r \in PhotoRecord : r # NoPhoto
  BY DEF PhotoRecord, NoPhoto
<1>4. photo'[p] = [photo[p] EXCEPT !.at = step]
  BY DEF Moves, ImagesTypeOK
<1>5. photo'[p].at = step
  BY <1>1, <1>4 DEF PhotoRecord
<1>6. /\ photo'[p].does = photo[p].does /\ photo'[p].id = photo[p].id
      /\ photo'[p].content = photo[p].content /\ photo'[p].coins = photo[p].coins
      /\ photo'[p].inserting = photo[p].inserting /\ photo'[p].drops = photo[p].drops
  BY <1>1, <1>4 DEF PhotoRecord
<1>7. photo' \in [PhotoRequest -> PhotoRecord \cup {NoPhoto}] /\ OthersKeep(p)
  BY <1>2, <1>4 DEF Moves, ImagesTypeOK, OthersKeep
<1> QED BY <1>2, <1>3, <1>4, <1>5, <1>6, <1>7 DEF MovedTo

HasLetGo(p) ==
    /\ contentOf' \in [Content -> PhotoRequest \cup {NoOne}]
    /\ coinOf' \in [Coin -> PhotoRequest \cup {NoOne}]
    /\ \A c \in Content, q \in PhotoRequest : contentOf'[c] = q <=> contentOf[c] = q /\ q # p
    /\ \A i \in Coin, q \in PhotoRequest : coinOf'[i] = q <=> coinOf[i] = q /\ q # p

LEMMA FreesLetsGo ==
    ASSUME ImagesTypeOK, NEW p \in PhotoRequest, Frees(p)
    PROVE  HasLetGo(p)
BY NobodyIsNoPhoto DEF ImagesTypeOK, Frees, HasLetGo

LEMMA EndsKeeps ==
    ASSUME ImagesTypeOK, NEW p \in PhotoRequest, Ends(p)
    PROVE  /\ HasLetGo(p) /\ OthersKeep(p) /\ photo'[p] = NoPhoto
           /\ photo' \in [PhotoRequest -> PhotoRecord \cup {NoPhoto}]
<1>1. HasLetGo(p)
  BY FreesLetsGo DEF Ends
<1> QED BY <1>1 DEF ImagesTypeOK, Ends, OthersKeep

LEMMA HeldIs ==
    ASSUME NEW c
    PROVE  c \in Held <=> c # NoContent /\ \E id \in ImageId : images[id] = c
BY DEF Held

LEMMA StartsKeeps ==
    ASSUME ImagesTypeOK, NEW p \in PhotoRequest,
           NEW does \in {"upload", "import", "delete", "enlarge"}, NEW id \in Nat,
           NEW c \in Content, NEW coins \in SUBSET Coin, Starts(p, does, id, c, coins)
    PROVE  /\ OthersKeep(p) /\ photo[p] = NoPhoto /\ photo'[p] # NoPhoto
           /\ photo' \in [PhotoRequest -> PhotoRecord \cup {NoPhoto}]
           /\ photo'[p].does = does /\ photo'[p].at = HoldsFirst(does) /\ photo'[p].id = id
           /\ photo'[p].content = c /\ photo'[p].coins = coins
           /\ ~photo'[p].inserting
           /\ UNCHANGED <<images, inserts, filedOn, files, contentOf, coinOf, excused>>
<1> DEFINE r == [does |-> does, at |-> HoldsFirst(does), id |-> id, content |-> c,
                 coins |-> coins, inserting |-> FALSE, drops |-> NoContent]
<1>1. HoldsFirst(does) \in {"coins", "content"}
  BY DEF HoldsFirst
<1>2. r \in PhotoRecord
  BY <1>1 DEF PhotoRecord
<1>3. \A x \in PhotoRecord : x # NoPhoto
  BY DEF PhotoRecord, NoPhoto
<1>4. /\ r.does = does /\ r.at = HoldsFirst(does) /\ r.id = id
      /\ r.content = c /\ r.coins = coins /\ ~r.inserting
  OBVIOUS
<1>5. photo' = [photo EXCEPT ![p] = r] /\ photo[p] = NoPhoto
      /\ UNCHANGED <<images, inserts, filedOn, files, contentOf, coinOf, excused>>
  BY DEF Starts
<1> HIDE DEF r
<1> QED BY <1>2, <1>3, <1>4, <1>5 DEF ImagesTypeOK, OthersKeep

\* What a request starts as, by its kind.
LEMMA PhotoStartsDoes ==
    ASSUME ImagesTypeOK, NEW p \in PhotoRequest, PhotoStarts(p)
    PROVE  \E does \in {"upload", "import", "delete", "enlarge"}, id \in Nat,
              c \in Content, coins \in SUBSET Coin :
                /\ Starts(p, does, id, c, coins)
                /\ does \in {"delete", "enlarge"} => id \in ImageId
                /\ does \in {"upload", "import"} => HasRoomForImage
<1>1. \A i \in Coin : {i} \in SUBSET Coin
  OBVIOUS
<1>2. {} \in SUBSET Coin /\ 0 \in Nat /\ ImageId \subseteq Nat
  BY ImageAssumption DEF ImageId
<1>3. CASE \E c \in Content, coins \in {{}} \cup {{i} : i \in Coin} : StartUpload(p, c, coins)
  BY <1>1, <1>2, <1>3 DEF StartUpload
<1>4. CASE \E c \in Content, i \in Coin : StartImport(p, c, i)
  BY <1>1, <1>2, <1>4 DEF StartImport
<1>5. CASE \E id \in ImageId : StartDelete(p, id)
  <2>1. PICK id \in ImageId : StartDelete(p, id)
    BY <1>5
  <2> DEFINE coins == {l[2] : l \in {k \in filedOn : k[1] = id}}
  <2>2. images[id] \in Content /\ coins \in SUBSET Coin
    BY <2>1 DEF StartDelete, ImagesTypeOK
  <2>3. Starts(p, "delete", id, images[id], coins)
    BY <2>1 DEF StartDelete
  <2> HIDE DEF coins
  <2> QED BY <1>2, <2>2, <2>3
<1>6. CASE \E id \in ImageId, c \in Content : StartEnlarge(p, id, c)
  BY <1>2, <1>6 DEF StartEnlarge
<1> QED BY <1>3, <1>4, <1>5, <1>6 DEF PhotoStarts

\* A step of a request that does not end it.
GoesOn(p) ==
    /\ OthersKeep(p)
    /\ photo' \in [PhotoRequest -> PhotoRecord \cup {NoPhoto}]
    /\ photo[p] # NoPhoto /\ photo'[p] # NoPhoto
    /\ photo'[p].does = photo[p].does /\ photo'[p].content = photo[p].content
    /\ photo'[p].coins = photo[p].coins

LEMMA HoldCoinsDoes ==
    ASSUME ImagesTypeOK, StepsFit, NEW p \in PhotoRequest, HoldCoins(p)
    PROVE  /\ photo[p].at = "coins" /\ Works(p)
           /\ UNCHANGED <<images, inserts, filedOn, files, contentOf, excused>>
           /\ \/ /\ UnheldCoins(p) = {} /\ coinOf' = coinOf
                 /\ MovedTo(p, IF photo[p].does \in {"upload", "delete"} THEN "content" ELSE "write")
              \/ /\ UnheldCoins(p) # {} /\ coinOf[NextCoin(p)] = NoOne /\ photo' = photo
                 /\ coinOf' = [coinOf EXCEPT ![NextCoin(p)] = p]
<1>1. photo[p].at = "coins" /\ Works(p)
      /\ UNCHANGED <<images, inserts, filedOn, files, contentOf, excused>>
  BY DEF HoldCoins, At, Works
<1>2. photo[p].does \in {"upload", "import", "delete"}
  BY <1>1 DEF StepsFit, ImagesTypeOK, Works, PhotoRecord
<1>3. HoldsFirst(photo[p].does) = "coins" <=> photo[p].does \in {"upload", "delete"}
  BY DEF HoldsFirst
<1>4. CASE UnheldCoins(p) = {}
  <2>1. coinOf' = coinOf /\ Moves(p, IF photo[p].does \in {"upload", "delete"} THEN "content" ELSE "write")
    BY <1>3, <1>4 DEF HoldCoins
  <2> QED BY <1>1, <1>4, <2>1, MovesKeeps
<1>5. CASE UnheldCoins(p) # {}
  BY <1>1, <1>5 DEF HoldCoins
<1> QED BY <1>4, <1>5

LEMMA HoldContentDoes ==
    ASSUME ImagesTypeOK, StepsFit, NEW p \in PhotoRequest, HoldContent(p)
    PROVE  /\ UNCHANGED <<images, inserts, filedOn, files, coinOf, excused>> /\ Works(p)
           /\ \/ /\ photo[p].at = "content"
                 /\ MovedTo(p, IF photo[p].does = "delete" THEN "write" ELSE "look")
                 /\ contentOf[photo[p].content] \in {NoOne, p}
                 /\ contentOf' = [contentOf EXCEPT ![photo[p].content] = p]
              \/ /\ photo[p].at = "committed" /\ MovedTo(p, "remove")
                 /\ contentOf[photo[p].drops] \in {NoOne, p}
                 /\ contentOf' = [contentOf EXCEPT ![photo[p].drops] = p]
<1>1. CASE At(p, "content")
  <2>1. Works(p) /\ photo[p].at = "content"
    BY <1>1 DEF At, Works
  <2>2. Moves(p, IF photo[p].does = "delete" THEN "write" ELSE "look")
    BY <2>1 DEF HoldContent, At
  <2>3. MovedTo(p, IF photo[p].does = "delete" THEN "write" ELSE "look")
    BY <2>1, <2>2, MovesKeeps
  <2> QED BY <1>1, <2>1, <2>3 DEF HoldContent, CanHold
<1>2. CASE At(p, "committed") /\ ~At(p, "content")
  <2>1. Works(p) /\ photo[p].at = "committed"
    BY <1>2 DEF At, Works
  <2>2. Moves(p, "remove")
    BY <1>2, <2>1 DEF HoldContent
  <2>3. MovedTo(p, "remove")
    BY <2>1, <2>2, MovesKeeps
  <2> QED BY <1>2, <2>1, <2>3 DEF HoldContent, CanHold
<1> QED BY <1>1, <1>2 DEF HoldContent

LEMMA PutFilesDoes ==
    ASSUME ImagesTypeOK, StepsFit, NEW p \in PhotoRequest, PutFiles(p)
    PROVE  /\ UNCHANGED <<images, filedOn, contentOf, coinOf, excused>> /\ Works(p)
           /\ photo[p].at = "look" /\ Known(photo[p].content) = {} /\ GoesOn(p)
           /\ files' = files \cup {photo[p].content} /\ photo[p].content \in Content
           /\ \/ /\ photo[p].does = "enlarge" /\ inserts' = inserts
                 /\ MovedTo(p, "write")
              \/ /\ photo[p].does \in {"upload", "import"}
                 /\ inserts' = inserts + 1 /\ photo'[p].id = inserts + 1 /\ photo'[p].inserting
                 /\ photo'[p].at = IF photo[p].does = "import" THEN "coins" ELSE "write"
<1>1. Works(p) /\ photo[p].at = "look" /\ Known(photo[p].content) = {}
  BY DEF PutFiles, At, Works
<1>2. photo[p] \in PhotoRecord /\ photo[p].does \in {"upload", "import", "enlarge"}
      /\ photo[p].content \in Content
  BY <1>1 DEF StepsFit, ImagesTypeOK, Works, PhotoRecord
<1>3. CASE photo[p].does = "enlarge"
  <2>1. MovedTo(p, "write")
    BY <1>1, <1>3, MovesKeeps DEF PutFiles
  <2> QED BY <1>1, <1>2, <1>3, <2>1 DEF PutFiles, GoesOn, MovedTo, Works
<1>4. CASE photo[p].does # "enlarge"
  <2> DEFINE step == IF photo[p].does = "import" THEN "coins" ELSE "write"
  <2>1. AfterLook(p) = step
    BY <1>2, <1>4 DEF AfterLook, HoldsFirst
  <2>2. inserts' = inserts + 1 /\ inserts + 1 \in Nat
    BY <1>4 DEF PutFiles, ImagesTypeOK
  <2>3. photo' = [photo EXCEPT ![p].at = step, ![p].id = inserts', ![p].inserting = TRUE]
    BY <1>4, <2>1 DEF PutFiles
  <2>4. step \in {"coins", "write"}
    OBVIOUS
  <2> DEFINE r == [photo[p] EXCEPT !.at = step, !.id = inserts + 1, !.inserting = TRUE]
  <2>5. photo' = [photo EXCEPT ![p] = r]
    BY <1>2, <2>2, <2>3 DEF ImagesTypeOK, PhotoRecord
  <2>6. r \in PhotoRecord /\ r.id = inserts + 1 /\ r.inserting /\ r.at = step
        /\ r.does = photo[p].does /\ r.content = photo[p].content /\ r.coins = photo[p].coins
    BY <1>2, <2>2, <2>4 DEF PhotoRecord
  <2>7. \A x \in PhotoRecord : x # NoPhoto
    BY DEF PhotoRecord, NoPhoto
  <2> HIDE DEF r
  <2>8. photo'[p] = r /\ GoesOn(p)
    BY <1>1, <2>5, <2>6, <2>7 DEF ImagesTypeOK, GoesOn, OthersKeep, Works
  <2> QED BY <1>1, <1>2, <1>4, <2>2, <2>6, <2>8 DEF PutFiles
<1> QED BY <1>3, <1>4

LEMMA AnswerDoes ==
    ASSUME ImagesTypeOK, StepsFit, NEW p \in PhotoRequest, AnswerWithRow(p)
    PROVE  /\ UNCHANGED <<images, inserts, filedOn, files, excused>> /\ Works(p)
           /\ photo[p].at = "look"
           /\ \/ Ends(p)
              \/ /\ photo[p].does \in {"upload", "import"} /\ GoesOn(p)
                 /\ photo'[p].id \in ImageId /\ photo'[p].inserting = photo[p].inserting
                 /\ photo'[p].at = IF photo[p].does = "import" THEN "coins" ELSE "write"
                 /\ UNCHANGED <<contentOf, coinOf>>
<1>1. Works(p) /\ photo[p].at = "look"
      /\ UNCHANGED <<images, inserts, filedOn, files, excused>>
  BY DEF AnswerWithRow, At, Works
<1>2. photo[p] \in PhotoRecord /\ photo[p].does \in {"upload", "import", "enlarge"}
  BY <1>1 DEF StepsFit, ImagesTypeOK, Works, PhotoRecord
<1>3. CASE photo[p].does = "enlarge"
  BY <1>1, <1>3 DEF AnswerWithRow
<1>4. CASE photo[p].does # "enlarge"
  <2> DEFINE step == IF photo[p].does = "import" THEN "coins" ELSE "write"
  <2>1. AfterLook(p) = step /\ step \in {"coins", "write"}
    BY <1>2, <1>4 DEF AfterLook, HoldsFirst
  <2> HIDE DEF step
  <2>2. UNCHANGED <<contentOf, coinOf>> /\ \E id \in Known(photo[p].content) :
            photo' = [photo EXCEPT ![p].at = step, ![p].id = id]
    BY <1>4, <2>1 DEF AnswerWithRow
  <2>3. PICK id \in ImageId : photo' = [photo EXCEPT ![p].at = step, ![p].id = id]
    BY <2>2 DEF Known
  <2> DEFINE r == [photo[p] EXCEPT !.at = step, !.id = id]
  <2>4. photo' = [photo EXCEPT ![p] = r]
    BY <1>2, <2>3 DEF ImagesTypeOK, PhotoRecord
  <2>8. id \in Nat
    BY ImageAssumption DEF ImageId
  <2>5. r \in PhotoRecord /\ r.id = id /\ r.inserting = photo[p].inserting /\ r.at = step
        /\ r.does = photo[p].does /\ r.content = photo[p].content /\ r.coins = photo[p].coins
    BY <1>2, <2>1, <2>8 DEF PhotoRecord
  <2>6. \A x \in PhotoRecord : x # NoPhoto
    BY DEF PhotoRecord, NoPhoto
  <2> HIDE DEF r
  <2>7. photo'[p] = r /\ GoesOn(p)
    BY <1>1, <2>4, <2>5, <2>6 DEF ImagesTypeOK, GoesOn, OthersKeep, Works
  <2> QED BY <1>1, <1>2, <1>4, <2>2, <2>5, <2>7 DEF step
<1> QED BY <1>3, <1>4

LEMMA CommitsKeeps ==
    ASSUME ImagesTypeOK, NEW p \in PhotoRequest, Works(p), NEW c \in Content, Commits(p, c)
    PROVE  /\ HasLetGo(p) /\ GoesOn(p) /\ UNCHANGED <<inserts, files>>
           /\ photo'[p].at = "committed" /\ photo'[p].drops = c
           /\ photo'[p].id = photo[p].id /\ photo'[p].inserting = photo[p].inserting
<1>1. photo[p] \in PhotoRecord
  BY DEF ImagesTypeOK, Works
<1>2. photo' = [photo EXCEPT ![p].at = "committed", ![p].drops = c] /\ Frees(p)
      /\ UNCHANGED <<inserts, files>>
  BY DEF Commits
<1> DEFINE r == [photo[p] EXCEPT !.at = "committed", !.drops = c]
<1>3. photo' = [photo EXCEPT ![p] = r]
  BY <1>1, <1>2 DEF ImagesTypeOK, PhotoRecord
<1>4. r \in PhotoRecord /\ r.id = photo[p].id /\ r.inserting = photo[p].inserting
      /\ r.at = "committed" /\ r.drops = c
      /\ r.does = photo[p].does /\ r.content = photo[p].content /\ r.coins = photo[p].coins
  BY <1>1 DEF PhotoRecord
<1>5. \A x \in PhotoRecord : x # NoPhoto
  BY DEF PhotoRecord, NoPhoto
<1> HIDE DEF r
<1>6. photo'[p] = r /\ GoesOn(p)
  BY <1>3, <1>4, <1>5 DEF ImagesTypeOK, GoesOn, OthersKeep, Works
<1> QED BY <1>2, <1>4, <1>6, FreesLetsGo

-----------------------------------------------------------------------------
(* Types.                                                                  *)

LEMMA ImagesTypeStep ==
    ASSUME ImagesTypeOK, StepsFit, [ImagesNext]_imageVars
    PROVE  ImagesTypeOK'
<1>1. CASE UNCHANGED imageVars
  BY <1>1 DEF imageVars, ImagesTypeOK
<1>2. ASSUME NEW p \in PhotoRequest, NEW does \in {"upload", "import", "delete", "enlarge"},
             NEW id \in Nat, NEW c \in Content, NEW coins \in SUBSET Coin,
             Starts(p, does, id, c, coins)
      PROVE  ImagesTypeOK'
  BY <1>2, StartsKeeps DEF ImagesTypeOK
<1>3. ASSUME NEW p \in PhotoRequest, PhotoStarts(p)
      PROVE  ImagesTypeOK'
  BY <1>2, <1>3, PhotoStartsDoes
<1>4. ASSUME NEW p \in PhotoRequest, HoldCoins(p)
      PROVE  ImagesTypeOK'
  <2>1. /\ UNCHANGED <<images, inserts, filedOn, files, contentOf, excused>>
        /\ photo' \in [PhotoRequest -> PhotoRecord \cup {NoPhoto}]
        /\ coinOf' \in [Coin -> PhotoRequest \cup {NoOne}]
    BY <1>4, HoldCoinsDoes DEF ImagesTypeOK, MovedTo
  <2> QED BY <2>1 DEF ImagesTypeOK
<1>5. ASSUME NEW p \in PhotoRequest, HoldContent(p)
      PROVE  ImagesTypeOK'
  <2>1. /\ UNCHANGED <<images, inserts, filedOn, files, coinOf, excused>>
        /\ photo' \in [PhotoRequest -> PhotoRecord \cup {NoPhoto}]
        /\ contentOf' \in [Content -> PhotoRequest \cup {NoOne}]
    BY <1>5, HoldContentDoes DEF ImagesTypeOK, MovedTo
  <2> QED BY <2>1 DEF ImagesTypeOK
<1>6. ASSUME NEW p \in PhotoRequest, PutFiles(p)
      PROVE  ImagesTypeOK'
  BY <1>6, PutFilesDoes DEF ImagesTypeOK, GoesOn
<1>7. ASSUME NEW p \in PhotoRequest, Ends(p), images' = images, filedOn' = filedOn,
             inserts' = inserts, files' \subseteq files
      PROVE  ImagesTypeOK'
  BY <1>7, EndsKeeps DEF ImagesTypeOK, HasLetGo
<1>8. ASSUME NEW p \in PhotoRequest, AnswerWithRow(p)
      PROVE  ImagesTypeOK'
  <2>1. UNCHANGED <<images, inserts, filedOn, files, excused>>
    BY <1>8, AnswerDoes
  <2>2. CASE Ends(p)
    BY <1>7, <2>1, <2>2
  <2>3. CASE GoesOn(p) /\ UNCHANGED <<contentOf, coinOf>>
    BY <2>1, <2>3 DEF ImagesTypeOK, GoesOn
  <2> QED BY <1>8, <2>2, <2>3, AnswerDoes
<1>9. ASSUME NEW p \in PhotoRequest, CommitUpload(p)
      PROVE  ImagesTypeOK'
  <2>1. photo[p] \in PhotoRecord /\ photo[p].at = "write" /\ Works(p)
    BY <1>9 DEF CommitUpload, At, Works, ImagesTypeOK
  <2>2. photo[p].id \in Nat /\ photo[p].content \in Content /\ photo[p].coins \subseteq Coin
        /\ photo[p].inserting \in BOOLEAN
    BY <2>1 DEF PhotoRecord
  <2>3. images' \in [ImageId -> Content \cup {NoContent}]
    BY <1>9, <2>2 DEF CommitUpload, ImagesTypeOK
  <2>4. filedOn' \subseteq Nat \X Coin
    BY <1>9, <2>2 DEF CommitUpload, ImagesTypeOK
  <2> QED BY <1>9, <2>3, <2>4, EndsKeeps DEF CommitUpload, ImagesTypeOK, HasLetGo
<1>10. ASSUME NEW p \in PhotoRequest, CommitRefused(p) \/ Dies(p) \/ RemoveUnheld(p)
       PROVE  ImagesTypeOK'
  BY <1>7, <1>10 DEF CommitRefused, Dies, RemoveUnheld
<1>11. ASSUME NEW p \in PhotoRequest, CommitEnlarge(p)
       PROVE  ImagesTypeOK'
  <2>1. Works(p) /\ photo[p] \in PhotoRecord /\ photo[p].at = "write" /\ photo[p].does = "enlarge"
    BY <1>11 DEF CommitEnlarge, At, Works, ImagesTypeOK
  <2>2. photo[p].content \in Content /\ photo[p].id \in ImageId /\ ~photo[p].inserting
    BY <2>1 DEF PhotoRecord, StepsFit
  <2>3. images[photo[p].id] \in Content
    BY <1>11, <2>2 DEF CommitEnlarge, Gone, ImagesTypeOK
  <2>4. GoesOn(p) /\ HasLetGo(p) /\ UNCHANGED <<inserts, files>>
    BY <1>11, <2>1, <2>3, CommitsKeeps DEF CommitEnlarge
  <2>5. images' \in [ImageId -> Content \cup {NoContent}] /\ filedOn' = filedOn
    BY <1>11, <2>2 DEF CommitEnlarge, ImagesTypeOK
  <2> QED BY <2>4, <2>5 DEF ImagesTypeOK, GoesOn, HasLetGo
<1>12. ASSUME NEW p \in PhotoRequest, CommitDelete(p)
       PROVE  ImagesTypeOK'
  <2>1. Works(p) /\ photo[p] \in PhotoRecord
    BY <1>12 DEF CommitDelete, At, Works, ImagesTypeOK
  <2>2. photo[p].content \in Content
    BY <2>1 DEF PhotoRecord
  <2>3. GoesOn(p) /\ HasLetGo(p) /\ UNCHANGED <<inserts, files>>
    BY <1>12, <2>1, <2>2, CommitsKeeps DEF CommitDelete
  <2>4. images' \in [ImageId -> Content \cup {NoContent}]
    BY <1>12 DEF CommitDelete, ImagesTypeOK
  <2>5. filedOn' \subseteq Nat \X Coin
    BY <1>12 DEF CommitDelete, ImagesTypeOK
  <2> QED BY <2>3, <2>4, <2>5 DEF ImagesTypeOK, GoesOn, HasLetGo
<1> QED BY <1>1, <1>3, <1>4, <1>5, <1>6, <1>8, <1>9, <1>10, <1>11, <1>12 DEF ImagesNext, PhotoStep

-----------------------------------------------------------------------------
(* What is held.                                                           *)

LEMMA HoldsStart ==
    ASSUME ImagesTypeOK, HoldsInv, NEW p \in PhotoRequest,
           OthersKeep(p), photo[p] = NoPhoto, photo'[p] # NoPhoto, ~photo'[p].inserting,
           photo'[p].at = HoldsFirst(photo'[p].does),
           photo'[p].does \in {"upload", "import", "delete", "enlarge"},
           photo'[p].does \in {"delete", "enlarge"} => photo'[p].id \in ImageId,
           UNCHANGED <<contentOf, coinOf>>
    PROVE  HoldsInv'
<1>1. photo'[p].at \in {"coins", "content"}
      /\ (photo'[p].at = "coins" <=> photo'[p].does \in {"upload", "delete"})
  BY DEF HoldsFirst
<1>2. \A i \in Coin : coinOf[i] # p
  BY DEF HoldsInv, CoinsAreHeld, Works
<1>3. \A c \in Content : contentOf[c] # p
  BY DEF HoldsInv, ContentsAreHeld, Works
<1>4. StepsFit'
  BY <1>1 DEF HoldsInv, StepsFit, Works, OthersKeep
<1>5. ContentsAreHeld'
  BY <1>1, <1>3 DEF HoldsInv, ContentsAreHeld, Works, OthersKeep
<1>6. CoinsAreHeld'
  BY <1>2 DEF HoldsInv, CoinsAreHeld, Works, OthersKeep, At, UnheldCoins
<1> QED BY <1>4, <1>5, <1>6 DEF HoldsInv

\* Who lets go of everything, and ends or commits, disturbs nobody's holds.
LEMMA HoldsLetGo ==
    ASSUME ImagesTypeOK, HoldsInv, NEW p \in PhotoRequest, HasLetGo(p), OthersKeep(p),
           photo'[p] = NoPhoto \/ photo'[p].at = "committed"
    PROVE  ContentsAreHeld' /\ CoinsAreHeld'
<1>1. ASSUME NEW q \in PhotoRequest, Works(q)'
      PROVE  /\ \/ photo'[q].at \in {"look", "write"}
                \/ photo'[q].does = "import" /\ photo'[q].at = "coins"
                => contentOf'[photo'[q].content] = q
             /\ photo'[q].at = "remove" => contentOf'[photo'[q].drops] = q
  <2>1. CASE q = p
    BY <1>1, <2>1 DEF Works
  <2>2. CASE q # p
    <3>1. photo'[q] = photo[q] /\ Works(q)
      BY <1>1, <2>2 DEF OthersKeep, Works
    <3>2. photo[q].content \in Content
      BY <3>1 DEF Works, ImagesTypeOK, PhotoRecord
    <3>3. photo[q].at = "remove" => photo[q].drops \in Content
      BY <3>1 DEF HoldsInv, StepsFit
    <3> QED BY <2>2, <3>1, <3>2, <3>3 DEF HasLetGo, HoldsInv, ContentsAreHeld
  <2> QED BY <2>1, <2>2
<1>2. ASSUME NEW c \in Content, NEW q \in PhotoRequest, contentOf'[c] = q
      PROVE  Works(q)' /\ (photo'[q].at \in {"look", "write", "remove"} \/ photo'[q].does = "import")
  <2>1. q # p /\ contentOf[c] = q
    BY <1>2 DEF HasLetGo
  <2> QED BY <2>1 DEF HoldsInv, ContentsAreHeld, OthersKeep, Works
<1>3. ASSUME NEW i \in Coin, NEW q \in PhotoRequest, coinOf'[i] = q
      PROVE  /\ Works(q)' /\ i \in photo'[q].coins
             /\ photo'[q].does = "import" => photo'[q].at \in {"coins", "write"}
  <2>1. q # p /\ coinOf[i] = q
    BY <1>3 DEF HasLetGo
  <2> QED BY <2>1 DEF HoldsInv, CoinsAreHeld, OthersKeep, Works
<1>4. ASSUME NEW q \in PhotoRequest, NEW i \in Coin, NEW j \in Coin,
             At(q, "coins")', coinOf'[i] = q, j \in UnheldCoins(q)'
      PROVE  i < j
  <2>1. q # p /\ coinOf[i] = q /\ photo'[q] = photo[q]
    BY <1>4 DEF HasLetGo, OthersKeep
  <2>2. j \in UnheldCoins(q)
    BY <1>4, <2>1 DEF HasLetGo, UnheldCoins
  <2> QED BY <1>4, <2>1, <2>2 DEF HoldsInv, CoinsAreHeld, At
<1> QED BY <1>1, <1>2, <1>3, <1>4 DEF ContentsAreHeld, CoinsAreHeld

LEMMA HoldsEnd ==
    ASSUME ImagesTypeOK, HoldsInv, NEW p \in PhotoRequest, Ends(p)
    PROVE  HoldsInv'
<1>1. HasLetGo(p) /\ OthersKeep(p) /\ photo'[p] = NoPhoto
  BY EndsKeeps
<1>2. StepsFit'
  BY <1>1 DEF HoldsInv, StepsFit, OthersKeep, Works
<1> QED BY <1>1, <1>2, HoldsLetGo DEF HoldsInv

LEMMA HoldsCommit ==
    ASSUME ImagesTypeOK, HoldsInv, NEW p \in PhotoRequest, Works(p),
           photo[p].does \in {"delete", "enlarge"}, photo[p].at = "write",
           NEW c \in Content, Commits(p, c)
    PROVE  HoldsInv'
<1>1. /\ HasLetGo(p) /\ GoesOn(p) /\ photo'[p].at = "committed" /\ photo'[p].drops = c
      /\ photo'[p].id = photo[p].id /\ photo'[p].inserting = photo[p].inserting
  BY CommitsKeeps
<1>2. StepsFit'
  BY <1>1 DEF HoldsInv, StepsFit, GoesOn, OthersKeep, Works
<1> QED BY <1>1, <1>2, HoldsLetGo DEF HoldsInv, GoesOn

\* Moving on, holding the content that was free or one's own.
LEMMA HoldsContent ==
    ASSUME ImagesTypeOK, HoldsInv, NEW p \in PhotoRequest, HoldContent(p)
    PROVE  HoldsInv'
<1>1. PICK c \in Content, step \in {"write", "look", "remove"} :
          /\ MovedTo(p, step) /\ Works(p) /\ coinOf' = coinOf
          /\ contentOf[c] \in {NoOne, p} /\ contentOf' = [contentOf EXCEPT ![c] = p]
          /\ \/ photo[p].at = "content" /\ c = photo[p].content
                /\ step = IF photo[p].does = "delete" THEN "write" ELSE "look"
             \/ photo[p].at = "committed" /\ c = photo[p].drops /\ step = "remove"
  <2>1. photo[p].content \in Content
    BY HoldContentDoes DEF HoldsInv, ImagesTypeOK, Works, PhotoRecord
  <2>2. photo[p].at = "committed" => photo[p].drops \in Content
    BY HoldContentDoes DEF HoldsInv, StepsFit
  <2> QED BY <2>1, <2>2, HoldContentDoes DEF HoldsInv
<1>2. photo'[p].at = step /\ photo'[p].does = photo[p].does /\ photo'[p].id = photo[p].id
      /\ photo'[p].content = photo[p].content /\ photo'[p].coins = photo[p].coins
      /\ photo'[p].inserting = photo[p].inserting /\ photo'[p].drops = photo[p].drops
      /\ photo'[p] # NoPhoto /\ \A q \in PhotoRequest : q # p => photo'[q] = photo[q]
  BY <1>1 DEF MovedTo, OthersKeep
<1>3. contentOf'[c] = p /\ \A d \in Content : d # c => contentOf'[d] = contentOf[d]
  BY <1>1 DEF ImagesTypeOK
<1>4. photo[p].at \in {"content", "committed"} /\ ~photo[p].inserting
      /\ (photo[p].at = "committed" => photo[p].does \in {"delete", "enlarge"})
  BY <1>1 DEF HoldsInv, StepsFit, Works
<1>5. StepsFit'
  <2>1. ASSUME NEW q \in PhotoRequest, q # p
        PROVE  photo'[q] = photo[q]
    BY <1>2, <2>1
  <2>2. photo[p].does \in {"upload", "import", "delete", "enlarge"}
    BY <1>1 DEF ImagesTypeOK, Works, PhotoRecord
  <2> QED BY <1>1, <1>2, <1>4, <2>1, <2>2 DEF HoldsInv, StepsFit, Works
<1>6. ContentsAreHeld'
  <2>1. ASSUME NEW q \in PhotoRequest, Works(q)'
        PROVE  /\ \/ photo'[q].at \in {"look", "write"}
                  \/ photo'[q].does = "import" /\ photo'[q].at = "coins"
                  => contentOf'[photo'[q].content] = q
               /\ photo'[q].at = "remove" => contentOf'[photo'[q].drops] = q
    <3>1. CASE q = p
      BY <1>1, <1>2, <1>3, <3>1
    <3>2. CASE q # p
      <4>1. photo'[q] = photo[q] /\ Works(q)
        BY <1>2, <2>1, <3>2 DEF Works
      <4>2. photo[q].content \in Content
        BY <4>1 DEF Works, ImagesTypeOK, PhotoRecord
      <4>3. photo[q].at = "remove" => photo[q].drops \in Content
        BY <4>1 DEF HoldsInv, StepsFit
      <4>4. contentOf[c] # q
        BY <1>1, <3>2, NobodyIsNoPhoto
      <4> QED BY <1>3, <3>2, <4>1, <4>2, <4>3, <4>4 DEF HoldsInv, ContentsAreHeld
    <3> QED BY <3>1, <3>2
  <2>2. ASSUME NEW d \in Content, NEW q \in PhotoRequest, contentOf'[d] = q
        PROVE  Works(q)' /\ (photo'[q].at \in {"look", "write", "remove"} \/ photo'[q].does = "import")
    <3>1. CASE q = p
      BY <1>2, <3>1 DEF Works
    <3>2. CASE q # p
      BY <1>2, <1>3, <2>2, <3>2 DEF HoldsInv, ContentsAreHeld, Works
    <3> QED BY <3>1, <3>2
  <2> QED BY <2>1, <2>2 DEF ContentsAreHeld
<1>7. CoinsAreHeld'
  BY <1>1, <1>2, <1>4 DEF HoldsInv, CoinsAreHeld, Works, At, UnheldCoins
<1> QED BY <1>5, <1>6, <1>7 DEF HoldsInv

\* The next item is held after those before it, or, all held, the request moves on.
LEMMA HoldsCoins ==
    ASSUME ImagesTypeOK, HoldsInv, NEW p \in PhotoRequest, HoldCoins(p)
    PROVE  HoldsInv'
<1>1. /\ photo[p].at = "coins" /\ Works(p) /\ contentOf' = contentOf
      /\ \/ /\ UnheldCoins(p) = {} /\ coinOf' = coinOf
            /\ MovedTo(p, IF photo[p].does \in {"upload", "delete"} THEN "content" ELSE "write")
         \/ /\ UnheldCoins(p) # {} /\ coinOf[NextCoin(p)] = NoOne /\ photo' = photo
            /\ coinOf' = [coinOf EXCEPT ![NextCoin(p)] = p]
  BY HoldCoinsDoes DEF HoldsInv
<1>2. photo[p].does \in {"upload", "import", "delete"} /\ photo[p] \in PhotoRecord
  BY <1>1 DEF HoldsInv, StepsFit, ImagesTypeOK, Works, PhotoRecord
<1>3. CASE coinOf' = coinOf /\
          MovedTo(p, IF photo[p].does \in {"upload", "delete"} THEN "content" ELSE "write")
  <2>1. /\ photo'[p].at \in {"content", "write"}
        /\ photo'[p].at = "write" <=> photo[p].does = "import"
        /\ photo'[p].does = photo[p].does /\ photo'[p].id = photo[p].id
        /\ photo'[p].content = photo[p].content /\ photo'[p].coins = photo[p].coins
        /\ photo'[p].inserting = photo[p].inserting /\ photo'[p].drops = photo[p].drops
        /\ photo'[p] # NoPhoto /\ \A q \in PhotoRequest : q # p => photo'[q] = photo[q]
    BY <1>2, <1>3 DEF MovedTo, OthersKeep
  <2>2. StepsFit'
    BY <1>1, <1>2, <2>1 DEF HoldsInv, StepsFit, Works
  <2>3. ContentsAreHeld'
    BY <1>1, <1>2, <2>1 DEF HoldsInv, ContentsAreHeld, Works
  <2>4. CoinsAreHeld'
    BY <1>1, <1>2, <1>3, <2>1 DEF HoldsInv, CoinsAreHeld, Works, At, UnheldCoins
  <2> QED BY <2>2, <2>3, <2>4 DEF HoldsInv
<1>4. CASE /\ UnheldCoins(p) # {} /\ coinOf[NextCoin(p)] = NoOne /\ photo' = photo
           /\ coinOf' = [coinOf EXCEPT ![NextCoin(p)] = p]
  <2>1. PICK n \in Coin :
            /\ n = NextCoin(p) /\ n \in UnheldCoins(p)
            /\ \A j \in UnheldCoins(p) : n <= j
    BY <1>1, <1>4, NextCoinIsLeast
  <2>2. coinOf'[n] = p /\ coinOf[n] = NoOne /\ \A i \in Coin : i # n => coinOf'[i] = coinOf[i]
    BY <1>4, <2>1 DEF ImagesTypeOK
  <2>3. StepsFit' /\ ContentsAreHeld'
    BY <1>1, <1>4 DEF HoldsInv, StepsFit, ContentsAreHeld, Works
  <2>4. ASSUME NEW i \in Coin, NEW q \in PhotoRequest, coinOf'[i] = q
        PROVE  /\ Works(q)' /\ i \in photo'[q].coins
               /\ photo'[q].does = "import" => photo'[q].at \in {"coins", "write"}
    <3>1. CASE i = n
      BY <1>1, <1>4, <2>1, <2>2, <2>4, <3>1 DEF Works, UnheldCoins
    <3>2. CASE i # n
      BY <1>4, <2>2, <2>4, <3>2 DEF HoldsInv, CoinsAreHeld, Works
    <3> QED BY <3>1, <3>2
  <2>5. ASSUME NEW q \in PhotoRequest, NEW i \in Coin, NEW j \in Coin,
               At(q, "coins")', coinOf'[i] = q, j \in UnheldCoins(q)'
        PROVE  i < j
    <3>1. j \in UnheldCoins(q) /\ coinOf'[j] # q
      BY <1>4, <2>2, <2>5, NobodyIsNoPhoto DEF UnheldCoins
    <3>2. CASE i = n
      <4>1. q = p /\ n # j
        BY <2>2, <2>5, <3>1, <3>2
      <4>2. n <= j /\ n \in Nat /\ j \in Nat
        BY <2>1, <3>1, <4>1, ImageAssumption
      <4> QED BY <3>2, <4>1, <4>2
    <3>3. CASE i # n
      <4>1. coinOf[i] = q /\ At(q, "coins")
        BY <1>4, <2>2, <2>5, <3>3 DEF At
      <4> QED BY <3>1, <4>1 DEF HoldsInv, CoinsAreHeld
    <3> QED BY <3>2, <3>3
  <2>6. CoinsAreHeld'
    BY <2>4, <2>5 DEF CoinsAreHeld
  <2> QED BY <2>3, <2>6 DEF HoldsInv
<1> QED BY <1>1, <1>3, <1>4

\* Having looked, a request goes on to its items or to its write.
LEMMA HoldsLooked ==
    ASSUME ImagesTypeOK, HoldsInv, NEW p \in PhotoRequest,
           PutFiles(p) \/ AnswerWithRow(p), ~Ends(p),
           photo[p].does = "enlarge" \/ inserts + 1 \in ImageId \/ AnswerWithRow(p)
    PROVE  HoldsInv'
<1>1. /\ photo[p].at = "look" /\ Works(p) /\ GoesOn(p) /\ UNCHANGED <<contentOf, coinOf>>
      /\ photo'[p].at = IF photo[p].does = "import" THEN "coins" ELSE "write"
      /\ photo'[p].inserting => photo[p].inserting \/ photo[p].does \in {"upload", "import"}
      /\ photo[p].does \in {"upload", "import"} => photo'[p].id \in ImageId
      /\ photo[p].does = "enlarge" => photo'[p].id = photo[p].id
  BY PutFilesDoes, AnswerDoes DEF HoldsInv, MovedTo
<1>2. /\ photo'[p].does = photo[p].does /\ photo'[p].content = photo[p].content
      /\ photo'[p].coins = photo[p].coins
      /\ photo'[p] # NoPhoto /\ \A q \in PhotoRequest : q # p => photo'[q] = photo[q]
  BY <1>1 DEF GoesOn, OthersKeep
<1>3. photo[p].does \in {"upload", "import", "enlarge"} /\ ~photo[p].inserting
  BY <1>1 DEF HoldsInv, StepsFit, ImagesTypeOK, Works, PhotoRecord
<1>4. StepsFit'
  BY <1>1, <1>2, <1>3 DEF HoldsInv, StepsFit, Works
<1>5. ContentsAreHeld'
  BY <1>1, <1>2, <1>3 DEF HoldsInv, ContentsAreHeld, Works
<1>6. \A i \in Coin : coinOf[i] = p => photo[p].does # "import"
  BY <1>1 DEF HoldsInv, CoinsAreHeld
<1>7. CoinsAreHeld'
  BY <1>1, <1>2, <1>3, <1>6 DEF HoldsInv, CoinsAreHeld, Works, At, UnheldCoins
<1> QED BY <1>4, <1>5, <1>7 DEF HoldsInv

-----------------------------------------------------------------------------
(* Rows and files.                                                         *)

Brought(p) == Works(p) /\ Brings(p)

\* A content that is brought is held by who brings it.
LEMMA BroughtIsHeld ==
    ASSUME ImagesTypeOK, HoldsInv, NEW p \in PhotoRequest, Brought(p)
    PROVE  photo[p].content \in Content /\ contentOf[photo[p].content] = p
           /\ (photo[p].at = "write" \/ photo[p].at = "coins") /\ photo[p].id \in ImageId
BY DEF HoldsInv, StepsFit, ContentsAreHeld, Brought, Brings, Works, ImagesTypeOK, PhotoRecord

LEMMA FewerToInsert ==
    ASSUME RoomIsKept, inserts \in Nat, inserts' = inserts, ToInsert' \subseteq ToInsert
    PROVE  RoomIsKept'
<1>1. IsFiniteSet(ToInsert)
  BY FinitePhotos, FS_Subset DEF ToInsert, Doing
<1>2. IsFiniteSet(ToInsert') /\ Cardinality(ToInsert') <= Cardinality(ToInsert)
  BY <1>1, FS_Subset
<1>3. Cardinality(ToInsert) \in Nat /\ Cardinality(ToInsert') \in Nat
  BY <1>1, <1>2, FS_CardinalityType
<1> QED BY <1>2, <1>3, ImageAssumption DEF RoomIsKept

LEMMA RoomForOne ==
    ASSUME ImagesTypeOK, RoomIsKept, NEW p \in ToInsert
    PROVE  /\ inserts + 1 \in ImageId
           /\ inserts' = inserts + 1 /\ ToInsert' \subseteq ToInsert \ {p} => RoomIsKept'
<1>1. IsFiniteSet(ToInsert)
  BY FinitePhotos, FS_Subset DEF ToInsert, Doing
<1>2. IsFiniteSet(ToInsert \ {p}) /\ Cardinality(ToInsert \ {p}) = Cardinality(ToInsert) - 1
  BY <1>1, FS_RemoveElement
<1>3. Cardinality(ToInsert) \in Nat /\ Cardinality(ToInsert \ {p}) \in Nat
  BY <1>1, <1>2, FS_CardinalityType
<1>4. inserts + 1 \in ImageId
  BY <1>2, <1>3, ImageAssumption DEF RoomIsKept, ImagesTypeOK, ImageId
<1>5. ASSUME inserts' = inserts + 1, ToInsert' \subseteq ToInsert \ {p}
      PROVE  RoomIsKept'
  <2>1. IsFiniteSet(ToInsert') /\ Cardinality(ToInsert') <= Cardinality(ToInsert \ {p})
    BY <1>2, <1>5, FS_Subset
  <2>2. Cardinality(ToInsert') \in Nat
    BY <2>1, FS_CardinalityType
  <2> QED BY <1>2, <1>3, <1>5, <2>1, <2>2, ImageAssumption DEF RoomIsKept, ImagesTypeOK
<1> QED BY <1>4, <1>5

\* A step that touches neither rows nor files, and leaves nothing unexcused.
LEMMA FilesQuiet ==
    ASSUME ImagesTypeOK, FilesInv, NEW p \in PhotoRequest, OthersKeep(p),
           UNCHANGED <<images, inserts, files>>, RoomIsKept',
           Works(p)' /\ photo'[p].inserting =>
               Works(p) /\ photo[p].inserting /\ photo'[p].id = photo[p].id,
           Brought(p)' => Brought(p) /\ photo'[p].content = photo[p].content,
           excused \cap files \subseteq excused',
           \A c \in files : Owes(p, c) => c \in Held \/ c \in excused' \/ Owes(p, c)'
    PROVE  FilesInv'
<1>1. NewRowsApart'
  BY DEF FilesInv, NewRowsApart, OthersKeep, Works
<1>2. BroughtAreNew'
  <2> SUFFICES ASSUME NEW q \in PhotoRequest, Works(q)', Brings(q)'
               PROVE  (photo[q].content \in files /\ Known(photo[q].content) = {})'
    BY DEF BroughtAreNew
  <2>1. Works(q) /\ Brings(q) /\ photo'[q].content = photo[q].content
    BY DEF OthersKeep, Works, Brings, Brought
  <2> QED BY <2>1 DEF FilesInv, BroughtAreNew, Known
<1>3. RowsApart' /\ Held' = Held
  BY DEF FilesInv, RowsApart, Held
<1>4. UnheldAreOwed'
  <2> SUFFICES ASSUME NEW c \in files
               PROVE  c \in Held \/ c \in excused' \/ \E q \in PhotoRequest : Owes(q, c)'
    BY <1>3 DEF UnheldAreOwed
  <2>1. \A q \in PhotoRequest : q # p /\ Owes(q, c) => Owes(q, c)'
    BY DEF Owes, Works, Brings, OthersKeep
  <2> QED BY <2>1 DEF FilesInv, UnheldAreOwed
<1> QED BY <1>1, <1>2, <1>3, <1>4 DEF FilesInv

LEMMA FilesStart ==
    ASSUME ImagesTypeOK, FilesInv, NEW p \in PhotoRequest,
           OthersKeep(p), photo[p] = NoPhoto, photo'[p] # NoPhoto, ~photo'[p].inserting,
           photo'[p].at = HoldsFirst(photo'[p].does),
           photo'[p].does \in {"upload", "import"} => HasRoomForImage,
           UNCHANGED <<images, inserts, files, excused>>
    PROVE  FilesInv'
<1>1. ~Brought(p)'
  BY DEF Brought, Brings, HoldsFirst
<1>2. RoomIsKept'
  <2>1. CASE photo'[p].does \notin {"upload", "import"}
    <3>1. ToInsert' \subseteq ToInsert
      BY <2>1 DEF ToInsert, Doing, OthersKeep
    <3> QED BY <3>1, FewerToInsert DEF FilesInv, ImagesTypeOK
  <2>2. CASE photo'[p].does \in {"upload", "import"}
    <3> DEFINE D == Doing({"upload", "import"})
    <3>1. IsFiniteSet(D) /\ inserts + Cardinality(D) < MaxImages
      BY <2>2, FinitePhotos, FS_Subset DEF Doing, HasRoomForImage
    <3> HIDE DEF D
    <3>6. Cardinality(D) \in Nat
      BY <3>1, FS_CardinalityType
    <3>7. IsFiniteSet(D \cup {p}) /\ Cardinality(D \cup {p}) =
              IF p \in D THEN Cardinality(D) ELSE Cardinality(D) + 1
      BY <3>1, FS_AddElement
    <3>2. IsFiniteSet(D \cup {p}) /\ Cardinality(D \cup {p}) <= Cardinality(D) + 1
          /\ Cardinality(D) \in Nat
      BY <3>6, <3>7
    <3>3. ToInsert' \subseteq D \cup {p}
      BY DEF ToInsert, Doing, OthersKeep, D
    <3>4. IsFiniteSet(ToInsert') /\ Cardinality(ToInsert') <= Cardinality(D \cup {p})
      BY <3>2, <3>3, FS_Subset
    <3>5. Cardinality(ToInsert') \in Nat /\ Cardinality(D \cup {p}) \in Nat
      BY <3>2, <3>4, FS_CardinalityType
    <3> QED BY <3>1, <3>2, <3>4, <3>5, ImageAssumption DEF RoomIsKept, ImagesTypeOK
  <2> QED BY <2>1, <2>2
<1>3. \A c : ~Owes(p, c)
  BY DEF Owes, Works
<1> QED BY <1>1, <1>2, <1>3, FilesQuiet

LEMMA FilesWaiting ==
    ASSUME ImagesTypeOK, HoldsInv, FilesInv, NEW p \in PhotoRequest,
           HoldCoins(p) \/ HoldContent(p)
    PROVE  FilesInv'
<1>1. /\ OthersKeep(p) /\ UNCHANGED <<images, inserts, files, excused>> /\ Works(p)
      /\ photo[p].at \in {"coins", "content", "committed"}
      /\ photo'[p] # NoPhoto
      /\ photo'[p].does = photo[p].does /\ photo'[p].id = photo[p].id
      /\ photo'[p].content = photo[p].content
      /\ photo'[p].inserting = photo[p].inserting /\ photo'[p].drops = photo[p].drops
      /\ photo[p].at = "committed" => photo'[p].at = "remove"
      /\ photo[p].does = "enlarge" => photo'[p].at # "write"
  <2>1. CASE HoldCoins(p)
    <3>1. photo[p].at = "coins" => photo[p].does # "enlarge"
      BY <2>1, HoldCoinsDoes DEF HoldsInv, StepsFit
    <3> QED BY <2>1, <3>1, HoldCoinsDoes DEF HoldsInv, MovedTo, OthersKeep, Works
  <2>2. CASE HoldContent(p)
    BY <2>2, HoldContentDoes DEF HoldsInv, MovedTo
  <2> QED BY <2>1, <2>2
<1>2. ToInsert' \subseteq ToInsert
  BY <1>1 DEF ToInsert, Doing, OthersKeep, Works
<1>3. RoomIsKept'
  BY <1>1, <1>2, FewerToInsert DEF FilesInv, ImagesTypeOK
<1>4. Brought(p)' => Brought(p)
  BY <1>1 DEF Brought, Brings, Works
<1>5. \A c \in files : Owes(p, c) => Owes(p, c)'
  BY <1>1 DEF Owes, Brings, Works
<1> QED BY <1>1, <1>3, <1>4, <1>5, FilesQuiet DEF Works

\* A request that ends without touching rows or files leaves what it owes excused.
LEMMA FilesEnd ==
    ASSUME ImagesTypeOK, FilesInv, NEW p \in PhotoRequest, Ends(p),
           UNCHANGED <<images, inserts, files>>, excused \cap files \subseteq excused',
           \A c \in files : Owes(p, c) => c \in Held \/ c \in excused'
    PROVE  FilesInv'
<1>1. OthersKeep(p) /\ photo'[p] = NoPhoto
  BY EndsKeeps
<1>2. ToInsert' \subseteq ToInsert
  BY <1>1 DEF ToInsert, Doing, OthersKeep
<1>3. RoomIsKept'
  BY <1>2, FewerToInsert DEF FilesInv, ImagesTypeOK
<1> QED BY <1>1, <1>3, FilesQuiet DEF Works, Brought

LEMMA FilesLooked ==
    ASSUME ImagesTypeOK, HoldsInv, FilesInv, NEW p \in PhotoRequest,
           PutFiles(p) \/ AnswerWithRow(p)
    PROVE  FilesInv'
<1>1. Works(p) /\ photo[p].at = "look" /\ ~photo[p].inserting
  BY PutFilesDoes, AnswerDoes DEF HoldsInv, StepsFit
<1>2. \A c : ~Owes(p, c)
  BY <1>1 DEF Owes, Brings
<1>3. CASE AnswerWithRow(p)
  <2>1. UNCHANGED <<images, inserts, files, excused>>
    BY <1>3, AnswerDoes DEF HoldsInv
  <2>2. CASE Ends(p)
    BY <1>2, <2>1, <2>2, FilesEnd
  <2>3. CASE ~Ends(p)
    <3>1. GoesOn(p) /\ photo[p].does \in {"upload", "import"} /\ ~photo'[p].inserting
      BY <1>1, <1>3, <2>3, AnswerDoes DEF HoldsInv
    <3>2. ToInsert' \subseteq ToInsert
      BY <1>1, <3>1 DEF ToInsert, Doing, OthersKeep, GoesOn, Works
    <3>3. RoomIsKept'
      BY <2>1, <3>2, FewerToInsert DEF FilesInv, ImagesTypeOK
    <3>4. ~Brought(p)'
      BY <3>1 DEF Brought, Brings, GoesOn
    <3> QED BY <1>2, <2>1, <3>1, <3>3, <3>4, FilesQuiet DEF GoesOn
  <2> QED BY <2>2, <2>3
<1>4. CASE PutFiles(p)
  <2>1. /\ UNCHANGED <<images, excused>> /\ GoesOn(p) /\ Known(photo[p].content) = {}
        /\ files' = files \cup {photo[p].content} /\ photo[p].content \in Content
        /\ \/ /\ photo[p].does = "enlarge" /\ inserts' = inserts
              /\ photo'[p].at = "write" /\ ~photo'[p].inserting
           \/ /\ photo[p].does \in {"upload", "import"}
              /\ inserts' = inserts + 1 /\ photo'[p].id = inserts + 1 /\ photo'[p].inserting
    BY <1>1, <1>4, PutFilesDoes DEF HoldsInv, MovedTo
  <2>2. /\ photo'[p].content = photo[p].content /\ photo'[p].does = photo[p].does
        /\ photo'[p] # NoPhoto /\ \A q \in PhotoRequest : q # p => photo'[q] = photo[q]
    BY <2>1 DEF GoesOn, OthersKeep
  <2>3. Brings(p)' /\ Works(p)'
    BY <2>1, <2>2 DEF Brings, Works
  <2>4. inserts \in Nat /\ ImageId \subseteq Nat
    BY ImageAssumption DEF ImagesTypeOK, ImageId
  <2>5. RoomIsKept' /\ (photo'[p].inserting => inserts + 1 \in ImageId)
    <3>1. CASE photo[p].does = "enlarge"
      <4>1. ToInsert' \subseteq ToInsert /\ inserts' = inserts /\ ~photo'[p].inserting
        BY <2>1, <2>2, <3>1 DEF ToInsert, Doing
      <4> QED BY <2>4, <4>1, FewerToInsert DEF FilesInv
    <3>2. CASE photo[p].does \in {"upload", "import"}
      <4>1. p \in ToInsert
        BY <1>1, <3>2 DEF ToInsert, Doing, Works
      <4>2. ToInsert' \subseteq ToInsert \ {p} /\ inserts' = inserts + 1
        BY <2>1, <2>2, <3>2 DEF ToInsert, Doing
      <4> QED BY <4>1, <4>2, RoomForOne DEF FilesInv
    <3> QED BY <2>1, <3>1, <3>2
  <2>6. NewRowsApart'
    <3>1. ASSUME NEW q \in PhotoRequest, q # p, Works(q), photo[q].inserting
          PROVE  photo[q].id <= inserts /\ images[photo[q].id] = NoContent /\ photo[q].id \in Nat
      BY <3>1 DEF FilesInv, NewRowsApart, ImagesTypeOK, Works, PhotoRecord
    <3>2. CASE photo'[p].inserting
      <4>1. inserts' = inserts + 1 /\ photo'[p].id = inserts + 1
        BY <2>1, <3>2
      <4>2. images[inserts + 1] = NoContent
        BY <2>4, <2>5, <3>2 DEF FilesInv, NewRowsApart
      <4>3. \A id \in ImageId : images[id] # NoContent => id <= inserts + 1
        BY <2>4 DEF FilesInv, NewRowsApart
      <4>4. \A q \in PhotoRequest : q # p /\ Works(q) /\ photo[q].inserting =>
                photo[q].id <= inserts + 1 /\ photo[q].id # inserts + 1
        BY <2>4, <3>1
      <4>5. \A q \in PhotoRequest, r \in PhotoRequest :
                q # p /\ r # p /\ r # q /\ Works(q) /\ Works(r) /\ photo[q].inserting
                /\ photo[r].inserting => photo[r].id # photo[q].id
        BY DEF FilesInv, NewRowsApart
      <4> QED BY <2>1, <2>2, <3>1, <4>1, <4>2, <4>3, <4>4, <4>5 DEF NewRowsApart, Works
    <3>3. CASE ~photo'[p].inserting
      BY <2>1, <2>2, <3>3 DEF FilesInv, NewRowsApart, Works
    <3> QED BY <3>2, <3>3
  <2>7. BroughtAreNew'
    BY <2>1, <2>2 DEF FilesInv, BroughtAreNew, Known, Works, Brings
  <2>8. RowsApart' /\ Held' = Held /\ Held' \subseteq files'
    BY <2>1 DEF FilesInv, RowsApart, Held
  <2>9. UnheldAreOwed'
    <3> SUFFICES ASSUME NEW c \in files'
                 PROVE  c \in Held \/ c \in excused \/ \E q \in PhotoRequest : Owes(q, c)'
      BY <2>1, <2>8 DEF UnheldAreOwed
    <3>1. CASE c = photo[p].content
      BY <2>2, <2>3, <3>1 DEF Owes
    <3>2. CASE c # photo[p].content
      <4>1. \A q \in PhotoRequest : Owes(q, c) => Owes(q, c)'
        BY <1>2, <2>2 DEF Owes, Works, Brings
      <4> QED BY <2>1, <3>2, <4>1 DEF FilesInv, UnheldAreOwed
    <3> QED BY <3>1, <3>2
  <2> QED BY <2>5, <2>6, <2>7, <2>8, <2>9 DEF FilesInv
<1> QED BY <1>3, <1>4

LEMMA OwesLeaves ==
    ASSUME ImagesTypeOK, HoldsInv, NEW p \in PhotoRequest, NEW c, Owes(p, c)
    PROVE  c \in Leaves(p)
<1>1. Works(p) /\ photo[p] \in PhotoRecord
  BY DEF Owes, Works, ImagesTypeOK
<1>2. CASE Brings(p) /\ c = photo[p].content
  <2>1. \/ photo[p].at = "write" /\ photo[p].does # "delete"
        \/ photo[p].at = "coins" /\ photo[p].inserting
    BY <1>1, <1>2 DEF Brings, HoldsInv, StepsFit
  <2> QED BY <1>1, <1>2, <2>1 DEF Leaves, At, Works
<1>3. CASE photo[p].at \in {"committed", "remove"} /\ c = photo[p].drops
  BY <1>1, <1>3 DEF Leaves, At, Works
<1> QED BY <1>2, <1>3 DEF Owes

LEMMA FilesGivenUp ==
    ASSUME ImagesTypeOK, HoldsInv, FilesInv, NEW p \in PhotoRequest,
           CommitRefused(p) \/ Dies(p)
    PROVE  FilesInv'
<1>1. Ends(p) /\ UNCHANGED <<images, inserts, files>> /\ excused \subseteq excused'
  BY DEF CommitRefused, Dies
<1>2. ASSUME NEW c \in files, Owes(p, c)
      PROVE  c \in Held \/ c \in excused'
  <2>1. CASE Dies(p)
    BY <1>2, <2>1, OwesLeaves DEF Dies
  <2>2. CASE CommitRefused(p)
    <3>1. photo[p].at = "write" /\ ~photo[p].inserting
      BY <2>2 DEF CommitRefused, At, Gone
    <3>2. photo[p].does = "enlarge" /\ c = photo[p].content
      BY <1>2, <3>1 DEF Owes, Brings
    <3> QED BY <2>2, <3>2 DEF CommitRefused
  <2> QED BY <2>1, <2>2
<1> QED BY <1>1, <1>2, FilesEnd

LEMMA FilesRemoved ==
    ASSUME ImagesTypeOK, HoldsInv, FilesInv, NEW p \in PhotoRequest, RemoveUnheld(p)
    PROVE  FilesInv'
<1> DEFINE d == photo[p].drops
<1>1. Works(p) /\ photo[p].at = "remove" /\ Ends(p) /\ UNCHANGED <<images, inserts>>
      /\ OthersKeep(p) /\ photo'[p] = NoPhoto
  BY EndsKeeps DEF RemoveUnheld, At, Works
<1>2. d \in Content /\ contentOf[d] = p /\ ~Brings(p)
  BY <1>1 DEF HoldsInv, StepsFit, ContentsAreHeld, Brings
<1>3. /\ files' \subseteq files /\ \A c \in files : c # d => c \in files'
      /\ d \in files' => Known(d) # {} \/ d \notin files
      /\ d \in files /\ d \notin files' => Known(d) = {}
      /\ excused' = excused \cap files'
  BY DEF RemoveUnheld, StillHeld
<1> HIDE DEF d
<1>4. RoomIsKept'
  <2>1. ToInsert' \subseteq ToInsert
    BY <1>1 DEF ToInsert, Doing, OthersKeep
  <2> QED BY <1>1, <2>1, FewerToInsert DEF FilesInv, ImagesTypeOK
<1>5. NewRowsApart'
  BY <1>1 DEF FilesInv, NewRowsApart, OthersKeep, Works
<1>6. RowsApart' /\ Held' = Held
  BY <1>1 DEF FilesInv, RowsApart, Held
<1>7. BroughtAreNew'
  <2> SUFFICES ASSUME NEW q \in PhotoRequest, Works(q)', Brings(q)'
               PROVE  (photo[q].content \in files /\ Known(photo[q].content) = {})'
    BY DEF BroughtAreNew
  <2>1. q # p /\ Brought(q) /\ photo'[q] = photo[q]
    BY <1>1 DEF OthersKeep, Works, Brings, Brought
  <2>2. contentOf[photo[q].content] = q
    BY <2>1, BroughtIsHeld
  <2>3. photo[q].content \in files /\ Known(photo[q].content) = {}
    BY <2>1 DEF Brought, FilesInv, BroughtAreNew
  <2> QED BY <1>1, <1>2, <1>3, <2>1, <2>2, <2>3 DEF Known
<1>8. Held \subseteq files'
  <2> SUFFICES ASSUME NEW c \in Held, c \notin files'
               PROVE  FALSE
    OBVIOUS
  <2>1. c \in files
    BY DEF FilesInv
  <2>2. c = d /\ Known(d) = {}
    BY <1>3, <2>1
  <2> QED BY <2>2 DEF Known, Held
<1>9. UnheldAreOwed'
  <2> SUFFICES ASSUME NEW c \in files'
               PROVE  c \in Held \/ c \in excused' \/ \E q \in PhotoRequest : Owes(q, c)'
    BY <1>6 DEF UnheldAreOwed
  <2>1. \A q \in PhotoRequest : q # p /\ Owes(q, c) => Owes(q, c)'
    BY <1>1 DEF Owes, Works, Brings, OthersKeep
  <2>2. CASE Owes(p, c)
    <3>1. c = d
      BY <1>2, <2>2 DEF Owes, d
    <3>2. PICK id \in ImageId : images[id] = d
      BY <1>3, <3>1 DEF Known
    <3> QED BY <1>2, <3>1, <3>2, NobodyIsNoPhoto, HeldIs
  <2>3. CASE ~Owes(p, c)
    BY <1>3, <2>1, <2>3 DEF FilesInv, UnheldAreOwed
  <2> QED BY <2>2, <2>3
<1> QED BY <1>4, <1>5, <1>6, <1>7, <1>8, <1>9 DEF FilesInv

\* A row's content is put in place of another, or of none.
LEMMA RowWritten ==
    ASSUME ImagesTypeOK, HoldsInv, FilesInv, NEW p \in PhotoRequest, Brought(p),
           images' = [images EXCEPT ![photo[p].id] = photo[p].content],
           OthersKeep(p), UNCHANGED <<inserts, files>>,
           \/ photo'[p] = NoPhoto
           \/ photo'[p].at = "committed" /\ ~photo'[p].inserting /\ photo'[p].does = "enlarge",
           photo[p].inserting \/ images[photo[p].id] # NoContent,
           excused' = excused \ {photo[p].content},
           \A f \in Content : images[photo[p].id] = f => Owes(p, f)'
    PROVE  FilesInv'
<1>1. PICK id \in ImageId, c \in Content :
          /\ id = photo[p].id /\ c = photo[p].content /\ c # NoContent /\ contentOf[c] = p
          /\ images'[id] = c /\ \A i \in ImageId : i # id => images'[i] = images[i]
  BY BroughtIsHeld, NobodyIsNoPhoto DEF ImagesTypeOK
<1>2. c \in files /\ Known(c) = {} /\ Works(p)
  BY <1>1 DEF FilesInv, BroughtAreNew, Brought
<1>3. \A q \in PhotoRequest : q # p => photo'[q] = photo[q]
  BY DEF OthersKeep
<1>4. ~(Works(p)' /\ photo'[p].inserting) /\ ~Brought(p)'
  BY DEF Brought, Brings, Works
<1>5. RoomIsKept'
  <2>1. ToInsert' \subseteq ToInsert
    BY <1>3, <1>4 DEF ToInsert, Doing, Works
  <2> QED BY <2>1, FewerToInsert DEF FilesInv, ImagesTypeOK
<1>6. NewRowsApart'
  <2>1. id <= inserts
    BY <1>1, <1>2 DEF FilesInv, NewRowsApart
  <2>2. ASSUME NEW q \in PhotoRequest, q # p, Works(q), photo[q].inserting
        PROVE  photo[q].id \in ImageId /\ photo[q].id # id /\ images[photo[q].id] = NoContent
    <3>1. photo[q].id \in ImageId
      BY <2>2 DEF HoldsInv, StepsFit
    <3>2. images[photo[q].id] = NoContent
      BY <2>2 DEF FilesInv, NewRowsApart
    <3>3. photo[p].inserting => photo[q].id # id
      BY <1>1, <1>2, <2>2 DEF FilesInv, NewRowsApart
    <3> QED BY <1>1, <3>1, <3>2, <3>3
  <2>3. \A q \in PhotoRequest : Works(q)' /\ photo'[q].inserting =>
            q # p /\ photo'[q] = photo[q] /\ Works(q) /\ photo[q].inserting
    BY <1>3, <1>4 DEF Works
  <2>4. \A q \in PhotoRequest : Works(q)' /\ photo'[q].inserting =>
            /\ images'[photo'[q].id] = NoContent /\ photo'[q].id <= inserts
            /\ \A r \in PhotoRequest \ {q} : Works(r)' /\ photo'[r].inserting =>
                   photo'[r].id # photo'[q].id
    BY <1>1, <2>2, <2>3 DEF FilesInv, NewRowsApart
  <2>5. \A i \in ImageId : images'[i] # NoContent => i <= inserts
    BY <1>1, <2>1 DEF FilesInv, NewRowsApart
  <2> QED BY <2>4, <2>5 DEF NewRowsApart
<1>7. BroughtAreNew'
  <2> SUFFICES ASSUME NEW q \in PhotoRequest, Works(q)', Brings(q)'
               PROVE  (photo[q].content \in files /\ Known(photo[q].content) = {})'
    BY DEF BroughtAreNew
  <2>1. q # p /\ Brought(q) /\ photo'[q] = photo[q]
    BY <1>3, <1>4 DEF Works, Brings, Brought
  <2>2. photo[q].content # c
    BY <1>1, <2>1, BroughtIsHeld
  <2>3. photo[q].content \in files /\ Known(photo[q].content) = {}
    BY <2>1 DEF Brought, FilesInv, BroughtAreNew
  <2> QED BY <1>1, <2>1, <2>2, <2>3 DEF Known
<1>8. RowsApart'
  <2>1. \A i \in ImageId : images[i] # c
    BY <1>2 DEF Known
  <2> QED BY <1>1, <2>1 DEF FilesInv, RowsApart
<1>9. Held' \subseteq Held \cup {c} /\ c \in Held'
  BY <1>1 DEF Held
<1>10. UnheldAreOwed'
  <2> SUFFICES ASSUME NEW f \in files
               PROVE  f \in Held' \/ f \in excused' \/ \E q \in PhotoRequest : Owes(q, f)'
    BY DEF UnheldAreOwed
  <2>1. CASE f = c
    BY <1>9, <2>1
  <2>2. CASE f # c /\ f \in Held
    <3>1. PICK i \in ImageId : images[i] = f
      BY <2>2 DEF Held
    <3>2. CASE i = id
      <4>1. Owes(p, f)'
        BY <1>1, <3>1, <3>2 DEF ImagesTypeOK
      <4> QED BY <4>1
    <3>3. CASE i # id
      BY <1>1, <2>2, <3>1, <3>3 DEF Held
    <3> QED BY <3>2, <3>3
  <2>3. CASE f # c /\ f \in excused
    BY <1>1, <2>3
  <2>4. CASE f # c /\ \E q \in PhotoRequest : Owes(q, f)
    <3>1. PICK q \in PhotoRequest : Owes(q, f)
      BY <2>4
    <3>2. q # p
      <4>1. ~(photo[p].at \in {"committed", "remove"})
        BY BroughtIsHeld
      <4> QED BY <1>1, <2>4, <3>1, <4>1 DEF Owes
    <3>3. Owes(q, f)'
      BY <1>3, <3>1, <3>2 DEF Owes, Works, Brings
    <3> QED BY <3>3
  <2> QED BY <2>1, <2>2, <2>3, <2>4 DEF FilesInv, UnheldAreOwed
<1> QED BY <1>2, <1>5, <1>6, <1>7, <1>8, <1>9, <1>10 DEF FilesInv

LEMMA FilesUploaded ==
    ASSUME ImagesTypeOK, HoldsInv, FilesInv, NEW p \in PhotoRequest, CommitUpload(p)
    PROVE  FilesInv'
<1>1. Works(p) /\ photo[p].at = "write" /\ photo[p].does # "enlarge" /\ photo[p] \in PhotoRecord
      /\ Ends(p) /\ OthersKeep(p) /\ photo'[p] = NoPhoto /\ UNCHANGED <<inserts, files>>
  BY EndsKeeps DEF CommitUpload, At, Works, ImagesTypeOK
<1>2. CASE photo[p].inserting
  <2>1. Brought(p) /\ images[photo[p].id] = NoContent
    BY <1>1, <1>2 DEF Brought, Brings, FilesInv, NewRowsApart
  <2>2. images' = [images EXCEPT ![photo[p].id] = photo[p].content]
        /\ excused' = excused \ {photo[p].content}
    BY <1>2 DEF CommitUpload
  <2> QED BY <1>1, <1>2, <2>1, <2>2, NobodyIsNoPhoto, RowWritten
<1>3. CASE ~photo[p].inserting
  <2>1. images' = images /\ excused' = excused
    BY <1>3 DEF CommitUpload, ImagesTypeOK
  <2>2. \A c : ~Owes(p, c)
    BY <1>1, <1>3 DEF Owes, Brings
  <2> QED BY <1>1, <2>1, <2>2, FilesEnd
<1> QED BY <1>2, <1>3

LEMMA FilesEnlarged ==
    ASSUME ImagesTypeOK, HoldsInv, FilesInv, NEW p \in PhotoRequest, CommitEnlarge(p)
    PROVE  FilesInv'
<1>1. Works(p) /\ photo[p].at = "write" /\ photo[p].does = "enlarge"
  BY DEF CommitEnlarge, At, Works
<1>2. photo[p].id \in ImageId /\ ~photo[p].inserting /\ Brought(p)
  BY <1>1 DEF HoldsInv, StepsFit, Brought, Brings
<1>3. PICK d \in Content : d = images[photo[p].id] /\ Commits(p, d)
  BY <1>2 DEF CommitEnlarge, Gone, ImagesTypeOK
<1>4. /\ GoesOn(p) /\ UNCHANGED <<inserts, files>> /\ photo'[p].at = "committed"
      /\ photo'[p].drops = d /\ photo'[p].inserting = photo[p].inserting
  BY <1>1, <1>3, CommitsKeeps
<1>5. Owes(p, d)'
  BY <1>4 DEF Owes, Works, GoesOn
<1>6. images' = [images EXCEPT ![photo[p].id] = photo[p].content]
      /\ excused' = excused \ {photo[p].content}
  BY DEF CommitEnlarge
<1>7. OthersKeep(p) /\ photo'[p].does = "enlarge" /\ ~photo'[p].inserting
  BY <1>1, <1>2, <1>4 DEF GoesOn
<1> QED BY <1>2, <1>3, <1>4, <1>5, <1>6, <1>7, NobodyIsNoPhoto, RowWritten

LEMMA FilesDeleted ==
    ASSUME ImagesTypeOK, HoldsInv, FilesInv, NEW p \in PhotoRequest, CommitDelete(p)
    PROVE  FilesInv'
<1>1. Works(p) /\ photo[p].at = "write" /\ photo[p].does = "delete"
      /\ photo[p].content \in Content
  BY DEF CommitDelete, At, Works, ImagesTypeOK, PhotoRecord
<1>2. PICK id \in ImageId :
          /\ id = photo[p].id /\ images'[id] = NoContent
          /\ \A i \in ImageId : i # id => images'[i] = images[i]
          /\ excused' = excused \cup ({images[id]} \ {NoContent, photo[p].content})
  BY <1>1 DEF CommitDelete, HoldsInv, StepsFit, ImagesTypeOK
<1>3. /\ GoesOn(p) /\ UNCHANGED <<inserts, files>> /\ photo'[p].at = "committed"
      /\ photo'[p].drops = photo[p].content /\ photo'[p].inserting = photo[p].inserting
      /\ photo'[p].does = "delete"
  BY <1>1, CommitsKeeps DEF CommitDelete, GoesOn
<1>4. \A q \in PhotoRequest : q # p => photo'[q] = photo[q]
  BY <1>3 DEF GoesOn, OthersKeep
<1>5. ~photo[p].inserting /\ ~photo'[p].inserting
  BY <1>1, <1>3 DEF HoldsInv, StepsFit
<1>6. RoomIsKept'
  <2>1. ToInsert' \subseteq ToInsert
    BY <1>3, <1>4 DEF ToInsert, Doing
  <2> QED BY <1>3, <2>1, FewerToInsert DEF FilesInv, ImagesTypeOK
<1>7. NewRowsApart'
  <2>1. \A q \in PhotoRequest : Works(q)' /\ photo'[q].inserting =>
            q # p /\ photo'[q] = photo[q] /\ Works(q) /\ photo[q].inserting
    BY <1>4, <1>5 DEF Works
  <2>2. ASSUME NEW q \in PhotoRequest, Works(q), photo[q].inserting
        PROVE  images'[photo[q].id] = NoContent
    <3>1. photo[q].id \in ImageId
      BY <2>2 DEF HoldsInv, StepsFit
    <3> QED BY <1>2, <2>2, <3>1 DEF FilesInv, NewRowsApart
  <2> QED BY <1>2, <1>3, <2>1, <2>2 DEF FilesInv, NewRowsApart
<1>8. BroughtAreNew'
  <2> SUFFICES ASSUME NEW q \in PhotoRequest, Works(q)', Brings(q)'
               PROVE  (photo[q].content \in files /\ Known(photo[q].content) = {})'
    BY DEF BroughtAreNew
  <2>1. q # p /\ Works(q) /\ Brings(q) /\ photo'[q] = photo[q]
    BY <1>3, <1>4, <1>5 DEF Works, Brings
  <2>2. photo[q].content \in files /\ Known(photo[q].content) = {}
        /\ photo[q].content # NoContent
    BY <2>1, NobodyIsNoPhoto DEF FilesInv, BroughtAreNew, ImagesTypeOK
  <2> QED BY <1>2, <1>3, <2>1, <2>2 DEF Known
<1>9. RowsApart' /\ Held' \subseteq Held
  BY <1>2 DEF FilesInv, RowsApart, Held
<1>10. UnheldAreOwed'
  <2> SUFFICES ASSUME NEW f \in files
               PROVE  f \in Held' \/ f \in excused' \/ \E q \in PhotoRequest : Owes(q, f)'
    BY <1>3 DEF UnheldAreOwed
  <2>1. CASE f \in Held
    <3>1. PICK i \in ImageId : images[i] = f /\ f # NoContent
      BY <2>1 DEF Held
    <3>2. CASE i # id
      BY <1>2, <3>1, <3>2 DEF Held
    <3>3. CASE i = id /\ f = photo[p].content
      <4>1. Owes(p, f)'
        BY <1>3, <3>3 DEF Owes, Works, GoesOn
      <4> QED BY <4>1
    <3>4. CASE i = id /\ f # photo[p].content
      BY <1>2, <3>1, <3>4
    <3> QED BY <3>2, <3>3, <3>4
  <2>2. CASE f \in excused
    BY <1>2, <2>2
  <2>3. CASE \E q \in PhotoRequest : Owes(q, f)
    <3>1. PICK q \in PhotoRequest : Owes(q, f)
      BY <2>3
    <3>2. q # p
      BY <1>1, <1>5, <3>1 DEF Owes, Brings
    <3>3. Owes(q, f)'
      BY <1>4, <3>1, <3>2 DEF Owes, Works, Brings
    <3> QED BY <3>3
  <2> QED BY <2>1, <2>2, <2>3 DEF FilesInv, UnheldAreOwed
<1> QED BY <1>3, <1>6, <1>7, <1>8, <1>9, <1>10 DEF FilesInv

-----------------------------------------------------------------------------
(* Every step keeps the invariant.                                         *)

ImagesInv == ImagesTypeOK /\ HoldsInv /\ FilesInv

LEMMA ImagesInvStep ==
    ASSUME ImagesInv, [ImagesNext]_imageVars
    PROVE  ImagesInv'
<1>1. ImagesTypeOK /\ HoldsInv /\ FilesInv /\ StepsFit
  BY DEF ImagesInv, HoldsInv
<1>2. ImagesTypeOK'
  BY <1>1, ImagesTypeStep
<1>3. CASE UNCHANGED imageVars
  <2>1. HoldsInv'
    BY <1>1, <1>3 DEF imageVars, HoldsInv, StepsFit, ContentsAreHeld, CoinsAreHeld, Works, At,
                      UnheldCoins
  <2>2. NewRowsApart' /\ RoomIsKept' /\ BroughtAreNew' /\ RowsApart'
    BY <1>1, <1>3 DEF imageVars, FilesInv, NewRowsApart, RoomIsKept, ToInsert, Doing,
                      BroughtAreNew, Brings, Known, Works, RowsApart
  <2>3. Held' \subseteq files' /\ UnheldAreOwed'
    BY <1>1, <1>3 DEF imageVars, FilesInv, UnheldAreOwed, Held, Owes, Works, Brings
  <2> QED BY <1>2, <2>1, <2>2, <2>3 DEF ImagesInv, FilesInv
<1>4. ASSUME NEW p \in PhotoRequest, PhotoStarts(p)
      PROVE  HoldsInv' /\ FilesInv'
  <2>1. PICK does \in {"upload", "import", "delete", "enlarge"}, id \in Nat,
             c \in Content, coins \in SUBSET Coin :
                /\ Starts(p, does, id, c, coins)
                /\ does \in {"delete", "enlarge"} => id \in ImageId
                /\ does \in {"upload", "import"} => HasRoomForImage
    BY <1>1, <1>4, PhotoStartsDoes
  <2>2. /\ OthersKeep(p) /\ photo[p] = NoPhoto /\ photo'[p] # NoPhoto
        /\ photo'[p].does = does /\ photo'[p].at = HoldsFirst(does) /\ photo'[p].id = id
        /\ ~photo'[p].inserting
        /\ UNCHANGED <<images, inserts, files, contentOf, coinOf, excused>>
    BY <1>1, <2>1, StartsKeeps
  <2>3. HoldsInv'
    BY <1>1, <2>1, <2>2, HoldsStart
  <2>4. FilesInv'
    BY <1>1, <2>1, <2>2, FilesStart
  <2> QED BY <2>3, <2>4
<1>5. ASSUME NEW p \in PhotoRequest, HoldCoins(p) \/ HoldContent(p)
      PROVE  HoldsInv' /\ FilesInv'
  BY <1>1, <1>5, HoldsCoins, HoldsContent, FilesWaiting
<1>6. ASSUME NEW p \in PhotoRequest, PutFiles(p) \/ AnswerWithRow(p)
      PROVE  HoldsInv' /\ FilesInv'
  <2>1. FilesInv'
    BY <1>1, <1>6, FilesLooked
  <2>2. CASE Ends(p)
    BY <1>1, <2>1, <2>2, HoldsEnd
  <2>3. CASE ~Ends(p) /\ PutFiles(p) /\ photo[p].does # "enlarge"
    <3>1. p \in ToInsert
      BY <1>1, <2>3, PutFilesDoes DEF ToInsert, Doing, StepsFit, Works
    <3>2. inserts + 1 \in ImageId
      BY <1>1, <3>1, RoomForOne DEF FilesInv
    <3> QED BY <1>1, <2>1, <2>3, <3>2, HoldsLooked
  <2>4. CASE ~Ends(p) /\ (AnswerWithRow(p) \/ (PutFiles(p) /\ photo[p].does = "enlarge"))
    BY <1>1, <2>1, <2>4, HoldsLooked
  <2> QED BY <1>6, <2>2, <2>3, <2>4
<1>7. ASSUME NEW p \in PhotoRequest, CommitUpload(p)
      PROVE  HoldsInv' /\ FilesInv'
  <2>1. Ends(p)
    BY <1>7 DEF CommitUpload
  <2> QED BY <1>1, <1>7, <2>1, HoldsEnd, FilesUploaded
<1>8. ASSUME NEW p \in PhotoRequest, CommitRefused(p) \/ Dies(p) \/ RemoveUnheld(p)
      PROVE  HoldsInv' /\ FilesInv'
  <2>1. Ends(p)
    BY <1>8 DEF CommitRefused, Dies, RemoveUnheld
  <2> QED BY <1>1, <1>8, <2>1, HoldsEnd, FilesGivenUp, FilesRemoved
<1>9. ASSUME NEW p \in PhotoRequest, CommitEnlarge(p)
      PROVE  HoldsInv' /\ FilesInv'
  <2>1. Works(p) /\ photo[p].at = "write" /\ photo[p].does = "enlarge"
    BY <1>9 DEF CommitEnlarge, At, Works
  <2>2. PICK d \in Content : Commits(p, d)
    BY <1>1, <1>9, <2>1 DEF StepsFit, CommitEnlarge, Gone, ImagesTypeOK
  <2> QED BY <1>1, <1>9, <2>1, <2>2, HoldsCommit, FilesEnlarged
<1>10. ASSUME NEW p \in PhotoRequest, CommitDelete(p)
       PROVE  HoldsInv' /\ FilesInv'
  <2>1. Works(p) /\ photo[p].at = "write" /\ photo[p].does = "delete"
        /\ photo[p].content \in Content /\ Commits(p, photo[p].content)
    BY <1>1, <1>10 DEF CommitDelete, At, Works, ImagesTypeOK, PhotoRecord
  <2> QED BY <1>1, <1>10, <2>1, HoldsCommit, FilesDeleted
<1> QED BY <1>2, <1>3, <1>4, <1>5, <1>6, <1>7, <1>8, <1>9, <1>10
        DEF ImagesNext, PhotoStep, ImagesInv

LEMMA ImagesInvInit ==
    ASSUME ImagesInit
    PROVE  ImagesInv
<1>1. ImagesTypeOK
  BY DEF ImagesInit, ImagesTypeOK
<1>2. HoldsInv
  BY NobodyIsNoPhoto DEF ImagesInit, HoldsInv, StepsFit, ContentsAreHeld, CoinsAreHeld, Works
<1>3. RoomIsKept
  <2>1. ToInsert = {}
    BY DEF ImagesInit, ToInsert, Doing
  <2> QED BY <2>1, FS_EmptySet, ImageAssumption DEF ImagesInit, RoomIsKept
<1>4. NewRowsApart /\ BroughtAreNew /\ RowsApart /\ Held \subseteq files /\ UnheldAreOwed
  BY DEF ImagesInit, NewRowsApart, BroughtAreNew, RowsApart, Held, UnheldAreOwed, Works
<1> QED BY <1>1, <1>2, <1>3, <1>4 DEF ImagesInv, FilesInv

LEMMA ImportsAloneStep ==
    ASSUME ~ImportOverlaps, ImagesInv, ImportsAlone, [ImagesNext]_imageVars
    PROVE  ImportsAlone'
<1>1. ImagesTypeOK /\ HoldsInv /\ StepsFit
  BY DEF ImagesInv, HoldsInv
<1>2. ASSUME \A q \in PhotoRequest : Works(q)' => Works(q) /\ photo'[q].does = photo[q].does
      PROVE  ImportsAlone'
  BY <1>2 DEF ImportsAlone
<1>3. ASSUME NEW p \in PhotoRequest, PhotoStarts(p)
      PROVE  ImportsAlone'
  <2>1. PICK does \in {"upload", "import", "delete", "enlarge"}, id \in Nat,
             c \in Content, coins \in SUBSET Coin : Starts(p, does, id, c, coins)
    BY <1>1, <1>3, PhotoStartsDoes
  <2>2. OthersKeep(p) /\ photo'[p].does = does
    BY <1>1, <2>1, StartsKeeps
  <2>3. Doing({"import"}) = {} /\ (does = "import" => Doing({"upload", "delete", "enlarge"}) = {})
    BY <2>1 DEF Starts, MayOverlap
  <2>4. \A q \in PhotoRequest : Works(q) =>
            photo[q].does \in {"upload", "delete", "enlarge"} /\ does # "import"
    BY <1>1, <2>3 DEF Doing, Works, ImagesTypeOK, PhotoRecord
  <2> QED BY <2>2, <2>4 DEF ImportsAlone, OthersKeep, Works
<1>4. ASSUME NEW p \in PhotoRequest, PhotoStep(p) \/ Dies(p)
      PROVE  \/ Ends(p)
             \/ OthersKeep(p) /\ Works(p) /\ photo'[p].does = photo[p].does
  <2>1. CASE HoldCoins(p) \/ HoldContent(p) \/ PutFiles(p) \/ AnswerWithRow(p)
    <3>1. HoldCoins(p) => Works(p) /\ OthersKeep(p) /\ photo'[p].does = photo[p].does
      BY <1>1, HoldCoinsDoes DEF MovedTo, OthersKeep
    <3> QED BY <1>1, <2>1, <3>1, HoldContentDoes, PutFilesDoes, AnswerDoes DEF MovedTo, GoesOn
  <2>2. CASE CommitUpload(p) \/ CommitRefused(p) \/ RemoveUnheld(p) \/ Dies(p)
    BY <2>2 DEF CommitUpload, CommitRefused, RemoveUnheld, Dies
  <2>3. CASE CommitEnlarge(p)
    <3>1. Works(p)
      BY <2>3 DEF CommitEnlarge, At, Works
    <3>2. PICK d \in Content : Commits(p, d)
      BY <1>1, <2>3, <3>1 DEF StepsFit, CommitEnlarge, Gone, ImagesTypeOK, At
    <3> QED BY <1>1, <3>1, <3>2, CommitsKeeps DEF GoesOn
  <2>4. CASE CommitDelete(p)
    <3>1. Works(p) /\ photo[p].content \in Content /\ Commits(p, photo[p].content)
      BY <1>1, <2>4 DEF CommitDelete, At, Works, ImagesTypeOK, PhotoRecord
    <3> QED BY <1>1, <3>1, CommitsKeeps DEF GoesOn
  <2> QED BY <1>4, <2>1, <2>2, <2>3, <2>4 DEF PhotoStep
<1>5. ASSUME NEW p \in PhotoRequest, PhotoStep(p) \/ Dies(p)
      PROVE  ImportsAlone'
  BY <1>1, <1>2, <1>4, <1>5, EndsKeeps DEF OthersKeep, Works
<1>6. CASE UNCHANGED imageVars
  BY <1>6 DEF imageVars, ImportsAlone, Works
<1> QED BY <1>3, <1>5, <1>6 DEF ImagesNext

-----------------------------------------------------------------------------
(* What follows from it.                                                   *)

LEMMA RowsHaveFiles ==
    ASSUME ImagesInv
    PROVE  RowsHaveTheirFiles
<1>1. ASSUME NEW c \in Content
      PROVE  Cardinality(Known(c)) <= 1
  <2>1. CASE Known(c) = {}
    BY <2>1, FS_EmptySet
  <2>2. CASE Known(c) # {}
    <3>1. PICK id \in Known(c) : TRUE
      BY <2>2
    <3>2. Known(c) = {id}
      BY <3>1, NobodyIsNoPhoto DEF Known, ImagesInv, FilesInv, RowsApart
    <3> QED BY <3>2, FS_Singleton
  <2> QED BY <2>1, <2>2
<1> QED BY <1>1 DEF RowsHaveTheirFiles, ImagesInv, FilesInv

LEMMA FilesAreOwed ==
    ASSUME ImagesInv
    PROVE  NothingLeftBehind
BY OwesLeaves DEF ImagesInv, FilesInv, UnheldAreOwed, NothingLeftBehind

\* In a circle everybody waits for an item, the one whose item is the greatest too:
\* who holds that one waits for a greater.
LEMMA NoCircle ==
    ASSUME ImagesInv, ImportsAlone
    PROVE  NobodyWaitsInACircle
<1> SUFFICES ASSUME NEW S \in SUBSET PhotoRequest, S # {},
                    \A p \in S : WaitsFor(p) \cap S # {}
             PROVE  FALSE
  BY DEF NobodyWaitsInACircle
<1>1. ImagesTypeOK /\ StepsFit /\ ContentsAreHeld /\ CoinsAreHeld
  BY DEF ImagesInv, HoldsInv
<1>2. ASSUME NEW p \in S
      PROVE  /\ Works(p) /\ photo[p].at \in {"coins", "content", "committed"}
             /\ photo[p].at = "coins" => UnheldCoins(p) # {} /\ coinOf[NextCoin(p)] \in S
             /\ photo[p].at = "content" => contentOf[photo[p].content] \in S \ {p}
             /\ photo[p].at = "committed" => contentOf[photo[p].drops] \in S \ {p}
  BY <1>2 DEF WaitsFor, At, Works
<1>3. ASSUME NEW p \in S, NEW c \in Content, contentOf[c] \in S \ {p}
      PROVE  FALSE
  <2>1. PICK q \in S : q # p /\ contentOf[c] = q
    BY <1>3
  <2>2. photo[q].does = "import"
    BY <1>1, <1>2, <2>1 DEF ContentsAreHeld
  <2> QED BY <1>2, <2>1, <2>2 DEF ImportsAlone
<1>4. ASSUME NEW p \in S
      PROVE  At(p, "coins") /\ UnheldCoins(p) # {} /\ coinOf[NextCoin(p)] \in S
             /\ NextCoin(p) \in Coin /\ NextCoin(p) \in UnheldCoins(p)
  <2>1. photo[p].content \in Content
    BY <1>1, <1>2 DEF ImagesTypeOK, Works, PhotoRecord
  <2>2. photo[p].at = "committed" => photo[p].drops \in Content
    BY <1>1, <1>2 DEF StepsFit
  <2>3. photo[p].at = "coins"
    BY <1>2, <1>3, <2>1, <2>2
  <2> QED BY <1>1, <1>2, <2>3, NextCoinIsLeast DEF At, Works
<1> DEFINE T == {NextCoin(p) : p \in S}
<1>5. T \in SUBSET Nat /\ T # {} /\ IsFiniteSet(T)
  <2>1. T \subseteq Coin /\ T # {}
    BY <1>4
  <2> QED BY <2>1, FinitePhotos, ImageAssumption, FS_Subset
<1>6. PICK m \in T : \A n \in T : n <= m
  BY <1>5, GreatestOf
<1>7. PICK p \in S, q \in S : m = NextCoin(p) /\ coinOf[m] = q
  BY <1>4, <1>6
<1>8. m < NextCoin(q)
  BY <1>1, <1>4, <1>7 DEF CoinsAreHeld
<1>9. NextCoin(q) <= m /\ m \in Nat /\ NextCoin(q) \in Nat
  BY <1>5, <1>6
<1> QED BY <1>8, <1>9

\* Files follow rows: a stored picture's file is there, each picture has one row, what
\* no row names is owed or excused, and requests never wait in a circle (image_store.py,
\* image_links.py), while the library's import runs alone.
THEOREM FilesFollowRowsHolds ==
    ASSUME ~ImportOverlaps
    PROVE  ImagesSpec => []FilesFollowRows
<1>1. ImagesInit => ImagesInv /\ ImportsAlone
  <2>1. ImagesInit => ImportsAlone
    BY DEF ImagesInit, ImportsAlone, Works
  <2> QED BY <2>1, ImagesInvInit
<1>2. ImagesInv /\ ImportsAlone /\ [ImagesNext]_imageVars => (ImagesInv /\ ImportsAlone)'
  BY ImagesInvStep, ImportsAloneStep
<1>3. ImagesInv /\ ImportsAlone => FilesFollowRows
  BY RowsHaveFiles, FilesAreOwed, NoCircle DEF FilesFollowRows
<1> QED BY <1>1, <1>2, <1>3, PTL DEF ImagesSpec

\* Whether imports overlap requests or not, rows have their files, and nothing is left.
THEOREM RowsKeepTheirFiles ==
    ImagesSpec => [](RowsHaveTheirFiles /\ NothingLeftBehind)
<1>1. ImagesInv /\ [ImagesNext]_imageVars => ImagesInv'
  BY ImagesInvStep
<1>2. ImagesInv => RowsHaveTheirFiles /\ NothingLeftBehind
  BY RowsHaveFiles, FilesAreOwed
<1> QED BY <1>1, <1>2, ImagesInvInit, PTL DEF ImagesSpec
==============================================================================
