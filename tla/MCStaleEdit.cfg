CONSTANTS
    i1 = i1
    i2 = i2
    k1 = k1
    l1 = l1
    l2 = l2
    l3 = l3
    l4 = l4
    o1 = o1
    o2 = o2
    Item = {i1, i2}
    Listing = {l1, l2, l3, l4}
    Lot = {k1}
    Order = {o1, o2}
    NoOne = NoOne
    OldListing <- NothingOld
    Platforms = {"store", "market"}
    Dispositions = {"held", "listed"}
    Statuses = {"cancelled"}
    Txn = {t1, t2}
    Scenarios <- AnEditedCoin
    Id <- Ids
SYMMETRY TxnSymmetry
SPECIFICATION LockSpec
INVARIANT OfferedIsInHand
