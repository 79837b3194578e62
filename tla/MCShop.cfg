CONSTANTS
    Item = {i1, i2}
    Listing = {l1, l2, l3}
    Lot = {k1}
    Order = {o1}
    NoOne = NoOne
    OldListing <- FirstOld
    Platforms = {"store", "house"}
    Dispositions = {"held", "listed"}
    Statuses = {"pending", "cancelled", "refunded"}
SPECIFICATION Spec
SYMMETRY SymmetricButOld
INVARIANTS
    OneOffer
    OfferedIsInHand
    ForSaleIsFiledListed
    OfferInv
PROPERTIES
    EndedIsFinal
    NoOrphanListed
    LotFateIsFinal
    KeepsPromises
