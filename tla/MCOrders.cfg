CONSTANTS
    Item = {i1, i2}
    Listing = {l1, l2, l3}
    Lot = {}
    Order = {o1, o2}
    NoOne = NoOne
    OldListing <- NothingOld
    Platforms = {"store", "house"}
    Dispositions = {"held"}
    Statuses = {"pending", "packed", "delivered", "cancelled", "refunded"}
SPECIFICATION Spec
SYMMETRY Symmetric
INVARIANTS
    TypeOK
    StockConserved
    NoDoubleSale
    OrderInv
