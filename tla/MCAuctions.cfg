CONSTANTS
    Item = {i1, i2}
    Listing = {l1, l2, l3}
    Lot = {k1, k2}
    Order = {o1, o2}
    NoOne = NoOne
    OldListing <- NothingOld
    Platforms = {"store"}
    Dispositions = {"held"}
    Statuses = {"packed"}
    Auction = {a1}
    Hosts = {"house", "market"}
    Name <- Spellings
    Key <- Keys
    NoBuyer = NoBuyer
    Bidders = {"CoinFan88", "coinfan88", ""}
SPECIFICATION AuctionSpec
SYMMETRY Symmetric
INVARIANTS
    LotsAreOnOffer
    NoCoinStranded
    SettledWhole
PROPERTY
    SettlementIsFinal
