SPECIFICATION FairSpec
CONSTANTS
    Channels = 2
    SnapMap <- TwoSnaps
    Architectures = {"amd64", "arm64"}
    MaxUploads = 2
    Stores <- InStoreOrNot
    Recipes <- AllOrOne
    MaxTrouble = 1
    Usns = {"one", "other"}
    Batches <- SameOrNot
INVARIANTS
    RoundInv
    ErrorsTurnRed
PROPERTIES
    RebuildsWhatIsOut
    StoreSettles
