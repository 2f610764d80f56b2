SPECIFICATION Spec
CONSTANTS
    Uris <- AllUris
    Nodes = {"n1", "n2"}
    Reaches <- Answering
    Targets = {"n1"}
    Published <- PublishesFour
    MaxGen = 2
    Sources = {"builtin", "web"}
    Builtin = "builtin"
    Networks = {"net1", "net2"}
    Nil = "nil"
    NoList = "nolist"
    Serves <- ServesAll
    Policies <- OnePolicy
    Clients = {c1, c2}
    Adverts <- AdvertSets
    TooBig <- LongAdvert
    MaxInputs = 3
INVARIANTS TypeOK OneJumpPerTarget NoLoopAfterClose
PROPERTIES ListsFollowNetworks
CHECK_DEADLOCK FALSE
