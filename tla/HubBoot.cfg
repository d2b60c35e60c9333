SPECIFICATION FairSpec
CONSTANTS
    Hubs = {1, 2}
    Services = 2
    Manifests <- SomeFeeds
    MaxBoots = 2
INVARIANTS TypeOK EachOnce FailsOnLateFeedOnly NeverOnLateFeed Routed Complete
PROPERTY EveryHubStarts
CHECK_DEADLOCK FALSE
