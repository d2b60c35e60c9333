SPECIFICATION Spec
CONSTANTS
    Hubs = {1}
    Services = 2
    Manifests <- LateOnly
    MaxBoots = 1
INVARIANT NeedsFirst
CHECK_DEADLOCK FALSE
