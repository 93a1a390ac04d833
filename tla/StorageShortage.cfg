\* A new image meets a shortage of capacity: the next round reuses the old inspection.
SPECIFICATION SSpec
CHECK_DEADLOCK FALSE
CONSTANTS
    small = small
    large = large
    tag = tag
    digest = digest
    None = None
    Mib = 2
    Gib = 8
    MinRootfs = 2
    MaxRootfs = 8
    MinPersistent = 2
    Contents = {small, large}
    SizeOf <- Sizes
    Images = {tag, digest}
    Digests = {digest}
    Peers = {digest}
    MaxGen = 3
    Scenarios <- ShortOfCapacity
INVARIANT RunsItsImage
