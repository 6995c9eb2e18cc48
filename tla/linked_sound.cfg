SPECIFICATION Spec
CONSTANTS
    DiskSize = 8
    BLOCK_SIZE = 16
    FileLengths = {16, 17, 40}
    Extensions = {1, 2}
    Shrinkings = {1, 33, 97}
    MaxFiles = 4
INVARIANTS
    TypeOK
    LinksSound
    ChainsPartition
    AccessInChain
PROPERTIES
    StoreSpec
