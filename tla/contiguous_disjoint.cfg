SPECIFICATION Spec
CONSTANTS
    DiskSize = 6
    BLOCK_SIZE = 2
    FileLengths = {1, 4, 5}
    Amounts = {1, 2}
    MaxFiles = 4
INVARIANTS
    FilesDisjoint
