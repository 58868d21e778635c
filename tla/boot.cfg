\* The sizes of the firmware.
SPECIFICATION Spec
CONSTANTS
    BlockSize = 64
    Blocks <- RealBlocks
    Bytes <- RealBytes
    Retries = 5
INVARIANTS PoolsConsistent StartsWhole AllOrNothing
CHECK_DEADLOCK FALSE
