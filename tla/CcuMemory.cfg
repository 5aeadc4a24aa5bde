SPECIFICATION Spec
CONSTANTS
    MEM_MAX_RW_SZ = 64
    CSWP_REQ_RSP_BUFFER_SIZE = 96
    DEV0_MEM_MAX_BIN_SZ = 76
    DEV1_MEM_MAX_BIN_SZ = 144
    GET_MAX_SZ = 40
    Missing = {3, 64}
    Address <- SomeAddresses
    Size <- SomeSizes
INVARIANTS
    SubreqsTile
    AccessAligned
    ReadsFit
PROPERTY
    ImplementsTransfer
