SPECIFICATION Spec
CONSTANTS
    MEM_MAX_RW_SZ = 16352
    CSWP_REQ_RSP_BUFFER_SIZE = 16384
    DEV0_MEM_MAX_BIN_SZ = 4096
    DEV1_MEM_MAX_BIN_SZ = 262144
    GET_MAX_SZ = 400
    Missing = {}
    Address = {4096}
    Size = {16351}
INVARIANT
    FillFits
