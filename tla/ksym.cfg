\* Names and footprints: two addresses with the same low bits, at which either kernel
\* may lie; arguments in two adjacent blocks.
CONSTANTS
    Addresses = {1, 5}
    Names = {"foo", "bar"}
    Window = 4
    Gpu <- MCGpu
    MaxPending = 1
    Buffers = {"b1", "b2"}
    Declared <- MCDeclared
    ArgLists <- MCArgLists
    Fallback = 3
    Blocks = 2
    MaxJobs = 1
SPECIFICATION MemSpec
INVARIANTS NoFalseMatch HexOnlyWhenAmbiguous FootprintRight
CHECK_DEADLOCK FALSE
