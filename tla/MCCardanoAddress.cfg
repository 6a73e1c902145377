CONSTANTS
    XpubInputs <- MCXpubInputs
    HARDENED <- MCHardened
    U32Max <- MCU32Max
SPECIFICATION Spec
\* A behaviour builds one address and encodes it; then nothing is left to do.
CHECK_DEADLOCK FALSE
INVARIANTS
    SoftIndicesOnly
    HeaderMatchesPayload
