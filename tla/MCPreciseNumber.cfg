CONSTANTS
    ONE <- MCONE
    InnerMax <- MCInnerMax
    OuterMax <- MCOuterMax
    PRECISION <- MCPrecision
    MAX_APPROXIMATION_ITERATIONS <- MCIterations
    MaxExponent <- MCMaxExponent
    WideONE <- MCWideONE
    WideInnerMax <- MCWideInnerMax
    MaxExponentRaw <- MCMaxExponentRaw
    WideIterations <- MCWideIterations
    None = None
    Panic = Panic
SPECIFICATION Spec
\* A call returns and the library keeps no state: every behaviour ends.
CHECK_DEADLOCK FALSE
INVARIANTS
    TypeOK
    CeilDivCorrect
    NewRoundTrip
    MulDivRoundTrip
    PowMatchesReference
    SqrtAccurate
    PowFractionBetween
