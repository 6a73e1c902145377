CONSTANTS
    Catalogue <- MCCatalogue
    Variants <- MCAllVariants
    MaxAccounts <- MCMaxAccounts
SPECIFICATION Spec
INVARIANTS
    TypeOK
    CompleteListAccepted
    TrailingSlicePartition
