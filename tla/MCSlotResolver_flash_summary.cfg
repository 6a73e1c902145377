CONSTANTS
    Catalogue <- MCCatalogue
    Variants <- MCLendingVariants
    MaxAccounts <- MCMaxAccounts
INIT Init
NEXT Next
INVARIANT SummaryOmitsInternals
