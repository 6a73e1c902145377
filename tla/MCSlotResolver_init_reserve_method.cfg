CONSTANTS
    Catalogue <- MCCatalogue
    Variants <- MCInitReserve
    MaxAccounts <- MCMaxAccounts
INIT Init
NEXT Next
INVARIANT ErrorNamesFirstMissingField
