CONSTANTS
    Catalogue <- MCCatalogue
    Variants <- MCBorrow
    MaxAccounts <- MCMaxAccounts
INIT Init
NEXT Next
INVARIANT ErrorNamesFirstMissingField
