CONSTANTS
    Catalogue <- MCCatalogue
    Variants <- MCAssign
    MaxAccounts <- MCMaxAccounts
INIT Init
NEXT Next
INVARIANT ErrorNamesFirstMissingField
