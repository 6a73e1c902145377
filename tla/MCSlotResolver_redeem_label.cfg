CONSTANTS
    Catalogue <- MCCatalogue
    Variants <- MCRedeem
    MaxAccounts <- MCMaxAccounts
INIT Init
NEXT Next
INVARIANT ErrorNamesFirstMissingField
