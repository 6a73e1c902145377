CONSTANTS
    Catalogue <- MCCatalogue
    Variants <- MCSeeded
    MaxAccounts <- MCMaxAccounts
INIT Init
NEXT Next
INVARIANT PayloadShown
