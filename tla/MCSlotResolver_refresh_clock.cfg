CONSTANTS
    Catalogue <- MCCatalogue
    Variants <- MCRefresh
    MaxAccounts <- MCMaxAccounts
INIT Init
NEXT Next
INVARIANT AcceptsOnlyCompleteLists
