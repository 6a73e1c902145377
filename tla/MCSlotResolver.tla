--------------------------- MODULE MCSlotResolver ---------------------------
(* Model-checking instance of SlotResolver over the routines of both       *)
(* resolvers: token_lending.rs and system.rs.                              *)
EXTENDS SlotResolver, TokenLendingCatalogue, SystemCatalogue, TLC

MCCatalogue == LendingCatalogue @@ SystemRoutines

\* Every variant of both programs.
MCAllVariants == DOMAIN MCCatalogue
MCLendingVariants == DOMAIN LendingCatalogue

\* Longest list enumerated: InitReserve reads 17 slots; two more give a
\* non-empty trailing slice past FlashLoan's nine accounts and lists longer
\* than every routine needs.
MCMaxAccounts == 19

\* Variant sets of the runs that show a disagreement with the spec.
MCBorrow      == {"BorrowObligationLiquidity"}
MCRedeem      == {"RedeemReserveCollateral"}
MCInitReserve == {"InitReserve"}
MCRefresh     == {"RefreshReserve"}
MCSeeded      == {"AllocateWithSeed", "CreateAccountWithSeed"}
MCAssign      == {"Assign"}

=============================================================================
