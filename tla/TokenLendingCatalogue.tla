------------------------ MODULE TokenLendingCatalogue ------------------------
(***************************************************************************)
(* The routines of src/blockchains/solana/src/resolvers/token_lending.rs,  *)
(* one per LendingInstruction variant, as data for SlotResolver.           *)
(*                                                                         *)
(***************************************************************************)
EXTENDS Naturals, Sequences, ResolverRoutines

LendingRoutine(m, steps, payload, hide, fields) ==
    Routine("TokenLending", m, steps, payload, hide, fields)

Internals == {"lending_market_authority_pubkey", "user_transfer_authority_pubkey",
              "sysvar_clock", "token_program_id"}

-----------------------------------------------------------------------------
init_lending_market ==
    LendingRoutine("InitLendingMarket",
        [Gets(<<"lending_market_account", "sysvar_rent", "token_program_id",
                "oracle_program_id">>) EXCEPT ![2].label = "account"]
          \o <<Utf8("quote_currency")>>,
        Pay("owner"),
        {"sysvar_rent", "token_program_id", "oracle_program_id", "owner"},
        {"owner", "quote_currency"})

set_lending_market_owner ==
    LendingRoutine("SetLendingMarketOwner",
        Gets(<<"lending_market_account", "current_owner">>),
        Pay("new_owner"), {}, {"new_owner"})

\* method_name is "SetLendingMarketOwner" in this routine.
init_reserve ==
    LendingRoutine("SetLendingMarketOwner",
        Gets(<<"source_liquidity_account", "destination_collateral_account",
               "reserve_account", "reserve_liquidity_mint",
               "reserve_liquidity_supply_account", "reserve_liquidity_fee_receiver",
               "reserve_collateral_mint", "reserve_collateral_supply_pubkey",
               "pyth_product_account", "pyth_price_account", "lending_market_account",
               "lending_market_authority_pubkey", "lending_market_owner",
               "user_transfer_authority_pubkey", "sysvar_clock", "sysvar_rent",
               "token_program_id">>),
        [k \in {"liquidity_amount", "reserve_config"} |->
             IF k = "reserve_config" THEN "config" ELSE k],
        {"lending_market_authority_pubkey", "user_transfer_authority_pubkey",
         "sysvar_clock", "sysvar_rent", "token_program_id"},
        {"liquidity_amount", "config"})

\* sysvar_clock is read from slot 1, the slot of the oracle account.
refresh_reserve ==
    LendingRoutine("RefreshReserve",
        <<Get(0, "reserve_account", "reserve_account"),
          Get(1, "reserve_liquidity_oracle_account", "reserve_liquidity_oracle_account"),
          Get(1, "sysvar_clock", "sysvar_clock")>>,
        NoKeys, {"sysvar_clock"}, {})

deposit_reserve_liquidity ==
    LendingRoutine("DepositReserveLiquidity",
        Gets(<<"source_liquidity_account", "destination_collateral_account",
               "reserve_account", "reserve_liquidity_supply_account",
               "reserve_collateral_mint", "lending_market_account",
               "lending_market_authority_pubkey", "user_transfer_authority_pubkey",
               "sysvar_clock", "token_program_id">>),
        Pay("liquidity_amount"), Internals, {"liquidity_amount"})

\* The read of token_program_id reports the path "...sysvar_clock".
redeem_reserve_collateral ==
    LendingRoutine("RedeemReserveCollateral",
        [Gets(<<"source_collateral_account", "destination_liquidity_account",
                "reserve_account", "reserve_collateral_mint",
                "reserve_liquidity_supply_account", "lending_market_account",
                "lending_market_authority_pubkey", "user_transfer_authority_pubkey",
                "sysvar_clock", "token_program_id">>)
           EXCEPT ![10].label = "sysvar_clock"],
        Pay("collateral_amount"), Internals, {"collateral_amount"})

\* Mutant of init_obligation: token_program_id read from slot 6, not 5.
init_obligation_shifted ==
    LendingRoutine("InitObligation",
        [Gets(<<"obligation_account", "lending_market_account", "obligation_owner",
                "sysvar_clock", "sysvar_rent", "token_program_id">>) EXCEPT ![6].slot = 6],
        NoKeys, {"sysvar_clock", "sysvar_rent", "token_program_id"}, {})

init_obligation ==
    LendingRoutine("InitObligation",
        Gets(<<"obligation_account", "lending_market_account", "obligation_owner",
               "sysvar_clock", "sysvar_rent", "token_program_id">>),
        NoKeys, {"sysvar_clock", "sysvar_rent", "token_program_id"}, {})

refresh_obligation ==
    LendingRoutine("RefreshObligation",
        Gets(<<"obligation_account", "sysvar_clock">>) \o <<SliceFrom(2, "keys")>>,
        NoKeys, {"sysvar_clock", "keys"}, {})

deposit_obligation_collateral ==
    LendingRoutine("DepositObligationCollateral",
        Gets(<<"source_collateral_account", "destination_collateral_account",
               "deposit_reserve_pubkey", "obligation_account", "lending_market_account",
               "obligation_owner", "user_transfer_authority_pubkey", "sysvar_clock",
               "token_program_id">>),
        Pay("collateral_amount"), Internals, {"collateral_amount"})

\* Slot 2 is bound to withdraw_reserve_account but reports "deposit_reserve_pubkey".
withdraw_obligation_collateral ==
    LendingRoutine("WithdrawObligationCollateral",
        [Gets(<<"source_collateral_account", "destination_collateral_account",
                "withdraw_reserve_account", "obligation_account",
                "lending_market_account", "lending_market_authority_pubkey",
                "obligation_owner", "sysvar_clock", "token_program_id">>)
           EXCEPT ![3].label = "deposit_reserve_pubkey"],
        Pay("collateral_amount"), Internals, {"collateral_amount"})

\* sysvar_clock is read from slot 9 before token_program_id from slot 8;
\* the host fee receiver at slot 10 is optional.
borrow_obligation_liquidity ==
    LendingRoutine("BorrowObligationLiquidity",
        [Gets(<<"source_liquidity_account", "destination_liquidity_account",
                "borrow_reserve_account", "borrow_reserve_liquidity_fee_receiver_pubkey",
                "obligation_account", "lending_market_account",
                "lending_market_authority_pubkey", "obligation_owner",
                "sysvar_clock", "token_program_id">>)
           EXCEPT ![9].slot = 9, ![10].slot = 8]
          \o <<Opt(10, "host_fee_receiver")>>,
        Pay("liquidity_amount"), Internals, {"liquidity_amount"})

\* Slot 5 is bound to user_transfer_authority_pubkey but reports
\* "lending_market_authority_pubkey".
repay_obligation_liquidity ==
    LendingRoutine("RepayObligationLiquidity",
        [Gets(<<"source_liquidity_account", "destination_liquidity_account",
                "repay_reserve_account", "obligation_account", "lending_market_account",
                "user_transfer_authority_pubkey", "sysvar_clock", "token_program_id">>)
           EXCEPT ![6].label = "lending_market_authority_pubkey"],
        Pay("liquidity_amount"), Internals, {"liquidity_amount"})

\* destination_collateral_account is shown under "destination_liquidity_account".
liquidate_obligation ==
    [LendingRoutine("LiquidateObligation",
        Gets(<<"source_liquidity_account", "destination_collateral_account",
               "repay_reserve_account", "repay_reserve_liquidity_supply_pubkey",
               "withdraw_reserve_account", "withdraw_reserve_collateral_supply_pubkey",
               "obligation_account", "lending_market_account",
               "lending_market_authority_pubkey", "user_transfer_authority_pubkey",
               "sysvar_clock", "token_program_id">>),
        Pay("liquidity_amount"), Internals, {"liquidity_amount"})
     EXCEPT !.alias = [k \in {"destination_liquidity_account"} |->
                           "destination_collateral_account"],
            !.drop = {"destination_collateral_account"}]

\* Mutant of flash_loan: the receiver accounts sliced from slot 8.
flash_loan_overlap ==
    LendingRoutine("FlashLoan",
        Gets(<<"source_liquidity_account", "destination_liquidity_account",
               "reserve_account", "reserve_liquidity_fee_receiver", "host_fee_receiver",
               "lending_market_account", "lending_market_authority_pubkey",
               "token_program_id", "flash_loan_receiver_program_id">>)
          \o <<SliceFrom(8, "flash_loan_receiver_program_accounts")>>,
        Pay("amount"), {}, {"amount"})

\* Nine required accounts, then the receiver program's accounts &accounts[9..].
flash_loan ==
    LendingRoutine("FlashLoan",
        Gets(<<"source_liquidity_account", "destination_liquidity_account",
               "reserve_account", "reserve_liquidity_fee_receiver", "host_fee_receiver",
               "lending_market_account", "lending_market_authority_pubkey",
               "token_program_id", "flash_loan_receiver_program_id">>)
          \o <<SliceFrom(9, "flash_loan_receiver_program_accounts")>>,
        Pay("amount"), {}, {"amount"})

-----------------------------------------------------------------------------
\* resolve: the match of LendingInstruction variants onto their routines.
LendingCatalogue ==
    [v \in {"InitLendingMarket", "SetLendingMarketOwner", "InitReserve",
            "RefreshReserve", "DepositReserveLiquidity", "RedeemReserveCollateral",
            "InitObligation", "RefreshObligation", "DepositObligationCollateral",
            "WithdrawObligationCollateral", "BorrowObligationLiquidity",
            "RepayObligationLiquidity", "LiquidateObligation", "FlashLoan"} |->
        CASE v = "InitLendingMarket"            -> init_lending_market
          [] v = "SetLendingMarketOwner"        -> set_lending_market_owner
          [] v = "InitReserve"                  -> init_reserve
          [] v = "RefreshReserve"               -> refresh_reserve
          [] v = "DepositReserveLiquidity"      -> deposit_reserve_liquidity
          [] v = "RedeemReserveCollateral"      -> redeem_reserve_collateral
          [] v = "InitObligation"               -> init_obligation
          [] v = "RefreshObligation"            -> refresh_obligation
          [] v = "DepositObligationCollateral"  -> deposit_obligation_collateral
          [] v = "WithdrawObligationCollateral" -> withdraw_obligation_collateral
          [] v = "BorrowObligationLiquidity"    -> borrow_obligation_liquidity
          [] v = "RepayObligationLiquidity"     -> repay_obligation_liquidity
          [] v = "LiquidateObligation"          -> liquidate_obligation
          [] v = "FlashLoan"                    -> flash_loan]

=============================================================================
