--------------------------- MODULE SystemCatalogue ---------------------------
(***************************************************************************)
(* The routines of src/blockchains/solana/src/types/resolvers/system.rs,   *)
(* one per SystemInstruction variant, as data for SlotResolver (record     *)
(* fields as in TokenLendingCatalogue).  The error paths of this file are  *)
(* string literals, so a routine's pathMethod is the literal's prefix.     *)
(*                                                                         *)
(* This file calls a three-argument template_instruction whose source is   *)
(* not in the repository; the one json! it is given is the full view, and  *)
(* the model takes the summary view to be the same (hide = {}).            *)
(***************************************************************************)
EXTENDS Naturals, Sequences, ResolverRoutines

SysRoutine(m, steps, payload, fields) ==
    Routine("System", m, steps, payload, {}, fields)

-----------------------------------------------------------------------------
create_account ==
    SysRoutine("CreateAccount", Gets(<<"funder", "account">>),
        Rename({"amount", "space", "owner"},
               LAMBDA k : IF k = "amount" THEN "lamports" ELSE k),
        {"lamports", "space", "owner"})

\* The error path of this routine reads "Allocate.account".
assign ==
    [SysRoutine("Assign", Gets(<<"account">>),
        Rename({"new_owner"}, LAMBDA k : "owner"), {"owner"})
     EXCEPT !.pathMethod = "Allocate"]

transfer ==
    SysRoutine("Transfer", Gets(<<"from", "to">>),
        Rename({"amount"}, LAMBDA k : "lamports"), {"lamports"})

\* "signer" and "base" both show the optional accounts.get(2); the base
\* pubkey of the instruction is converted to a string and never shown.
create_account_with_seed ==
    [SysRoutine("CreateAccountWithSeed",
        Gets(<<"funder", "account">>) \o <<Opt(2, "signer")>>,
        Rename({"seed", "amount", "space", "owner"},
               LAMBDA k : IF k = "amount" THEN "lamports" ELSE k),
        {"base", "seed", "lamports", "space", "owner"})
     EXCEPT !.alias = [k \in {"base"} |-> "signer"]]

advance_nonce_account ==
    SysRoutine("AdvanceNonceAccount",
        Gets(<<"nonce_account", "recent_blockhashes_sysvar", "authority">>),
        NoKeys, {})

withdraw_nonce_account ==
    SysRoutine("WithdrawNonceAccount",
        Gets(<<"nonce_account", "recipient_account", "recent_blockhashes_sysvar",
               "rent_sysvar", "nonce_authority">>),
        Rename({"amount"}, LAMBDA k : "lamports"), {"lamports"})

initialize_nonce_account ==
    SysRoutine("InitializeNonceAccount",
        Gets(<<"nonce_account", "recent_blockhashes_sysvar", "rent_sysvar">>),
        Rename({"authority"}, LAMBDA k : "pubkey"), {"pubkey"})

authorize_nonce_account ==
    SysRoutine("AuthorizeNonceAccount", Gets(<<"nonce_account", "nonce_authority">>),
        Rename({"new_authority"}, LAMBDA k : "pubkey"), {"pubkey"})

allocate ==
    SysRoutine("Allocate", Gets(<<"account">>), Pay("space"), {"space"})

\* The seed of the instruction is bound by the match and never shown.
allocate_with_seed ==
    SysRoutine("AllocateWithSeed", Gets(<<"allocated_account", "base_account">>),
        Rename({"owner", "base", "space"}, LAMBDA k : k),
        {"owner", "base", "seed", "space"})

assign_with_seed ==
    SysRoutine("AssignWithSeed", Gets(<<"assigned_account", "base_account">>),
        Rename({"seed", "base", "owner"}, LAMBDA k : k), {"owner", "seed", "base"})

transfer_with_seed ==
    SysRoutine("TransferWithSeed",
        Gets(<<"fund_account", "from_base", "recipient_account">>),
        Rename({"amount", "from_owner", "from_seed"},
               LAMBDA k : IF k = "amount" THEN "lamports" ELSE k),
        {"lamports", "from_seed", "from_owner"})

upgrade_nonce_account ==
    SysRoutine("UpgradeNonceAccount", Gets(<<"nonce_account">>), NoKeys, {})

-----------------------------------------------------------------------------
\* resolve: the match of SystemInstruction variants onto their routines.
SystemRoutines ==
    [v \in {"CreateAccount", "Assign", "Transfer", "CreateAccountWithSeed",
            "AdvanceNonceAccount", "WithdrawNonceAccount", "InitializeNonceAccount",
            "AuthorizeNonceAccount", "Allocate", "AllocateWithSeed", "AssignWithSeed",
            "TransferWithSeed", "UpgradeNonceAccount"} |->
        CASE v = "CreateAccount"          -> create_account
          [] v = "Assign"                 -> assign
          [] v = "Transfer"               -> transfer
          [] v = "CreateAccountWithSeed"  -> create_account_with_seed
          [] v = "AdvanceNonceAccount"    -> advance_nonce_account
          [] v = "WithdrawNonceAccount"   -> withdraw_nonce_account
          [] v = "InitializeNonceAccount" -> initialize_nonce_account
          [] v = "AuthorizeNonceAccount"  -> authorize_nonce_account
          [] v = "Allocate"               -> allocate
          [] v = "AllocateWithSeed"       -> allocate_with_seed
          [] v = "AssignWithSeed"         -> assign_with_seed
          [] v = "TransferWithSeed"       -> transfer_with_seed
          [] v = "UpgradeNonceAccount"    -> upgrade_nonce_account]

=============================================================================
