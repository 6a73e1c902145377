---------------------------- MODULE SlotResolver ----------------------------
(***************************************************************************)
(* The account-slot resolver of the Solana parser: one call of             *)
(*   resolve(instruction, accounts)                                        *)
(* in src/blockchains/solana/src/resolvers/token_lending.rs and            *)
(* src/blockchains/solana/src/types/resolvers/system.rs.                   *)
(*                                                                         *)
(* resolve matches on the instruction variant and runs that variant's      *)
(* routine.  A routine is straight-line code: a sequence of reads of the   *)
(* account list (accounts.get(i).ok_or(AccountNotFound(path))?, an         *)
(* optional accounts.get(i), a trailing slice &accounts[i..]), a UTF-8     *)
(* decode of a payload byte array, and finally template_instruction, which *)
(* builds the full and the summary view.  The engine below executes a      *)
(* routine one read at a time, in the code's order, so that the fail-fast  *)
(* `?` and the order of the reads are part of the model.                   *)
(*                                                                         *)
(* Abstraction: the account list is abstracted to its length n; the        *)
(* account at position i is shown as Acct(i).  Payload values (amounts,    *)
(* pubkeys, configs) are shown as Payload(field): their decimal or base58  *)
(* rendering is formatting and is left out.  The routines themselves are   *)
(* data, given by the catalogue modules TokenLendingCatalogue and          *)
(* SystemCatalogue.                                                        *)
(***************************************************************************)
EXTENDS Naturals, Sequences, FiniteSets, Functions, ResolverRoutines

CONSTANTS
    Catalogue,     \* variant name -> routine record
    Variants,      \* the variants a caller may hand in (a subset of DOMAIN Catalogue)
    MaxAccounts    \* the longest account list enumerated

ASSUME Variants \subseteq DOMAIN Catalogue /\ MaxAccounts \in Nat

VARIABLES
    instr,    \* the variant being resolved (the match arm taken)
    n,        \* accounts.len()
    pc,       \* index of the next read of the routine (1-based)
    locals,   \* the routine's let-bound locals: name -> value
    status,   \* "idle" | "running" | "ok" | "err"
    error,    \* the SolanaError returned, or NoError
    out       \* the Value returned by template_instruction, or NoOutput

vars == <<instr, n, pc, locals, status, error, out>>

-----------------------------------------------------------------------------
(* The routine being run and its next read.                               *)

Rt        == Catalogue[instr]
Cur       == Rt.steps[pc]

\* The json! value of key k: a payload field, or the local the key names.
Shown(r, k) ==
    IF k \in DOMAIN r.payload THEN Payload(r.payload[k])
    ELSE locals[IF k \in DOMAIN r.alias THEN r.alias[k] ELSE k]

Bind(v, val) == locals' = [x \in DOMAIN locals \cup {v} |->
                               IF x = v THEN val ELSE locals[x]]

Fail(kind, field) ==
    /\ status' = "err"
    /\ error' = [kind |-> kind, method |-> Rt.pathMethod, field |-> field]
    /\ UNCHANGED <<instr, n, pc, locals, out>>

-----------------------------------------------------------------------------
Init ==
    /\ instr = CHOOSE v \in Variants : TRUE
    /\ n = 0
    /\ pc = 1
    /\ locals = <<>>
    /\ status = "idle"
    /\ error = NoError
    /\ out = NoOutput

\* resolve(instruction, accounts): the caller hands in a decoded variant and
\* an account list; the match selects the variant's routine.  A caller
\* resolves one instruction after another, so a returned call may be
\* followed by a new one.
Resolve(v, len) ==
    /\ status \in {"idle", "ok", "err"}
    /\ instr' = v
    /\ n' = len
    /\ pc' = 1
    /\ locals' = <<>>
    /\ status' = "running"
    /\ error' = NoError
    /\ out' = NoOutput

\* Mutant of GetSlot: a read that also skips the next read of the routine.
GetSlotSkip ==
    /\ status = "running" /\ pc \in DOMAIN Rt.steps
    /\ Cur.op \in {"get", "opt"} /\ Cur.slot < n
    /\ Bind(Cur.var, Acct(Cur.slot))
    /\ pc' = pc + 2
    /\ UNCHANGED <<instr, n, status, error, out>>

\* accounts.get(i).ok_or(..)? with the slot present: bind the local.
GetSlot ==
    /\ status = "running" /\ pc \in DOMAIN Rt.steps
    /\ Cur.op \in {"get", "opt"} /\ Cur.slot < n
    /\ Bind(Cur.var, Acct(Cur.slot))
    /\ pc' = pc + 1
    /\ UNCHANGED <<instr, n, status, error, out>>

\* accounts.get(i).ok_or(AccountNotFound(path))? with the slot missing:
\* the routine returns the error at once.
MissingSlot ==
    /\ status = "running" /\ pc \in DOMAIN Rt.steps
    /\ Cur.op = "get" /\ Cur.slot >= n
    /\ Fail("AccountNotFound", Cur.label)

\* An optional accounts.get(i) past the end of the list is None.
OptionalAbsent ==
    /\ status = "running" /\ pc \in DOMAIN Rt.steps
    /\ Cur.op = "opt" /\ Cur.slot >= n
    /\ Bind(Cur.var, Absent)
    /\ pc' = pc + 1
    /\ UNCHANGED <<instr, n, status, error, out>>

\* &accounts[i..] with i <= len (an empty slice when i = len).  With i > len
\* the slice panics; no step models that, so a panic shows up in TLC as a
\* deadlock of a running resolution.
TakeTail ==
    /\ status = "running" /\ pc \in DOMAIN Rt.steps
    /\ Cur.op = "tail" /\ Cur.slot <= n
    /\ Bind(Cur.var, Slice(Cur.slot))
    /\ pc' = pc + 1
    /\ UNCHANGED <<instr, n, status, error, out>>

\* core::str::from_utf8(&bytes).map_err(..)? on bytes that are UTF-8.
DecodeUtf8 ==
    /\ status = "running" /\ pc \in DOMAIN Rt.steps
    /\ Cur.op = "utf8"
    /\ Bind(Cur.var, Payload(Cur.var))
    /\ pc' = pc + 1
    /\ UNCHANGED <<instr, n, status, error, out>>

\* The same decode on bytes that are not UTF-8 (they come from the
\* transaction): the routine returns InvalidData(path).
InvalidUtf8 ==
    /\ status = "running" /\ pc \in DOMAIN Rt.steps
    /\ Cur.op = "utf8"
    /\ Fail("InvalidData", Cur.label)

\* Ok(template_instruction(PROGRAM_NAME, method_name, json!{full}, json!{summary})).
Emit ==
    /\ status = "running" /\ pc = Len(Rt.steps) + 1
    /\ out' = [program |-> Rt.program, method |-> Rt.method,
               full    |-> [k \in FullKeys(Rt) |-> Shown(Rt, k)],
               summary |-> [k \in SummaryKeys(Rt) |-> Shown(Rt, k)]]
    /\ status' = "ok"
    /\ UNCHANGED <<instr, n, pc, locals, error>>

Next ==
    \/ \E v \in Variants, len \in 0..MaxAccounts : Resolve(v, len)
    \/ GetSlot \/ MissingSlot \/ OptionalAbsent \/ TakeTail
    \/ DecodeUtf8 \/ InvalidUtf8 \/ Emit

Spec == Init /\ [][Next]_vars

-----------------------------------------------------------------------------
(* Properties.                                                             *)

AccountKeys(r) == FullKeys(r) \ DOMAIN r.payload
\* The full-view fields that must come from a required (non-optional) slot.
RequiredKeys(r) == {k \in AccountKeys(r) : StepOf(r, LocalOf(r, k)).op = "get"}

Methods == {Catalogue[v].method : v \in DOMAIN Catalogue}
          \cup {Catalogue[v].pathMethod : v \in DOMAIN Catalogue}
ViewValue == {Acct(i) : i \in 0..MaxAccounts} \cup {Slice(i) : i \in 0..MaxAccounts}
             \cup {Absent} \cup {Payload(f) : f \in UNION {Range(Catalogue[v].payload)
                                                   : v \in DOMAIN Catalogue}}
                           \cup {Payload("quote_currency")}

TypeOK ==
    /\ instr \in Variants
    /\ n \in 0..MaxAccounts
    /\ pc \in 1..(Len(Rt.steps) + 1)
    /\ DOMAIN locals \subseteq LocalsOf(Rt) /\ Range(locals) \subseteq ViewValue
    /\ status \in {"idle", "running", "ok", "err"}
    /\ error.kind \in {"none", "AccountNotFound", "InvalidData"}
    /\ error.method \in Methods \cup {""}
    /\ (status = "ok") => /\ out.method \in Methods
                          /\ DOMAIN out.summary \subseteq DOMAIN out.full
                          /\ Range(out.full) \subseteq ViewValue

\* The account positions a view shows one by one, and the starts of the
\* trailing slices it shows.
Positions(view) == {view[k].acct : k \in {k \in DOMAIN view : "acct" \in DOMAIN view[k]}}
SliceStarts(view) == {view[k].tail : k \in {k \in DOMAIN view : "tail" \in DOMAIN view[k]}}

\* Spec, section 8: a list holding an account for every required account
\* field of the instruction is never rejected with AccountNotFound.  Broken
\* by a read of a slot beyond the routine's own fields (an index shifted by
\* one) anywhere in a routine.
CompleteListAccepted ==
    (status = "err" /\ error.kind = "AccountNotFound")
        => n < Cardinality(RequiredKeys(Rt))

\* Conversely, a list is accepted only when it holds an account for every
\* required account field: no field is filled from another field's slot.
AcceptsOnlyCompleteLists ==
    (status = "ok") => n >= Cardinality(RequiredKeys(Rt))

\* Spec, section 8 (FlashLoan, RefreshObligation): the fixed accounts and the
\* variable trailing slice &accounts[i..] split the account list: every
\* account of the list is shown exactly once, either by a fixed field or in
\* the slice.
TrailingSlicePartition ==
    (status = "ok") =>
        \A s \in SliceStarts(out.full) :
            /\ Positions(out.full) \cap (s..(n - 1)) = {}
            /\ Positions(out.full) \cup (s..(n - 1)) = 0..(n - 1)

\* Spec, section 4.1 and 8: AccountNotFound carries "{Method}.{field}" naming
\* the instruction and the field the view shows for the first missing slot,
\* i.e. for position n of the list.
ErrorNamesFirstMissingField ==
    (status = "err" /\ error.kind = "AccountNotFound") =>
        /\ error.method = instr
        /\ \E k \in AccountKeys(Rt) : /\ k = error.field
                                       /\ StepOf(Rt, LocalOf(Rt, k)).slot = n

\* Spec, section 1 and 4.1: no payload field of the instruction is dropped
\* from the full view ("a missed field is a silent trust bug").
PayloadShown ==
    (status = "ok") =>
        Catalogue[instr].fields
          \subseteq {out.full[k].pay : k \in {k \in DOMAIN out.full : "pay" \in DOMAIN out.full[k]}}

\* Spec, section 4.1: the summary view omits sysvar accounts and program ids.
InternalAccounts == {"sysvar_rent", "sysvar_clock", "token_program_id",
                     "oracle_program_id", "recent_blockhashes_sysvar", "rent_sysvar"}
SummaryOmitsInternals ==
    (status = "ok") => DOMAIN out.summary \cap InternalAccounts = {}

=============================================================================
