# TLA+ models of rust-crypto-core

This directory holds TLA+ models of the three parts of the repository that
have real control and arithmetic to check:

- the **Solana account-slot resolver**
  (`src/blockchains/solana/src/resolvers/token_lending.rs`,
  `src/blockchains/solana/src/types/resolvers/system.rs`);
- the **fixed-point numeric library** `PreciseNumber` / `CheckedCeilDiv`
  (`src/blockchains/solana/src/solana_lib/spl/token_swap/curve/mod.rs`);
- the **Cardano address generator**
  (`src/blockchains/cardano/src/address.rs`).

The TLC model checker checks them. `PROJECT.json` lists the components, the
runs, the mutants and the definition-to-source map, along with the findings
and the hazards.

## 1. Inventory

### The system's parts

| Part | Source | State | Operations |
|---|---|---|---|
| Token-lending resolver | `resolvers/token_lending.rs` | none between calls; within a call, the let-bound locals read so far | `resolve` plus one routine per `LendingInstruction` variant (14) |
| System-program resolver | `types/resolvers/system.rs` | as above | `resolve`, one match arm per `SystemInstruction` variant (13) |
| Description builder | `template_instruction`, **not in the repository** | none | builds `{program, method, full, summary}` |
| PreciseNumber | `curve/mod.rs` | none: values are immutable | `new`, `to_imprecise`, `floor`, `ceiling`, `checked_{div,mul,add,sub,pow}`, `unsigned_sub`, `almost_eq`, `sqrt` (Newton's method); private `checked_pow_approximation`, `checked_pow_fraction` |
| CheckedCeilDiv | `curve/mod.rs` | none | `checked_ceil_div` for `u128` and `U256` |
| Cardano address | `cardano/src/address.rs` | none between calls | `generate_address_by_xpub`, `new_mainnet_base_address`, `new_mainnet_reward_address`, `to_bech32` |
| NEAR wrapper, Polkadot FFI, Chain/Read traits, SolanaError | see PROJECT.json | none in this repository | delegation to crates not present here |

### How the parts interact

A caller decodes a Solana instruction outside this code. It then calls
`resolve(instruction, accounts)`. The match picks the variant's routine. The
routine reads its accounts by fixed position:
- a required read is `accounts.get(i).ok_or(AccountNotFound("Method.field"))?`;
- an optional read is `accounts.get(i)`;
- a trailing slice is `&accounts[i..]`;
- `from_utf8` decodes a byte payload.

The routine then hands two `json!` views to `template_instruction`.

Every `?` returns at once, so the order of the reads decides which error a
short list gets. The numeric library is a leaf that the curve code uses; the
resolver does not use it.

### Hard behaviours

The code is single-threaded and keeps no state, so interleavings, crashes and
message loss do not arise. What is hard to test here:
- **Ordering and fail-fast.** Which error a list of exactly k accounts gets
  depends on the order of the reads. Tests normally use complete lists.
- **Positional conventions.** A duplicated or shifted slot index accepts a
  short list or shows the wrong account. A slice start that is off by one
  overlaps the fixed accounts or panics.
- **Copy-pasted paths and names.** These are error paths, method names, and
  summary views that keep internal accounts.
- **Numeric boundaries.** These are the overflow fallbacks of `checked_mul` and
  `checked_div`, the second rounding of `checked_ceil_div`, the
  `as_u128` panic of `to_imprecise`, Newton's iteration cap, and the sign
  bookkeeping and early break of the Taylor series in
  `checked_pow_approximation`.

### Properties per component

- **Resolver:**
  - A complete list is accepted.
  - Only complete lists are accepted.
  - The error names the first missing field of the instruction being resolved.
  - Every payload field is shown.
  - The summary omits internal accounts.
  - Fixed accounts and the trailing slice partition the list.
- **Numeric library:** exact `ceil_div`; the `new`/`to_imprecise` round trip;
  `mul`/`div` round trip; `pow` exact on whole bases; `sqrt` accuracy; `mul`
  order-preserving; the fractional power between `x` and 1.0 at either stop
  of its series; a panic only for a bad base.
- **Cardano address:** an address exactly for valid xpubs and soft
  indices, with the right derivation paths; header nibbles that match the
  prefix and the payload.

## 2. Modules

| Module | Models | Notes |
|---|---|---|
| `ResolverRoutines` | the shape of a routine | constructors `Get`, `Opt`, `SliceFrom`, `Utf8`, `Routine`; the view values `Acct(i)`, `Slice(i)`, `Absent`, `Payload(f)`; the key sets of the two views |
| `TokenLendingCatalogue` | `token_lending.rs` | one definition per routine function, with the same name, listing its reads in code order, its error labels, its payload keys and its summary |
| `SystemCatalogue` | `system.rs` | one definition per match arm |
| `SlotResolver` | one call of `resolve` | the engine, described below |
| `MCSlotResolver` | | instantiates the resolver with both catalogues (27 variants) |
| `PreciseNumber` | `curve/mod.rs` | every operation is an operator on the raw inner value; widths are constants, described below |
| `PreciseNumberCalls` | the public calls | one action per pub operation, described below |
| `MCPreciseNumber` | | fixes the widths |
| `CardanoAddress` | `address.rs` | described below |
| `MCCardanoAddress` | | u32 at 3 bits, five xpub inputs |

**SlotResolver.** The state of one call:
- `instr` is the match arm;
- `n` is `accounts.len()`;
- `pc` is the next read;
- `locals` holds the let bindings;
- `status`, `error` and `out` describe the return.

Actions:
- `Resolve` is the call.
- `GetSlot` and `MissingSlot` are the two outcomes of a required read.
- `OptionalAbsent` is an optional read past the end.
- `TakeTail` is the slice.
- `DecodeUtf8` and `InvalidUtf8` are the two outcomes of the decode.
- `Emit` is `Ok(template_instruction(..))`.

A slice with `i > len` would panic. No action exists for it, so it would show
as a deadlock, and deadlock is checked.

**PreciseNumber.** Every operation is an operator on the raw inner value:
- `InnerMax` stands for `U256::MAX` and `OuterMax` for `u128::MAX`.
- Every U256 `checked_*` returns `None` outside `0..InnerMax`.
- `as_u128` above `OuterMax` is `Panic`.
- `checked_pow`, Newton's loop and the Taylor loop of
  `checked_pow_approximation` are `RECURSIVE` operators that follow the
  code's loops step by step. This includes the `break`s on `almost_eq` and on
  a term below `precision()`, and the iteration caps.
- `NextSign` is the two `negative = !negative` flips of the Taylor loop.
- The `assert!`s on the base range are `Panic`.

**PreciseNumberCalls.** One action per pub operation, with the operands drawn
from every value of the width. A behaviour is one call, because the library
keeps no state. The properties compare the recorded result with reference
definitions (`IntPow`, `ISqrt`) or with a neighbouring call.
`checked_pow_fraction` is called on `Wide`, a second instance of the same
module at a finer scale:

```
Wide == INSTANCE PreciseNumber WITH ONE <- WideONE, InnerMax <- WideInnerMax,
                                    MAX_APPROXIMATION_ITERATIONS <- WideIterations
```

The u128 width and `precision()` are inherited by name.

**CardanoAddress.** The address-building calls, one per behaviour, then
`to_bech32`:
- `Generate` is `generate_address_by_xpub(x, index)`. It runs `hex::decode`,
  then `XPub::from_slice` (exactly 64 bytes), then `ChildKey` for the payment
  branch 0 and the stake branch 2. The first failing step is the error.
- `Derive` is `XPub::derive(V2, i)`. Public derivation exists only for soft
  indices, so an index of 2^31 or more is a `DerivationError`. So is a
  64-byte key that is not a curve point, whose point addition fails
  (`InvalidAddition`). This is the ed25519-bip32 crate's behaviour; that
  crate is not in the repository.
- `NewBase` and `NewReward` are the two factories, with their header bytes
  `0b0000_0001` and `0b1110_0001`.
- `Encode` is `to_bech32`: the header, then the hash of each key present,
  payment first, under the prefix.
- A key is abstracted to its derivation path, and a blake2b-224 hash to the
  key it hashes. The header byte is kept bit for bit, and the properties take
  it apart with `Bitwise`.
- `bech32::encode` fails only on an invalid prefix, and "addr" and "stake"
  are valid. So it has no error branch.

## 3. Runs

| Run | cfg | Expect | What it shows |
|---|---|---|---|
| resolver_all | `MCSlotResolver.cfg` | pass | over all 27 variants and lists of 0..19 accounts: `TypeOK`; `CompleteListAccepted` (a list holding every required field is never rejected); `TrailingSlicePartition` (fixed accounts and `&accounts[i..]` show each account exactly once); deadlock is checked, so a routine that could get stuck or panic in a slice would show |
| borrow_order | `MCSlotResolver_borrow_order.cfg` | violation | Borrow reads slot 9 before slot 8. With 8 accounts the error names `sysvar_clock`, not the first missing field |
| redeem_label | `..._redeem_label.cfg` | violation | Redeem reports a missing `token_program_id` as `.sysvar_clock` |
| init_reserve_method | `..._init_reserve_method.cfg` | violation | InitReserve runs under the method name `SetLendingMarketOwner` |
| assign_path | `..._assign_path.cfg` | violation | Assign reports `Allocate.account` |
| refresh_clock | `..._refresh_clock.cfg` | violation | RefreshReserve reads `sysvar_clock` from slot 1 and accepts a 2-account list |
| seed_payload | `..._seed_payload.cfg` | violation | CreateAccountWithSeed shows the signer as `base` and drops the base pubkey. AllocateWithSeed drops `seed` |
| flash_summary | `..._flash_summary.cfg` | violation | FlashLoan's summary keeps `token_program_id` |
| precise_number | `MCPreciseNumber.cfg` | pass | see below |
| mul_order | `MCPreciseNumber_mul_order.cfg` | violation | `checked_mul(10.5, 1.5) = 15.75` but `checked_mul(10.75, 1.5) = 15.0`: the overflow fallback is not order-preserving, contrary to spec §3 |
| exponent_panic | `MCPreciseNumber_exponent_panic.cfg` | violation | `checked_pow_fraction(1 raw unit, 16.0)` panics. The base is valid, but the whole exponent 16 is above u128::MAX (4 bits here), and `to_imprecise`'s `as_u128` panics. The spec names only a bad base as an assert-fail |

The precise_number run checks, over every operand:
- `TypeOK`;
- `CeilDivCorrect`: the quotient is the ceiling, `rhs` is the least value with `q*rhs >= a`, and `rhs <= b`;
- `NewRoundTrip`;
- `MulDivRoundTrip` on the direct paths;
- `PowMatchesReference` on whole bases;
- `SqrtAccurate`: within one raw unit of the exact root.
- on `Wide`, for every base in `[min_pow_base, max_pow_base]`:
  - `PowFractionBetween`: a fractional power lies between `x` and 1.0,
    within one raw unit, whether the series stops at `precision()` or at the
    iteration cap. Below 1.0 every term after the first is negative, and
    above 1.0 the terms alternate, so no partial sum leaves that range.
  - The series' accuracy is not checked. The code (`mod.rs:351-352`) says it
    has not been established. At `ONE = 10^12` the cap stops the series for
    bases near 0 and 2, with errors far above any raw-unit bound.

The cardano_address run (`MCCardanoAddress.cfg`, pass) checks:
- `SoftIndicesOnly`: `generate_address_by_xpub` returns an address exactly
  for a valid xpub (hex, 64 bytes, a curve point) and an index below 2^31.
  Its payment key is the child 0/index and its stake key the child 2/index.
  Every other call is an error. The spec (4.3) makes each step non-hardened,
  and the u32 parameter does not stop a caller from passing a hardened
  index.
- `HeaderMatchesPayload`: in every encoded address, the header's low nibble
  is the mainnet tag 1. The top nibble is 0 with prefix "addr" and 57
  payload bytes, or 14 with prefix "stake" and 29 bytes.

Each property of a passing run has a mutant in `PROJECT.json`. A mutant is a
plausible bug in the mapped definition, and TLC finds the property violated
when the mutant replaces that definition. Examples:
- a read that skips the next read;
- a shifted slot;
- an overlapping slice;
- a read that never advances;
- an unchecked subtraction;
- a dropped second rounding in `ceil_div`;
- a whole-unit rounding correction;
- a Taylor sign flag that ignores the sign of `x - 1`, or of `n + 1 - k`;
- a truncating `checked_div`;
- `pow` seeded with one;
- Newton's method with `n` for `n-1`;
- the Cardano stake key derived along the payment branch 0;
- the reward address built with the base address's header byte.

## 4. Bounds and why they are enough

**Resolver.**
- Account lists run from 0 to 19 accounts. The longest routine, InitReserve,
  reads 17 slots, so every "exactly k accounts" case of every routine is
  enumerated.
- FlashLoan's and RefreshObligation's slices are seen both empty and
  non-empty.
- Account identities are abstracted to positions. Payloads are abstracted to
  field names, since the properties are about which position and which field
  is shown.

**Numeric library.**
- `ONE = 4`, which is even, as `10^12` is.
- U256 is 8 bits (`InnerMax = 255`) and u128 is 4 bits (`OuterMax = 15`).
- These widths keep the real headroom: `new(u128::MAX) * ONE` fits a U256,
  because `10^24 * 2^128 < 2^256`, as `ASSUME`d in `MCPreciseNumber`. So, as in
  the code, `sqrt` never reaches the overflow fallbacks, while products of two
  large operands do.
- `precision()` is 100 raw units, far below `ONE`, in the code. Here it is 1.
- `MAX_APPROXIMATION_ITERATIONS` is 100, as in the code.
- Exponents range over 0..5.
- Every operand of each width is enumerated, 330,513 calls in all.

**Fractional power.** `Wide` uses `ONE = 16`, U256 = 12 bits and
u128 = 4 bits, which keeps the same headroom (`ASSUME`d in
`MCPreciseNumber`). These calls add 8,738 states to the run.
- At `ONE = 4` there would be only three fractional exponents. A Taylor loop
  that drops the sign of `n + 1 - k` still passes `PowFractionBetween`, here
  as at `ONE = 4`.
- Bases run over `0..33`, which is the asserted range plus one value on each
  side.
- Exponents run over every raw value up to 16.0, the first whose whole part
  is not a u128.
- `precision()` is one raw unit. At `ONE = 16` the rounded terms fall below
  it within four iterations, so a cap of 100 would never be reached. `Wide`'s
  cap (`MCWideIterations`) is therefore 3, and the cap stop ends the series
  for 17 pairs of base and exponent. The precision stop ends it for the
  others. At the real scale the cap of 100 stops the series for bases near
  0 and 2.
- Monotonicity in the exponent is not checked past 1.0. At `ONE = 16` the
  rounding of `checked_pow` at these widths decides that, not the code.

**Cardano address.**
- u32 is 3 bits, so `HARDENED = 4` and indices run over 0..7. Both soft and
  hardened indices occur, including the last soft index and the first
  hardened one.
- The inputs are a string that is not hex, a hex key of the wrong length,
  64 bytes that are not a curve point, and two valid 64-byte keys. The two valid keys tell the children of
  different xpubs apart.

## 5. Fairness

No run assumes fairness, and none checks liveness. `resolve` is
straight-line code, so a call that is not stuck runs to its return. The
resolver run's deadlock check already shows that no call is stuck.
The numeric and Cardano runs check safety only, and their behaviours stop after one call
(`CHECK_DEADLOCK FALSE`), because the library keeps nothing between calls.
The resolver run checks deadlock: a state with no step would be a panic
(`&accounts[i..]` with `i > len`), and none exists.

## 6. Not modelled, and why

- `template_instruction` is not in the repository. For the system resolver,
  whose call passes a single view, the summary is taken to equal the full
  view.
- Base58 and decimal rendering of pubkeys and amounts is formatting.
- The comparison predicates `less_than_or_equal` and
  `greater_than_or_equal` have no callers in the file.
- Inside the Cardano generator, the bytes of blake2b-224, the bech32
  checksum and the 8-to-5-bit regrouping are external crates' formatting.
  No property depends on them.
- The NEAR wrapper forwards to a parser module that is not in the
  repository. The Polkadot FFI forwards to `qr_reader_phone` and
  `db_handling`. The alert flag its comments describe lives in that
  database code. The `Chain` and `Read` traits and `SolanaError` are
  declarations with no behaviour.

## 7. Plan for later sittings

In order of importance:
1. **Resolver, remaining labels.** `ErrorNamesFirstMissingField` already
   covers three more mislabelled slots:
   - withdraw slot 2 (`token_lending.rs:573`);
   - repay slot 5 (`:724`);
   - init_lending_market slot 1 (`:65`).

   A violation run restricted to each would show them. Each needs a slot
   among the runs, and the project is at its cap of 12 runs.
2. **Numeric library.**
   - Check the fallback round trip of `checked_div`, once the spec gives it a
     tolerance.
   - Check monotonicity of the fractional power past 1.0 at a wider `ONE`,
     if TLC's integers allow it.
3. **Resolver composition.** Add a module that composes the two catalogues
   behind the program dispatch, once that code is in the repository.
