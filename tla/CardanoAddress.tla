--------------------------- MODULE CardanoAddress ---------------------------
(***************************************************************************)
(* The address generator of src/blockchains/cardano/src/address.rs.       *)
(*                                                                         *)
(* generate_address_by_xpub decodes a hex extended public key, derives     *)
(* the payment key along 0/index and the stake key along 2/index, each     *)
(* step a soft derivation of ed25519-bip32's DerivationScheme::V2, and     *)
(* builds a mainnet base address.  to_bech32 lays out the header byte and  *)
(* the blake2b-224 hash of each key present and bech32-encodes them.       *)
(*                                                                         *)
(* The library keeps nothing between calls, so a behaviour is one call     *)
(* that builds an address, then its to_bech32.  Key material is abstracted *)
(* to the derivation path it comes from, and a hash to the key it hashes;  *)
(* the header byte is kept bit for bit.                                    *)
(***************************************************************************)
EXTENDS Naturals, Sequences, Bitwise

CONSTANTS
    XpubInputs,   \* the hex strings handed in: [id, hex |-> decodes?, bytes |-> length,
                  \*   onCurve |-> are the key bytes a curve point?]
    HARDENED,     \* 2^31, the first hardened derivation index
    U32Max        \* u32::MAX, the largest index

XPUB_SIZE == 64   \* XPub::from_slice accepts exactly 64 bytes
HASH_SIZE == 28   \* blake2b_224

\* Outcomes that are not an address.
NoAddress == [kind |-> "none"]
Err(step)  == [kind |-> "err", step |-> step]
NoKey      == [key |-> "none"]

\* A public key is the xpub it comes from and the path below it.
RootKey(x) == [xpub |-> x, path |-> <<>>]

\* XPub::derive(V2, i): public derivation exists for soft indices only; a
\* hardened index is ExpectedSoftDerivation, and a key that is not a curve
\* point fails the point addition (InvalidAddition).  Either is a
\* DerivationError, which ? propagates.
Derive(k, i) ==
    IF i >= HARDENED \/ ~k.xpub.onCurve THEN Err("derive")
    ELSE [k EXCEPT !.path = Append(@, i)]

IsErr(r) == "kind" \in DOMAIN r /\ r.kind = "err"

\* `r?` followed by F.
Then(r, F(_)) == IF IsErr(r) THEN r ELSE F(r)

\* Mutant of NewMainnetRewardAddress: the base address's header pasted in.
NewMainnetRewardAddressBaseHeader(stake) ==
    [kind |-> "address", prefix |-> "stake", header |-> 1, payment |-> NoKey, stake |-> stake]

\* The two factories: 0 | stake type | payment type | network tag, and
\* 111 | stake type | network tag.
NewMainnetBaseAddress(payment, stake) ==
    [kind |-> "address", prefix |-> "addr", header |-> 1, payment |-> payment, stake |-> stake]
NewMainnetRewardAddress(stake) ==
    [kind |-> "address", prefix |-> "stake", header |-> 225, payment |-> NoKey, stake |-> stake]

\* The branch selectors below the xpub: 0 for payment, 2 for stake.
PaymentBranch == 0
\* Mutant of StakeBranch: the payment branch copied.
StakeBranchCopied == 0
StakeBranch == 2

\* xpub.derive(V2, branch)?.derive(V2, index)?.public_key()
ChildKey(x, branch, index) == Then(Derive(RootKey(x), branch), LAMBDA k : Derive(k, index))

\* hex::decode, XPub::from_slice, then the payment key, then the stake key;
\* the first failing step is the error.
GenerateAddressByXpub(x, index) ==
    CASE ~x.hex             -> Err("hex")
      [] x.bytes # XPUB_SIZE -> Err("xpub")
      [] OTHER -> Then(ChildKey(x, PaymentBranch, index), LAMBDA payment :
                    Then(ChildKey(x, StakeBranch, index), LAMBDA stake :
                      NewMainnetBaseAddress(payment, stake)))

\* blake2b_224 of a key: 28 bytes that stand for that key.
Blake2b224(k) == [hashOf |-> k]

\* to_bech32: the header, then the hash of each key present, payment first,
\* as bech32 data under the prefix.  bech32::encode fails only on an
\* invalid human-readable part, and "addr" and "stake" are valid.
ToBech32(a) ==
    LET Part(k) == IF k = NoKey THEN <<>> ELSE <<Blake2b224(k)>>
    IN  [hrp |-> a.prefix, header |-> a.header, hashes |-> Part(a.payment) \o Part(a.stake)]

\* The byte length of the encoded payload.
PayloadBytes(s) == 1 + HASH_SIZE * Len(s.hashes)

-----------------------------------------------------------------------------
VARIABLES
    call,      \* the generate call made: [made, x, index]
    address,   \* what was built: NoAddress, an address or an Err
    encoded    \* to_bech32 of it, or NoString

vars == <<call, address, encoded>>

NoCall   == [made |-> FALSE, x |-> CHOOSE x \in XpubInputs : TRUE, index |-> 0]
NoString == [hrp |-> "none"]

ValidInputs == {x \in XpubInputs : x.hex /\ x.bytes = XPUB_SIZE /\ x.onCurve}

\* The keys the factories are handed: soft children of a valid xpub.
Keys == {[xpub |-> x, path |-> <<b, i>>] : x \in ValidInputs, b \in {0, 2}, i \in 0..(HARDENED - 1)}

Init == call = NoCall /\ address = NoAddress /\ encoded = NoString

Built == address = NoAddress

Generate ==
    /\ Built
    /\ \E x \in XpubInputs, i \in 0..U32Max :
          /\ call' = [made |-> TRUE, x |-> x, index |-> i]
          /\ address' = GenerateAddressByXpub(x, i)
    /\ UNCHANGED encoded

NewBase ==
    /\ Built
    /\ \E p, s \in Keys : address' = NewMainnetBaseAddress(p, s)
    /\ UNCHANGED <<call, encoded>>

NewReward ==
    /\ Built
    /\ \E s \in Keys : address' = NewMainnetRewardAddress(s)
    /\ UNCHANGED <<call, encoded>>

Encode ==
    /\ address.kind = "address" /\ encoded = NoString
    /\ encoded' = ToBech32(address)
    /\ UNCHANGED <<call, address>>

Next == Generate \/ NewBase \/ NewReward \/ Encode

Spec == Init /\ [][Next]_vars

-----------------------------------------------------------------------------
(* Properties.                                                             *)

\* generate_address_by_xpub returns an address exactly when the input is a
\* valid xpub (hex, 64 bytes, a curve point) and the index is soft, below
\* 2^31: u32 indices from 2^31 on are hardened and fail in the second
\* derivation step, which the u32 parameter does not rule out.  The
\* address's payment key is the xpub's child 0/index and its stake key the
\* child 2/index.
SoftIndicesOnly ==
    call.made =>
        IF call.x \in ValidInputs /\ call.index < HARDENED
        THEN /\ address.kind = "address"
             /\ address.payment = [xpub |-> call.x, path |-> <<0, call.index>>]
             /\ address.stake   = [xpub |-> call.x, path |-> <<2, call.index>>]
        ELSE address.kind = "err"

\* Every encoded address carries a header that agrees with its payload and
\* prefix (CIP-19): the top nibble is 0 for a payment and a stake key hash
\* (57 bytes, "addr") and 14 for a stake key hash alone (29 bytes,
\* "stake"), and the low nibble is the mainnet tag 1.
HeaderMatchesPayload ==
    encoded # NoString =>
        /\ (encoded.header & 15) = 1
        /\ \/ shiftR(encoded.header, 4) = 0 /\ encoded.hrp = "addr" /\ PayloadBytes(encoded) = 57
           \/ shiftR(encoded.header, 4) = 14 /\ encoded.hrp = "stake" /\ PayloadBytes(encoded) = 29

=============================================================================
