--------------------------- MODULE MCPreciseNumber ---------------------------
(***************************************************************************)
(* PreciseNumberCalls at small widths.  ONE = 4 keeps ONE even, as 10^12   *)
(* is; u128 is 4 bits and U256 8 bits, so that, as with the real widths    *)
(* (10^24 * 2^128 < 2^256), new(u128::MAX) * ONE still fits a U256 and the *)
(* overflow fallbacks are reached only above the sqrt domain.  precision() *)
(* (100 raw units) is far below ONE in the code; here it is one raw unit.  *)
(***************************************************************************)
EXTENDS PreciseNumberCalls

MCONE      == 4
MCInnerMax == 255
MCOuterMax == 15
MCPrecision == 1
MCIterations == 100   \* MAX_APPROXIMATION_ITERATIONS, as in the code
MCMaxExponent == 5    \* 63^5 < 2^31, the largest power TLC can compute

\* Wide: ONE = 16 gives fifteen fractional exponents between 0 and 1, and
\* U256 is 12 bits, again with new(u128::MAX) * ONE inside a U256.  The
\* exponents of checked_pow_fraction run to 16.0 = (u128::MAX + 1).0.
MCWideONE      == 16
MCWideInnerMax == 4095
MCMaxExponentRaw == (MCOuterMax + 1) * MCWideONE
\* At ONE = 10^12 and precision() = 100 the series for a base near 0 or 2
\* runs into the cap of 100 before its terms fall below precision().  At
\* ONE = 16 the rounded terms die within four iterations, so Wide's cap is
\* scaled to 3: both stops then end the loop, each for some base and exponent.
MCWideIterations == 3

ASSUME MCOuterMax * MCONE * MCONE <= MCInnerMax
ASSUME MCOuterMax * MCWideONE * MCWideONE <= MCWideInnerMax
====
