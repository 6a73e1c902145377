--------------------------- MODULE PreciseNumberCalls ---------------------------
(***************************************************************************)
(* The public operations of PreciseNumber (curve/mod.rs, module math) as   *)
(* the calls a caller can make.  The library holds no state between calls  *)
(* (every operation builds a new value or returns None), so a behaviour is *)
(* a single call: the state records the operation, its operands and what  *)
(* it returned, and the properties relate that result to a reference or   *)
(* to another call of the same operation.  After its one call a behaviour  *)
(* stops.  The private checked_pow_fraction is called on Wide, the same    *)
(* library at a finer scale, where fractional exponents are fine-grained  *)
(* enough for its Taylor series to show.                                   *)
(***************************************************************************)
EXTENDS Naturals, PreciseNumber

CONSTANTS
    MaxExponent,      \* the largest u128 exponent passed to checked_pow
    WideONE,          \* the scale of Wide
    WideInnerMax,     \* U256::MAX of Wide
    MaxExponentRaw,   \* the largest raw exponent passed to checked_pow_fraction
    WideIterations    \* MAX_APPROXIMATION_ITERATIONS of Wide

\* The library at scale WideONE with its own Taylor iteration cap; u128 and
\* precision() are those of the narrow instance.
Wide == INSTANCE PreciseNumber WITH ONE <- WideONE, InnerMax <- WideInnerMax,
                                    MAX_APPROXIMATION_ITERATIONS <- WideIterations

Inner == 0..InnerMax   \* the values a PreciseNumber (a U256) can hold
Outer == 0..OuterMax   \* the values of a u128

\* The bases of checked_pow_fraction: the assert!ed range and one value each
\* side; its exponents run to the first whose whole part is not a u128.
PowBases     == 0..(Wide!MaxPowBase + 1)
PowExponents == 0..MaxExponentRaw

VARIABLE call          \* [op, a, b, res]: the call made and its result

vars == <<call>>

NoCall == [op |-> "none", a |-> 0, b |-> 0, res |-> 0]

Init == call = NoCall

\* No call has been made yet.
Idle == call = NoCall

\* Each action is one pub fn of PreciseNumber, or checked_ceil_div.
Call(op, a, b, res) == call' = [op |-> op, a |-> a, b |-> b, res |-> res]

CallNew        == Idle /\ \E v \in Outer : Call("new", v, 0, New(v))
CallToImprecise == Idle /\ \E x \in Inner : Call("to_imprecise", x, 0, ToImprecise(x))
CallFloor      == Idle /\ \E x \in Inner : Call("floor", x, 0, Floor(x))
CallCeiling    == Idle /\ \E x \in Inner : Call("ceiling", x, 0, Ceiling(x))
CallDiv        == Idle /\ \E x, y \in Inner : Call("checked_div", x, y, CheckedDiv(x, y))
CallMul        == Idle /\ \E x, y \in Inner : Call("checked_mul", x, y, CheckedMul(x, y))
CallAdd        == Idle /\ \E x, y \in Inner : Call("checked_add", x, y, CheckedAdd(x, y))
CallSub        == Idle /\ \E x, y \in Inner : Call("checked_sub", x, y, CheckedSub(x, y))
CallUnsignedSub == Idle /\ \E x, y \in Inner : Call("unsigned_sub", x, y, UnsignedSub(x, y))
CallPow        == Idle /\ \E x \in Inner, e \in 0..MaxExponent :
                      Call("checked_pow", x, e, CheckedPow(x, e))
CallSqrt       == Idle /\ \E x \in Inner : Call("sqrt", x, 0, Sqrt(x))
CallCeilDiv    == Idle /\ \E x, y \in Outer : Call("checked_ceil_div", x, y, CheckedCeilDiv(x, y))
CallPowFraction == Idle /\ \E x \in PowBases, e \in PowExponents :
                      Call("checked_pow_fraction", x, e, Wide!PowFraction(x, e))

Next ==
    \/ CallNew \/ CallToImprecise \/ CallFloor \/ CallCeiling
    \/ CallDiv \/ CallMul \/ CallAdd \/ CallSub \/ CallUnsignedSub
    \/ CallPow \/ CallSqrt \/ CallCeilDiv \/ CallPowFraction

Spec == Init /\ [][Next]_vars

-----------------------------------------------------------------------------
(* References.                                                             *)

\* k^e over the integers, 0^0 = 1 as u128::pow has it.
RECURSIVE IntPow(_, _)
IntPow(k, e) == IF e = 0 THEN 1 ELSE k * IntPow(k, e - 1)

\* floor(sqrt(m)): the exact root of a fixed-point x is ISqrt(x * ONE).
ISqrt(m) == CHOOSE r \in 0..m : r * r <= m /\ (r + 1) * (r + 1) > m

\* What each operation can return.
Results(op) ==
    CASE op = "checked_ceil_div" -> (Inner \X Inner) \cup {None}
      [] op = "unsigned_sub"     -> Inner \X BOOLEAN
      [] op = "checked_pow_fraction" -> 0..WideInnerMax \cup {None, Panic}
      [] OTHER                   -> Inner \cup {None, Panic}

-----------------------------------------------------------------------------
(* Properties.                                                             *)

\* Every result is a U256 value, None, a panic, or a pair of them: no
\* operation wraps below zero or past U256::MAX.
TypeOK ==
    /\ call.op \in {"none", "new", "to_imprecise", "floor", "ceiling",
                    "checked_div", "checked_mul", "checked_add", "checked_sub",
                    "unsigned_sub", "checked_pow", "sqrt", "checked_ceil_div",
                    "checked_pow_fraction"}
    /\ call.a \in Inner /\ call.b \in Inner \cup PowExponents
    /\ call.res \in Results(call.op)

\* checked_ceil_div(a, b) = (q, r): q is the floor quotient, plus one when
\* b does not divide a, and r is the least rhs with q * r >= a, never above
\* b; None exactly when b = 0 or a < b.
CeilDivCorrect ==
    call.op = "checked_ceil_div" =>
        LET a == call.a  b == call.b
        IN  IF b = 0 \/ a < b THEN call.res = None
            ELSE LET q == call.res[1]  r == call.res[2]
                 IN  /\ q = a \div b + (IF a % b = 0 THEN 0 ELSE 1)
                     /\ q * r >= a /\ q * (r - 1) < a
                     /\ r <= b

\* new(n).to_imprecise() == Some(n) for every u128 n: the rounding
\* correction of to_imprecise never carries a value into the next unit.
NewRoundTrip ==
    call.op = "new" => ToImprecise(call.res) = call.a

\* Where neither checked_mul nor checked_div needs its overflow fallback
\* and b >= 1.0, checked_div(checked_mul(a, b), b) gives back a exactly:
\* the two round-half-up corrections cancel.
MulDivRoundTrip ==
    LET a == call.a  b == call.b
    IN  /\ call.op = "checked_mul" /\ b >= ONE
        /\ a * b <= InnerMax /\ call.res # None /\ call.res * ONE <= InnerMax
        => CheckedDiv(call.res, b) = a

\* checked_pow of a whole number k.0 is k^e.0, or None exactly when k^e.0
\* exceeds U256::MAX: squaring by halves loses nothing on whole bases and
\* fails only when the true power overflows.
PowMatchesReference ==
    call.op = "checked_pow" /\ call.a % ONE = 0 =>
        LET p == IntPow(call.a \div ONE, call.b)
        IN  call.res = IF p <= InnerMax \div ONE THEN p * ONE ELSE None

\* sqrt(x) is within one raw unit of the exact fixed-point root for every x
\* of [minimum_sqrt_base, maximum_sqrt_base], and None above it.
SqrtAccurate ==
    call.op = "sqrt" =>
        IF call.a > MaximumSqrtBase THEN call.res = None
        ELSE call.res # None /\ AlmostEq(call.res, ISqrt(call.a * ONE), 2)

InPowRange(x) == Wide!MinPowBase <= x /\ x <= Wide!MaxPowBase

\* For a base in [min_pow_base, max_pow_base] and an exponent strictly
\* between 0 and 1, checked_pow_fraction returns a value between x and 1.0,
\* give or take one raw unit, whichever stop ends the Taylor loop: below 1.0
\* every term after the first is negative and the partial sums fall towards
\* x^e from above, above 1.0 they alternate around it, so neither the
\* precision cut-off nor the iteration cap leaves the sum outside [x, 1.0].
PowFractionBetween ==
    LET x == call.a  lo == IF x < WideONE THEN x ELSE WideONE
                     hi == IF x < WideONE THEN WideONE ELSE x
    IN  call.op = "checked_pow_fraction" /\ InPowRange(x) /\ 0 < call.b /\ call.b < WideONE
        => call.res \notin {None, Panic} /\ lo <= call.res + 1 /\ call.res <= hi + 1

\* The spec's contract for checked_pow_fraction: a base outside
\* [min_pow_base, max_pow_base] is a contract violation (assert-fail); the
\* library's other failures are None.  So a panic means a bad base.
PowFractionPanicsOnlyOnBase ==
    call.op = "checked_pow_fraction" /\ call.res = Panic => ~InPowRange(call.a)

\* checked_mul is order-preserving in its first operand: raising a never
\* lowers a * b (the spec's requirement on the overflow fallback).
MulOrderPreserving ==
    LET next == CheckedMul(call.a + 1, call.b)
    IN  call.op = "checked_mul" /\ call.res # None /\ next # None
        => call.res <= next

=============================================================================
