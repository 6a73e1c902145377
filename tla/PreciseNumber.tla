---------------------------- MODULE PreciseNumber ----------------------------
(***************************************************************************)
(* The fixed-point library of                                              *)
(*   src/blockchains/solana/src/solana_lib/spl/token_swap/curve/mod.rs     *)
(* (module math): PreciseNumber, a U256 holding real_value * ONE, and the  *)
(* CheckedCeilDiv of u128.                                                 *)
(*                                                                         *)
(* A PreciseNumber is represented by its inner value.  The widths are      *)
(* parameters: InnerMax stands for U256::MAX and OuterMax for u128::MAX,   *)
(* every U256 operation is checked against InnerMax as the uint crate's    *)
(* checked_* are, and as_u128 panics above OuterMax.  Option results are   *)
(* an integer or None.                                                     *)
(***************************************************************************)
EXTENDS Naturals

CONSTANTS
    ONE,          \* the scale, 10^12 in the code
    InnerMax,     \* U256::MAX
    OuterMax,     \* u128::MAX
    PRECISION,    \* precision(): 100 raw units, far below ONE, in the code
    MAX_APPROXIMATION_ITERATIONS,
    None,         \* Option::None
    Panic         \* the outcome of a panic (as_u128 of a too-large value)

ASSUME /\ ONE \in Nat \ {0} /\ ONE % 2 = 0
       /\ OuterMax * ONE <= InnerMax      \* new(u128) never overflows, as in the code
       /\ PRECISION \in Nat \ {0}

\* `x?` followed by F: None propagates.
Then(x, F(_)) == IF x \in {None, Panic} THEN x ELSE F(x)

\* U256 checked arithmetic.
UAdd(a, b) == IF a + b <= InnerMax THEN a + b ELSE None
\* Mutant of USub: the underflow check dropped.
USubUnchecked(a, b) == a - b

USub(a, b) == IF a >= b THEN a - b ELSE None
UMul(a, b) == IF a * b <= InnerMax THEN a * b ELSE None
UDiv(a, b) == IF b = 0 THEN None ELSE a \div b
URem(a, b) == IF b = 0 THEN None ELSE a % b

-----------------------------------------------------------------------------
\* Mutant of CheckedCeilDiv: the second remainder is ignored, rhs = a / q.
CheckedCeilDivFloorRhs(a, b) ==
    LET quotient == UDiv(a, b)
    IN  CASE quotient = None       -> None
          [] quotient = 0          -> None
          [] a % b = 0             -> <<quotient, b>>
          [] OTHER                 -> <<quotient + 1, a \div (quotient + 1)>>

\* checked_ceil_div of u128 and of U256, the same code over two widths.  The
\* checked_add(1)s cannot fail: quotient + 1 <= a and a / q < a.
CheckedCeilDiv(a, b) ==
    LET quotient == UDiv(a, b)
    IN  CASE quotient = None       -> None
          [] quotient = 0          -> None
          [] a % b = 0             -> <<quotient, b>>
          [] OTHER ->
               LET q == quotient + 1
               IN  <<q, IF a % q > 0 THEN a \div q + 1 ELSE a \div q>>

-----------------------------------------------------------------------------
\* Mutant of RoundingCorrection: a whole unit instead of a half.
RoundingCorrectionWhole == ONE

RoundingCorrection == ONE \div 2

\* PreciseNumber::new: lift an imprecise u128.
New(v) == UMul(v, ONE)

\* to_imprecise: round half up, then as_u128, which panics above u128::MAX.
ToImprecise(x) ==
    Then(Then(UAdd(x, RoundingCorrection), LAMBDA s : UDiv(s, ONE)),
         LAMBDA q : IF q <= OuterMax THEN q ELSE Panic)

\* unsigned_sub: magnitude and sign of self - rhs.
UnsignedSub(a, b) == IF a >= b THEN <<a - b, FALSE>> ELSE <<b - a, TRUE>>

AlmostEq(a, b, precision) == UnsignedSub(a, b)[1] < precision

Floor(x) == Then(UDiv(x, ONE), LAMBDA q : UMul(q, ONE))

Ceiling(x) ==
    Then(Then(Then(USub(ONE, 1), LAMBDA d : UAdd(x, d)),
              LAMBDA s : UDiv(s, ONE)),
         LAMBDA q : UMul(q, ONE))

\* Mutant of CheckedDiv: the direct path truncates, without the correction.
CheckedDivTruncating(a, b) ==
    CASE b = 0                -> None
      [] UMul(a, ONE) # None  -> UDiv(a * ONE, b)
      [] OTHER                -> Then(Then(UAdd(a, RoundingCorrection),
                                           LAMBDA s : UDiv(s, b)),
                                      LAMBDA q : UMul(q, ONE))

\* checked_div: (a*ONE + ONE/2) / b, or, when a*ONE overflows,
\* ((a + ONE/2) / b) * ONE.
CheckedDiv(a, b) ==
    CASE b = 0                -> None
      [] UMul(a, ONE) # None  -> Then(UAdd(a * ONE, RoundingCorrection),
                                      LAMBDA s : UDiv(s, b))
      [] OTHER                -> Then(Then(UAdd(a, RoundingCorrection),
                                           LAMBDA s : UDiv(s, b)),
                                      LAMBDA q : UMul(q, ONE))

\* checked_mul: (a*b + ONE/2) / ONE, or, when a*b overflows, the larger
\* operand divided by ONE first and then multiplied by the smaller.
CheckedMul(a, b) ==
    CASE UMul(a, b) # None -> Then(UAdd(a * b, RoundingCorrection),
                                   LAMBDA s : UDiv(s, ONE))
      [] a >= b            -> Then(UDiv(a, ONE), LAMBDA q : UMul(q, b))
      [] OTHER             -> Then(UDiv(b, ONE), LAMBDA q : UMul(q, a))

CheckedAdd(a, b) == UAdd(a, b)
CheckedSub(a, b) == USub(a, b)

\* checked_pow: exponentiation by squaring, the result seeded with the base
\* for odd exponents; each round squares the base first, then multiplies it
\* into the result when the halved exponent is odd.
RECURSIVE PowLoop(_, _, _)
PowLoop(result, squared, e) ==
    IF e = 0 THEN result
    ELSE LET sq == CheckedMul(squared, squared)
         IN  Then(sq, LAMBDA s :
               Then(IF e % 2 # 0 THEN CheckedMul(result, s) ELSE result,
                    LAMBDA r : PowLoop(r, s, e \div 2)))

\* Mutant of CheckedPow: the result is always seeded with one.
CheckedPowSeedOne(x, exponent) == PowLoop(ONE, x, exponent \div 2)

CheckedPow(x, exponent) ==
    PowLoop(IF exponent % 2 = 0 THEN ONE ELSE x, x, exponent \div 2)

-----------------------------------------------------------------------------
\* min_pow_base and max_pow_base: the bases the Taylor series accepts.
MinPowBase == 1
MaxPowBase == 2 * ONE

Flip(b, c) == IF c THEN ~b ELSE b

\* Mutant of NextSign: the sign of x - 1 is not folded in.
NextSignNoBase(negative, xNeg, curNeg) == Flip(negative, curNeg)

\* Mutant of NextSign: the sign of n + 1 - k is not folded in.
NextSignNoExponent(negative, xNeg, curNeg) == Flip(negative, xNeg)

\* `negative` is flipped once for each negative factor of the new term.
NextSign(negative, xNeg, curNeg) == Flip(Flip(negative, xNeg), curNeg)

\* The loop of checked_pow_approximation, from iteration k on:
\* t_k = t_(k-1) * |n + 1 - k| * |x - 1| / k, added or subtracted by sign,
\* stopping when the term drops below precision() or k reaches the cap.
RECURSIVE TaylorLoop(_, _, _, _, _, _, _, _)
TaylorLoop(guess, term, xMinusA, xNeg, exponentPlusOne, negative, k, maxIterations) ==
    IF k >= maxIterations THEN guess
    ELSE Then(New(k), LAMBDA kp :
           LET cur == UnsignedSub(exponentPlusOne, kp)
               t   == Then(Then(CheckedMul(term, cur[1]), LAMBDA t1 : CheckedMul(t1, xMinusA)),
                           LAMBDA t2 : CheckedDiv(t2, kp))
           IN  Then(t, LAMBDA tk :
                 IF tk < PRECISION THEN guess
                 ELSE LET neg == NextSign(negative, xNeg, cur[2])
                      IN  Then(IF neg THEN CheckedSub(guess, tk) ELSE CheckedAdd(guess, tk),
                               LAMBDA g : TaylorLoop(g, tk, xMinusA, xNeg, exponentPlusOne,
                                                     neg, k + 1, maxIterations))))

\* checked_pow_approximation: x^n for a fractional n, by the binomial series
\* around 1; the asserts on the base panic.
PowApproximation(x, exponent, maxIterations) ==
    CASE x < MinPowBase \/ x > MaxPowBase -> Panic
      [] exponent = 0                    -> ONE
      [] OTHER ->
           LET xa == UnsignedSub(x, ONE)
           IN  Then(CheckedAdd(exponent, ONE), LAMBDA e1 :
                 TaylorLoop(ONE, ONE, xa[1], xa[2], e1, FALSE, 1, maxIterations))

\* checked_pow_fraction: x^floor(e) by checked_pow times x^(e - floor(e)) by
\* the series.  The whole part goes through to_imprecise, whose as_u128
\* panics above u128::MAX.
PowFraction(x, exponent) ==
    IF x < MinPowBase \/ x > MaxPowBase THEN Panic
    ELSE Then(Floor(exponent), LAMBDA whole :
           Then(Then(ToImprecise(whole), LAMBDA w : CheckedPow(x, w)), LAMBDA pw :
             LET rem == UnsignedSub(exponent, whole)[1]
             IN  IF rem = 0 THEN pw
                 ELSE Then(PowApproximation(x, rem, MAX_APPROXIMATION_ITERATIONS),
                           LAMBDA pr : CheckedMul(pw, pr))))

-----------------------------------------------------------------------------
\* newtonian_root_approximation: x_{k+1} = ((n-1)*x_k + A / x_k^(n-1)) / n,
\* stopping when two successive guesses are almost equal or after
\* `iterations` rounds (last_guess is always the previous guess).
RECURSIVE NewtonLoop(_, _, _, _, _, _)
NewtonLoop(a, root, rootMinusOne, rootMinusOneWhole, guess, k) ==
    IF k = 0 THEN guess
    ELSE LET power  == CheckedPow(guess, rootMinusOneWhole)
             second == IF power = None THEN New(0) ELSE CheckedDiv(a, power)
             next   == Then(CheckedMul(rootMinusOne, guess), LAMBDA f :
                         Then(second, LAMBDA s :
                           Then(CheckedAdd(f, s), LAMBDA t : CheckedDiv(t, root))))
         IN  Then(next, LAMBDA g :
               IF AlmostEq(guess, g, PRECISION) THEN g
               ELSE NewtonLoop(a, root, rootMinusOne, rootMinusOneWhole, g, k - 1))

\* Mutant of NewtonianRootApproximation: n is used where n - 1 belongs.
NewtonianRootApproximationNoShift(a, root, guess, iterations) ==
    CASE a = 0    -> 0
      [] root = 0 -> None
      [] OTHER    ->
           Then(ToImprecise(root), LAMBDA w : NewtonLoop(a, root, root, w, guess, iterations))

NewtonianRootApproximation(a, root, guess, iterations) ==
    CASE a = 0    -> 0
      [] root = 0 -> None
      [] OTHER    ->
           LET rootMinusOne == Then(New(1), LAMBDA one : CheckedSub(root, one))
           IN  Then(rootMinusOne, LAMBDA rm1 :
                 Then(ToImprecise(rm1), LAMBDA w :
                   NewtonLoop(a, root, rm1, w, guess, iterations)))

\* less_than and greater_than compare the inner values.
LessThan(a, b)    == a < b
GreaterThan(a, b) == a > b

MinimumSqrtBase == 0
MaximumSqrtBase == New(OuterMax)

\* sqrt: Newton's method for root 2 seeded with (x + 1) / 2, defined on
\* [0, new(u128::MAX)].
Sqrt(x) ==
    IF LessThan(x, MinimumSqrtBase) \/ GreaterThan(x, MaximumSqrtBase) THEN None
    ELSE Then(New(2), LAMBDA two :
           Then(New(1), LAMBDA one :
             Then(Then(CheckedAdd(x, one), LAMBDA s : CheckedDiv(s, two)),
                  LAMBDA guess :
                    NewtonianRootApproximation(x, two, guess,
                                               MAX_APPROXIMATION_ITERATIONS))))

=============================================================================
