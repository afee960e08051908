-------------------------- MODULE DecimalArithmetic --------------------------
(***************************************************************************)
(* Decimal numbers with a coefficient and a scale, and what is computed    *)
(* with them (decimal.js), against what the results should be.  A step is  *)
(* a call of a function, whose result stays until the next one.            *)
(*                                                                         *)
(* Decimals are kept as normalizeParts() leaves them.  Their strings are   *)
(* not modelled: parseDecimal() and formatDecimalParts() give one string   *)
(* to each of these pairs.                                                 *)
(***************************************************************************)
EXTENDS Integers, FiniteSetsExt

CONSTANTS
  MaxCoefficient,  \* bound: of the operands
  MaxScale,        \* bound: of the operands
  Places           \* the scales that divideDecimal() is asked for

\* pow10() refuses exponents above 10000, and divideDecimal() scales above 100.
ASSUME DecimalAssumption ==
  /\ MaxCoefficient \in Nat /\ MaxScale \in 0 .. 9900
  /\ Places \subseteq 0 .. 100

VARIABLE call      \* the function that was called, its operands and its result

decimalVars == <<call>>

Rounding == {"DOWN", "HALF_UP", "FLOOR", "CEIL"}

Abs(n) == IF n < 0 THEN 0 - n ELSE n

-----------------------------------------------------------------------------
(***************************************************************************)
(* The functions.                                                          *)
(***************************************************************************)

\* pow10()
Pow10(exponent) ==
  LET power[n \in 0 .. exponent] == IF n = 0 THEN 1 ELSE 10 * power[n - 1]
  IN  power[exponent]

\* normalizeParts(): the zeros at the end of the fraction go.
NormalizeParts(coefficient, scale) ==
  LET zeros == Max({n \in 0 .. scale : coefficient % Pow10(n) = 0})
  IN  IF coefficient = 0 THEN [coefficient |-> 0, scale |-> 0]
      ELSE [coefficient |-> (IF coefficient < 0 THEN -1 ELSE 1) * (Abs(coefficient) \div Pow10(zeros)),
            scale |-> scale - zeros]

Decimal == {NormalizeParts(c, s) : c \in (0 - MaxCoefficient) .. MaxCoefficient, s \in 0 .. MaxScale}
Zero == [coefficient |-> 0, scale |-> 0]

\* align(): the coefficients of two numbers at the larger of their scales.
CommonScale(a, b) == Max({a.scale, b.scale})
AtScale(a, scale) == a.coefficient * Pow10(scale - a.scale)

Add(a, b) == LET s == CommonScale(a, b) IN NormalizeParts(AtScale(a, s) + AtScale(b, s), s)
Subtract(a, b) == LET s == CommonScale(a, b) IN NormalizeParts(AtScale(a, s) - AtScale(b, s), s)

Multiply(a, b) == NormalizeParts(a.coefficient * b.coefficient, a.scale + b.scale)

Compare(a, b) ==
  LET s == CommonScale(a, b)
  IN  IF AtScale(a, s) = AtScale(b, s) THEN 0 ELSE IF AtScale(a, s) > AtScale(b, s) THEN 1 ELSE -1

\* Mutant: the sign is not looked at.
ShouldRoundUpUnsigned(remainder, denominator, negative, rounding) ==
  CASE rounding = "DOWN" -> FALSE
    [] rounding = "HALF_UP" -> 2 * remainder >= denominator
    [] rounding = "FLOOR" -> FALSE
    [] rounding = "CEIL" -> TRUE

\* shouldRoundUp(), of the magnitude, for a remainder that is not 0.
ShouldRoundUp(remainder, denominator, negative, rounding) ==
  CASE rounding = "DOWN" -> FALSE
    [] rounding = "HALF_UP" -> 2 * remainder >= denominator
    [] rounding = "FLOOR" -> negative
    [] rounding = "CEIL" -> ~negative

\* divideDecimal(), for b # 0.
Divide(a, b, places, rounding) ==
  LET negative == (a.coefficient < 0) # (b.coefficient < 0)
      exponent == b.scale + places - a.scale
      numerator == Abs(a.coefficient) * (IF exponent >= 0 THEN Pow10(exponent) ELSE 1)
      denominator == Abs(b.coefficient) * (IF exponent >= 0 THEN 1 ELSE Pow10(0 - exponent))
      remainder == numerator % denominator
      up == remainder # 0 /\ ShouldRoundUp(remainder, denominator, negative, rounding)
      quotient == (numerator \div denominator) + (IF up THEN 1 ELSE 0)
  IN  NormalizeParts(IF negative THEN 0 - quotient ELSE quotient, places)

IsStepAligned(value, step) == LET s == CommonScale(value, step) IN AtScale(value, s) % AtScale(step, s) = 0

QuantizeToStep(value, step, rounding) == Multiply(Divide(value, step, 0, rounding), step)

-----------------------------------------------------------------------------
(***************************************************************************)
(* The calls.                                                              *)
(***************************************************************************)
Call(f, a, b, places, rounding, result) ==
  call' = [f |-> f, a |-> a, b |-> b, places |-> places, rounding |-> rounding, result |-> result]

NoCall == [f |-> "none", a |-> Zero, b |-> Zero, places |-> 0, rounding |-> "DOWN", result |-> Zero]

DecimalInit == call = NoCall

CallAdd(a, b) == Call("add", a, b, 0, "DOWN", Add(a, b))
CallSubtract(a, b) == Call("subtract", a, b, 0, "DOWN", Subtract(a, b))
CallMultiply(a, b) == Call("multiply", a, b, 0, "DOWN", Multiply(a, b))
CallCompare(a, b) ==
  Call("compare", a, b, 0, "DOWN", [coefficient |-> Compare(a, b), scale |-> 0])
CallDivide(a, b) ==
  /\ b.coefficient # 0
  /\ \E places \in Places, rounding \in Rounding :
       Call("divide", a, b, places, rounding, Divide(a, b, places, rounding))
CallQuantize(a, b) ==
  /\ b.coefficient > 0
  /\ \E rounding \in Rounding : Call("quantize", a, b, 0, rounding, QuantizeToStep(a, b, rounding))

Discard == call.f # "none" /\ call' = NoCall

DecimalNext ==
  \/ /\ call.f = "none"
     /\ \E a, b \in Decimal :
          \/ CallAdd(a, b) \/ CallSubtract(a, b) \/ CallMultiply(a, b) \/ CallCompare(a, b)
          \/ CallDivide(a, b) \/ CallQuantize(a, b)
  \/ Discard

DecimalSpec == DecimalInit /\ [][DecimalNext]_decimalVars

-----------------------------------------------------------------------------
(***************************************************************************)
(* What the results should be: the fractions that the decimals stand for,  *)
(* reduced to a common denominator.                                        *)
(***************************************************************************)
Canonical(d) ==
  /\ d.coefficient \in Int /\ d.scale \in Nat
  /\ d.scale > 0 => d.coefficient % 10 # 0

\* A number is stored and compared as one string: every result is in the one
\* form that its value has.
DecimalTypeOK == Canonical(call.a) /\ Canonical(call.b) /\ Canonical(call.result)

\* n / 10 ^ scale is the number d.
IsFraction(d, n, scale) == d.coefficient * Pow10(scale) = n * Pow10(d.scale)

Left == call.a.coefficient * Pow10(call.b.scale)
Right == call.b.coefficient * Pow10(call.a.scale)
Scale == call.a.scale + call.b.scale

\* Sums, products and comparisons are exact, whatever the scales.
SumsAreExact ==
  /\ call.f = "add" => IsFraction(call.result, Left + Right, Scale)
  /\ call.f = "subtract" => IsFraction(call.result, Left - Right, Scale)
  /\ call.f = "multiply" =>
       IsFraction(call.result, call.a.coefficient * call.b.coefficient, Scale)
  /\ call.f = "compare" =>
       /\ call.result.coefficient > 0 <=> Left > Right
       /\ call.result.coefficient < 0 <=> Left < Right

\* The integer n is numerator / denominator, rounded.
IsRounded(n, numerator, denominator, rounding) ==
  LET sign == IF denominator < 0 THEN -1 ELSE 1
      exact == sign * numerator
      d == sign * denominator
  IN  CASE rounding = "DOWN" -> Abs(n) * d <= Abs(exact) /\ Abs(exact) < (Abs(n) + 1) * d /\ (n < 0 => exact < 0)
                             /\ (n > 0 => exact > 0)
        [] rounding = "FLOOR" -> n * d <= exact /\ exact < (n + 1) * d
        [] rounding = "CEIL" -> (n - 1) * d < exact /\ exact <= n * d
        [] rounding = "HALF_UP" -> /\ 2 * Abs(exact - n * d) <= d
                                   /\ 2 * Abs(exact - n * d) = d => Abs(n) * d > Abs(exact)

\* A quotient is the number of the asked places that the rounding asks for,
\* for operands of any signs and scales.
QuotientsAreRounded ==
  call.f = "divide" =>
    /\ call.result.scale <= call.places
    /\ IsRounded(AtScale(call.result, call.places), Left * Pow10(call.places), Right, call.rounding)

\* A number is quantised to a multiple of the step, the one beside it that the
\* rounding asks for.
QuantaAreSteps ==
  call.f = "quantize" =>
    /\ IsStepAligned(call.result, call.b)
    /\ LET s == Max({call.result.scale, Scale})
       IN  IsRounded(AtScale(call.result, s) \div AtScale(call.b, s), Left, Right, call.rounding)

\* Results are exact, or rounded as asked, and have one form (decimal.js).
DecimalsAreExact == DecimalTypeOK /\ SumsAreExact /\ QuotientsAreRounded /\ QuantaAreSteps
=============================================================================
