--------------------------- MODULE Interpolation ---------------------------
(***************************************************************************)
(* The loop of interpolate_uni_poly,                                       *)
(* subroutines/src/poly_iop/sum_check/verifier.rs, with the widths of its  *)
(* integers: i64 and u64 for at most 20 evaluations, i128 and u128 for at  *)
(* most 33, the field beyond.  SumCheckVerifier has its closed form.       *)
(*                                                                         *)
(* A machine word is the sequence of its bytes, least significant first;   *)
(* a signed one is in two's complement.  Products wrap, as in a release    *)
(* build; NeverWraps says that they need not.                              *)
(***************************************************************************)
EXTENDS SumCheckVerifier, SequencesExt

CONSTANTS
  Lengths,          \* the numbers of evaluations, len
  Exponents(_),     \* Exponents(len): X^k is interpolated, k in Exponents(len)
  Points(_)         \* Points(len): the challenges it is evaluated at

\* The denominators divide: no product of positive numbers below a length
\* may be zero in the field.
ASSUME LengthAssumption ==
  /\ Lengths \subseteq 1 .. P
  /\ \A len \in Lengths : /\ Exponents(len) \subseteq 0 .. len - 1
                          /\ Points(len) \subseteq Field

VARIABLES
  len,              \* p_i.len()
  exponent,         \* p_i holds the values of X^exponent (history)
  eval_at,
  i,                \* the loop runs from len - 1 down to 0
  last_denominator, \* of the variants in words
  numerator,        \* ratio_numerator, or denom_up
  denominator,      \* ratio_denominator, or denom_down
  res,
  status            \* "running", "ok" or "panic"

vars == <<len, exponent, eval_at, last_denominator, i, numerator, denominator,
          res, status>>

inputs == <<len, exponent, eval_at, last_denominator>>

---------------------------------------------------------------------------
(* Words                                                                   *)

One(bytes) == [b \in 1 .. bytes |-> IF b = 1 THEN 1 ELSE 0]
Negative(x) == x[Len(x)] >= 128

\* -x: zero bytes stay zero up to the first that is not.
Negated(x) ==
  [b \in DOMAIN x |-> IF \A low \in 1 .. b - 1 : x[low] = 0
                      THEN (256 - x[b]) % 256
                      ELSE 255 - x[b]]

\* x times a small k, byte by byte, and what it carries out of the word.
Product(x, k) ==
  FoldLeft(LAMBDA acc, byte :
             [word |-> Append(acc.word, (byte * k + acc.carry) % 256),
              carry |-> (byte * k + acc.carry) \div 256],
           [word |-> <<>>, carry |-> 0], x)
Times(x, k) == Product(x, k).word

\* F::from of an unsigned word.
Residue(x) == FoldRight(LAMBDA byte, acc : FromInt(256 * acc + byte), x, 0)

\* Mutant: negative words are read as unsigned ones.
SignedResidueUnsigned(x) == Residue(x)

\* ratio_numerator_f
SignedResidue(x) == IF Negative(x) THEN FromInt(-Residue(Negated(x)))
                    ELSE Residue(x)

---------------------------------------------------------------------------
(* Before the loop                                                         *)

\* Mutant: two lengths too many are left to the 64-bit variant.
BytesLate(length) == IF length <= 22 THEN 8 ELSE IF length <= 33 THEN 16 ELSE 0

\* The bytes of an integer of the variant taken; 0 for the field.
Bytes(length) == IF length <= 20 THEN 8 ELSE IF length <= 33 THEN 16 ELSE 0

InWords == Bytes(len) # 0

\* u64_factorial, u128_factorial
factorial(bytes, a) ==
  FoldLeft(Times, One(bytes), [n \in 1 .. a |-> n])

field_factorial(a) == FProd([n \in 1 .. a |-> FromInt(n)])

Power(x, k) == FProd([n \in 1 .. k |-> x])
p_i == [j \in 0 .. len - 1 |-> Power(FromInt(j), exponent)]

\* Mutant: the last node is left out of the common product.
prodShort == FProd([e \in 0 .. len - 2 |-> eval_at -- FromInt(e)])

evals == [e \in 0 .. len - 1 |-> eval_at -- FromInt(e)]
prod == FProd(evals)

Init ==
  /\ len \in Lengths
  /\ exponent \in Exponents(len)
  /\ eval_at \in Points(len)
  /\ last_denominator = IF InWords
                        THEN Residue(factorial(Bytes(len), len - 1)) ELSE 1
  /\ i = len - 1
  /\ numerator = IF InWords THEN One(Bytes(len)) ELSE field_factorial(len - 1)
  /\ denominator = IF InWords THEN One(Bytes(len)) ELSE 1
  /\ res = 0
  /\ status = "running"

---------------------------------------------------------------------------
(* One iteration                                                           *)

Ratio ==
  IF InWords
  THEN [up |-> Residue(denominator),
        down |-> last_denominator ** SignedResidue(numerator)]
  ELSE [up |-> denominator, down |-> numerator]

Add ==
  /\ Ratio.down ** evals[i] # 0
  /\ res' = res ++ ((p_i[i] ** prod ** Ratio.up) // (Ratio.down ** evals[i]))

\* The denominator of i - 1 is that of i times -(len - i) / i.
NextInWords ==
  /\ InWords
  /\ numerator' = Negated(Times(numerator, len - i))
  /\ denominator' = Times(denominator, i)

NextInField ==
  /\ ~ InWords
  /\ numerator' = numerator ** FromInt(-(len - i))
  /\ denominator' = denominator ** FromInt(i)

Iterate ==
  /\ status = "running"
  /\ i # 0
  /\ Add
  /\ NextInWords \/ NextInField
  /\ i' = i - 1
  /\ UNCHANGED <<inputs, status>>

Return ==
  /\ status = "running"
  /\ i = 0
  /\ Add
  /\ status' = "ok"
  /\ UNCHANGED <<inputs, i, numerator, denominator>>

DivideByZero ==
  /\ status = "running"
  /\ Ratio.down ** evals[i] = 0
  /\ status' = "panic"
  /\ UNCHANGED <<inputs, i, numerator, denominator, res>>

Next == Iterate \/ Return \/ DivideByZero

Spec == Init /\ [][Next]_vars

---------------------------------------------------------------------------
(* Properties                                                              *)

\* At every iteration the ratio, kept from the last index downwards, is the
\* Lagrange denominator of index i: \prod_{j # i} (i - j).
RatioIsDenominator ==
  status = "running" =>
    Ratio.up ** FProd([j \in (0 .. len - 1) \ {i} |-> FromInt(i - j)])
      = Ratio.down

\* The result is the value of the polynomial and that of the closed form the
\* other models use; the division by zero happens exactly at the nodes.
InterpolatesAtEveryWidth ==
  /\ status = "ok" =>
       /\ res = Power(eval_at, exponent)
       /\ res = interpolate_uni_poly(p_i, len - 1, eval_at)
       /\ ~ IsNode(len - 1, eval_at)
  /\ status = "panic" => IsNode(len - 1, eval_at)

\* "We will be able to compute the ratio for len <= 20 with i64, for
\* len <= 33 with i128" (lines 222-228): neither the factorial nor a ratio
\* leaves its width, so that a build with overflow checks does not panic.
Magnitude(x) == IF Negative(x) THEN Negated(x) ELSE x
FitsTimes(x, k) == Product(x, k).carry = 0

NeverWraps ==
  InWords =>
    /\ i = len - 1 =>
         \A n \in 2 .. len - 1 : FitsTimes(factorial(Bytes(len), n - 1), n)
    /\ (status = "running" /\ i # 0) =>
         /\ FitsTimes(denominator, i)
         /\ FitsTimes(Magnitude(numerator), len - i)
         /\ ~ Negative(Times(Magnitude(numerator), len - i))
=============================================================================
