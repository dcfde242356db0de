----------------------------- MODULE PrimeField -----------------------------
(***************************************************************************)
(* The prime field every crate of the repository is generic over (the      *)
(* trait ark_ff::PrimeField, an external library).  The code is            *)
(* instantiated at 255-bit primes; the models use a small prime P, with    *)
(* elements represented by 0 .. P-1, so that TLC can enumerate every       *)
(* element where the code draws one at random.                             *)
(***************************************************************************)
EXTENDS Integers, Functions

CONSTANT P      \* the characteristic

ASSUME PAssumption ==
  /\ P \in Nat \ {0, 1}
  /\ \A a, b \in 2 .. P-1 : a * b # P

Field == 0 .. P-1

FromInt(n) == n % P                     \* F::from(n), any integer n

a ++ b == (a + b) % P
a -- b == (a - b) % P
a ** b == (a * b) % P

\* `x.inverse()`: defined for a non-zero x only.
Inv(a) == CHOOSE b \in Field : (a * b) % P = 1

\* `x.inverse().unwrap_or_default()`
InvOrZero(a) == IF a = 0 THEN 0 ELSE Inv(a)

\* `a / b`: the library panics on b = 0, so every use is guarded.
a // b == a ** Inv(b)

\* Sum and product of a family of elements, `iter().sum()` and `.product()`.
FSum(f) == SumFunction(f) % P
FProd(f) == FoldFunction(LAMBDA a, b : a ** b, 1, f)
=============================================================================
