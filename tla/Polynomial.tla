----------------------------- MODULE Polynomial -----------------------------
(***************************************************************************)
(* The polynomial arithmetic the commitment schemes share or repeat        *)
(* (subroutines/src/pcs: laurent.rs and the helpers of vela/mod.rs and     *)
(* carina/mod.rs).                                                         *)
(*                                                                         *)
(* A polynomial is the function from its exponents to its coefficients: a  *)
(* vector of n coefficients has the exponents 0 .. n-1, a Laurent buffer   *)
(* with offset N-1 the exponents -(N-1) .. N-1, and a bivariate polynomial *)
(* pairs <<i, j>>.  A commitment is the polynomial committed to: the       *)
(* trapdoor is unknown to everybody, so two commitments are equal exactly  *)
(* if the polynomials are, and a pairing equation holds exactly if it      *)
(* holds for polynomials.                                                  *)
(***************************************************************************)
EXTENDS Multilinear, FiniteSets

\* Vectors are resized freely, so an absent coefficient is a zero.
Coef(p, m) == IF m \in DOMAIN p THEN p[m] ELSE 0
Same(p, q) == \A m \in DOMAIN p \cup DOMAIN q : Coef(p, m) = Coef(q, m)
Nought == [i \in {} |-> 0]

plus(p, q) == [m \in DOMAIN p \cup DOMAIN q |-> Coef(p, m) ++ Coef(q, m)]
scale(c, p) == [m \in DOMAIN p |-> c ** p[m]]
minus(p, q) == [m \in DOMAIN p \cup DOMAIN q |-> Coef(p, m) -- Coef(q, m)]

times(p, q) ==
  [m \in {i + j : i \in DOMAIN p, j \in DOMAIN q} |->
     FSum([i \in DOMAIN p |-> p[i] ** Coef(q, m - i)])]
shift(p, n) == [m \in {i + n : i \in DOMAIN p} |-> p[m - n]]
monomial(n, c) == [m \in {n} |-> c]
SumOf(ps) == FoldFunction(plus, [i \in {} |-> 0], ps)   \* of a family
X_minus(x) == [i \in 0 .. 1 |-> IF i = 1 THEN 1 ELSE 0 -- x]

\* Degree and number of leading zeros of a coefficient vector.
NonZeros(p) == {i \in DOMAIN p : p[i] # 0}
degree(p) == CHOOSE d \in NonZeros(p) \cup {0} : \A i \in NonZeros(p) : i <= d

dense(p) == [i \in 0 .. degree(p) |-> Coef(p, i)]

Below(p, n) == \A i \in NonZeros(p) : i < n

power(x, n) == FoldFunction(LAMBDA a, b : a ** b, 1, [i \in 1 .. n |-> x])

horner(coeffs, x) ==
  LET n == Cardinality(DOMAIN coeffs)
      acc[k \in 0 .. n] == IF k = n THEN 0 ELSE (acc[k+1] ** x) ++ coeffs[k]
  IN  acc[0]

\* Long division by a monic b, from the top coefficient of a down; nothing
\* to divide if a is the shorter one.
monic_div(a, b) ==
  LET da == Cardinality(DOMAIN a)
      db == Cardinality(DOMAIN b) - 1
      rem[i \in db .. da] ==
        IF i = da THEN a
        ELSE [j \in DOMAIN a |->
                IF j \in i-db .. i
                THEN rem[i+1][j] -- (rem[i+1][i] ** b[j - (i-db)])
                ELSE rem[i+1][j]]
  IN  IF da <= db
      THEN [quotient |-> [k \in {} |-> 0], remainder |-> a]
      ELSE [quotient  |-> [k \in 0 .. da-db-1 |-> rem[k+db+1][k+db]],
            remainder |-> [j \in 0 .. db-1 |-> rem[db][j]]]

\* Value at x, and synthetic division by X - x.
at(p, x) == horner(dense(p), x)
quotient_at(p, x) == monic_div(dense(p), X_minus(x)).quotient

\* f times a_k + b_k X^{2^(k-1)} for each k.
mul_by_factors(f, a, b) ==
  LET product[k \in 0 .. Len(a)] ==
        IF k = 0 THEN f
        ELSE plus(scale(a[k], product[k-1]),
                  shift(scale(b[k], product[k-1]), 2^(k-1)))
  IN  product[Len(a)]
Complements(r) == [k \in DOMAIN r |-> 1 -- r[k]]

\* X^2 - s X + 1, which vanishes at x and 1/x if s = x + 1/x.
reciprocal_pair(s) == [i \in 0 .. 2 |-> IF i = 1 THEN 0 -- s ELSE 1]

\* The line through (x0, y0) and (x1, y1), x0 # x1.
two_point_remainder(x0, y0, x1, y1) ==
  LET b1 == (y1 -- y0) // (x1 -- x0)
  IN  [i \in 0 .. 1 |-> IF i = 1 THEN b1 ELSE y0 -- (b1 ** x0)]

\* The tensor polynomial with coefficients eq(i; r), at x: one factor for
\* each variable, x squared from one to the next.
eval_tensor(r, x) ==
  LET x_pow[k \in 1 .. Len(r)] == IF k = 1 THEN x ELSE x_pow[k-1] ** x_pow[k-1]
  IN  FProd([k \in 1 .. Len(r) |-> (1 -- r[k]) ++ (r[k] ** x_pow[k])])

\* Mutant: the shift goes up instead of down.
mul_by_reciprocal_tensor_up(coeffs, m, r) ==
  LET n == 2^m
      buf[k \in 0 .. m] ==
        IF k = 0 THEN [d \in -(n-1) .. n-1 |-> Coef(coeffs, d)]
        ELSE [d \in -(n-1) .. n-1 |->
                ((1 -- r[k]) ** buf[k-1][d])
                  ++ (r[k] ** Coef(buf[k-1], d - 2^(k-1)))]
  IN  buf[m]

\* coeffs(X) T_r(1/X), one shifted addition for each factor of T_r; what is
\* shifted out at the top of the buffer reads as zero.
mul_by_reciprocal_tensor(coeffs, m, r) ==
  LET n == 2^m
      buf[k \in 0 .. m] ==
        IF k = 0 THEN [d \in -(n-1) .. n-1 |-> Coef(coeffs, d)]
        ELSE [d \in -(n-1) .. n-1 |->
                ((1 -- r[k]) ** buf[k-1][d])
                  ++ (r[k] ** Coef(buf[k-1], d + 2^(k-1)))]
  IN  buf[m]

\* The symmetric part of a Laurent buffer without its constant, divided by
\* X: what the schemes commit to as their witness.
reciprocal_witness(a, p, m) ==
  LET h == mul_by_reciprocal_tensor(a, m, p)
  IN  [i \in 0 .. 2^m - 2 |-> h[i+1] ++ h[-(i+1)]]

\* z is a proper pair with its inverse.
HasReciprocal(z) == z # 0 /\ z ** z # 1
=============================================================================
