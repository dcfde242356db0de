-------------------------------- MODULE Bdfg --------------------------------
(***************************************************************************)
(* The batched opening of several polynomials at sets of points            *)
(* (subroutines/src/pcs/bdfg.rs), shared by Mercury, which has a copy of   *)
(* its own, and Chopin.  A claim is [poly, values]: a polynomial or the    *)
(* commitment to it, and the function from its points to its values.       *)
(***************************************************************************)
EXTENDS Polynomial, TLC

ProdOf(ps) == FoldFunction(times, monomial(0, 1), ps)   \* of a family
vanishing_poly(roots) == ProdOf([x \in roots |-> X_minus(x)])

lagrange_interpolate(values) ==
  LET xs == DOMAIN values
      denom(x) == FProd([y \in xs \ {x} |-> x -- y])
  IN  SumOf([x \in xs |-> scale(values[x] // denom(x), vanishing_poly(xs \ {x}))])

union_points(claims) == UNION {DOMAIN claims[t].values : t \in DOMAIN claims}
complement(claims, t) == vanishing_poly(union_points(claims) \ DOMAIN claims[t].values)

\* m = sum of rho^(t-1) Z_{T \ S_t} (p_t - l_t), and W = m / Z_T.
bdfg_m(claims, rho) ==
  SumOf([t \in DOMAIN claims |->
           scale(power(rho, t-1),
                 times(complement(claims, t),
                       minus(claims[t].poly, lagrange_interpolate(claims[t].values))))])
bdfg_first_round(claims, rho) ==
  monic_div(dense(bdfg_m(claims, rho)), vanishing_poly(union_points(claims)))

\* L = sum of rho^(t-1) Z_{T \ S_t}(z) (p_t - l_t(z)) - Z_T(z) W, of the
\* prover's polynomials and of the verifier's commitments.
bdfg_l(claims, W, rho, z) ==
  minus(SumOf([t \in DOMAIN claims |->
                 scale(power(rho, t-1) ** at(complement(claims, t), z),
                       minus(claims[t].poly,
                             monomial(0, at(lagrange_interpolate(claims[t].values), z))))]),
        scale(at(vanishing_poly(union_points(claims)), z), W))
bdfg_second_round(claims, W, rho, z) ==
  monic_div(dense(bdfg_l(claims, W, rho, z)), X_minus(z))

\* Both rounds fail on a remainder.
Divides(division) == NonZeros(division.remainder) = {}

\* L + z W' = X W', as a difference of the two sides.
bdfg_defect(claims, W, W_prime, rho, z) ==
  minus(bdfg_l(claims, W, rho, z), times(W_prime, X_minus(z)))
=============================================================================
