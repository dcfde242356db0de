--------------------------- MODULE SumCheckProver ---------------------------
(***************************************************************************)
(* The prover of the SumCheck protocol,                                    *)
(* subroutines/src/poly_iop/sum_check/prover.rs.                           *)
(*                                                                         *)
(* A VirtualPolynomial is a record: aux_info, products (a sequence of      *)
(* [coefficient, factors], factors being positions in the list of MLEs)    *)
(* and mles (flattened_ml_extensions, a sequence of tables).               *)
(***************************************************************************)
EXTENDS Multilinear

---------------------------------------------------------------------------
(* Reference: the polynomial and its partial sums.                         *)

\* VirtualPolynomial::evaluate
evaluate(p, x) ==
  FSum([k \in DOMAIN p.products |->
          p.products[k].coefficient **
            FProd([j \in DOMAIN p.products[k].factors |->
                     Extension(p.mles[p.products[k].factors[j]], x)])])

\* The sum of p over the Boolean values of the variables after prefix.
PartialSum(p, prefix) ==
  LET free == p.aux_info.num_variables - Len(prefix)
  IN  FSum([b \in Index(free) |-> evaluate(p, prefix \o bit_decompose(b, free))])

---------------------------------------------------------------------------
\* VirtualPolynomial::build_f_hat, which is mul_by_mle with coefficient one:
\* one more factor in every product, so one more degree.
build_f_hat(p, r) ==
  [aux_info |-> [p.aux_info EXCEPT !.max_degree = @ + 1],
   products |-> [k \in DOMAIN p.products |->
                   [p.products[k] EXCEPT !.factors = Append(@, Len(p.mles) + 1)]],
   mles     |-> Append(p.mles, build_eq_x_r_vec(r))]

prover_init(p) == [round |-> 0, challenges |-> <<>>, mles |-> p.mles]

barycentric_weights(points) ==
  [j \in points |->
     InvOrZero(FProd([i \in points \ {j} |-> FromInt(j - i)]))]

\* The value at `at` of the polynomial through (j, evals[j]), j \in points.
extrapolate(points, evals, at) ==
  LET coeffs == [j \in points |->
                   InvOrZero(FromInt(at - j)) ** barycentric_weights(points)[j]]
  IN  FSum([j \in points |-> coeffs[j] ** evals[j]])
        ** InvOrZero(FSum(coeffs))

\* The values at 0 .. number of factors of one product, summed over the
\* free variables; mle[2b] + t * step is reached by adding the step t times.
ProductSums(product, mles, free) ==
  [t \in 0 .. Len(product.factors) |->
     product.coefficient **
       FSum([b \in Index(free) |->
               FProd([j \in DOMAIN product.factors |->
                        LET table == mles[product.factors[j]]
                        IN  table[2*b] ++ FromInt(t)
                              ** (table[2*b + 1] -- table[2*b])])])]

\* Mutant: short products are dropped beyond their degree.
RoundMessageUnextended(p, mles, free) ==
  [t \in 0 .. p.aux_info.max_degree |->
     FSum([k \in DOMAIN p.products |->
             LET sum == ProductSums(p.products[k], mles, free)
             IN  IF t \in DOMAIN sum THEN sum[t] ELSE 0])]

\* The message of a round over tables that have `free` + 1 variables left:
\* one value for each t in 0 .. max_degree, those beyond the degree of a
\* product extrapolated from its own.
RoundMessage(p, mles, free) ==
  [t \in 0 .. p.aux_info.max_degree |->
     FSum([k \in DOMAIN p.products |->
             LET sum    == ProductSums(p.products[k], mles, free)
                 points == DOMAIN sum
             IN  IF t \in points THEN sum[t] ELSE extrapolate(points, sum, t)])]

\* prove_round_and_update_state; challenge is <<>> for None, <<r>> for
\* Some(r).  It refuses to run past the last round, to take a challenge in
\* the first one and to go without one later, leaving its state alone.
Active(p, s) == s.round < p.aux_info.num_variables
Accepts(p, s, challenge) ==
  Active(p, s) /\ (challenge = <<>> <=> s.round = 0)

ProverRound(p, s, challenge) ==
  [round      |-> s.round + 1,
   challenges |-> s.challenges \o challenge,
   mles       |-> [k \in DOMAIN s.mles |->
                     fix_variables(s.mles[k],
                                   p.aux_info.num_variables - Len(s.challenges),
                                   challenge)]]
=============================================================================
