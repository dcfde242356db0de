----------------------------- MODULE Samaritan -----------------------------
(***************************************************************************)
(* The Samaritan scheme, subroutines/src/pcs/samaritan, as scripts of      *)
(* Opening.  The keys were trimmed to 2^key + 1 powers.                    *)
(***************************************************************************)
EXTENDS Polynomial

SamaritanStatement ==
  <<<<"absorb", "cm_f">>, <<"absorb", "point">>, <<"absorb", "value">>>>

SamaritanProverScript ==
  <<<<"guard", "trim">>, <<"guard", "commit">>, <<"absorb", "mu">>,
    <<"guard", "point_len">>>>
  \o SamaritanStatement \o
  <<<<"bind", "v_hat">>, <<"draw", "gamma">>, <<"bind", "v_gamma">>,
    <<"bind", "p_hat">>, <<"draw", "alpha">>, <<"bind", "b_hat">>,
    <<"bind", "u_hat">>, <<"draw", "beta">>, <<"bind", "t_hat">>,
    <<"bind", "s_hat">>, <<"draw", "delta">>, <<"avoid", "delta">>,
    <<"carry", "q_eval_proof">>>>

SamaritanVerifierScript ==
  <<<<"absorb", "mu">>, <<"guard", "integrity">>>>
  \o SamaritanStatement \o
  <<<<"bind", "v_hat">>, <<"draw", "gamma">>, <<"bind", "v_gamma">>,
    <<"bind", "p_hat">>, <<"draw", "alpha">>, <<"bind", "b_hat">>,
    <<"bind", "u_hat">>, <<"draw", "beta">>, <<"bind", "t_hat">>,
    <<"bind", "s_hat">>, <<"draw", "delta">>, <<"avoid", "delta">>,
    <<"carry", "q_eval_proof">>>>

\* kappa = round(log2(mu)); the first kappa variables make columns of length
\* m, the others rows of length l.
kappa(mu) ==
  CHOOSE k \in 0 .. mu : 2^(2*k) <= 2 * mu * mu /\ 2 * mu * mu < 4 * 2^(2*k)
sam_m(mu) == 2^kappa(mu)
sam_l(mu) == 2^(mu - kappa(mu))

SamaritanGuard(st, env, label) ==
  CASE label = "trim" -> st.key # 0 /\ st.key <= st.max
    [] label = "commit" -> st.nv # 0 /\ 2^st.nv <= 2^st.key
    [] label = "point_len" -> Len(st.point) = st.nv
    [] label = "integrity" ->
         st.mu <= st.key /\ st.mu # 0 /\ Len(st.point) = st.mu
    [] label = "delta" ->
         LET delta_m == power(env["delta"], sam_m(st.mu))
         IN  env["delta"] # 0 /\ delta_m # env["gamma"]

---------------------------------------------------------------------------
sam_x(st) == SubSeq(st.point, 1, kappa(st.mu))
sam_y(st) == SubSeq(st.point, kappa(st.mu) + 1, Len(st.point))

\* The first kappa variables fixed: one value for each row.
get_evaluation_set(st) ==
  LET m == sam_m(st.mu)
  IN  [i \in 0 .. sam_l(st.mu) - 1 |->
         evaluate_opt([b \in 0 .. m-1 |-> st.evals[i*m + b]], sam_x(st))]

\* v (psi + alpha phi) and p psi, factor by factor.
gamma_powers(st, env) == [k \in DOMAIN sam_y(st) |-> power(env["gamma"], 2^(k-1))]
v_psi_phi(st, env) ==
  plus(mul_by_factors(env["v_hat"], sam_y(st), Complements(sam_y(st))),
       scale(env["alpha"],
             mul_by_factors(env["v_hat"], gamma_powers(st, env),
                            [k \in DOMAIN sam_y(st) |-> 1])))
p_psi(st, env) == mul_by_factors(env["p_hat"], sam_x(st), Complements(sam_x(st)))

Low(p, n) == [i \in DOMAIN p \cap (0 .. n-1) |-> p[i]]
High(p, n) == [i \in {j - n : j \in {k \in DOMAIN p : k >= n}} |-> p[i + n]]

\* The last terms of t, with X (in t) or delta (in q) for the shift.
sam_tail(st, env, up(_, _)) ==
  LET beta == env["beta"]
      m == sam_m(st.mu)
      l == sam_l(st.mu)
      n == l * m
  IN  plus(plus(scale(power(beta, 3), st.evals),
                scale(power(beta, 4), up(env["p_hat"], n - m))),
           plus(scale(power(beta, 5), up(env["u_hat"], n - m + 1)),
                scale(power(beta, 6), up(env["b_hat"], n - l + 1))))

\* Each of the first three terms is a quotient, by X^l, X^m and X^m - gamma.
compute_t_hat(st, env) ==
  LET m == sam_m(st.mu)
      l == sam_l(st.mu)
      spike(n, value) == monomial(n - 1, value)
      t1 == minus(minus(v_psi_phi(st, env),
                        spike(l, st.value ++ (env["alpha"] ** env["v_gamma"]))),
                  env["b_hat"])
      t2 == minus(minus(p_psi(st, env), spike(m, env["v_gamma"])), env["u_hat"])
      t3 == minus(st.evals, env["p_hat"])
      X_m_gamma == [i \in 0 .. m |-> IF i = m THEN 1
                                     ELSE IF i = 0 THEN 0 -- env["gamma"] ELSE 0]
  IN  dense(plus(SumOf(<<High(t1, l), scale(env["beta"], High(t2, m)),
                         scale(power(env["beta"], 2),
                               monic_div(t3, X_m_gamma).quotient)>>),
                 sam_tail(st, env, shift)))

evaluate_psi_hat_at(z, x) == eval_tensor(Complements(z), x)
evaluate_phi_hat_at(st, env, x) ==
  FProd([k \in DOMAIN sam_y(st) |-> gamma_powers(st, env)[k] ++ power(x, 2^(k-1))])

\* What v_hat is multiplied with at delta.
psi_phi_at_delta(st, env) ==
  evaluate_psi_hat_at(sam_y(st), env["delta"])
    ++ (env["alpha"] ** evaluate_phi_hat_at(st, env, env["delta"]))

\* The prover's t minus the same with delta for X in what is known there.
compute_q_hat(st, env) ==
  LET m == sam_m(st.mu)
      l == sam_l(st.mu)
      d == env["delta"]
      q2 == minus(minus(scale(psi_phi_at_delta(st, env), env["v_hat"]), env["b_hat"]),
                  monomial(0, power(d, l-1)
                                ** (st.value ++ (env["alpha"] ** env["v_gamma"]))))
      q3 == minus(minus(scale(evaluate_psi_hat_at(sam_x(st), d), env["p_hat"]), env["u_hat"]),
                  monomial(0, env["v_gamma"] ** power(d, m-1)))
      q4 == minus(st.evals, env["p_hat"])
  IN  minus(env["t_hat"],
        plus(SumOf(<<scale(Inv(power(d, l)), q2),
                     scale(env["beta"] // power(d, m), q3),
                     scale(power(env["beta"], 2) // (power(d, m) -- env["gamma"]), q4)>>),
             sam_tail(st, env, LAMBDA p, n : scale(power(d, n), p))))

\* The verifier's combination of the commitments.
compute_q_hat_commit(st, env) ==
  LET m == sam_m(st.mu)
      l == sam_l(st.mu)
      n == l * m
      d == env["delta"]
      beta(k) == power(env["beta"], k)
      by_gamma == beta(2) // (power(d, m) -- env["gamma"])
      on_g == ((st.value ++ (env["alpha"] ** env["v_gamma"])) // d)
                ++ ((env["beta"] ** env["v_gamma"]) // d)
      on_v == psi_phi_at_delta(st, env) // power(d, l)
      on_p == ((evaluate_psi_hat_at(sam_x(st), d) ** env["beta"]) // power(d, m))
                -- by_gamma ++ (beta(4) ** power(d, n - m))
      on_f == by_gamma ++ beta(3)
      on_u == (env["beta"] // power(d, m)) -- (beta(5) ** power(d, n - m + 1))
      on_b == Inv(power(d, l)) -- (beta(6) ** power(d, n - l + 1))
  IN  minus(SumOf(<<env["t_hat"], monomial(0, on_g), scale(on_u, env["u_hat"]),
                    scale(on_b, env["b_hat"])>>),
            SumOf(<<scale(on_v, env["v_hat"]), scale(on_p, env["p_hat"]),
                    scale(on_f, st.evals)>>))

SamaritanMessage(st, env, label) ==
  LET m == sam_m(st.mu)
      l == sam_l(st.mu)
  IN  CASE label = "v_hat" -> get_evaluation_set(st)
        [] label = "v_gamma" -> at(env["v_hat"], env["gamma"])
        [] label = "p_hat" ->
             [j \in 0 .. m-1 |-> FSum([i \in 0 .. l-1 |->
                power(env["gamma"], i) ** st.evals[i*m + j]])]
        [] label = "b_hat" -> Low(v_psi_phi(st, env), l - 1)
        [] label = "u_hat" -> Low(p_psi(st, env), m - 1)
        [] label = "t_hat" -> compute_t_hat(st, env)
        [] label = "s_hat" -> shift(env["t_hat"], 1)
        [] label = "q_eval_proof" -> quotient_at(compute_q_hat(st, env), env["delta"])

\* e(q, h) = e(pi, x - delta), then e(t, x) = e(s, h).
SamaritanVerdict(st, env) ==
  /\ Same(compute_q_hat_commit(st, env), times(env["q_eval_proof"], X_minus(env["delta"])))
  /\ Same(shift(env["t_hat"], 1), env["s_hat"])

---------------------------------------------------------------------------
(* What is left to be believed after k challenges, not taken from the code *)

SamaritanChallenges == <<"gamma", "alpha", "beta", "delta">>

\* What t should be, times X^l X^m (X^m - gamma).
SamNumerator(st, env) ==
  LET m == sam_m(st.mu)
      l == sam_l(st.mu)
      by_gamma(p) == minus(shift(p, m), scale(env["gamma"], p))
      t1 == minus(minus(v_psi_phi(st, env), env["b_hat"]),
                  monomial(l-1, st.value ++ (env["alpha"] ** env["v_gamma"])))
      t2 == minus(minus(p_psi(st, env), env["u_hat"]), monomial(m-1, env["v_gamma"]))
      t3 == minus(st.evals, env["p_hat"])
  IN  plus(SumOf(<<shift(by_gamma(t1), m), scale(env["beta"], shift(by_gamma(t2), l)),
                   scale(power(env["beta"], 2), shift(t3, l + m))>>),
           shift(by_gamma(sam_tail(st, env, shift)), l + m))

\* After gamma: the rows have the value and are right there; after alpha:
\* the columns too; after beta: t exists; after delta: q has a root.
SamaritanClaim(st, env, k) ==
  LET m == sam_m(st.mu)
      l == sam_l(st.mu)
      inner(p, z) == FSum([i \in Index(Len(z)) |-> Coef(p, i) ** Basis(i, z)])
      columns == SamaritanMessage(st, env, "p_hat")
  IN  CASE k = 0 -> Extension(st.evals, st.point) = st.value
        [] k = 1 -> /\ inner(env["v_hat"], sam_y(st)) = st.value
                    /\ at(Low(env["v_hat"], l), env["gamma"])
                         = at(get_evaluation_set(st), env["gamma"])
        [] k = 2 -> /\ Same(env["p_hat"], columns)
                    /\ inner(columns, sam_x(st)) = env["v_gamma"]
                    /\ inner(env["v_hat"], sam_y(st))
                         ++ (env["alpha"] ** at(Low(env["v_hat"], l), env["gamma"]))
                       = st.value ++ (env["alpha"] ** env["v_gamma"])
        [] k = 3 ->
             LET X_m_gamma == plus(monomial(m, 1), monomial(0, 0 -- env["gamma"]))
                 division == monic_div(dense(SamNumerator(st, env)),
                                       [i \in 0 .. l + 2*m |-> Coef(shift(X_m_gamma, l + m), i)])
             IN  NonZeros(division.remainder) = {} /\ Below(division.quotient, m * l)
        [] k = 4 -> /\ at(compute_q_hat_commit(st, env), env["delta"]) = 0
                    /\ Same(shift(env["t_hat"], 1), env["s_hat"])

\* Degrees: of the rows, one alpha, in beta, of the identity at delta.
SamaritanLuck(st, k) ==
  LET n == 2^Len(st.point) IN <<n, 1, 6, 4*n + 2>>[k]
=============================================================================
