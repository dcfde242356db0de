------------------------------- MODULE Mulcs -------------------------------
(***************************************************************************)
(* The Mulcs scheme, subroutines/src/pcs/mulcs, as scripts of Opening.     *)
(* The keys were trimmed to 2 * 2^key powers from a universal one for max  *)
(* variables, whose random element gamma is a field of the statement.      *)
(* rf and rh, which the proof carries and nobody reads, are left out.      *)
(***************************************************************************)
EXTENDS Polynomial

MulcsProverScript ==
  <<<<"guard", "trim">>, <<"guard", "commit">>, <<"absorb", "mu">>,
    <<"guard", "point_len">>, <<"draw", "mulcs_delta">>, <<"bind", "cm_hbar">>,
    <<"draw", "mulcs_z">>, <<"carry", "y_f">>, <<"carry", "y_f_prime">>,
    <<"carry", "y_hbar">>, <<"carry", "y_hbar_prime">>, <<"avoid", "points">>,
    <<"carry", "pi">>, <<"carry", "z">>>>

MulcsVerifierScript ==
  <<<<"absorb", "mu">>, <<"guard", "integrity">>, <<"draw", "mulcs_delta">>,
    <<"bind", "cm_hbar">>, <<"draw", "mulcs_z">>, <<"carry", "z">>,
    <<"check", "z">>, <<"avoid", "points">>, <<"carry", "y_f">>,
    <<"carry", "y_f_prime">>, <<"carry", "y_hbar">>, <<"carry", "y_hbar_prime">>,
    <<"carry", "pi">>>>

gz(st, env) == st.gamma ** env["mulcs_z"]

\* commit: max_degree < n - 1.  The prover inverts the difference of its two
\* points and panics where the verifier returns an error.
MulcsGuard(st, env, label) ==
  CASE label = "trim" -> 2 * 2^st.key <= 2 * 2^st.max
    [] label = "commit" -> 2^st.nv - 1 <= 2 * 2^st.key
    [] label = "point_len" -> Len(st.point) = st.nv
    [] label = "integrity" ->
         /\ st.mu > 0
         /\ Len(st.point) = st.mu
         /\ 2^st.mu - 1 <= 2 * 2^st.key
    [] label = "points" -> env["mulcs_z"] # gz(st, env)
    [] label = "z" -> env["z"] = env["mulcs_z"]

---------------------------------------------------------------------------
mul_structured_eq(f, r) == mul_by_factors(f, r, Complements(r))

\* f P_eq - y X^{N-1}, which has no coefficient left at N-1.
compute_h(st) ==
  LET n == 2^st.nv
  IN  minus(mul_structured_eq(st.evals, st.point),
            monomial(n-1, evaluate_opt(st.evals, st.point)))

compute_h_bar(st, h, delta) ==
  LET n == 2^st.nv
  IN  [i \in DOMAIN h |->
         IF i = n-1 THEN delta
         ELSE h[i] ** InvOrZero(power(st.gamma, n-1) -- power(st.gamma, i))]

\* The interpolant at z and gamma z is the remainder modulo this.
mulcs_divisor(st, env) == times(X_minus(env["mulcs_z"]), X_minus(gz(st, env)))

MulcsMessage(st, env, label) ==
  LET z == env["mulcs_z"]
      hbar == env["cm_hbar"]
  IN  CASE label = "cm_hbar" -> compute_h_bar(st, compute_h(st), env["mulcs_delta"])
        [] label = "y_f" -> horner(st.evals, z)
        [] label = "y_f_prime" -> horner(st.evals, gz(st, env))
        [] label = "y_hbar" -> horner(hbar, z)
        [] label = "y_hbar_prime" -> horner(hbar, gz(st, env))
        [] label = "z" -> z
        [] label = "pi" ->
             LET rf == two_point_remainder(z, env["y_f"], gz(st, env), env["y_f_prime"])
                 rh == two_point_remainder(z, env["y_hbar"],
                                           gz(st, env), env["y_hbar_prime"])
                 d == mulcs_divisor(st, env)
             IN  plus(monic_div(minus(st.evals, rf), d).quotient,
                      monic_div(minus(hbar, rh), d).quotient)

\* gamma^{N-1} hbar(z) - hbar(gamma z) = z^{N-1} (f(z) Pi - y), the product
\* with 1/z.
check_claymore_identity(st, env) ==
  LET n == 2^st.mu
      z == env["mulcs_z"]
  IN  (power(st.gamma, n-1) ** env["y_hbar"]) -- env["y_hbar_prime"]
        = power(z, n-1) ** ((env["y_f"] ** eval_tensor(st.point, Inv(z))) -- st.value)

\* C + cm_hbar - r = pi (X^2 - s X + p), and then the identity.
MulcsVerdict(st, env) ==
  LET z == env["mulcs_z"]
      r == plus(two_point_remainder(z, env["y_f"], gz(st, env), env["y_f_prime"]),
                two_point_remainder(z, env["y_hbar"], gz(st, env), env["y_hbar_prime"]))
  IN  /\ Same(minus(plus(st.evals, env["cm_hbar"]), r),
              times(env["pi"], mulcs_divisor(st, env)))
      /\ check_claymore_identity(st, env)
=============================================================================
