------------------------------- MODULE Carina -------------------------------
(***************************************************************************)
(* The Carina scheme, subroutines/src/pcs/carina: the layout of its key,   *)
(* the order of its messages and challenges (see Vela for the operations   *)
(* of a script), and what prover and verifier compute.  The 2^nv           *)
(* evaluations are the coefficients of a polynomial in X and Y with M_L    *)
(* powers of X and M_R of Y.                                               *)
(***************************************************************************)
EXTENDS Polynomial, SequencesExt

---------------------------------------------------------------------------
(* srs.rs                                                                  *)

m_left(mu) == (mu + 1) \div 2
m_right(mu) == mu \div 2
big_ml(mu) == 2^m_left(mu)
big_mr(mu) == 2^m_right(mu)

\* Where tau^i sigma^j is kept: the low powers of X first, column by column.
grid_base_index(ml, mr, i, j) ==
  IF i < ml - 2 THEN j * (ml - 2) + i
  ELSE (ml - 2) * mr + 2*j + (i - (ml - 2))

inv_base_index(ml, mr, p) ==
  LET qx_len == (ml - 2) * mr
      q == p - qx_len
  IN  IF p < qx_len THEN <<p % (ml - 2), p \div (ml - 2)>>
      ELSE <<(ml - 2) + (q % 2), q \div 2>>

\* The exponents behind every slot of a key: the universal key, and the key
\* build_params copies from it slot by slot for fewer variables.
universal_key(max) ==
  [p \in Index(max) |-> inv_base_index(big_ml(max), big_mr(max), p)]
build_params(max, nv) ==
  [p \in Index(nv) |->
     LET ij == inv_base_index(big_ml(nv), big_mr(nv), p)
     IN  universal_key(max)[
           grid_base_index(big_ml(max), big_mr(max), ij[1], ij[2])]]

base_index(nv, ij) == grid_base_index(big_ml(nv), big_mr(nv), ij[1], ij[2])

\* A multi-exponentiation: scalars by slot of the key.
msm(key, scalars) ==
  [m \in {key[p] : p \in DOMAIN scalars} |->
     FSum([p \in {q \in DOMAIN scalars : key[q] = m} |-> scalars[p]])]

\* msm_collected over the slots of the given exponents.
msm_collected(key, nv, p) ==
  msm(key, [s \in {base_index(nv, m) : m \in DOMAIN p} |->
              p[CHOOSE m \in DOMAIN p : base_index(nv, m) = s]])

InX(p) == [m \in {<<i, 0>> : i \in DOMAIN p} |-> p[m[1]]]
InY(p) == [m \in {<<0, j>> : j \in DOMAIN p} |-> p[m[2]]]

Grid(nv) == (0 .. big_ml(nv) - 1) \X (0 .. big_mr(nv) - 1)
\* F[i, j] and the commitment to it through layout_scalars.
F(st, i, j) == st.evals[i + big_ml(st.nv) * j]
carina_commit(st) ==
  msm_collected(build_params(st.max, st.nv), st.nv,
                [m \in Grid(st.nv) |-> F(st, m[1], m[2])])

---------------------------------------------------------------------------
(* The order of things                                                     *)

CarinaStatement ==
  <<<<"absorb", "mu">>, <<"absorb", "cm_f">>, <<"absorb", "point">>,
    <<"absorb", "value">>>>

CarinaProverScript ==
  <<<<"guard", "mu">>, <<"guard", "key">>, <<"guard", "point_len">>>>
  \o CarinaStatement \o
  <<<<"guard", "value">>, <<"bind", "cm_s0">>, <<"draw", "r">>,
    <<"bind", "a_plus">>, <<"bind", "a_minus">>, <<"bind", "t0_plus">>,
    <<"draw", "lambda">>, <<"bind", "cm_s1">>, <<"draw", "s">>,
    <<"bind", "v_pp">>, <<"bind", "v_pn">>, <<"bind", "v_np">>,
    <<"bind", "v_nn">>, <<"bind", "t1_plus">>, <<"draw", "eta">>,
    <<"guard", "remainders">>, <<"carry", "pi_x">>, <<"carry", "pi_y">>>>

CarinaVerifierScript ==
  <<<<"guard", "integrity">>>> \o CarinaStatement \o
  <<<<"bind", "cm_s0">>, <<"draw", "r">>,
    <<"bind", "a_plus">>, <<"bind", "a_minus">>, <<"bind", "t0_plus">>,
    <<"draw", "lambda">>, <<"bind", "cm_s1">>, <<"draw", "s">>,
    <<"bind", "v_pp">>, <<"bind", "v_pn">>, <<"bind", "v_np">>,
    <<"bind", "v_nn">>, <<"bind", "t1_plus">>, <<"draw", "eta">>,
    <<"carry", "pi_x">>, <<"carry", "pi_y">>>>

\* draw_reciprocal and draw_nonzero.
CarinaUsable(label, c) ==
  IF label \in {"r", "s"} THEN HasReciprocal(c) ELSE c # 0

---------------------------------------------------------------------------
(* What both sides compute                                                 *)

u_l(st) == SubSeq(st.point, 1, m_left(st.nv))
u_r(st) == SubSeq(st.point, m_left(st.nv) + 1, Len(st.point))

compute_g(st) ==
  LET psi_r == build_eq_x_r_vec(u_r(st))
  IN  [i \in 0 .. big_ml(st.nv) - 1 |->
         FSum([j \in 0 .. big_mr(st.nv) - 1 |-> F(st, i, j) ** psi_r[j]])]

compute_restriction(st, x) ==
  [j \in 0 .. big_mr(st.nv) - 1 |->
     horner([i \in 0 .. big_ml(st.nv) - 1 |-> F(st, i, j)], x)]

t0_minus(st, env) ==
  LET r == env["r"]
  IN  r ** ((env["a_plus"] ** eval_tensor(u_l(st), Inv(r)))
              ++ (env["a_minus"] ** eval_tensor(u_l(st), r))
              -- (2 ** st.value) -- (r ** env["t0_plus"]))

a_lambda(env) == env["a_plus"] ++ (env["lambda"] ** env["a_minus"])

t1_minus(st, env) ==
  LET s == env["s"]
      h_s == env["v_pp"] ++ (env["lambda"] ** env["v_np"])
      h_s_inv == env["v_pn"] ++ (env["lambda"] ** env["v_nn"])
  IN  s ** ((h_s ** eval_tensor(u_r(st), Inv(s)))
              ++ (h_s_inv ** eval_tensor(u_r(st), s))
              -- (2 ** a_lambda(env)) -- (s ** env["t1_plus"]))

\* I(X, Y) on the grid, L_0(X), L_1(Y).
grid_interpolant(env) ==
  LET r == env["r"]
      s == env["s"]
      px_s == two_point_remainder(r, env["v_pp"], Inv(r), env["v_np"])
      px_sinv == two_point_remainder(r, env["v_pn"], Inv(r), env["v_nn"])
      i[k \in 0 .. 1] == two_point_remainder(s, px_s[k], Inv(s), px_sinv[k])
  IN  [m \in (0 .. 1) \X (0 .. 1) |-> i[m[1]][m[2]]]
l0(st, env) ==
  two_point_remainder(env["r"], env["t0_plus"], Inv(env["r"]), t0_minus(st, env))
l1(st, env) ==
  two_point_remainder(env["s"], env["t1_plus"], Inv(env["s"]), t1_minus(st, env))

eta2(env) == env["eta"] ** env["eta"]
p_r(env) == reciprocal_pair(env["r"] ++ Inv(env["r"]))
q_s(env) == reciprocal_pair(env["s"] ++ Inv(env["s"]))

---------------------------------------------------------------------------
(* The prover                                                              *)

\* f - I divided by Z_A in each column, then what is left by Z_B.
Column(st, env, j) ==
  monic_div(minus([i \in 0 .. big_ml(st.nv) - 1 |-> F(st, i, j)],
                  [i \in 0 .. 1 |-> Coef(grid_interpolant(env), <<i, j>>)]),
            p_r(env))
RemainderRow(st, env, i) ==
  monic_div([j \in 0 .. big_mr(st.nv) - 1 |-> Column(st, env, j).remainder[i]],
            q_s(env))

\* The witnesses the prover committed to, as vectors.
s0(st, env) == [i \in 0 .. big_ml(st.nv) - 2 |-> Coef(env["cm_s0"], <<i, 0>>)]
s1(st, env) == [j \in 0 .. big_mr(st.nv) - 2 |-> Coef(env["cm_s1"], <<0, j>>)]
W0(st, env) == monic_div(minus(s0(st, env), l0(st, env)), p_r(env))
W1(st, env) == monic_div(minus(s1(st, env), l1(st, env)), q_s(env))

\* Z_A quotients column by column at their slots, W_0 on the first ones.
pi_x(st, env) ==
  LET stride == big_ml(st.nv) - 2
      columns == [j \in 0 .. big_mr(st.nv) - 1 |-> Column(st, env, j).quotient]
      w0 == W0(st, env).quotient
  IN  msm(build_params(st.max, st.nv),
          [p \in 0 .. stride * big_mr(st.nv) - 1 |->
             columns[p \div stride][p % stride] ++ (env["eta"] ** Coef(w0, p))])

pi_y(st, env) ==
  LET w1 == W1(st, env).quotient
      rows == [i \in 0 .. 1 |-> RemainderRow(st, env, i).quotient]
  IN  msm_collected(build_params(st.max, st.nv), st.nv,
        [m \in (0 .. 1) \X (0 .. big_mr(st.nv) - 3) |->
           IF m[1] = 0 THEN rows[0][m[2]] ++ (eta2(env) ** Coef(w1, m[2]))
           ELSE rows[1][m[2]]])

CarinaMessage(st, env, label) ==
  LET key == build_params(st.max, st.nv)
      h_plus == compute_restriction(st, env["r"])
      h_minus == compute_restriction(st, Inv(env["r"]))
      h_lambda == plus(h_plus, scale(env["lambda"], h_minus))
  IN  CASE label = "cm_s0" ->
             msm_collected(key, st.nv,
               InX(reciprocal_witness(compute_g(st), u_l(st), m_left(st.nv))))
        [] label = "a_plus" -> horner(compute_g(st), env["r"])
        [] label = "a_minus" -> horner(compute_g(st), Inv(env["r"]))
        [] label = "t0_plus" -> horner(s0(st, env), env["r"])
        [] label = "cm_s1" ->
             msm_collected(key, st.nv,
               InY(reciprocal_witness(h_lambda, u_r(st), m_right(st.nv))))
        [] label = "v_pp" -> horner(h_plus, env["s"])
        [] label = "v_pn" -> horner(h_plus, Inv(env["s"]))
        [] label = "v_np" -> horner(h_minus, env["s"])
        [] label = "v_nn" -> horner(h_minus, Inv(env["s"]))
        [] label = "t1_plus" -> horner(s1(st, env), env["s"])
        [] label = "pi_x" -> pi_x(st, env)
        [] label = "pi_y" -> pi_y(st, env)

\* st: [nv, evals, point, value, mu, key, max]; the keys were trimmed to key
\* variables from a universal one for max.
CarinaGuard(st, env, label) ==
  CASE label = "mu" -> st.nv >= 4
    [] label = "key" -> st.key = st.nv
    [] label = "point_len" -> Len(st.point) = st.nv
    [] label = "value" ->
         LET psi_l == build_eq_x_r_vec(u_l(st))
         IN  FSum([i \in DOMAIN psi_l |-> compute_g(st)[i] ** psi_l[i]])
               = evaluate_opt(st.evals, st.point)
    [] label = "remainders" ->
         /\ \A i \in 0 .. 1 : Same(RemainderRow(st, env, i).remainder, Nought)
         /\ Same(W0(st, env).remainder, Nought)
         /\ Same(W1(st, env).remainder, Nought)
    [] label = "integrity" ->
         st.mu >= 4 /\ st.mu <= st.key /\ Len(st.point) = st.mu

---------------------------------------------------------------------------
(* The verifier                                                            *)

\* f + eta S_0 + eta^2 S_1 - J
Combined(st, env) ==
  LET f == carina_commit(st)
      J == plus(grid_interpolant(env),
                plus(scale(env["eta"], InX(l0(st, env))),
                     scale(eta2(env), InY(l1(st, env)))))
      cm_J == msm_collected(build_params(st.max, st.key), st.key, J)
  IN  minus(plus(f, plus(scale(env["eta"], env["cm_s0"]),
                         scale(eta2(env), env["cm_s1"]))), cm_J)

\* The three-term pairing: Combined = Z_A Pi_X + Z_B Pi_Y.
CarinaVerdict(st, env) ==
  LET lhs == Combined(st, env)
      quotients == DOMAIN env["pi_x"] \cup DOMAIN env["pi_y"]
      reach == DOMAIN lhs
                 \cup {<<m[1] + k, m[2]>> : m \in quotients, k \in 0 .. 2}
                 \cup {<<m[1], m[2] + k>> : m \in quotients, k \in 0 .. 2}
      za == p_r(env)
      zb == q_s(env)
      rhs(m) ==
        FSum([k \in 0 .. 2 |->
                (za[k] ** Coef(env["pi_x"], <<m[1] - k, m[2]>>))
                  ++ (zb[k] ** Coef(env["pi_y"], <<m[1], m[2] - k>>))])
  IN  \A m \in reach : Coef(lhs, m) = rhs(m)

---------------------------------------------------------------------------
(* What is left to be believed after k challenges, not taken from the code *)

CarinaChallenges == <<"r", "lambda", "s", "eta">>

\* A bivariate polynomial at X = x, as one in Y, and at a point.
AtX(p, x) ==
  [j \in {m[2] : m \in DOMAIN p} |->
     FSum([i \in {m[1] : m \in {n \in DOMAIN p : n[2] = j}} |->
             p[<<i, j>>] ** power(x, i)])]
At(p, x, y) == FSum([j \in DOMAIN AtX(p, x) |-> AtX(p, x)[j] ** power(y, j)])
Constant(q) == \A j \in DOMAIN q \ {0} : q[j] = 0

\* The identity behind both witnesses: a the two values of a polynomial at z
\* and 1/z, w those of its witness, y the inner product with the tensor u.
Reciprocal(a, u, y, z, w) ==
  (a[1] ** eval_tensor(u, Inv(z))) ++ (a[2] ** eval_tensor(u, z))
    = (2 ** y) ++ (z ** w[1]) ++ (Inv(z) ** w[2])

TwoValues(p, z) == <<horner(p, z), horner(p, Inv(z))>>

\* After r: of the committed S_0, the identity at r.  After lambda: the
\* batched claim on f(r, .) and the two values of S_0.  After s: the
\* identity at s of the committed S_1.  After eta: what the pairing checks.
CarinaClaim(st, env, k) ==
  LET r == env["r"]
      s == env["s"]
      S0r == <<AtX(env["cm_s0"], r), AtX(env["cm_s0"], Inv(r))>>
      S1(x) == <<At(env["cm_s1"], x, s), At(env["cm_s1"], x, Inv(s))>>
      g == TwoValues(compute_g(st), r)
      t0 == <<env["t0_plus"], t0_minus(st, env)>>
      h_lambda == plus(compute_restriction(st, r),
                       scale(env["lambda"], compute_restriction(st, Inv(r))))
  IN  CASE k = 0 -> Extension(st.evals, st.point) = st.value
        [] k = 1 ->
             /\ \A b \in 1 .. 2 : Constant(S0r[b])
             /\ Reciprocal(g, u_l(st), st.value, r,
                           [b \in 1 .. 2 |-> Coef(S0r[b], 0)])
        [] k = 2 ->
             /\ a_lambda(env) = g[1] ++ (env["lambda"] ** g[2])
             /\ \A b \in 1 .. 2 : Constant(S0r[b]) /\ Coef(S0r[b], 0) = t0[b]
        [] k = 3 ->
             /\ \A b \in 1 .. 2 : TwoValues(S0r[b], s) = <<t0[b], t0[b]>>
             /\ S1(r) = S1(Inv(r))
             /\ Reciprocal(TwoValues(h_lambda, s), u_r(st), a_lambda(env), s, S1(r))
        [] k = 4 ->
             \A x \in {r, Inv(r)}, y \in {s, Inv(s)} :
               At(Combined(st, env), x, y) = 0

\* The identities, cleared of denominators, have degree 2 M_L and 2 M_R;
\* one lambda hides two wrong values of g, and eta solves a quadratic.
CarinaLuck(st, k) ==
  CASE k = 1 -> 2 * big_ml(st.nv)
    [] k = 2 -> 1
    [] k = 3 -> 2 * big_mr(st.nv)
    [] k = 4 -> 2
=============================================================================
