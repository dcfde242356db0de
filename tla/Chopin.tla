------------------------------- MODULE Chopin -------------------------------
(***************************************************************************)
(* The Chopin scheme, subroutines/src/pcs/chopin, as scripts of Opening.   *)
(* The keys were trimmed to key variables, M_L powers of X and M_R of Y; a *)
(* polynomial with fewer variables is padded to them, so that the proof's  *)
(* mu is key.  The transcript also takes the two exponents, which mu       *)
(* determines.                                                             *)
(***************************************************************************)
EXTENDS Bdfg

ChopinStatement ==
  <<<<"absorb", "mu">>, <<"absorb", "cm_f">>, <<"absorb", "point">>,
    <<"absorb", "value">>>>
ChopinRounds ==
  <<<<"bind", "f_zr">>, <<"draw", "alpha">>, <<"bind", "f_alpha">>, <<"bind", "a">>,
    <<"draw", "gamma">>, <<"bind", "s">>, <<"draw", "beta">>,
    <<"bind", "a1">>, <<"bind", "a2">>, <<"bind", "b1">>, <<"bind", "b2">>,
    <<"bind", "s1">>, <<"bind", "s2">>, <<"bind", "pi_x">>, <<"bind", "pi_y">>>>

ChopinProverScript ==
  <<<<"guard", "trim">>, <<"guard", "num_vars">>, <<"guard", "point_len">>>>
  \o ChopinStatement \o ChopinRounds \o
  <<<<"draw", "rho">>, <<"guard", "Z_T">>, <<"bind", "w">>, <<"draw", "z">>,
    <<"guard", "X-z">>, <<"bind", "w_prime">>>>

\* The identity and the first pairing are looked at before rho is drawn.
ChopinVerifierScript ==
  <<<<"guard", "integrity">>>>
  \o ChopinStatement \o ChopinRounds \o
  <<<<"check", "identity">>, <<"check", "bivariate">>,
    <<"draw", "rho">>, <<"bind", "w">>, <<"draw", "z">>, <<"bind", "w_prime">>>>

\* draw_nonzero, draw_beta and draw_z.
ChopinUsable(st, env, label, c) ==
  CASE label = "alpha" -> TRUE
    [] label \in {"gamma", "rho"} -> c # 0
    [] label = "beta" -> HasReciprocal(c) /\ env["alpha"] \notin {c, Inv(c)}
    [] label = "z" -> c \notin {env["alpha"], env["beta"], Inv(env["beta"])}

---------------------------------------------------------------------------
(* srs.rs: a key holds the monomials (i, j), all but the last power of X   *)
(* first; one for fewer variables is copied slot by slot.                  *)

split_exponents(mu) == <<(mu + 1) \div 2, mu \div 2>>
M_L(mu) == 2^split_exponents(mu)[1]
M_R(mu) == 2^split_exponents(mu)[2]

slot(mu, i, j) ==                                       \* grid_base_index
  IF i < M_L(mu) - 1 THEN j * (M_L(mu) - 1) + i ELSE (M_L(mu) - 1) * M_R(mu) + j

monomial_at(mu, p) ==                                   \* inv_base_index
  LET q1_len == (M_L(mu) - 1) * M_R(mu)
  IN  IF p < q1_len THEN <<p % (M_L(mu) - 1), p \div (M_L(mu) - 1)>>
      ELSE <<M_L(mu) - 1, p - q1_len>>

trimmed(st) ==                                          \* build_params
  [p \in Index(st.key) |->
     LET ij == monomial_at(st.key, p) IN monomial_at(st.max, slot(st.max, ij[1], ij[2]))]

\* Scalars by slot.
grid_msm(st, scalars) ==
  LET p(m) == CHOOSE q \in DOMAIN scalars : trimmed(st)[q] = m
  IN  [m \in {trimmed(st)[q] : q \in DOMAIN scalars} |-> scalars[p(m)]]

msm_q1_prefix(st, q1) == grid_msm(st, q1)
msm_sigma_slice(st, c) ==
  LET j(p) == CHOOSE k \in DOMAIN c : slot(st.key, 0, k) = p
  IN  grid_msm(st, [p \in {slot(st.key, 0, k) : k \in DOMAIN c} |-> c[j(p)]])

\* The low powers are a prefix and the top one is behind q1: what is
\* committed to is a polynomial in X alone, and is kept as one.
msm_tau_slice(st, c) ==
  LET top == M_L(st.key) - 1
      slots == (DOMAIN c \ {top})
                 \cup (IF top \in DOMAIN c THEN {top * M_R(st.key)} ELSE {})
      committed == grid_msm(st, [p \in slots |-> c[IF p \in DOMAIN c \ {top} THEN p ELSE top]])
  IN  [i \in {m[1] : m \in DOMAIN committed} |-> committed[<<i, 0>>]]

---------------------------------------------------------------------------
\* canonicalize_opening_input and canonicalize_point_verify.
padded_point(st) == st.point \o [k \in 1 .. st.mu - Len(st.point) |-> 0]
padded_evals(st) == [b \in Index(st.key) |-> Coef(st.evals, b)]
z_l(st) == SubSeq(padded_point(st), 1, split_exponents(st.mu)[1])
z_r(st) == SubSeq(padded_point(st), split_exponents(st.mu)[1] + 1, st.mu)

entry(st, i, j) == padded_evals(st)[i + M_L(st.key) * j]

\* reorder_full_scalars, and commit.
chopin_commit(st) ==
  LET cell(p) == CHOOSE m \in (0 .. M_L(st.key) - 1) \X (0 .. M_R(st.key) - 1) :
                   slot(st.key, m[1], m[2]) = p
  IN  grid_msm(st, [p \in Index(st.key) |-> entry(st, cell(p)[1], cell(p)[2])])

chopin_restriction(st) ==
  [i \in 0 .. M_L(st.key) - 1 |->
     FSum([j \in 0 .. M_R(st.key) - 1 |->
             entry(st, i, j) ** Basis(j, z_r(st))])]

column(st, j) == [i \in 0 .. M_L(st.key) - 1 |-> entry(st, i, j)]
divide_x_at_alpha(st, alpha) ==
  LET ml == M_L(st.key)
  IN  [q1 |-> [p \in 0 .. (ml - 1) * M_R(st.key) - 1 |->
                 Coef(quotient_at(column(st, p \div (ml - 1)), alpha), p % (ml - 1))],
       f_alpha |-> [j \in 0 .. M_R(st.key) - 1 |-> horner(column(st, j), alpha)]]

\* f(zr) is opened at alpha, beta and 1/beta, the others at beta and 1/beta.
chopin_claims(env) ==
  LET z1 == env["beta"]
      pair(x, y) == (z1 :> env[x]) @@ (Inv(z1) :> env[y])
  IN  <<[poly |-> env["f_zr"], values |-> (env["alpha"] :> env["a"]) @@ pair("a1", "a2")],
        [poly |-> env["f_alpha"], values |-> pair("b1", "b2")],
        [poly |-> env["s"], values |-> pair("s1", "s2")]>>

ChopinIdentity(st, env) ==
  LET z1 == env["beta"]
      z2 == Inv(z1)
  IN  (env["a1"] ** eval_tensor(z_l(st), z2)) ++ (env["a2"] ** eval_tensor(z_l(st), z1))
        ++ (env["gamma"] ** ((env["b1"] ** eval_tensor(z_r(st), z2))
                               ++ (env["b2"] ** eval_tensor(z_r(st), z1))))
      = (2 ** (st.value ++ (env["gamma"] ** env["a"])))
          ++ (z1 ** env["s1"]) ++ (z2 ** env["s2"])

\* f - b1 = pi_x (X - alpha) + pi_y (Y - beta)
ChopinBivariate(st, env) ==
  LET moved(p, i, j) == [m \in {<<n[1] + i, n[2] + j>> : n \in DOMAIN p} |->
                           p[<<m[1] - i, m[2] - j>>]]
      times_x(p) == minus(moved(p, 1, 0), scale(env["alpha"], p))
      times_y(p) == minus(moved(p, 0, 1), scale(env["beta"], p))
  IN  Same(minus(chopin_commit(st), [m \in {<<0, 0>>} |-> env["b1"]]),
           plus(times_x(env["pi_x"]), times_y(env["pi_y"])))

ChopinGuard(st, env, label) ==
  CASE label = "trim" -> st.key >= 2 /\ st.key <= st.max
    [] label = "num_vars" -> st.nv >= 2 /\ st.key >= st.nv
    [] label = "point_len" -> Len(st.point) = st.nv
    [] label = "Z_T" -> Divides(bdfg_first_round(chopin_claims(env), env["rho"]))
    [] label = "X-z" ->
         Divides(bdfg_second_round(chopin_claims(env), env["w"], env["rho"], env["z"]))
    [] label = "integrity" -> st.mu >= 2 /\ st.mu <= st.key /\ Len(st.point) <= st.mu
    [] label = "identity" -> ChopinIdentity(st, env)
    [] label = "bivariate" -> ChopinBivariate(st, env)

ChopinMessage(st, env, label) ==
  LET z1 == env["beta"]
      source == [a |-> "f_zr", a1 |-> "f_zr", a2 |-> "f_zr", b1 |-> "f_alpha",
                 b2 |-> "f_alpha", s1 |-> "s", s2 |-> "s"]
      where == CASE label = "a" -> env["alpha"]
                 [] label \in {"a1", "b1", "s1"} -> z1
                 [] label \in {"a2", "b2", "s2"} -> Inv(z1)
      divided == divide_x_at_alpha(st, env["alpha"])
  IN  CASE label = "f_zr" -> msm_tau_slice(st, chopin_restriction(st))
        [] label = "f_alpha" -> msm_tau_slice(st, divided.f_alpha)
        [] label = "s" ->
             msm_tau_slice(st,
               plus(reciprocal_witness(env["f_zr"], z_l(st), split_exponents(st.mu)[1]),
                    scale(env["gamma"],
                          reciprocal_witness(env["f_alpha"], z_r(st),
                                             split_exponents(st.mu)[2]))))
        [] label \in DOMAIN source -> at(env[source[label]], where)
        [] label = "pi_x" -> msm_q1_prefix(st, divided.q1)
        [] label = "pi_y" -> msm_sigma_slice(st, quotient_at(divided.f_alpha, z1))
        [] label = "w" ->
             msm_tau_slice(st, bdfg_first_round(chopin_claims(env), env["rho"]).quotient)
        [] label = "w_prime" ->
             msm_tau_slice(st, bdfg_second_round(chopin_claims(env), env["w"],
                                                 env["rho"], env["z"]).quotient)

\* The batched opening, of what was committed to.
ChopinVerdict(st, env) ==
  Same(bdfg_defect(chopin_claims(env), env["w"], env["w_prime"], env["rho"], env["z"]),
       Nought)

---------------------------------------------------------------------------
(* What is left to be believed after k challenges, not taken from the code *)

ChopinChallenges == <<"alpha", "gamma", "beta", "rho", "z">>

\* After alpha: f_zr has the value and is right there; after gamma: the two
\* inner products, and f_alpha is right; after beta: the identity of the
\* values there; after rho: the values sent; after z: the batch.
ChopinClaim(st, env, k) ==
  LET inner(p, r) == FSum([i \in DOMAIN p |-> p[i] ** (IF i < 2^Len(r) THEN Basis(i, r) ELSE 0)])
      opened == [l \in {"a1", "a2", "b1", "b2", "s1", "s2"} |-> ChopinMessage(st, env, l)]
      f_alpha == divide_x_at_alpha(st, env["alpha"]).f_alpha
  IN  CASE k = 0 -> Extension(st.evals, st.point) = st.value
        [] k = 1 -> /\ inner(env["f_zr"], z_l(st)) = st.value
                    /\ at(env["f_zr"], env["alpha"]) = at(chopin_restriction(st), env["alpha"])
        [] k = 2 -> /\ inner(env["f_zr"], z_l(st))
                         ++ (env["gamma"] ** inner(env["f_alpha"], z_r(st)))
                       = st.value ++ (env["gamma"] ** env["a"])
                    /\ env["a"] = at(env["f_zr"], env["alpha"])
                    /\ Same(env["f_alpha"], f_alpha)
        [] k = 3 -> /\ ChopinIdentity(st, opened @@ env)
                    /\ env["a"] = at(env["f_zr"], env["alpha"])
                    /\ opened["b1"] = at(f_alpha, env["beta"])
        [] k = 4 -> /\ ChopinIdentity(st, env)
                    /\ env["b1"] = at(f_alpha, env["beta"])
                    /\ Divides(bdfg_first_round(chopin_claims(env), env["rho"]))
        [] k = 5 -> /\ ChopinIdentity(st, env)
                    /\ env["b1"] = at(f_alpha, env["beta"])
                    /\ at(bdfg_l(chopin_claims(env), env["w"], env["rho"], env["z"]),
                          env["z"]) = 0

\* Degrees: of f_zr, one gamma, of the identity at beta, in rho, of the batch.
ChopinLuck(st, k) ==
  LET ml == M_L(st.key) IN <<ml - 1, 1, 2 * ml, 2, ml + 2>>[k]
=============================================================================
