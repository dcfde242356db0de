------------------------------ MODULE Mercury ------------------------------
(***************************************************************************)
(* The Mercury scheme, subroutines/src/pcs/mercury, as scripts of Opening. *)
(* The keys were trimmed to the powers 0 .. 2^key - 1.  The transcript     *)
(* also takes t and b, which mu determines.                                *)
(***************************************************************************)
EXTENDS Bdfg

MercuryStatement ==
  <<<<"absorb", "mu">>, <<"absorb", "cm_f">>, <<"absorb", "point">>,
    <<"absorb", "value">>>>
MercuryRounds ==
  <<<<"bind", "h">>, <<"draw", "alpha">>, <<"bind", "q">>, <<"bind", "g">>,
    <<"draw", "gamma">>, <<"bind", "s">>, <<"bind", "d">>, <<"draw", "zeta">>,
    <<"bind", "g_zeta">>, <<"bind", "g_zeta_inv">>, <<"bind", "h_zeta">>,
    <<"bind", "h_zeta_inv">>, <<"bind", "s_zeta">>, <<"bind", "s_zeta_inv">>,
    <<"bind", "quot_f">>, <<"draw", "beta">>>>

\* The prover stops at an alpha that is zeta or 1/zeta before it commits to
\* w, the verifier after it has drawn z.
MercuryProverScript ==
  <<<<"guard", "trim">>, <<"guard", "commit">>, <<"guard", "point_len">>>>
  \o MercuryStatement \o <<<<"guard", "value">>>> \o MercuryRounds \o
  <<<<"avoid", "alpha">>, <<"guard", "Z_T">>, <<"bind", "w">>, <<"draw", "z">>,
    <<"guard", "X-z">>, <<"bind", "w_prime">>, <<"draw", "d_pair">>>>

MercuryVerifierScript ==
  <<<<"guard", "integrity">>>>
  \o MercuryStatement \o MercuryRounds \o
  <<<<"bind", "w">>, <<"draw", "z">>, <<"avoid", "alpha">>,
    <<"bind", "w_prime">>, <<"draw", "d_pair">>>>

\* validate_zeta and validate_zbdfg, with one attempt each.
MercuryUsable(st, env, label, c) ==
  CASE label = "zeta" -> HasReciprocal(c)
    [] label = "z" -> c \notin {env["zeta"], Inv(env["zeta"]), env["alpha"]}
    [] label \notin {"zeta", "z"} -> TRUE

---------------------------------------------------------------------------
\* mercury_dims: b columns and b_row rows.
mercury_t(mu) == (mu + 1) \div 2
mercury_b(mu) == 2^mercury_t(mu)
b_row(mu) == 2^(mu - mercury_t(mu))
u1(st) == SubSeq(st.point, 1, mercury_t(st.mu))
u2(st) == SubSeq(st.point, mercury_t(st.mu) + 1, Len(st.point))
u2_full(st) == u2(st) \o [k \in 1 .. 2 * mercury_t(st.mu) - st.mu |-> 0]

\* build_eq_vec: doubled upwards, so the empty u gives <1>.
build_eq_vec(u) ==
  LET eq[k \in 0 .. Len(u)] ==
        IF k = 0 THEN [i \in Index(0) |-> 1]
        ELSE [i \in Index(k) |->
                LET v == eq[k-1][i % 2^(k-1)]
                IN  IF i < 2^(k-1) THEN v -- (v ** u[k]) ELSE v ** u[k]]
  IN  eq[Len(u)]

\* One value for each row, padded with zeros to b.
mercury_h(st) ==
  LET b == mercury_b(st.mu)
      eq_col == build_eq_vec(u1(st))
  IN  [j \in 0 .. b-1 |->
         IF j < b_row(st.mu)
         THEN FSum([i \in 0 .. b-1 |-> st.evals[i + j*b] ** eq_col[i]]) ELSE 0]
InnerRow(st, h) ==
  LET eq_row == build_eq_vec(u2(st)) IN FSum([j \in DOMAIN eq_row |-> eq_row[j] ** Coef(h, j)])

\* f = (X^b - alpha) q + g, column by column.
divide_by_binomial(st, alpha) ==
  LET b == mercury_b(st.mu)
      rows == b_row(st.mu)
      buf(i) == LET carry[k \in 0 .. rows-1] ==
                      IF k = rows - 1 THEN st.evals[i + k*b]
                      ELSE st.evals[i + k*b] ++ (alpha ** carry[k+1])
                IN  carry
  IN  [g |-> [i \in 0 .. b-1 |-> buf(i)[0]],
       q |-> [i \in 0 .. b*(rows-1) - 1 |-> buf(i % b)[i \div b + 1]]]

reverse_coeffs(g, b) == [i \in 0 .. b-1 |-> Coef(g, b-1-i)]

make_s_polynomial(st, env) ==
  LET t == mercury_t(st.mu)
  IN  plus(reciprocal_witness(env["g"], u1(st), t),
           scale(env["gamma"], reciprocal_witness(env["h"], u2_full(st), t)))

mercury_claims(env, h_alpha, d_zeta) ==
  LET z1 == env["zeta"]
      z2 == Inv(z1)
      pair(a, b) == (z1 :> a) @@ (z2 :> b)
  IN  <<[poly |-> env["g"], values |-> pair(env["g_zeta"], env["g_zeta_inv"])],
        [poly |-> env["h"],
         values |-> (env["alpha"] :> h_alpha) @@ pair(env["h_zeta"], env["h_zeta_inv"])],
        [poly |-> env["s"], values |-> pair(env["s_zeta"], env["s_zeta_inv"])],
        [poly |-> env["d"], values |-> z1 :> d_zeta]>>

\* The prover evaluates h and d, the verifier derives the two values.
OfProver(env) ==
  mercury_claims(env, at(env["h"], env["alpha"]), at(env["d"], env["zeta"]))
h_alpha_derived(st, env) ==
  LET z1 == env["zeta"]
      z2 == Inv(z1)
      row == (env["h_zeta"] ** eval_tensor(u2(st), z2))
               ++ (env["h_zeta_inv"] ** eval_tensor(u2(st), z1)) -- (2 ** st.value)
  IN  ((env["g_zeta"] ** eval_tensor(u1(st), z2))
        ++ (env["g_zeta_inv"] ** eval_tensor(u1(st), z1))
        ++ (env["gamma"] ** row)
        -- (z1 ** env["s_zeta"]) -- (z2 ** env["s_zeta_inv"])) // 2
OfVerifier(st, env) ==
  mercury_claims(env, h_alpha_derived(st, env),
                 power(env["zeta"], mercury_b(st.mu) - 1) ** env["g_zeta_inv"])

MercuryGuard(st, env, label) ==
  CASE label = "trim" -> st.key # 0 /\ st.key <= st.max
    [] label = "commit" -> st.nv # 0 /\ 2^st.nv - 1 <= 2^st.key - 1
    [] label = "point_len" -> Len(st.point) = st.nv
    [] label = "value" -> InnerRow(st, mercury_h(st)) = st.value
    [] label = "alpha" -> env["alpha"] \notin {env["zeta"], Inv(env["zeta"])}
    [] label = "Z_T" -> Divides(bdfg_first_round(OfProver(env), env["beta"]))
    [] label = "X-z" ->
         Divides(bdfg_second_round(OfProver(env), env["w"], env["beta"], env["z"]))
    [] label = "integrity" ->
         st.mu # 0 /\ Len(st.point) = st.mu /\ 2^st.mu - 1 <= 2^st.key - 1

\* f - (zeta^b - alpha) q - g(zeta), which X - zeta divides.
folded(st, env) ==
  LET zeta_b == power(env["zeta"], mercury_b(st.mu))
  IN  minus(minus(st.evals, scale(zeta_b -- env["alpha"], env["q"])),
            monomial(0, env["g_zeta"]))

MercuryMessage(st, env, label) ==
  LET zeta == env["zeta"]
      opened == [g_zeta |-> <<"g", zeta>>, g_zeta_inv |-> <<"g", Inv(zeta)>>,
                 h_zeta |-> <<"h", zeta>>, h_zeta_inv |-> <<"h", Inv(zeta)>>,
                 s_zeta |-> <<"s", zeta>>, s_zeta_inv |-> <<"s", Inv(zeta)>>]
  IN  CASE label = "h" -> mercury_h(st)
        [] label = "q" -> divide_by_binomial(st, env["alpha"]).q
        [] label = "g" -> divide_by_binomial(st, env["alpha"]).g
        [] label = "s" -> make_s_polynomial(st, env)
        [] label = "d" -> reverse_coeffs(env["g"], mercury_b(st.mu))
        [] label \in DOMAIN opened -> at(env[opened[label][1]], opened[label][2])
        [] label = "quot_f" -> quotient_at(folded(st, env), zeta)
        [] label = "w" -> bdfg_first_round(OfProver(env), env["beta"]).quotient
        [] label = "w_prime" ->
             bdfg_second_round(OfProver(env), env["w"], env["beta"], env["z"]).quotient

\* Both pairing equations in one: the folding and the batched opening.
fold_defect(st, env) ==
  minus(folded(st, env), times(env["quot_f"], X_minus(env["zeta"])))
MercuryVerdict(st, env) ==
  Same(plus(fold_defect(st, env),
            scale(env["d_pair"],
                  bdfg_defect(OfVerifier(st, env), env["w"], env["w_prime"],
                              env["beta"], env["z"]))),
       Nought)

---------------------------------------------------------------------------
(* What is left to be believed after k challenges, not taken from the code *)

MercuryChallenges == <<"alpha", "gamma", "zeta", "beta", "z", "d_pair">>

\* After alpha: h has the value and is right there; after gamma: f splits and
\* g and h have their inner products; after zeta: the same at zeta; after
\* beta: the values sent; after z: the batch; at the end: what is paired.
MercuryClaim(st, env, k) ==
  LET b == mercury_b(st.mu)
      opened == [l \in {"g_zeta", "g_zeta_inv", "h_zeta", "h_zeta_inv",
                        "s_zeta", "s_zeta_inv"} |-> MercuryMessage(st, env, l)]
      h_alpha == at(env["h"], env["alpha"])
      zeta == env["zeta"]
  IN  CASE k = 0 -> Extension(st.evals, st.point) = st.value
        [] k = 1 -> /\ InnerRow(st, env["h"]) = st.value
                    /\ h_alpha = at(mercury_h(st), env["alpha"])
        [] k = 2 ->
             LET split == divide_by_binomial(st, env["alpha"])
                 eq_col == build_eq_vec(u1(st))
             IN  /\ Same(env["g"], split.g) /\ Same(env["q"], split.q)
                 /\ FSum([i \in DOMAIN eq_col |-> eq_col[i] ** Coef(env["g"], i)])
                      ++ (env["gamma"] ** (InnerRow(st, env["h"]) -- st.value))
                    = h_alpha
        [] k = 3 -> /\ at(folded(st, opened @@ env), zeta) = 0
                    /\ h_alpha_derived(st, opened @@ env) = h_alpha
                    /\ at(env["d"], zeta) = power(zeta, b-1) ** opened["g_zeta_inv"]
        [] k = 4 -> /\ Same(fold_defect(st, env), Nought)
                    /\ Divides(bdfg_first_round(OfVerifier(st, env), env["beta"]))
        [] k = 5 -> /\ Same(fold_defect(st, env), Nought)
                    /\ at(bdfg_l(OfVerifier(st, env), env["w"], env["beta"], env["z"]),
                          env["z"]) = 0
        [] k = 6 -> MercuryVerdict(st, env)

\* Degrees: of h, one gamma, of the identity at zeta, in beta, of the batch,
\* one d_pair.
MercuryLuck(st, k) ==
  LET n == 2^Len(st.point) IN <<n - 1, 1, 2 * n, 3, n + 2, 1>>[k]
=============================================================================
