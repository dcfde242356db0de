----------------------------- MODULE Zeromorph -----------------------------
(***************************************************************************)
(* The Zeromorph scheme, subroutines/src/pcs/zeromorph, as scripts of      *)
(* Opening (see Vela for the operations of a script).  The keys were       *)
(* trimmed to 2^key powers from a universal one with 2 * 2^max; q_comms    *)
(* stands for the commitments to q_0 .. q_{nv-1}, absorbed one by one.     *)
(***************************************************************************)
EXTENDS Polynomial

ZmOpenStatement ==
  <<<<"absorb", "cm_f">>, <<"absorb", "point">>, <<"absorb", "value">>>>

ZmProverScript ==
  <<<<"guard", "trim">>, <<"guard", "commit">>, <<"guard", "point_len">>>>
  \o ZmOpenStatement \o
  <<<<"bind", "q_comms">>, <<"draw", "y">>, <<"bind", "q_hat_comm">>,
    <<"draw", "x">>, <<"draw", "z">>, <<"carry", "kzg_proof">>>>

\* Mutant: z is drawn before x.
ZmVerifierScriptSwapped ==
  <<<<"carry", "q_comms">>, <<"guard", "q_comms">>>> \o ZmOpenStatement \o
  <<<<"absorb", "q_comms">>, <<"draw", "y">>, <<"bind", "q_hat_comm">>,
    <<"draw", "z">>, <<"draw", "x">>, <<"carry", "kzg_proof">>>>

\* The number of quotients is looked at before anything is absorbed.
ZmVerifierScript ==
  <<<<"carry", "q_comms">>, <<"guard", "q_comms">>>> \o ZmOpenStatement \o
  <<<<"absorb", "q_comms">>, <<"draw", "y">>, <<"bind", "q_hat_comm">>,
    <<"draw", "x">>, <<"draw", "z">>, <<"carry", "kzg_proof">>>>

ZmGuard(st, env, label) ==
  CASE label = "trim" -> st.key <= st.max + 1
    [] label = "commit" -> st.nv <= st.key
    [] label = "point_len" -> Len(st.point) = st.nv
    [] label = "q_comms" -> Cardinality(DOMAIN env["q_comms"]) = Len(st.point)

---------------------------------------------------------------------------
\* From the highest variable down: what is left has 2^v coefficients, q_v as
\* many.
compute_quotients(f, point) ==
  LET nv == Len(point)
      rem[v \in 0 .. nv] ==
        IF v = nv THEN f
        ELSE LET r == rem[v+1]
             IN  [j \in Index(v) |-> r[j] ++ (r[j + 2^v] -- r[j]) ** point[v+1]]
  IN  [v \in 0 .. nv-1 |-> [j \in Index(v) |-> rem[v+1][j + 2^v] -- rem[v+1][j]]]

squares_of_x(x, nv) ==
  LET s[k \in 0 .. nv] == IF k = 0 THEN x ELSE s[k-1] ** s[k-1] IN s
offsets_of_x(x, nv) ==
  [k \in 0 .. nv-1 |-> FProd([j \in k .. nv-1 |-> squares_of_x(x, nv)[j]])]

\* batch_inversion leaves a zero where it finds one.
vs(x, nv) ==
  LET s == squares_of_x(x, nv)
  IN  [k \in 0 .. nv |-> (s[nv] -- 1) ** InvOrZero(s[k] -- 1)]

\* What q_k is multiplied with in the identity at x.
quotient_factor(u, x, k) ==
  LET nv == Len(u) IN
  (squares_of_x(x, nv)[k] ** vs(x, nv)[k+1]) -- (u[k+1] ** vs(x, nv)[k])

eval_scalar(x, z, u) == 0 -- (vs(x, Len(u))[0] ** z)
q_scalars(y, x, z, u) ==
  [k \in 0 .. Len(u) - 1 |->
     0 -- ((power(y, k) ** offsets_of_x(x, Len(u))[k])
             ++ (z ** quotient_factor(u, x, k)))]

form_q_hat(quotients, y, n) ==
  SumOf([k \in DOMAIN quotients |->
           scale(power(y, k), shift(quotients[k], n - 2^k))])

\* The combination both sides form, of polynomials or of commitments to them.
zm_combine(st, env, q_hat, f, quotients) ==
  LET scalars == q_scalars(env["y"], env["x"], env["z"], st.point)
  IN  plus(plus(q_hat, scale(env["z"], f)),
           plus(monomial(0, eval_scalar(env["x"], env["z"], st.point) ** st.value),
                SumOf([k \in DOMAIN quotients \cap DOMAIN scalars |->
                         scale(scalars[k], quotients[k])])))

\* open_powers starts there.
zm_offset(st) == 2 * 2^st.max - 2^st.key

ZmMessage(st, env, label) ==
  LET n == 2^st.nv
      quotients == compute_quotients(st.evals, st.point)
      q_hat == form_q_hat(quotients, env["y"], n)
  IN  CASE label = "q_comms" -> quotients
        [] label = "q_hat_comm" -> q_hat
        [] label = "kzg_proof" ->
             LET f == zm_combine(st, env, q_hat, st.evals, quotients)
                 full == [i \in 0 .. n-1 |-> Coef(f, i)]
             IN  shift(monic_div(full, X_minus(env["x"])).quotient, zm_offset(st))

\* e(C, s^offset) = e(pi, s - x)
ZmVerdict(st, env) ==
  LET C == zm_combine(st, env, env["q_hat_comm"], st.evals, env["q_comms"])
  IN  Same(shift(C, zm_offset(st)), times(env["kzg_proof"], X_minus(env["x"])))

\* A root of unity of order 2^nv at most, where the inverses that are missing
\* make the code's vs zero.
ZmDegenerate(st, env) == squares_of_x(env["x"], Len(st.point))[Len(st.point)] = 1

---------------------------------------------------------------------------
(* What is left to be believed after k challenges, not taken from the code *)

ZmChallenges == <<"y", "x", "z">>

\* (X^{2^k} Phi_{n-k-1}(X^{2^{k+1}}) - u_k Phi_{n-k}(X^{2^k})), summed with q_k.
Phi(m, step) == [i \in {j * step : j \in 0 .. 2^m - 1} |-> 1]
ZmDefect(st, q) ==
  LET nv == Len(st.point)
      factor(k) == minus(shift(Phi(nv - k - 1, 2^(k+1)), 2^k),
                         scale(st.point[k+1], Phi(nv - k, 2^k)))
  IN  minus(minus(st.evals, scale(st.value, Phi(nv, 1))),
            SumOf([k \in DOMAIN q |-> times(factor(k), q[k])]))

\* The same at x, as the code computes it.
ZmIdentity(st, q, x) ==
  horner(st.evals, x) -- (vs(x, Len(st.point))[0] ** st.value)
    = FSum([k \in DOMAIN q |-> horner(q[k], x) ** quotient_factor(st.point, x, k)])

\* After y: the identity of the quotients, each short enough; after x: the
\* identity and q_hat at x; after z: their combination.
ZmClaim(st, env, k) ==
  LET n == 2^Len(st.point)
      q == env["q_comms"]
  IN  CASE k = 0 -> Extension(st.evals, st.point) = st.value
        [] k = 1 -> /\ Same(ZmDefect(st, q), Nought)
                    /\ Below(form_q_hat(q, env["y"], n), n)
        [] k = 2 -> LET x == env["x"] IN
             /\ ZmIdentity(st, q, x)
             /\ Below(env["q_hat_comm"], n)
             /\ horner([i \in 0 .. n-1 |-> Coef(env["q_hat_comm"], i)], x)
                  = FSum([j \in DOMAIN q |-> power(env["y"], j)
                            ** offsets_of_x(x, Len(st.point))[j] ** horner(q[j], x)])
        [] k = 3 ->
             LET C == zm_combine(st, env, env["q_hat_comm"], st.evals, q)
             IN  Below(C, n) /\ horner([i \in 0 .. n-1 |-> Coef(C, i)], env["x"]) = 0

\* Too long a quotient, the degree of the identity or one of the roots of
\* unity, one z.
ZmLuck(st, k) ==
  LET n == 2^Len(st.point)
  IN  CASE k = 1 -> Len(st.point) - 1
        [] k = 2 -> (2 * n - 2) + n
        [] k = 3 -> 1
=============================================================================
