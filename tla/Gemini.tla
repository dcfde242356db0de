------------------------------- MODULE Gemini -------------------------------
(***************************************************************************)
(* The Gemini scheme with its Shplonk batching,                            *)
(* subroutines/src/pcs/gemini, as scripts of Opening.  The keys were       *)
(* trimmed to 2^key + 1 powers.  fold_comms and fold_evals stand for lists *)
(* absorbed one by one; of a claim the transcript takes index, commitment  *)
(* and point too, which the rest determines.                               *)
(***************************************************************************)
EXTENDS Polynomial, SequencesExt

GeminiStatement ==
  <<<<"absorb", "mu">>, <<"absorb", "cm_f">>, <<"absorb", "point">>,
    <<"absorb", "value">>>>

GeminiProverScript ==
  <<<<"guard", "trim">>, <<"guard", "domain">>, <<"guard", "commit">>,
    <<"guard", "point_len">>>>
  \o GeminiStatement \o
  <<<<"bind", "fold_comms">>, <<"draw", "r">>, <<"bind", "fold_evals">>,
    <<"guard", "final">>, <<"bind", "final_coeffs">>, <<"draw", "nu">>,
    <<"bind", "shplonk_q">>, <<"draw", "z">>, <<"guard", "G(z)">>,
    <<"carry", "kzg_witness">>>>


\* The lengths are looked at before the first challenge is drawn, the
\* relations before fold_evals are absorbed: an earlier or a later return of
\* the same error, or of the same Ok(false).
GeminiVerifierScript ==
  <<<<"guard", "integrity">>>> \o GeminiStatement \o
  <<<<"bind", "fold_comms">>, <<"guard", "fold_comms">>, <<"draw", "r">>,
    <<"bind", "fold_evals">>, <<"guard", "fold_evals">>, <<"bind", "final_coeffs">>,
    <<"check", "folds">>, <<"check", "final_eval">>, <<"draw", "nu">>,
    <<"bind", "shplonk_q">>, <<"draw", "z">>, <<"carry", "kzg_witness">>>>

---------------------------------------------------------------------------
fold_polynomial(coeffs, u) ==
  [i \in 0 .. Cardinality(DOMAIN coeffs) \div 2 - 1 |->
     ((1 -- u) ** coeffs[2*i]) ++ (u ** coeffs[2*i + 1])]

fold_comms(st) ==
  LET a[i \in 0 .. st.nv - 1] ==
        IF i = 0 THEN st.evals ELSE fold_polynomial(a[i-1], st.point[i])
  IN  [i \in 1 .. st.nv - 1 |-> a[i]]

\* claim_commit: the polynomial of a round, as it was committed to.
a_poly(st, env, round) == IF round = 0 THEN st.evals ELSE env["fold_comms"][round]

last_round(st) == Len(st.point) - 1
r_pow(env, i) == power(env["r"], 2^i)

\* build_gemini_claims: r^{2^i} and -r^{2^i} for each fold, then 0 and 1.
gemini_claims(st, env) ==
  LET folds == FlattenSeq([i \in 1 .. last_round(st) |->
                 <<[round |-> i-1, point |-> r_pow(env, i-1),
                    evaluation |-> env["fold_evals"][i][1]],
                   [round |-> i-1, point |-> 0 -- r_pow(env, i-1),
                    evaluation |-> env["fold_evals"][i][2]]>>])
      c == env["final_coeffs"]
  IN  folds \o <<[round |-> last_round(st), point |-> 0, evaluation |-> c[1]],
                 [round |-> last_round(st), point |-> 1,
                  evaluation |-> c[1] ++ c[2]]>>

\* validate_shplonk_r, _nu and _z_against_claims, with one attempt each.
GeminiUsable(st, env, label, c) ==
  /\ c # 0
  /\ label = "z" => \A i \in DOMAIN gemini_claims(st, env) : c # gemini_claims(st, env)[i].point

\* compute_shplonk_batched_quotient, _g_coeffs and _g_commit, the last two on
\* coefficients and on commitments alike.
kzg_quotient(p, x, value) == quotient_at(minus(p, monomial(0, value)), x)
batched_quotient(st, env) ==
  SumOf([i \in DOMAIN gemini_claims(st, env) |->
           LET claim == gemini_claims(st, env)[i]
           IN  scale(power(env["nu"], i-1),
                     kzg_quotient(a_poly(st, env, claim.round), claim.point,
                                  claim.evaluation))])
shplonk_g(st, env, q) ==
  minus(q, SumOf([i \in DOMAIN gemini_claims(st, env) |->
                    LET claim == gemini_claims(st, env)[i]
                    IN  scale(power(env["nu"], i-1) // (env["z"] -- claim.point),
                              minus(a_poly(st, env, claim.round),
                                    monomial(0, claim.evaluation)))]))

GeminiMessage(st, env, label) ==
  LET last == a_poly(st, env, last_round(st))
      pair(i) == <<horner(a_poly(st, env, i), r_pow(env, i)),
                   horner(a_poly(st, env, i), 0 -- r_pow(env, i))>>
  IN  CASE label = "fold_comms" -> fold_comms(st)
        [] label = "fold_evals" -> [i \in 1 .. last_round(st) |-> pair(i-1)]
        [] label = "final_coeffs" -> <<last[0], last[1]>>
        [] label = "shplonk_q" -> batched_quotient(st, env)
        [] label = "kzg_witness" ->
             kzg_quotient(shplonk_g(st, env, env["shplonk_q"]), env["z"], 0)

\* 2 r A'(r^2) = (1-u) r (A(r) + A(-r)) + u (A(r) - A(-r)), where A' at the
\* last fold is c0 + c1 X.
FoldRelation(st, env, i) ==
  LET c == env["final_coeffs"]
      ev == env["fold_evals"]
      r == r_pow(env, i)
      next == IF i + 1 < last_round(st) THEN ev[i+2][1] ELSE c[1] ++ (c[2] ** r ** r)
  IN  2 ** r ** next = ((1 -- st.point[i+1]) ** r ** (ev[i+1][1] ++ ev[i+1][2]))
                         ++ (st.point[i+1] ** (ev[i+1][1] -- ev[i+1][2]))

FinalEval(st, c) ==
  LET u == st.point[Len(st.point)] IN ((1 -- u) ** c[1]) ++ (u ** c[2])

\* The keys support key variables and degree 2^key; try_commit takes one
\* coefficient more.
GeminiGuard(st, env, label) ==
  CASE label = "trim" -> st.key <= st.max
    [] label = "domain" -> st.nv # 0
    [] label = "commit" -> 2^st.nv <= 2^st.key
    [] label = "point_len" -> Len(st.point) = st.nv
    [] label = "final" ->
         LET last == a_poly(st, env, last_round(st))
         IN  FinalEval(st, <<last[0], last[1]>>) = evaluate_opt(st.evals, st.point)
    [] label = "G(z)" ->
         horner(shplonk_g(st, env, env["shplonk_q"]), env["z"]) = 0
    [] label = "integrity" -> st.mu <= st.key /\ st.mu # 0 /\ Len(st.point) = st.mu
    [] label \in {"fold_comms", "fold_evals"} -> Len(env[label]) = st.mu - 1
    [] label = "folds" -> \A i \in 0 .. last_round(st) - 1 : FoldRelation(st, env, i)
    [] label = "final_eval" -> FinalEval(st, env["final_coeffs"]) = st.value

\* e(G, h) = e(witness, x - z)
GeminiVerdict(st, env) ==
  Same(shplonk_g(st, env, env["shplonk_q"]),
       times(env["kzg_witness"], X_minus(env["z"])))

---------------------------------------------------------------------------
(* What is left to be believed after k challenges, not taken from the code *)

GeminiChallenges == <<"r", "nu", "z">>

\* The relations for the values the committed polynomials really have; of
\* the last one only the line through 0 and 1 is looked at.
Truly(st, env) ==
  LET value(i, x) == horner(a_poly(st, env, i), x)
      m == last_round(st)
  IN  ("fold_evals" :> [i \in 1 .. m |-> <<value(i-1, r_pow(env, i-1)),
                                           value(i-1, 0 -- r_pow(env, i-1))>>])
      @@ ("final_coeffs" :> <<value(m, 0), value(m, 1) -- value(m, 0)>>)
      @@ env
FoldRelations(st, env) ==
  /\ \A i \in 0 .. last_round(st) - 1 : FoldRelation(st, env, i)
  /\ FinalEval(st, env["final_coeffs"]) = st.value

\* After r: the relations for the true values; after nu: those for the values
\* sent, and the batched quotient exists; after z: G(z) = 0.
GeminiClaim(st, env, k) ==
  CASE k = 0 -> Extension(st.evals, st.point) = st.value
    [] k = 1 -> FoldRelations(st, Truly(st, env))
    [] k = 2 ->
         LET cs == gemini_claims(st, env)
             error(i) == horner(a_poly(st, env, cs[i].round), cs[i].point)
                           -- cs[i].evaluation
             claims_at(x) == {i \in DOMAIN cs : cs[i].point = x}
         IN  /\ FoldRelations(st, env)
             /\ \A j \in DOMAIN cs :
                  FSum([i \in claims_at(cs[j].point) |-> power(env["nu"], i-1) ** error(i)]) = 0
    [] k = 3 -> /\ FoldRelations(st, env)
                /\ horner(shplonk_g(st, env, env["shplonk_q"]), env["z"]) = 0

\* The degree of a relation in r, of the batching in nu, and of G without its
\* denominators in z.
GeminiLuck(st, k) ==
  LET mu == Len(st.point)
  IN  CASE k = 1 -> 2^mu
        [] k = 2 -> 2 * mu - 1
        [] k = 3 -> 2^mu + 2 * mu
=============================================================================
