------------------------------ MODULE Batching ------------------------------
(***************************************************************************)
(* Opening several committed polynomials, each at a point of its own, with *)
(* one sum check and one opening (subroutines/src/pcs/                     *)
(* multilinear_kzg/batching.rs, which every multilinear scheme has or      *)
(* copies), as scripts of Opening around the scripts of a scheme.          *)
(*                                                                         *)
(* A statement is [nv, polys, points, values, mu, key, max, gamma]: values *)
(* are the evaluations the prover was given, nv the variables of its first *)
(* polynomial and the rounds of its proof.  The point of the sum-check     *)
(* proof is always delivered as it was written.                            *)
(***************************************************************************)
EXTENDS Polynomial, SequencesExt

Prover == INSTANCE SumCheckProver
Verifier == INSTANCE SumCheckVerifier

t_labels == <<"t1", "t2", "t3", "t4", "t5">>
msg_labels == <<"msg1", "msg2">>
r_labels == <<"r1", "r2">>

ell(st) == log2(Len(st.polys))

---------------------------------------------------------------------------
(* The scripts.  generic is batching.rs, the others are copies of it; the  *)
(* opening of g' has a transcript of its own (Renewal) or goes on with the *)
(* one of the batch.                                                       *)

Draw_t(st) == [i \in 1 .. ell(st) |-> <<"draw", t_labels[i]>>]
SumCheckRounds(st) ==
  <<<<"absorb", "aux_info">>>>
  \o FlattenSeq([i \in 1 .. st.nv |->
                   <<<<"bind", msg_labels[i]>>, <<"draw", r_labels[i]>>>>])
  \o <<<<"carry", "sum_check_point">>>>

Renewal(inner) ==
  CASE inner \in {"mkzg", "zeromorph"} -> <<>>
    [] inner \in {"vela", "mercury", "chopin"} -> <<<<"renew", inner>>>>
    [] inner = "mulcs" -> <<<<"renew", "mulcs-gprime-open">>, <<"absorb", "point_a2">>>>
    [] inner = "gemini" -> <<<<"renew", "gemini-gprime-open">>>>
    [] inner = "samaritan" -> <<<<"renew", "samaritan-gprime-open">>>>

generic(inner) == inner \in {"mkzg", "vela", "mercury", "chopin"}

reduce_multi_open(st, inner) ==
  LET eval_points == <<<<"absorb", "eval_points">>, <<"bind", "evals">>>>
      shapes == <<<<"guard", "same_num_vars">>, <<"guard", "point_lens">>>>
  IN  <<<<"guard", "lengths">>>>
      \o (IF generic(inner) THEN eval_points \o shapes
          ELSE IF inner \in {"gemini", "samaritan"}
          THEN <<<<"guard", "nonzero">>>> \o shapes \o eval_points
          ELSE shapes \o eval_points)
      \o Draw_t(st) \o SumCheckRounds(st)

multi_open(st, inner, open) ==
  reduce_multi_open(st, inner) \o <<<<"carry", "g_prime_eval">>>>
    \o Renewal(inner) \o open

batch_verify(st, inner, verify) ==
  LET eval_points == <<<<"absorb", "eval_points">>, <<"absorb", "evals">>>>
      begin == CASE generic(inner) ->
                      eval_points \o Draw_t(st) \o <<<<"guard", "point_lens">>>>
                 [] inner = "zeromorph" ->
                      <<<<"guard", "point_lens">>>> \o eval_points \o Draw_t(st)
                 [] inner = "mulcs" ->
                      <<<<"guard", "nonzero">>>> \o eval_points
                        \o <<<<"guard", "point_lens">>>> \o Draw_t(st)
                 [] inner \in {"gemini", "samaritan"} ->
                      <<<<"guard", "nonzero">>, <<"guard", "num_var">>,
                        <<"guard", "point_lens">>>> \o eval_points \o Draw_t(st)
      failing == IF generic(inner) \/ inner = "mulcs" THEN "guard" ELSE "check"
  IN  <<<<"carry", "evals">>, <<"guard", "lengths">>>> \o begin
      \o SumCheckRounds(st) \o <<<<failing, "sum_check">>>> \o Renewal(inner) \o verify

---------------------------------------------------------------------------
(* What the steps compute                                                  *)

Vector(env, labels) ==
  [i \in 1 .. Cardinality({j \in DOMAIN labels : labels[j] \in DOMAIN env}) |->
     env[labels[i]]]
t(env) == Vector(env, t_labels)
r(env) == Vector(env, r_labels)

\* eq(t, <i>), t empty for a single polynomial.
eq_t_list(env) == IF t(env) = <<>> THEN [b \in {0} |-> 1] ELSE build_eq_x_r_vec(t(env))

\* A point stands where it occurs first.
deduped_points(st) ==
  LET firsts == SelectSeq([i \in DOMAIN st.points |-> i],
                          LAMBDA i : \A j \in 1 .. i-1 : st.points[j] # st.points[i])
  IN  [k \in DOMAIN firsts |-> st.points[firsts[k]]]

merged_tilde_g(st, env, point) ==
  [b \in Index(st.nv) |->
     FSum([i \in {j \in DOMAIN st.polys : st.points[j] = point} |->
             eq_t_list(env)[i-1] ** st.polys[i][b]])]

\* The sum over points of the polynomials at it times eq of the point.
aux_info(st) == [num_variables |-> st.nv, max_degree |-> 2]
sum_check_vp(st, env) ==
  LET points == deduped_points(st)
      k == Len(points)
  IN  [aux_info |-> aux_info(st),
       products |-> [i \in 1 .. k |-> [coefficient |-> 1, factors |-> <<i, k + i>>]],
       mles     |-> [i \in 1 .. k |-> merged_tilde_g(st, env, points[i])]
                      \o [i \in 1 .. k |-> build_eq_x_r_vec(points[i])]]

\* The message of round i, with the tables folded at the challenges so far.
round_message(st, env, i) ==
  LET vp == sum_check_vp(st, env)
      folded == [k \in DOMAIN vp.mles |-> fix_variables(vp.mles[k], st.nv, r(env))]
  IN  Prover!RoundMessage(vp, folded, st.nv - i)

\* The prover's g', one point after the other, and the verifier's, one
\* commitment after the other.
g_prime(st, env) ==
  SumOf([k \in DOMAIN deduped_points(st) |->
           LET point == deduped_points(st)[k]
           IN  scale(eq_eval(r(env), point), merged_tilde_g(st, env, point))])
g_prime_commit(st, env) ==
  SumOf([i \in DOMAIN st.polys |->
           scale(eq_eval(env["sum_check_point"], st.points[i]) ** eq_t_list(env)[i-1],
                 st.polys[i])])

asserted_sum(st, env) ==
  FSum([i \in DOMAIN st.polys |-> eq_t_list(env)[i-1] ** env["evals"][i]])

\* The verifier's state once every round is received, and its result.
received(st, env) ==
  LET v[i \in 0 .. st.nv] ==
        IF i = 0 THEN Verifier!verifier_init(aux_info(st))
        ELSE Verifier!VerifierRound(v[i-1], env[msg_labels[i]], env[r_labels[i]])
  IN  v[st.nv]
subclaims(st, env) ==
  Verifier!check_and_generate_subclaim(received(st, env), asserted_sum(st, env))
expected_evaluation(st, env) ==
  Verifier!expected(received(st, env), asserted_sum(st, env), st.nv + 1)

\* What is left to be opened: by the prover, which knows g'(a2), and by the
\* verifier, which expects the last message at the last challenge.
Reduced(st, env) ==
  LET proving == "g_prime_eval" \in DOMAIN env
  IN  [nv |-> st.nv, mu |-> st.mu, key |-> st.key, max |-> st.max, gamma |-> st.gamma,
       evals |-> IF proving THEN g_prime(st, env) ELSE g_prime_commit(st, env),
       point |-> env["sum_check_point"],
       value |-> IF proving THEN env["g_prime_eval"] ELSE expected_evaluation(st, env)]

BatchMessage(st, env, label) ==
  CASE label = "evals" -> st.values
    [] label = "msg1" -> round_message(st, env, 1)
    [] label = "msg2" -> round_message(st, env, 2)
    [] label = "sum_check_point" -> r(env)
    [] label = "g_prime_eval" -> evaluate_opt(g_prime(st, env), r(env))

BatchStated(st, env, label) ==
  CASE label = "eval_points" -> st.points
    [] label = "aux_info" -> aux_info(st)

\* The challenges are drawn outside the interpolation nodes (see SumCheck
\* for the others).
BatchGuard(st, env, label) ==
  LET evals == IF "evals" \in DOMAIN env THEN env["evals"] ELSE st.values
  IN  CASE label = "lengths" ->
             st.polys # <<>> /\ Len(st.polys) = Len(st.points) /\ Len(st.polys) = Len(evals)
        [] label = "nonzero" -> st.nv # 0
        [] label = "num_var" -> st.nv <= st.key /\ 2^st.nv <= 2^st.key
        [] label = "same_num_vars" ->
             \A i \in DOMAIN st.polys : Cardinality(DOMAIN st.polys[i]) = 2^st.nv
        [] label = "point_lens" -> \A i \in DOMAIN st.points : Len(st.points[i]) = st.nv
        [] label = "sum_check" -> \E s \in subclaims(st, env) : s.kind = "ok"

BatchLabels ==
  {"evals", "msg1", "msg2", "sum_check_point", "g_prime_eval", "eval_points", "aux_info",
   "point_a2", "lengths", "nonzero", "num_var", "same_num_vars", "point_lens", "sum_check"}
    \cup Range(t_labels) \cup Range(r_labels)

---------------------------------------------------------------------------
(* What is left to be believed after k challenges, not taken from the code *)

BatchChallenges(st) == SubSeq(t_labels, 1, ell(st)) \o SubSeq(r_labels, 1, st.nv)

\* The errors of the evaluations, against the first k elements of t.
Errors(st, evals) ==
  [b \in Index(ell(st)) |->
     IF b < Len(st.polys) THEN evals[b+1] -- Extension(st.polys[b+1], st.points[b+1]) ELSE 0]

ValueAt(msg, x) ==
  IF \E i \in DOMAIN msg : x = FromInt(i) THEN msg[x]
  ELSE Verifier!interpolate_uni_poly(msg, Cardinality(DOMAIN msg) - 1, x)

\* After t_k: the errors cancel so far.  After r_j: each message adds up to
\* what was expected, and the last is right at r_j.
BatchClaim(st, env, k) ==
  IF k <= ell(st)
  THEN LET left == fix_variables(Errors(st, env["evals"]), ell(st), SubSeq(t(env), 1, k))
       IN  \A b \in DOMAIN left : left[b] = 0
  ELSE LET j == k - ell(st)
           msg(i) == env[msg_labels[i]]
       IN  /\ Verifier!Opening(msg(1)) = asserted_sum(st, env)
           /\ \A i \in 2 .. j : Verifier!Opening(msg(i)) = ValueAt(msg(i-1), r(env)[i-1])
           /\ ValueAt(msg(j), r(env)[j])
                = Prover!PartialSum(sum_check_vp(st, env), SubSeq(r(env), 1, j))

BatchLuck(st, k) == IF k <= ell(st) THEN 1 ELSE 2
=============================================================================
