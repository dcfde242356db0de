----------------------------- MODULE HyperPlonk -----------------------------
(***************************************************************************)
(* The SNARK (hyperplonk/src/snark.rs with utils.rs, custom_gate.rs and    *)
(* structs.rs), as scripts of Opening: a ZeroCheck of the gate, a          *)
(* PermutationCheck of the wiring, the public input, and one batch opening *)
(* of everything the checks left to be evaluated.                          *)
(*                                                                         *)
(* A statement is [nv, gates, selectors, permutation, num_pub, witnesses,  *)
(* pub, mu, key, max, gamma]: the index, the witness columns and the       *)
(* public input.  On the verifier's side witnesses are the columns the     *)
(* proof commits to, as many as it likes: verify never compares their      *)
(* number with the index, and the permutations it knows are those of the   *)
(* columns of the index.  A gate is [coeff, selector, witnesses], with 0   *)
(* for no selector.                                                        *)
(***************************************************************************)
EXTENDS Batching, Kzg

w_labels == <<"w1", "w2", "w3">>
r_pi_labels == <<"r_pi1", "r_pi2">>
\* The labels of the two ZeroChecks, each with the sum check inside it.
gate_check == [r |-> <<"z_r1", "z_r2">>, aux |-> "z_aux",
               msg |-> <<"z_msg1", "z_msg2">>, c |-> <<"z_c1", "z_c2">>]
perm_check == [r |-> <<"p_r1", "p_r2">>, aux |-> "p_aux",
               msg |-> <<"p_msg1", "p_msg2">>, c |-> <<"p_c1", "p_c2">>]

---------------------------------------------------------------------------
(* The circuit description                                                 *)

max_of(set) == CHOOSE m \in set : \A x \in set : x <= m
has_selector(gate) == IF gate.selector = 0 THEN 0 ELSE 1

gate_degree(gates) ==
  max_of({0} \cup {Len(gates[i].witnesses) + has_selector(gates[i]) : i \in DOMAIN gates})
\* One for each gate that has one, whether or not it had it before.
num_selector_columns(gates) ==
  Cardinality({i \in DOMAIN gates : gates[i].selector # 0})
\* Only the last wire of a gate is looked at.
num_witness_columns(gates) ==
  max_of({1} \cup {Last(gates[i].witnesses) :
                     i \in {j \in DOMAIN gates : gates[j].witnesses # <<>>}})

\* preprocess: the permutation, cut into one table for each witness column.
permutation_oracles(st) ==
  [k \in 1 .. num_witness_columns(st.gates) |->
     [b \in Index(st.nv) |-> st.permutation[(k-1) * 2^st.nv + b + 1]]]

\* The identity permutation over all columns: the index as a number.
eval_id_oracle(point) ==
  LET base[i \in 1 .. Len(point)] == IF i = 1 THEN 1 ELSE base[i-1] ++ base[i-1]
  IN  FSum([i \in DOMAIN point |-> base[i] ** point[i]])

PublicLength(st) == Len(st.pub) = st.num_pub
prover_sanity_check(st) ==
  /\ Len(st.pub) <= 2^st.nv
  /\ PublicLength(st)
  /\ \E k \in 0 .. st.nv : Len(st.pub) = 2^k
  /\ \A i \in DOMAIN st.witnesses : Cardinality(DOMAIN st.witnesses[i]) = 2^st.nv
  /\ \A i \in DOMAIN st.pub : st.pub[i] = st.witnesses[1][i-1]

---------------------------------------------------------------------------
(* The scripts                                                             *)

Bind(labels, n) == [i \in 1 .. n |-> <<"bind", labels[i]>>]
Draw(labels, n) == [i \in 1 .. n |-> <<"draw", labels[i]>>]

zero_check(check, n) ==
  Draw(check.r, n) \o <<<<"absorb", check.aux>>>>
    \o FlattenSeq([i \in 1 .. n |-> <<<<"bind", check.msg[i]>>, <<"draw", check.c[i]>>>>])
\* proofs[0] is read before anything is drawn.
zero_check_verify(check, n, zero, sum_check) ==
  <<<<"peek", check.msg[1]>>, <<"guard", zero>>>>
    \o zero_check(check, n) \o <<<<"guard", sum_check>>>>

ell_pi(st) == log2(st.num_pub)

\* How many commitments are listed for the batch: every witness twice, and
\* what the index knows.
num_openings(st) ==
  8 + num_witness_columns(st.gates) + 2 * Len(st.witnesses) + Len(st.selectors)
Shape(st) == [nv |-> st.nv, polys |-> [i \in 1 .. num_openings(st) |-> Nought]]

HpProverScript(st) ==
  <<<<"guard", "sanity">>>>
    \o Bind(w_labels, Len(st.witnesses))
    \o <<<<"guard", "build_f">>>> \o zero_check(gate_check, st.nv)
    \o <<<<"guard", "perm_shape">>, <<"draw", "beta">>, <<"draw", "perm_gamma">>,
         <<"avoid", "denominators">>, <<"bind", "frac">>, <<"bind", "prod">>,
         <<"draw", "perm_alpha">>>>
    \o zero_check(perm_check, st.nv)
    \o Draw(r_pi_labels, ell_pi(st)) \o <<<<"carry", "pcs_acc">>>>
    \o multi_open(Shape(st), "mkzg", MkzgProverScript)

HpVerifierScript(st) ==
  <<<<"guard", "pub_len">>, <<"peek", "evals">>, <<"guard", "slices">>>>
    \o Bind(w_labels, Len(st.witnesses))
    \o zero_check_verify(gate_check, st.nv, "z_zero", "z_sum_check")
    \o <<<<"guard", "f_eval">>, <<"draw", "beta">>, <<"draw", "perm_gamma">>,
         <<"bind", "frac">>, <<"bind", "prod">>, <<"draw", "perm_alpha">>>>
    \o zero_check_verify(perm_check, st.nv, "p_zero", "p_sum_check")
    \o <<<<"guard", "perm_gate">>>>
    \o Draw(r_pi_labels, ell_pi(st))
    \o <<<<"guard", "pi_eval">>, <<"guard", "evals_len">>>>
    \o batch_verify(Shape(st), "mkzg", MkzgVerifierScript)

---------------------------------------------------------------------------
(* What the prover computes                                                *)

w(env) == Vector(env, w_labels)
gate_coeff(gate) == FromInt(gate.coeff)

\* The gates as a virtual polynomial, over the selectors and the witnesses.
build_f(st, ws) ==
  LET columns == Len(st.selectors)
      factors(gate) == (IF gate.selector = 0 THEN <<>> ELSE <<gate.selector>>)
                         \o [j \in DOMAIN gate.witnesses |-> columns + gate.witnesses[j]]
  IN  [aux_info |-> [num_variables |-> st.nv,
                     max_degree |-> max_of({0} \cup {Len(factors(st.gates[i])) :
                                                       i \in DOMAIN st.gates})],
       products |-> [i \in DOMAIN st.gates |->
                       [coefficient |-> gate_coeff(st.gates[i]),
                        factors |-> factors(st.gates[i])]],
       mles     |-> st.selectors \o ws]

\* computer_nums_and_denoms: the witnesses with the identity, or with the
\* permutation.
Masked(st, env, perms) ==
  [k \in DOMAIN perms |->
     [b \in Index(st.nv) |->
        w(env)[k][b] ++ (env["beta"] ** perms[k][b]) ++ env["perm_gamma"]]]
numerators(st, env) ==
  Masked(st, env, identity_permutation_mles(st.nv, num_witness_columns(st.gates)))
denominators(st, env) == Masked(st, env, permutation_oracles(st))
Across(tables, b) == FProd([k \in DOMAIN tables |-> tables[k][b]])

compute_frac(st, env) ==
  [b \in Index(st.nv) |->
     Across(numerators(st, env), b) ** InvOrZero(Across(denominators(st, env), b))]
\* The tree of the products of frac, leaves first; see ProductCheck.
compute_product(n, frac) ==
  LET prod[x \in Index(n)] ==
        LET idx == get_index(x, n)
        IN  IF x = 2^n - 1 THEN 0
            ELSE IF idx.sign = 0 THEN frac[idx.x0] ** frac[idx.x1]
            ELSE prod[idx.x0] ** prod[idx.x1]
  IN  prod

\* prod - p1 p2 + alpha (frac times the denominators - the numerators).
build_q(st, env) ==
  LET k == num_witness_columns(st.gates)
      idx(b) == get_index(b, st.nv)
      half(b) == IF idx(b).sign = 0 THEN env["frac"] ELSE env["prod"]
      alpha == env["perm_alpha"]
      product(c, fs) == [coefficient |-> c, factors |-> fs]
  IN  [aux_info |-> [num_variables |-> st.nv, max_degree |-> max_of({2, k + 1})],
       products |-> <<product(1, <<1>>), product(0 -- 1, <<2, 3>>),
                      product(alpha, [i \in 1 .. k |-> 4 + i] \o <<4>>),
                      product(0 -- alpha, [i \in 1 .. k |-> 4 + k + i])>>,
       mles     |-> <<env["prod"], [b \in Index(st.nv) |-> half(b)[idx(b).x0]],
                      [b \in Index(st.nv) |-> half(b)[idx(b).x1]], env["frac"]>>
                      \o denominators(st, env) \o numerators(st, env)]

point_of(env, check) == Vector(env, check.c)

\* ZeroCheck::prove: the polynomial of the check times eq of its r.
hat(st, env, check) ==
  Prover!build_f_hat(IF check = gate_check THEN build_f(st, w(env)) ELSE build_q(st, env),
                     Vector(env, check.r))
zero_check_message(st, vp, c) ==
  LET folded == [k \in DOMAIN vp.mles |-> fix_variables(vp.mles[k], st.nv, c)]
  IN  Prover!RoundMessage(vp, folded, st.nv - Len(c) - 1)

\* prod at its point, halved with 0 and with 1, and at (0, 1, ..., 1).
halved(x, bit) == <<bit>> \o SubSeq(x, 1, Len(x) - 1)
prod_final_query_point(n) == [i \in 1 .. n |-> IF i = 1 THEN 0 ELSE 1]
r_pi_padded(st, env) ==
  [i \in 1 .. st.nv |-> IF i <= ell_pi(st) THEN env[r_pi_labels[i]] ELSE 0]

Batch_statement(st, polys, points, values) ==
  [nv |-> st.nv, polys |-> polys, points |-> points, values |-> values,
   mu |-> st.mu, key |-> st.key, max |-> st.max, gamma |-> st.gamma]

\* PcsAccumulator, filled by insert_poly_and_points in this order.
pcs_acc(st, env) ==
  LET p == point_of(env, perm_check)
      z == point_of(env, gate_check)
      all_at(polys, x) == [i \in DOMAIN polys |-> <<polys[i], x>>]
      acc == <<<<env["prod"], p>>, <<env["prod"], halved(p, 0)>>,
               <<env["prod"], halved(p, 1)>>, <<env["prod"], prod_final_query_point(st.nv)>>,
               <<env["frac"], p>>, <<env["frac"], halved(p, 0)>>,
               <<env["frac"], halved(p, 1)>>>>
             \o all_at(permutation_oracles(st), p) \o all_at(w(env), p) \o all_at(w(env), z)
             \o all_at(st.selectors, z) \o <<<<w(env)[1], r_pi_padded(st, env)>>>>
  IN  Batch_statement(st, [i \in DOMAIN acc |-> acc[i][1]], [i \in DOMAIN acc |-> acc[i][2]],
                      [i \in DOMAIN acc |-> evaluate_opt(acc[i][1], acc[i][2])])

---------------------------------------------------------------------------
(* What the verifier computes                                              *)

\* The evaluations are told apart by where they stand in the batch; too few
\* for the slices, or not as many as commitments, is a panic.
slices(st) ==
  LET n == num_witness_columns(st.gates)
  IN  [prod |-> 0, frac |-> 4, perm |-> 7, witness_perm |-> 7 + n,
       witness_gate |-> 7 + 2*n, selector |-> 7 + 3*n]
slice(st, env, part, n) == SubSeq(env["evals"], slices(st)[part] + 1, slices(st)[part] + n)

eval_f(gates, selector_evals, witness_evals) ==
  FSum([i \in DOMAIN gates |->
          gate_coeff(gates[i])
            ** (IF gates[i].selector = 0 THEN 1 ELSE selector_evals[gates[i].selector])
            ** FProd([j \in DOMAIN gates[i].witnesses |->
                        witness_evals[gates[i].witnesses[j]]])])

\* eval_perm_gate: q at the point of its check, from the evaluations.
eval_perm_gate(st, env) ==
  LET n == num_witness_columns(st.gates)
      prod == slice(st, env, "prod", 4)
      frac == slice(st, env, "frac", 3)
      ws == slice(st, env, "witness_perm", n)
      perms == slice(st, env, "perm", n)
      ids == [i \in 1 .. n |->
                eval_id_oracle(gen_eval_point(i - 1, log2(n), point_of(env, perm_check)))]
      x1 == Last(point_of(env, perm_check))
      p1_eval == frac[2] ++ (x1 ** (prod[2] -- frac[2]))
      p2_eval == frac[3] ++ (x1 ** (prod[3] -- frac[3]))
      masked(s) == FProd([i \in 1 .. n |->
                            ws[i] ++ (env["beta"] ** s[i]) ++ env["perm_gamma"]])
  IN  prod[1] -- (p1_eval ** p2_eval)
        ++ (env["perm_alpha"] ** ((frac[1] ** masked(perms)) -- masked(ids)))

\* The verifier's own idea of the degrees, one more for eq: of the gate from
\* the index, of the wiring from the commitments in the proof.
declared_aux(st, check) ==
  [num_variables |-> st.nv,
   max_degree |-> 1 + (IF check = gate_check THEN gate_degree(st.gates)
                       ELSE Len(st.witnesses) + 1)]

\* ZeroCheck::verify: the state of its sum check, its sub-claims, and the
\* evaluation left to be checked.
checked(st, env, check) ==
  LET v[i \in 0 .. st.nv] ==
        IF i = 0 THEN Verifier!verifier_init(declared_aux(st, check))
        ELSE Verifier!VerifierRound(v[i-1], env[check.msg[i]], env[check.c[i]])
  IN  v[st.nv]
SumChecked(st, env, check) ==
  \E s \in Verifier!check_and_generate_subclaim(checked(st, env, check), 0) : s.kind = "ok"
eq_of(env, check) == eq_eval(point_of(env, check), Vector(env, check.r))
left_to_check(st, env, check) ==
  Verifier!expected(checked(st, env, check), 0, st.nv + 1) // eq_of(env, check)

\* The commitments and the points, as verify lists them; with more witnesses
\* than the index has columns, they are not where slices looks for them.
assembled(st, env) ==
  LET p == point_of(env, perm_check)
      z == point_of(env, gate_check)
      n == num_witness_columns(st.gates)
      k == Len(w(env))
      copies(m, x) == [i \in 1 .. m |-> x]
      comms == copies(4, env["prod"]) \o copies(3, env["frac"]) \o permutation_oracles(st)
                 \o w(env) \o w(env) \o st.selectors \o <<env["w1"]>>
      points == <<p, halved(p, 0), halved(p, 1), prod_final_query_point(st.nv),
                  p, halved(p, 0), halved(p, 1)>>
                  \o copies(n, p) \o copies(k, p) \o copies(k, z)
                  \o copies(Len(st.selectors), z) \o <<r_pi_padded(st, env)>>
  IN  Batch_statement(st, comms, points, env["evals"])

---------------------------------------------------------------------------
(* The steps                                                               *)

\* The verifier has read the evaluations before anything else, the prover
\* computes them last.
Verifying(env) == "evals" \in DOMAIN env /\ "pcs_acc" \notin DOMAIN env
Openings(st, env) == IF Verifying(env) THEN assembled(st, env) ELSE env["pcs_acc"]

HpGuard(st, env, label) ==
  CASE label = "sanity" -> prover_sanity_check(st)
    [] label = "build_f" ->
         /\ \A i \in DOMAIN st.selectors : Cardinality(DOMAIN st.selectors[i]) = 2^st.nv
         /\ \A i \in DOMAIN st.gates :
              st.gates[i].selector # 0 \/ st.gates[i].witnesses # <<>>
    [] label = "perm_shape" -> Len(st.witnesses) = num_witness_columns(st.gates)
    [] label = "denominators" ->
         \A b \in Index(st.nv) : Across(denominators(st, env), b) # 0
    [] label = "pub_len" -> PublicLength(st)
    [] label = "slices" ->
         Len(env["evals"]) >= slices(st).selector + num_selector_columns(st.gates)
    [] label = "z_zero" -> Verifier!Opening(env["z_msg1"]) = 0
    [] label = "p_zero" -> Verifier!Opening(env["p_msg1"]) = 0
    [] label = "z_sum_check" -> SumChecked(st, env, gate_check) /\ eq_of(env, gate_check) # 0
    [] label = "p_sum_check" -> SumChecked(st, env, perm_check) /\ eq_of(env, perm_check) # 0
    [] label = "f_eval" ->
         eval_f(st.gates, slice(st, env, "selector", num_selector_columns(st.gates)),
                slice(st, env, "witness_gate", num_witness_columns(st.gates)))
           = left_to_check(st, env, gate_check)
    [] label = "perm_gate" -> eval_perm_gate(st, env) = left_to_check(st, env, perm_check)
    [] label = "pi_eval" ->
         /\ Len(st.pub) = 2^ell_pi(st)
         /\ evaluate_opt([b \in Index(ell_pi(st)) |-> st.pub[b+1]],
                         Vector(env, r_pi_labels)) = Last(env["evals"])
    [] label = "evals_len" -> Len(env["evals"]) = num_openings(st)

\* Where there was no prover, the gate is said to vanish, and the wiring is
\* proved for whatever the columns hold, up to the degree the verifier asks;
\* what is read before its r is drawn is zero.
Fitting(st, env) ==
  \A i \in 1 .. num_witness_columns(st.gates) :
    i <= Len(w(env)) /\ Cardinality(DOMAIN w(env)[i]) = 2^st.nv
Zeros(indices) == [i \in indices |-> 0]
Made_up(st, env, label) ==
  CASE label \in Range(gate_check.msg) ->
         Zeros(0 .. declared_aux(st, gate_check).max_degree)
    [] label \in Range(perm_check.msg) ->
         IF Fitting(st, env) /\ Len(Vector(env, perm_check.r)) = st.nv
         THEN zero_check_message(st, [hat(st, env, perm_check) EXCEPT
                                        !.aux_info = declared_aux(st, perm_check)],
                                 point_of(env, perm_check))
         ELSE Zeros(0 .. declared_aux(st, perm_check).max_degree)
    [] label = "frac" -> IF Fitting(st, env) THEN compute_frac(st, env) ELSE Zeros(Index(st.nv))
    [] label = "prod" -> compute_product(st.nv, env["frac"])
    [] label = "evals" -> Zeros(1 .. num_openings(st))

HpMessage(st, env, label) ==
  CASE label \in Range(w_labels) ->
         st.witnesses[CHOOSE i \in DOMAIN w_labels : w_labels[i] = label]
    [] label \notin Range(w_labels) /\ (label = "evals" \/ Verifying(env)) ->
         Made_up(st, env, label)
    [] label \notin Range(w_labels) \cup {"evals"} /\ ~ Verifying(env) ->
         CASE label \in Range(gate_check.msg) ->
                zero_check_message(st, hat(st, env, gate_check), point_of(env, gate_check))
           [] label \in Range(perm_check.msg) ->
                zero_check_message(st, hat(st, env, perm_check), point_of(env, perm_check))
           [] label = "frac" -> compute_frac(st, env)
           [] label = "prod" -> compute_product(st.nv, env["frac"])
           [] label = "pcs_acc" -> pcs_acc(st, env)

HpStated(st, env, label) ==
  LET check == IF label = gate_check.aux THEN gate_check ELSE perm_check
  IN  IF Verifying(env) THEN declared_aux(st, check)
      ELSE hat(st, env, check).aux_info

HpLabels ==
  {"sanity", "build_f", "perm_shape", "denominators", "pub_len", "slices", "z_zero",
   "p_zero", "z_sum_check", "p_sum_check", "f_eval", "perm_gate", "pi_eval", "evals_len",
   "beta", "perm_gamma", "perm_alpha", "frac", "prod", "pcs_acc"}
    \cup Range(w_labels) \cup Range(r_pi_labels)
    \cup UNION {Range(c.r) \cup Range(c.msg) \cup Range(c.c) \cup {c.aux} :
                  c \in {gate_check, perm_check}}

---------------------------------------------------------------------------
(* What is left to be believed after k challenges, not taken from the      *)
(* code: that every row satisfies the gate, that the columns of the index  *)
(* agree with themselves permuted, and that the first of them begins with  *)
(* the public input.                                                       *)

\* The challenges of the three checks, each in the order it is drawn.
GateChallenges(st) == SubSeq(gate_check.r, 1, st.nv) \o SubSeq(gate_check.c, 1, st.nv)
WiringChallenges(st) ==
  <<"beta", "perm_gamma", "perm_alpha">>
    \o SubSeq(perm_check.r, 1, st.nv) \o SubSeq(perm_check.c, 1, st.nv)
HpChallenges(st) ==
  GateChallenges(st) \o WiringChallenges(st)
    \o SubSeq(r_pi_labels, 1, ell_pi(st)) \o BatchChallenges(Shape(st))

\* What is left of the errors against the first k coordinates of x.
Vanishing(errors, n, x, k) ==
  LET folded == fix_variables(errors, n, SubSeq(x, 1, k))
  IN  \A b \in DOMAIN folded : folded[b] = 0

\* A ZeroCheck: the errors against r, then each message adds up to what was
\* expected and the last is right at its challenge.
ZeroClaim(st, env, check, errors, j) ==
  IF j <= st.nv THEN Vanishing(errors, st.nv, Vector(env, check.r), j)
  ELSE LET i == j - st.nv
           c == point_of(env, check)
           msg(m) == env[check.msg[m]]
       IN  /\ Verifier!Opening(msg(1)) = 0
           /\ \A m \in 2 .. i : Verifier!Opening(msg(m)) = ValueAt(msg(m-1), c[m-1])
           /\ ValueAt(msg(i), c[i])
                = Prover!PartialSum(hat(st, env, check), SubSeq(c, 1, i))

GateErrors(st, env) ==
  [b \in Index(st.nv) |->
     eval_f(st.gates, [i \in DOMAIN st.selectors |-> st.selectors[i][b]],
            [i \in DOMAIN w(env) |-> w(env)[i][b]])]
GateClaim(st, env, j) == ZeroClaim(st, env, gate_check, GateErrors(st, env), j)

PublicErrors(st, env) == [b \in Index(ell_pi(st)) |-> st.pub[b+1] -- env["w1"][b]]
PublicClaim(st, env, j) ==
  Vanishing(PublicErrors(st, env), ell_pi(st), Vector(env, r_pi_labels), j)

\* How often each element occurs in a family.
Tally(family) ==
  [x \in Range(family) |-> Cardinality({i \in DOMAIN family : family[i] = x})]
Slots(st) == (1 .. num_witness_columns(st.gates)) \X Index(st.nv)
\* The values with their tags; the values masked with beta; the products of
\* all; and then that prod is the tree of frac with 1 at its root.
SameTallies(st, f(_), g(_)) ==
  Tally([x \in Slots(st) |-> f(x)]) = Tally([x \in Slots(st) |-> g(x)])
WiringErrors(st, env) ==
  [b \in Index(st.nv) |-> Prover!evaluate(build_q(st, env), bit_decompose(b, st.nv))]
WiringClaim(st, env, j) ==
  LET own == identity_permutation_mles(st.nv, num_witness_columns(st.gates))
      other == permutation_oracles(st)
      value(x) == w(env)[x[1]][x[2]]
      whole(tables) == FProd([x \in Slots(st) |-> tables[x[1]][x[2]]])
  IN  CASE j = 0 -> SameTallies(st, LAMBDA x : <<value(x), own[x[1]][x[2]]>>,
                                    LAMBDA x : <<value(x), other[x[1]][x[2]]>>)
        [] j = 1 -> SameTallies(st, LAMBDA x : value(x) ++ (env["beta"] ** own[x[1]][x[2]]),
                                    LAMBDA x : value(x) ++ (env["beta"] ** other[x[1]][x[2]]))
        [] j = 2 -> whole(numerators(st, env)) = whole(denominators(st, env))
        [] j > 2 -> /\ evaluate_opt(env["prod"], prod_final_query_point(st.nv)) = 1
                    /\ ZeroClaim(st, env, perm_check, WiringErrors(st, env), j - 3)
WiringLuck(st, j) ==
  IF j <= 2 THEN Cardinality(Slots(st))
  ELSE IF j <= 3 + st.nv THEN 1 ELSE declared_aux(st, perm_check).max_degree

\* How many of the n challenges after the first m are among the first k.
Since(k, m, n) == IF k <= m THEN 0 ELSE IF k <= m + n THEN k - m ELSE n

HpClaim(st, env, k) ==
  LET gate == Len(GateChallenges(st))
      wired == gate + Len(WiringChallenges(st))
      checks == wired + ell_pi(st)
  IN  IF k > checks THEN BatchClaim(assembled(st, env), env, k - checks)
      ELSE /\ GateClaim(st, env, Since(k, 0, gate))
           /\ WiringClaim(st, env, Since(k, gate, wired - gate))
           /\ PublicClaim(st, env, Since(k, wired, ell_pi(st)))
HpLuck(st, k) ==
  LET gate == Len(GateChallenges(st))
      wired == gate + Len(WiringChallenges(st))
      checks == wired + ell_pi(st)
  IN  IF k <= st.nv THEN 1
      ELSE IF k <= gate THEN declared_aux(st, gate_check).max_degree
      ELSE IF k <= wired THEN WiringLuck(st, k - gate)
      ELSE IF k <= checks THEN 1
      ELSE BatchLuck(Shape(st), k - checks)

\* What verify takes for granted and does not look at: as many commitments
\* to witnesses as the index has columns, and 1 at the root of the products,
\* the fourth of the evaluations.
HpFits(st, env) ==
  Len(st.witnesses) = num_witness_columns(st.gates) /\ env["evals"][4] = 1
=============================================================================
