-------------------------------- MODULE Kzg --------------------------------
(***************************************************************************)
(* The two schemes without a transcript: univariate KZG                    *)
(* (subroutines/src/pcs/univariate_kzg) and multilinear KZG                *)
(* (subroutines/src/pcs/multilinear_kzg: mod.rs, srs.rs, util.rs), as      *)
(* scripts of Opening.                                                     *)
(*                                                                         *)
(* A statement is [nv, evals, point, mu, value, key, max]: the keys were   *)
(* trimmed to size key from a universal one of size max.  For univariate   *)
(* KZG evals are the coefficients and the point is a singleton.            *)
(***************************************************************************)
EXTENDS Polynomial

---------------------------------------------------------------------------
(* Univariate KZG.  powers_of_g[..=key] has the powers 0 .. key.           *)

UkzgProverScript ==
  <<<<"guard", "trim">>, <<"guard", "commit">>, <<"carry", "proof">>>>
UkzgVerifierScript == <<<<"carry", "proof">>>>

UkzgGuard(st, label) ==
  CASE label = "trim" -> st.key <= st.max
    [] label = "commit" -> degree(st.evals) < st.key + 1

\* The MSM starts at the first non-zero coefficient and stops at the end of
\* the key, whatever is left.
ukzg_msm(st, p) ==
  LET num_leading_zeros ==
        CHOOSE z \in 0 .. Cardinality(DOMAIN p) :
          /\ \A i \in 0 .. z-1 : p[i] = 0
          /\ z \in DOMAIN p => p[z] # 0
  IN  [i \in (num_leading_zeros .. st.key) \cap DOMAIN p |-> p[i]]

UkzgMessage(st, label) ==
  ukzg_msm(st, monic_div(st.evals, X_minus(st.point[1])).quotient)

\* g^value / proof^point / C paired with h, and proof with beta_h.
UkzgVerdict(st, env) ==
  LET first == minus(monomial(0, st.value),
                     plus(scale(st.point[1], env["proof"]), st.evals))
  IN  Same(plus(first, shift(env["proof"], 1)), Nought)

---------------------------------------------------------------------------
(* Multilinear KZG.  The trapdoor is t_0 .. t_{max-1}; every element of    *)
(* the key is multilinear in it, so it is kept as its table over Boolean   *)
(* t, of max variables.                                                    *)

\* eq_extension(t): for each variable a table over x.
eq_extension(t) ==
  [i \in 0 .. Len(t) - 1 |->
     [x \in Index(Len(t)) |->
        LET xi == Bit(x, i)
            ti_xi == t[i+1] * xi
        IN  FromInt(ti_xi + ti_xi - xi - t[i+1] + 1)]]

\* Fix the first pad variables to zero.
remove_dummy_variable(poly, n, pad) == [x \in Index(n - pad) |-> poly[x * 2^pad]]

\* powers_of_g[i][b], i <= max: the product of the eq tables of the variables
\* i .. max-1, without the first i variables.
srs_powers(max, i, b) ==
  [c \in Index(max) |->
     LET eq == eq_extension(bit_decompose(c, max))
         base == [x \in Index(max) |-> FProd([j \in i .. max-1 |-> eq[j][x]])]
     IN  IF i = max THEN 1 ELSE remove_dummy_variable(base, max, i)[b]]

\* An MSM over powers_of_g[i] of the key trimmed to st.key variables; the
\* value at Boolean t_c of the committed multilinear polynomial.
to_reduce(st) == st.max - st.key
mkzg_msm(st, i, scalars) ==
  LET bases == [b \in DOMAIN scalars |-> srs_powers(st.max, i + to_reduce(st), b)]
  IN  [c \in Index(st.max) |->
         FSum([b \in DOMAIN scalars |-> scalars[b] ** bases[b][c]])]

MkzgProverScript ==
  <<<<"guard", "trim">>, <<"guard", "num_vars">>, <<"guard", "point_len">>,
    <<"carry", "proofs">>>>
MkzgVerifierScript == <<<<"guard", "limit">>, <<"carry", "proofs">>>>

MkzgGuard(st, label) ==
  CASE label = "trim" -> st.key <= st.max
    [] label = "num_vars" -> st.nv <= st.key
    [] label = "point_len" -> st.nv = Len(st.point)
    [] label = "limit" -> Len(st.point) <= st.key

\* open_internal: the quotient by (x_i - point_i) of each round, and what is
\* left of f, one variable less each time.
Round(f, k, point_at_k) ==
  LET q == [b \in Index(k) |-> f[2*b + 1] -- f[2*b]]
  IN  [q |-> q, r |-> [b \in Index(k) |-> f[2*b] ++ (q[b] ** point_at_k)]]

MkzgMessage(st, label) ==
  LET nv == st.nv
      rounds[i \in 0 .. nv] ==
        IF i = 0 THEN [r |-> st.evals]
        ELSE Round(rounds[i-1].r, nv - i, st.point[i])
      ignored == st.key - nv + 1
  IN  [i \in 1 .. nv |-> mkzg_msm(st, ignored + i - 1, rounds[i].q)]

mkzg_commit(st) == mkzg_msm(st, st.key - st.nv, st.evals)

\* prod e(proof_i, h^(t_i - point_i)) e(g^value / C, h) = 1; of degree two in
\* each t_i, so a sum that is zero on {0,1,2}^max is zero.
MkzgVerdict(st, env) ==
  LET num_var == Len(st.point)
      ignored == st.key - num_var
      pairs == (1 .. num_var) \cap DOMAIN env["proofs"]
      mask(t, i) == t[to_reduce(st) + ignored + i]     \* h_mask
  IN  \A t \in [1 .. st.max -> 0 .. 2] :
        FSum([i \in pairs |->
                Extension(env["proofs"][i], t) ** (mask(t, i) -- st.point[i])])
          ++ st.value = Extension(mkzg_commit(st), t)
=============================================================================
