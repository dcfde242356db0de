-------------------------------- MODULE Vela --------------------------------
(***************************************************************************)
(* The Vela scheme, subroutines/src/pcs/vela: what its prover and verifier *)
(* absorb, send and draw, in order, and what they compute.  Opening runs   *)
(* the scripts.  A step is <<operation, label>>:                           *)
(*   guard   return an error unless a condition on the input holds         *)
(*   avoid   return an error unless one on the challenges holds            *)
(*   check   return Ok(false) unless a condition holds                     *)
(*   absorb  a part of the statement goes into the transcript              *)
(*   bind    a message goes into the proof and the transcript              *)
(*   carry   a message goes into the proof only                            *)
(*   draw    a challenge                                                   *)
(***************************************************************************)
EXTENDS Polynomial

VelaStatement == <<<<"absorb", "mu">>, <<"absorb", "cm_f">>,
                   <<"absorb", "point">>, <<"absorb", "value">>>>

\* open_with_commitment, with its transcript made before vela_open checks mu,
\* the value and, by committing, the size of the key.
VelaProverScript ==
  <<<<"guard", "point_len">>>> \o VelaStatement \o
  <<<<"guard", "mu">>, <<"guard", "value">>, <<"guard", "srs">>,
    <<"bind", "cm_hbar">>, <<"draw", "z">>,
    <<"bind", "f_z">>, <<"bind", "f_z_inv">>,
    <<"bind", "hbar_z">>, <<"bind", "hbar_z_inv">>, <<"draw", "alpha">>,
    <<"carry", "pi">>>>

VelaVerifierScript ==
  VelaStatement \o
  <<<<"guard", "integrity">>,
    <<"bind", "cm_hbar">>, <<"draw", "z">>,
    <<"bind", "f_z">>, <<"bind", "f_z_inv">>,
    <<"bind", "hbar_z">>, <<"bind", "hbar_z_inv">>, <<"draw", "alpha">>,
    <<"carry", "pi">>>>

\* One attempt: validate_z returns its error.
VelaUsable(label, c) == label = "z" => HasReciprocal(c)

\* st: the statement [nv, evals, point, value, mu, key]; key is the number of
\* variables the keys were trimmed for, mu the proof's field (nv when proving).
VelaGuard(st, env, label) ==
  CASE label = "point_len" -> Len(st.point) = st.nv
    [] label = "mu" -> st.nv > 0
    [] label = "value" ->
         mul_by_reciprocal_tensor(st.evals, st.nv, st.point)[0] = st.value
    [] label = "srs" -> 2^st.nv - 1 <= 2^st.key
    [] label = "integrity" ->
         st.mu > 0 /\ Len(st.point) = st.mu /\ 2^st.mu - 1 <= 2^st.key - 1

\* The degree-one remainders, batched by alpha.
VelaRemainder(env) ==
  LET z == env["z"]
      rf == two_point_remainder(z, env["f_z"], Inv(z), env["f_z_inv"])
      rh == two_point_remainder(z, env["hbar_z"], Inv(z), env["hbar_z_inv"])
  IN  plus(rf, scale(env["alpha"], rh))

VelaDivisor(env) == reciprocal_pair(env["z"] ++ Inv(env["z"]))

build_quotient(f, hbar, env) ==
  monic_div(minus(plus(f, scale(env["alpha"], hbar)), VelaRemainder(env)),
            VelaDivisor(env)).quotient

\* A message, from what has been sent and drawn before it.
VelaMessage(st, env, label) ==
  LET hbar == env["cm_hbar"]
      z == env["z"]
  IN  CASE label = "cm_hbar" -> reciprocal_witness(st.evals, st.point, st.nv)
        [] label = "f_z" -> horner(st.evals, z)
        [] label = "f_z_inv" -> horner(st.evals, Inv(z))
        [] label = "hbar_z" -> horner(hbar, z)
        [] label = "hbar_z_inv" -> horner(hbar, Inv(z))
        [] label = "pi" -> build_quotient(st.evals, hbar, env)

\* z hbar(z) + hbar(1/z)/z + 2y = f(z) T(1/z) + f(1/z) T(z)
VelaIdentity(st, z, f_z, f_z_inv, hbar_z, hbar_z_inv) ==
  (z ** hbar_z) ++ (Inv(z) ** hbar_z_inv) ++ (2 ** st.value)
    = (f_z ** eval_tensor(st.point, Inv(z)))
        ++ (f_z_inv ** eval_tensor(st.point, z))

\* f + alpha hbar - R = pi Z, the pairing equation, and then the identity.
VelaVerdict(st, env) ==
  LET lhs == minus(plus(st.evals, scale(env["alpha"], env["cm_hbar"])),
                   VelaRemainder(env))
      Z == VelaDivisor(env)
      PiZ(i) == FSum([k \in 0 .. 2 |-> Z[k] ** Coef(env["pi"], i - k)])
      exponents == 0 .. Cardinality(DOMAIN lhs) + Cardinality(DOMAIN env["pi"]) + 2
  IN  /\ \A i \in exponents : Coef(lhs, i) = PiZ(i)
      /\ VelaIdentity(st, env["z"], env["f_z"], env["f_z_inv"],
                      env["hbar_z"], env["hbar_z_inv"])

---------------------------------------------------------------------------
(* What is left to be believed after k challenges, not taken from the      *)
(* code: the value; then the identity at z of the two committed            *)
(* polynomials; then what the verifier checks.                             *)

VelaChallenges == <<"z", "alpha">>

VelaClaim(st, env, k) ==
  CASE k = 0 -> Extension(st.evals, st.point) = st.value
    [] k = 1 -> LET z == env["z"] IN
         VelaIdentity(st, z, horner(st.evals, z), horner(st.evals, Inv(z)),
                      horner(env["cm_hbar"], z), horner(env["cm_hbar"], Inv(z)))
    [] k = 2 -> /\ VelaIdentity(st, env["z"], env["f_z"], env["f_z_inv"],
                                env["hbar_z"], env["hbar_z_inv"])
                /\ Same(monic_div(minus(plus(st.evals,
                                  scale(env["alpha"], env["cm_hbar"])),
                                  VelaRemainder(env)),
                                  VelaDivisor(env)).remainder,
                        [i \in {} |-> 0])

\* A committed polynomial has at most N coefficients, so the identity, times
\* z^N, has degree 2N; two wrong remainders cancel for one alpha at most.
VelaLuck(st, k) == IF k = 1 THEN 2 * 2^st.nv ELSE 1
=============================================================================
