------------------------------ MODULE Schemes ------------------------------
(***************************************************************************)
(* The parameters of Opening for every scheme of the repository: the names *)
(* of the schemes, dispatched to the modules that translate them, and each *)
(* of them but Carina inside Batching; and the SNARK, with the multilinear *)
(* KZG inside the Batching at its end.                                     *)
(***************************************************************************)
EXTENDS Vela, Carina, Kzg, Zeromorph, Mulcs, Gemini, Samaritan, Mercury, Chopin,
        Batching, HyperPlonk

---------------------------------------------------------------------------
(* One polynomial at one point                                             *)

ProverScript1(s) ==
  CASE s = "vela" -> VelaProverScript [] s = "carina" -> CarinaProverScript
    [] s = "ukzg" -> UkzgProverScript [] s = "mkzg" -> MkzgProverScript
    [] s = "zeromorph" -> ZmProverScript [] s = "mulcs" -> MulcsProverScript
    [] s = "gemini" -> GeminiProverScript [] s = "samaritan" -> SamaritanProverScript
    [] s = "mercury" -> MercuryProverScript [] s = "chopin" -> ChopinProverScript
VerifierScript1(s) ==
  CASE s = "vela" -> VelaVerifierScript [] s = "carina" -> CarinaVerifierScript
    [] s = "ukzg" -> UkzgVerifierScript [] s = "mkzg" -> MkzgVerifierScript
    [] s = "zeromorph" -> ZmVerifierScript [] s = "mulcs" -> MulcsVerifierScript
    [] s = "gemini" -> GeminiVerifierScript [] s = "samaritan" -> SamaritanVerifierScript
    [] s = "mercury" -> MercuryVerifierScript [] s = "chopin" -> ChopinVerifierScript
Usable1(s, st, e, l, c) ==
  CASE s = "vela" -> VelaUsable(l, c) [] s = "carina" -> CarinaUsable(l, c)
    [] s = "gemini" -> GeminiUsable(st, e, l, c)
    [] s = "mercury" -> MercuryUsable(st, e, l, c)
    [] s = "chopin" -> ChopinUsable(st, e, l, c)
    [] s \in {"zeromorph", "mulcs", "samaritan"} -> TRUE
Guard1(s, st, e, l) ==
  CASE s = "vela" -> VelaGuard(st, e, l) [] s = "carina" -> CarinaGuard(st, e, l)
    [] s = "ukzg" -> UkzgGuard(st, l) [] s = "mkzg" -> MkzgGuard(st, l)
    [] s = "zeromorph" -> ZmGuard(st, e, l) [] s = "mulcs" -> MulcsGuard(st, e, l)
    [] s = "gemini" -> GeminiGuard(st, e, l) [] s = "samaritan" -> SamaritanGuard(st, e, l)
    [] s = "mercury" -> MercuryGuard(st, e, l) [] s = "chopin" -> ChopinGuard(st, e, l)
Message1(s, st, e, l) ==
  CASE s = "vela" -> VelaMessage(st, e, l) [] s = "carina" -> CarinaMessage(st, e, l)
    [] s = "ukzg" -> UkzgMessage(st, l) [] s = "mkzg" -> MkzgMessage(st, l)
    [] s = "zeromorph" -> ZmMessage(st, e, l) [] s = "mulcs" -> MulcsMessage(st, e, l)
    [] s = "gemini" -> GeminiMessage(st, e, l)
    [] s = "samaritan" -> SamaritanMessage(st, e, l)
    [] s = "mercury" -> MercuryMessage(st, e, l) [] s = "chopin" -> ChopinMessage(st, e, l)
Verdict1(s, st, e) ==
  CASE s = "vela" -> VelaVerdict(st, e) [] s = "carina" -> CarinaVerdict(st, e)
    [] s = "ukzg" -> UkzgVerdict(st, e) [] s = "mkzg" -> MkzgVerdict(st, e)
    [] s = "zeromorph" -> ZmVerdict(st, e) [] s = "mulcs" -> MulcsVerdict(st, e)
    [] s = "gemini" -> GeminiVerdict(st, e) [] s = "samaritan" -> SamaritanVerdict(st, e)
    [] s = "mercury" -> MercuryVerdict(st, e) [] s = "chopin" -> ChopinVerdict(st, e)
Degenerate1(s, st, e) == s = "zeromorph" /\ ZmDegenerate(st, e)

Challenges1(s) ==
  CASE s = "vela" -> VelaChallenges [] s = "carina" -> CarinaChallenges
    [] s = "zeromorph" -> ZmChallenges [] s = "gemini" -> GeminiChallenges
    [] s = "samaritan" -> SamaritanChallenges [] s = "mercury" -> MercuryChallenges
    [] s = "chopin" -> ChopinChallenges
    [] s \in {"ukzg", "mkzg", "mulcs"} -> <<>>
\* No chain of beliefs is stated for Mulcs.
Claim1(s, st, e, k) ==
  CASE s = "vela" -> VelaClaim(st, e, k) [] s = "carina" -> CarinaClaim(st, e, k)
    [] s = "zeromorph" -> ZmClaim(st, e, k) [] s = "gemini" -> GeminiClaim(st, e, k)
    [] s = "samaritan" -> SamaritanClaim(st, e, k) [] s = "mercury" -> MercuryClaim(st, e, k)
    [] s = "chopin" -> ChopinClaim(st, e, k)
    [] s = "ukzg" -> horner(st.evals, st.point[1]) = st.value
    [] s = "mkzg" -> Extension(st.evals, st.point) = st.value
    [] s = "mulcs" -> TRUE
Luck1(s, st, k) ==
  CASE s = "vela" -> VelaLuck(st, k) [] s = "carina" -> CarinaLuck(st, k)
    [] s = "zeromorph" -> ZmLuck(st, k) [] s = "gemini" -> GeminiLuck(st, k)
    [] s = "samaritan" -> SamaritanLuck(st, k) [] s = "mercury" -> MercuryLuck(st, k)
    [] s = "chopin" -> ChopinLuck(st, k)

Bound1(s) ==
  CASE s \in {"ukzg", "mkzg"} -> {}
    [] s = "mulcs" -> {"mu"}
    [] s = "zeromorph" -> {"cm_f", "point", "value"}
    [] s \in {"vela", "carina", "gemini", "samaritan", "mercury", "chopin"} ->
         {"mu", "cm_f", "point", "value"}
\* A commitment is a function of the evaluations.
Stated1(s, st, l) ==
  CASE l = "cm_f" -> st.evals
    [] l = "point" -> IF s = "chopin" THEN padded_point(st) ELSE st.point
    [] l \notin {"cm_f", "point"} -> st[l]

---------------------------------------------------------------------------
(* Several polynomials, each at a point of its own                         *)

InnerOf ==
  [batch_mkzg |-> "mkzg", batch_vela |-> "vela", batch_zeromorph |-> "zeromorph",
   batch_mulcs |-> "mulcs", batch_gemini |-> "gemini", batch_samaritan |-> "samaritan",
   batch_mercury |-> "mercury", batch_chopin |-> "chopin"]
Batch(s) == s \in DOMAIN InnerOf

\* The SNARK ends with a batch of what it left to be evaluated.
Snark(s) == s = "hyperplonk"
Whole(s) == ~ Snark(s) /\ ~ Batch(s)
Inside(s) == IF Snark(s) THEN "mkzg" ELSE InnerOf[s]
Several(s, st, e) == IF Snark(s) THEN Openings(st, e) ELSE st

ProverScriptOf(s, st) ==
  IF Snark(s) THEN HpProverScript(st)
  ELSE IF Batch(s) THEN multi_open(st, Inside(s), ProverScript1(Inside(s)))
  ELSE ProverScript1(s)
VerifierScriptOf(s, st) ==
  IF Snark(s) THEN HpVerifierScript(st)
  ELSE IF Batch(s) THEN batch_verify(st, Inside(s), VerifierScript1(Inside(s)))
  ELSE VerifierScript1(s)

\* A step belongs to the SNARK, to the batch, or to the one opening in the
\* end, of the statement that is left by then.
OfSnark(s, e, l) == Snark(s) /\ (l \in HpLabels \/ DOMAIN e = {})
OfBatch(s, l) == ~ Whole(s) /\ l \in BatchLabels
Single(s) == IF Whole(s) THEN s ELSE Inside(s)
Left(s, st, e) == IF Whole(s) THEN st ELSE Reduced(Several(s, st, e), e)

UsableOf(s, st, e, l, c) ==
  IF OfSnark(s, e, l) THEN TRUE
  ELSE IF OfBatch(s, l) THEN TRUE
  ELSE Usable1(Single(s), Left(s, st, e), e, l, c)
GuardOf(s, st, e, l) ==
  IF OfSnark(s, e, l) THEN HpGuard(st, e, l)
  ELSE IF OfBatch(s, l) THEN BatchGuard(Several(s, st, e), e, l)
  ELSE Guard1(Single(s), Left(s, st, e), e, l)
MessageOf(s, st, e, l) ==
  IF OfSnark(s, e, l) THEN HpMessage(st, e, l)
  ELSE IF OfBatch(s, l) THEN BatchMessage(Several(s, st, e), e, l)
  ELSE Message1(Single(s), Left(s, st, e), e, l)
StatedOf(s, st, e, l) ==
  IF OfSnark(s, e, l) THEN HpStated(st, e, l)
  ELSE IF OfBatch(s, l) THEN BatchStated(Several(s, st, e), e, l)
  ELSE Stated1(Single(s), Left(s, st, e), l)
\* The point of the opening in the end is a message of the batch.
CarriedOf(s, l) ==
  IF ~ Whole(s) /\ l \in {"point", "point_a2"} /\ Single(s) # "chopin"
  THEN "sum_check_point" ELSE l
VerdictOf(s, st, e) == Verdict1(Single(s), Left(s, st, e), e)
DegenerateOf(s, st, e) == Degenerate1(Single(s), Left(s, st, e), e)

\* The SNARK absorbs of its statement the shapes of the checks and the
\* points of the batch.
SnarkBound(l) ==
  CASE l \in Range(gate_check.r) -> {}
    [] l \in Range(gate_check.c) \cup Range(perm_check.r)
              \cup {"beta", "perm_gamma", "perm_alpha"} -> {"z_aux"}
    [] l \in Range(perm_check.c) \cup Range(r_pi_labels) -> {"z_aux", "p_aux"}
BatchBound(s) == {"eval_points"} \cup (IF Snark(s) THEN {"z_aux", "p_aux"} ELSE {})
BoundOf(s, l) ==
  IF Whole(s) THEN Bound1(s)
  ELSE IF l \in Range(t_labels) THEN BatchBound(s)
  ELSE IF l \in Range(r_labels) THEN BatchBound(s) \cup {"aux_info"}
  ELSE IF Snark(s) THEN SnarkBound(l)
  ELSE CASE InnerOf[s] = "zeromorph" -> Bound1("zeromorph") \cup {"eval_points", "aux_info"}
         [] InnerOf[s] = "mulcs" -> Bound1("mulcs") \cup {"point_a2"}
         [] InnerOf[s] \notin {"zeromorph", "mulcs"} -> Bound1(InnerOf[s])

\* The chain of the batch and then that of the scheme, from its second link:
\* the first is the last of the batch.
ChallengesOf(s, st) ==
  CASE Whole(s) -> Challenges1(s)
    [] Batch(s) -> BatchChallenges(st) \o Challenges1(InnerOf[s])
    [] Snark(s) -> HpChallenges(st)
ClaimOf(s, st, e, k) ==
  LET n == IF Batch(s) THEN Len(BatchChallenges(st)) ELSE 0
  IN  IF Snark(s) THEN HpClaim(st, e, k)
      ELSE IF Single(s) = "mulcs" THEN TRUE
      ELSE IF Batch(s) /\ k <= n THEN BatchClaim(st, e, k)
      ELSE Claim1(Single(s), Left(s, st, e), e, k - n)
\* Only the SNARK's verifier takes something for granted.
FitsOf(s, st, e) == Snark(s) => HpFits(st, e)
LuckOf(s, st, k) ==
  CASE Whole(s) -> Luck1(s, st, k)
    [] Snark(s) -> HpLuck(st, k)
    [] Batch(s) ->
         LET n == Len(BatchChallenges(st))
         IN  IF k <= n THEN BatchLuck(st, k)
             ELSE Luck1(InnerOf[s], [nv |-> st.nv, key |-> st.key, point |-> st.points[1]],
                        k - n)
=============================================================================
