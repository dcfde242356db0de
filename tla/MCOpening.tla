----------------------------- MODULE MCOpening -----------------------------
(* Small instances of Opening: every scheme of the repository, alone and   *)
(* in a batch.                                                             *)
EXTENDS Schemes, Opening

\* MAX_CHALLENGE_RETRY = 64, cut down; the others do not retry.
TriesOf(s) == IF s \in {"carina", "chopin"} THEN 2 ELSE 1

\* Challenges that are refused, that make a scheme stop or degenerate, that
\* bring luck, and one or two that do nothing of this.
Sample1(s, l) ==
  CASE s \in {"vela", "carina"} -> {0, 2, 6}
    [] s = "zeromorph" -> [y |-> {2}, x |-> {2, 5}, z |-> {0, 2}][l]
    [] s = "mulcs" -> [mulcs_delta |-> {2}, mulcs_z |-> {0, 2, 6}][l]
    [] s = "gemini" -> [r |-> {0, 2, 6}, nu |-> {2}, z |-> {2, 5}][l]
    [] s = "samaritan" ->
         [gamma |-> {2, 4}, alpha |-> {2}, beta |-> {6}, delta |-> {0, 2}][l]
    [] s = "mercury" ->
         [alpha |-> {2, 6}, gamma |-> {0, 2}, zeta |-> {0, 2}, beta |-> {2},
          z |-> {5, 6}, d_pair |-> {2}][l]
    [] s = "chopin" ->
         [alpha |-> {2, 6}, gamma |-> {0, 2}, beta |-> {2, 4}, rho |-> {2},
          z |-> {2, 5}][l]

\* Outside the nodes 0 .. 4 of its sum checks, and nowhere that eq is zero: a
\* first coordinate that hides two wrong rows and one that hides a wrong
\* public input, and a mask that makes a denominator zero.
SnarkSample(l) ==
  CASE l = "z_r1" -> {2, 4}
    [] l \in {"z_c1", "p_c2"} -> {5}
    [] l \in {"z_c2", "p_c1"} -> {6}
    [] l = "perm_gamma" -> {4, 6}
    [] l \in Range(r_pi_labels) -> {2, 6}
    [] l \in Range(r_labels) -> {6}
    [] OTHER -> {2}

\* Outside the nodes 0, 1 and 2 of the sum check; 2 cancels two errors below.
\* One challenge for each draw of the scheme inside, none that makes it stop.
SampleOf(s, l) ==
  IF Snark(s) THEN SnarkSample(l)
  ELSE IF ~ Batch(s) THEN Sample1(s, l)
  ELSE IF l \in Range(t_labels) THEN {2}
  ELSE IF l \in Range(r_labels) THEN {4, 6}
  ELSE IF s = "batch_zeromorph" THEN {2}
  ELSE {Max(Sample1(InnerOf[s], l))}

---------------------------------------------------------------------------
(* The statements                                                          *)

Values(seq) == [b \in 0 .. Len(seq) - 1 |-> FromInt(seq[b+1])]
Statement_(nv, evals, point, key, max) ==
  [nv |-> nv, evals |-> Values(evals), point |-> point, mu |-> nv,
   value |-> Extension(Values(evals), point), key |-> key, max |-> max, gamma |-> 2]

One == Statement_(1, <<2, 5>>, <<3>>, 1, 1)
Two == Statement_(2, <<4, 0, 7, 11>>, <<5, 8>>, 2, 2)
Three == Statement_(3, <<3, 4, 7, 12, 6, 2, 0, 9>>, <<3, 5, 2>>, 3, 3)
None == [Two EXCEPT !.nv = 0, !.evals = Values(<<2>>), !.point = <<>>, !.mu = 0,
                    !.value = 2, !.key = 1, !.max = 1]
TooShort == [Two EXCEPT !.point = <<5>>]
SmallKey == [Two EXCEPT !.key = 1]
LargeKey == [Two EXCEPT !.key = 3, !.max = 3]
CarinaFour ==
  Statement_(4, <<3, 4, 7, 12, 6, 2, 0, 0, 2, 6, 12, 7, 4, 3, 4, 7>>,
             <<3, 5, 2, 7>>, 4, 5)
CarinaFive ==
  Statement_(5, [i \in 1 .. 32 |-> i * i + 3 * i], <<3, 5, 2, 7, 4>>, 5, 5)
\* Coefficients, the first of them zero.
Powers == [Two EXCEPT !.evals = Values(<<0, 0, 7, 11>>), !.point = <<5>>,
                      !.value = horner(Values(<<0, 0, 7, 11>>), 5), !.key = 3, !.max = 4]
OfKey(st) == [st EXCEPT !.mu = st.key]

\* Three polynomials at two points, and a single one.
Batch_(polys, points) ==
  [nv |-> 2, polys |-> [i \in DOMAIN polys |-> Values(polys[i])], points |-> points,
   values |-> [i \in DOMAIN polys |-> Extension(Values(polys[i]), points[i])],
   mu |-> 2, key |-> 2, max |-> 2, gamma |-> 2]
Trio == Batch_(<<<<4, 0, 7, 11>>, <<1, 2, 3, 5>>, <<6, 6, 0, 9>>>>,
               <<<<5, 8>>, <<3, 4>>, <<5, 8>>>>)
Solo == Batch_(<<<<4, 0, 7, 11>>>>, <<<<5, 8>>>>)
Empty == Batch_(<<>>, <<>>)
PointShort == [Trio EXCEPT !.points[3] = <<5>>]
PointMissing == [Trio EXCEPT !.points = SubSeq(@, 1, 2)]
PolySmall == [Trio EXCEPT !.polys[2] = Values(<<1, 2>>)]
\* A false value, and two that cancel for one first challenge.
WrongValue == [Trio EXCEPT !.values[2] = @ ++ 1]
WrongPair == [Trio EXCEPT !.values[1] = @ ++ 2, !.values[2] = @ ++ 1]

\* q w0^2 - w1 = 0 on four rows; w0 is wired to itself, row 0 to row 3; two
\* public inputs.
Good ==
  [nv |-> 2,
   gates |-> <<[coeff |-> 1, selector |-> 1, witnesses |-> <<1, 1>>],
               [coeff |-> -1, selector |-> 0, witnesses |-> <<2>>]>>,
   selectors |-> <<Values(<<1, 1, 0, 2>>)>>,
   permutation |-> <<3, 1, 2, 0, 4, 5, 6, 7>>, num_pub |-> 2,
   witnesses |-> <<Values(<<2, 3, 5, 2>>), Values(<<4, 9, 0, 8>>)>>,
   pub |-> <<2, 3>>, mu |-> 2, key |-> 2, max |-> 2, gamma |-> 2]
\* The errors of its rows 2 and 3 cancel for a first coordinate 2.
BadGate == [Good EXCEPT !.witnesses[2] = Values(<<4, 9, 2, 9>>)]
\* Cancels for a first coordinate 2.
OtherInput == [Good EXCEPT !.pub = <<4, 4>>]
LongInput == [Good EXCEPT !.pub = <<2, 3, 5, 2>>]
OddInput == [Good EXCEPT !.pub = <<2, 3, 5>>, !.num_pub = 3]
ShortWitness == [Good EXCEPT !.witnesses[2] = Values(<<4, 9>>)]
ShortSelector == [Good EXCEPT !.selectors[1] = Values(<<1, 1>>)]
ExtraWitness == [Good EXCEPT !.witnesses = Append(@, Values(<<1, 1, 1, 1>>))]
OtherWiring == [Good EXCEPT !.permutation = <<0, 1, 2, 3, 4, 5, 6, 7>>]

\* Three slots in a ring that its values do not respect; the products of all
\* slots are the same for beta 2 and gamma 6.
BadWiring == [Good EXCEPT !.permutation = <<6, 1, 2, 3, 0, 5, 4, 7>>]
FewerColumns == [Good EXCEPT !.witnesses = SubSeq(@, 1, 1)]

\* w w - w = 0 on four rows, row 0 wired to row 3; no selectors.
OneColumn ==
  [Good EXCEPT !.gates = <<[coeff |-> 1, selector |-> 0, witnesses |-> <<1, 1>>],
                           [coeff |-> -1, selector |-> 0, witnesses |-> <<1>>]>>,
               !.selectors = <<>>, !.permutation = <<3, 1, 2, 0>>,
               !.witnesses = <<Values(<<1, 0, 0, 1>>)>>, !.pub = <<1, 0>>]
\* Two of its rows violate the gate and two wired slots differ.
Wrong ==
  [OneColumn EXCEPT !.permutation = <<1, 0, 2, 3>>,
                    !.witnesses = <<Values(<<2, 3, 5, 2>>)>>, !.pub = <<2, 3>>]
\* With a column more, of zeros, whose openings stand where those of the
\* first are looked for.
WrongAndZeros == [Wrong EXCEPT !.witnesses = Append(@, Values(<<0, 0, 0, 0>>))]
MoreCommitments(s) == {WrongAndZeros}

AskedOf(s) ==
  CASE Snark(s) -> {Good, BadGate, BadWiring, OtherInput, LongInput, OddInput, ShortWitness,
                    ShortSelector, ExtraWitness, OneColumn, Wrong}
    [] Batch(s) -> {Trio, Solo, WrongValue, Empty, PointShort, PointMissing, PolySmall}
    [] s = "vela" ->
         {One, Two, None, TooShort, SmallKey, [Two EXCEPT !.value = @ ++ 1]}
    [] s = "carina" ->
         {CarinaFour, CarinaFive, [CarinaFour EXCEPT !.key = 5],
          Statement_(3, <<3, 4, 7, 12, 6, 2, 0, 0>>, <<3, 5, 2>>, 4, 5)}
    [] s = "ukzg" -> {Powers, [Powers EXCEPT !.key = 2], [Powers EXCEPT !.key = 5]}
    [] s = "mkzg" -> {Two, [LargeKey EXCEPT !.key = 2], LargeKey, TooShort, SmallKey}
    [] s = "zeromorph" -> {One, Two, Three, LargeKey, TooShort, SmallKey}
    [] s = "mulcs" -> {One, Two, Three, LargeKey, TooShort}
    [] s = "chopin" ->
         {One, Two, Three, OfKey(LargeKey), OfKey([Three EXCEPT !.key = 4, !.max = 5]),
          TooShort, OfKey(SmallKey)}
    [] s \in {"gemini", "samaritan", "mercury"} ->
         {One, Two, Three, LargeKey, None, TooShort, SmallKey}

\* The same statement; a false value; another point; a proof with another mu.
\* Zeromorph's verifier takes any point, and every batch verifier any
\* commitment, for one of the right size.
ClaimedOf(s, st) ==
  IF Snark(s)
  THEN {st} \cup (IF st = Good THEN {OtherInput, LongInput, OtherWiring, FewerColumns}
               ELSE {})
  ELSE IF Batch(s)
  THEN {IF st = PolySmall THEN Trio ELSE st}
         \cup (IF st = Trio THEN {WrongValue, WrongPair, PointShort, PointMissing} ELSE {})
  ELSE
  {IF s = "zeromorph" /\ st = TooShort THEN Two ELSE st}
  \cup (IF st \in {Two, CarinaFour, Powers} THEN {[st EXCEPT !.value = @ ++ 1]} ELSE {})
  \cup (IF st \in {Two, CarinaFour} /\ "mu" \in Bound1(s)
        THEN {[st EXCEPT !.mu = @ + 1]} ELSE {})
  \cup (IF st = Two /\ s \in {"vela", "mkzg", "zeromorph"}
        THEN {[st EXCEPT !.point[1] = @ ++ 1]} ELSE {})

\* Enough variables, few enough for the keys, which the universal ones hold.
HonestOf(s, st) ==
  LET least == CASE ~ Whole(s) -> 2 [] s = "carina" -> 4 [] s = "chopin" -> 2
                 [] s \in {"ukzg", "mkzg", "zeromorph"} -> 0
                 [] s \in {"vela", "mulcs", "gemini", "samaritan", "mercury"} -> 1
  IN  IF Snark(s) THEN st \in {Good, OneColumn}
      ELSE IF Batch(s) THEN st \in {Trio, Solo}
      ELSE IF s = "ukzg"
      THEN st.key <= st.max /\ degree(st.evals) <= st.key
           /\ st.value = horner(st.evals, st.point[1])
      ELSE /\ Len(st.point) = st.nv
           /\ st.value = Extension(st.evals, st.point)
           /\ least <= st.nv /\ st.nv <= st.key /\ st.key <= st.max
           /\ s \in {"vela", "carina"} => st.key = st.nv

---------------------------------------------------------------------------
(* What may be read in place of an honest message.  Without a prover, the *)
(* values that help if some guessed challenge comes out; in a proof that   *)
(* was opened, the next value, once.  A proof for another statement, and   *)
(* the largest instances, are only delivered intact.                       *)

Shift(p, m, c) == plus(p, [k \in {m} |-> c])
Guesses(s, st, e, l) == {c \in Sample1(s, l) : Usable1(s, st, e, l, c)}

\* A constant that makes the identity at the guessed challenge true.
Shifted(s, st, e, l, p, m, draw, claim(_, _, _), k) ==
  {q \in {Shift(p, m, c) : c \in Field} :
     \E c \in Guesses(s, st, e, draw) : claim(st, Know(Know(e, l, q), draw, c), k)}

\* a_minus such that t0_minus is the value of S_0, and a_plus such that this
\* a_minus also hides it from the guessed lambda.
RightBelow(st, e, a) ==
  t0_minus(st, Know(Know(e, "a_minus", a), "t0_plus", horner(s0(st, e), e["r"])))
    = horner(s0(st, e), Inv(e["r"]))
Hiding(st, e) ==
  LET g == TwoValues(compute_g(st), e["r"])
  IN  {a \in Field : \E c \in Guesses("carina", st, e, "lambda") :
         RightBelow(st, Know(e, "a_plus", a), (g[1] ++ (c ** g[2]) -- a) // c)}

\* The errors of v_pn, v_np and v_nn that cancel, at the guessed eta, the
\* error of t0_minus and the one they make in t1_minus.
Cancelling(st, e, c) ==
  LET s == e["s"]
      e0 == t0_minus(st, e) -- horner(s0(st, e), Inv(e["r"]))
      d(e1) == [v_pn |-> 0 -- (c ** c ** e1), v_np |-> 0 -- (c ** e0),
                v_nn |-> 0 -- (c ** e0) -- (c ** c ** e1)]
      made(v) == s ** ((e["lambda"] ** v["v_np"] ** eval_tensor(u_r(st), Inv(s)))
                        ++ ((v["v_pn"] ++ (e["lambda"] ** v["v_nn"]))
                              ** eval_tensor(u_r(st), s)))
  IN  {d(e1) : e1 \in {x \in Field : made(d(x)) = x}}

VelaForged(st, e, l, m) ==
  CASE l = "cm_hbar" -> Shifted("vela", st, e, l, m, 0, "z",
                                LAMBDA x, y, k : VelaClaim(x, y, k), 1)
                          \cup {Shift(m, 2^st.nv - 1, 1)}
    [] l = "f_z" -> Field
    [] l = "hbar_z" ->
         {h \in Field : VelaIdentity(st, e["z"], e["f_z"], e["f_z_inv"], h,
                                     horner(e["cm_hbar"], Inv(e["z"])))}
    [] OTHER -> {}
CarinaForged(st, e, l, m) ==
  CASE l = "cm_s0" -> Shifted("carina", st, e, l, m, <<0, 0>>, "r", CarinaClaim, 1)
                        \cup {Shift(m, <<0, 1>>, 1)}
    [] l = "a_plus" -> Hiding(st, e)
    [] l = "a_minus" -> {a \in Field : RightBelow(st, e, a)}
    [] l = "cm_s1" -> Shifted("carina", st, e, l, m, <<0, 0>>, "s", CarinaClaim, 3)
                        \cup {Shift(m, <<1, 0>>, 1)}
    [] l \in {"v_pn", "v_np", "v_nn"} ->
         {m ++ d[l] : d \in UNION {Cancelling(st, e, c) :
                                   c \in Guesses("carina", st, e, "eta")}}
    [] OTHER -> {}

\* A line that vanishes at the guessed challenge and mends the inner product.
Mended(s, st, e, l, m, draw, claim(_, _, _)) ==
  {q \in {plus(m, scale(k, X_minus(c))) :
            k \in Field \ {0}, c \in Guesses(s, st, e, draw)} :
     \E c \in Guesses(s, st, e, draw) : claim(st, Know(Know(e, l, q), draw, c), 1)}

\* The last fold off by a + b X, with the final value and the last relation
\* at the guessed r right again.
GeminiForged(st, e, l, m) ==
  IF l # "fold_comms" THEN {}
  ELSE {f \in {[m EXCEPT ![last_round(st)] = plus(@, [i \in 0 .. 1 |-> d[i+1]])] :
                 d \in Field \X Field} :
          \E c \in Guesses("gemini", st, e, "r") :
            GeminiClaim(st, Know(Know(e, l, f), "r", c), 1)}
ZmForged(st, e, l, m) ==
  IF l # "q_comms" THEN {}
  ELSE {q \in {[m EXCEPT ![0] = Shift(@, 0, c)] : c \in Field} :
          \E c \in Guesses("zeromorph", st, e, "x") : ZmIdentity(st, q, c)}

\* A line more, to make up for what is missing, which vanishes at the
\* guessed challenge.
BatchForged(s, st, e, l, m) ==
  LET missing == CASE l = "msg1" -> asserted_sum(st, e)
                   [] l = "msg2" -> ValueAt(e["msg1"], e["r1"])
                   [] l \notin {"msg1", "msg2"} -> 0
  IN  IF l \notin {"msg1", "msg2"} THEN {}
      ELSE {LET slope == (missing -- m[0] -- m[1]) // (1 -- 2 ** c)
            IN  [i \in DOMAIN m |-> m[i] ++ slope ** (i -- c)] :
              c \in SampleOf(s, IF l = "msg1" THEN "r1" ELSE "r2")}

Forged(s, st, e, l, m) ==
  CASE Batch(s) -> BatchForged(s, st, e, l, m)
    [] s = "vela" -> VelaForged(st, e, l, m)
    [] s = "carina" -> CarinaForged(st, e, l, m)
    [] s = "zeromorph" -> ZmForged(st, e, l, m)
    [] s = "gemini" -> GeminiForged(st, e, l, m)
    [] s = "samaritan" /\ l = "v_hat" -> Mended(s, st, e, l, m, "gamma", SamaritanClaim)
    [] s = "mercury" /\ l = "h" -> Mended(s, st, e, l, m, "alpha", MercuryClaim)
    [] s = "chopin" /\ l = "f_zr" -> Mended(s, st, e, l, m, "alpha", ChopinClaim)
    [] OTHER -> {}

Scalars == {"y_f", "y_f_prime", "y_hbar", "z", "f_z", "f_z_inv", "hbar_z", "hbar_z_inv",
            "a_plus", "a_minus", "t0_plus", "v_pp", "v_pn", "v_np", "v_nn", "t1_plus",
            "v_gamma", "g_zeta", "s_zeta_inv", "a", "b1", "s2"}
Polynomials == {"cm_hbar", "pi", "proof", "q_hat_comm", "kzg_proof", "shplonk_q",
                "kzg_witness", "v_hat", "t_hat", "s_hat", "q_eval_proof",
                "h", "d", "quot_f", "w", "w_prime", "f_zr"}
Grids == {"cm_s0", "cm_s1", "pi_x", "pi_y"}
Tampered(s, l, m) ==
  CASE l \in Scalars -> {m ++ 1}
    [] l \in Polynomials -> {Shift(m, 0, 1)}
    [] l = "evals" -> {[m EXCEPT ![1] = @ ++ 1]}
    [] l \in {"msg1", "msg2"} -> {[m EXCEPT ![2] = @ ++ 1]}
    [] l \in Grids -> {Shift(m, <<0, 0>>, 1)}
    [] OTHER -> {}

\* The first message of the gate, made to add up to zero and right at 5.
Mended_first(m) ==
  LET slope == (0 -- Verifier!Opening(m)) // (1 -- 10)
  IN  [i \in DOMAIN m |-> m[i] ++ slope ** (i -- 5)]
SnarkTampered(l, m) ==
  CASE l = "z_msg1" /\ asked = BadGate -> {Mended_first(m)}
    [] l = "evals" /\ asked = Good ->
         {[m EXCEPT ![4] = @ ++ 1], Append(m, Last(m)), SubSeq(m, 1, 10)}
    [] l \in {"w1", "frac"} /\ asked = Good -> {Shift(m, 0, 1)}
    [] l \in {"z_msg2", "p_msg1", "p_msg2"} /\ asked = Good -> {[m EXCEPT ![1] = @ ++ 1]}
    [] OTHER -> {}

\* The openings of what nobody has proved, at guessed challenges, and the
\* first message of the wiring for a guessed r.
Known(labels, value(_)) == [l \in labels |-> value(l)]
Guess(l) == CHOOSE c \in SnarkSample(l) : TRUE
GuessedEnv(st, gamma, x) ==
  LET known == Known(Range(SubSeq(w_labels, 1, Len(st.witnesses))),
                     LAMBDA l : HpMessage(st, Nothing, l))
                 @@ Known({"evals"}, LAMBDA l : <<>>)
                 @@ Known({"perm_gamma"}, LAMBDA l : gamma)
                 @@ Known(Range(SubSeq(r_pi_labels, 1, ell_pi(st))), LAMBDA l : x)
                 @@ Known({"beta", "perm_alpha"} \cup Range(gate_check.c)
                            \cup Range(perm_check.c), Guess)
      fracs == Know(known, "frac", HpMessage(st, known, "frac"))
  IN  Know(fracs, "prod", HpMessage(st, fracs, "prod"))
GuessedEvals(st, gamma, x) ==
  LET opened == assembled(st, GuessedEnv(st, gamma, x))
  IN  [i \in DOMAIN opened.polys |-> evaluate_opt(opened.polys[i], opened.points[i])]
SnarkForged(st, e, l) ==
  CASE l = "evals" /\ (\A p \in Range(st.witnesses) \cup Range(st.selectors) :
                         Cardinality(DOMAIN p) = 2^st.nv) ->
         {GuessedEvals(st, gamma, x) :
            gamma \in SnarkSample("perm_gamma"), x \in SnarkSample("r_pi1")}
    [] l = "p_msg1" -> {HpMessage(st, e @@ Known(Range(perm_check.r), Guess), l)}
    [] OTHER -> {}

\* A batch is changed before the scheme inside it begins.
OffersOf(s, st, e, l, m) ==
  LET fixed == st.nv \in {3, 5} \/ st.mu # st.nv \/ (Batch(s) /\ l \notin BatchLabels)
  IN  CASE Snark(s) -> IF proof = Nothing THEN SnarkForged(st, e, l)
                       ELSE IF claimed = asked /\ replaced = 0
                       THEN SnarkTampered(l, m) ELSE {}
        [] ~ Snark(s) /\ fixed -> {}
        [] ~ Snark(s) /\ ~ fixed /\ proof = Nothing -> Forged(s, st, e, l, m)
        [] ~ Snark(s) /\ ~ fixed /\ proof # Nothing ->
             IF claimed = asked /\ replaced = 0 THEN Tampered(s, l, m) ELSE {}
=============================================================================
