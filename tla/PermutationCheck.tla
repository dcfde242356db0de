-------------------------- MODULE PermutationCheck --------------------------
(***************************************************************************)
(* PermutationCheck of subroutines/src/poly_iop/perm_check, on top of      *)
(* ProductCheck: the values of gs are those of fs moved along perms.  Two  *)
(* challenges turn each value and its position into one field element, and *)
(* the products of those elements are compared.                            *)
(***************************************************************************)
EXTENDS ProductCheck

CONSTANTS
  Wirings,          \* triples [fs, gs, perms] of lists of [num_vars, evals]
  Challenges        \* what beta and gamma may be

ASSUME WiringsAssumption ==
  \A w \in Wirings : MleList(w.fs) /\ MleList(w.gs) /\ MleList(w.perms)

ASSUME ChallengesAssumption == Challenges \subseteq Field

VARIABLES
  wiring,           \* the three lists
  begun,            \* the caller has put something into the transcript
  beta, gamma

permVars == <<wiring, begun, beta, gamma>>
allVars == <<vars, permVars>>

PermInit ==
  /\ wiring \in Wirings
  /\ begun \in BOOLEAN
  /\ beta = 0
  /\ gamma = 0
  /\ fxs = <<>>
  /\ gxs = <<>>
  /\ forged = FALSE
  /\ frac = <<>>
  /\ prod_x_evals = <<>>
  /\ alpha = 0
  /\ result = "none"
  /\ phase = "permute"

Matching ==
  /\ wiring.fs # <<>>
  /\ Len(wiring.fs) = Len(wiring.gs)
  /\ Len(wiring.fs) = Len(wiring.perms)
  /\ \A k \in DOMAIN wiring.fs :
       {wiring.fs[k].num_vars, wiring.gs[k].num_vars, wiring.perms[k].num_vars}
         = {wiring.fs[1].num_vars}

RefuseWiring ==
  /\ phase = "permute"
  /\ ~ Matching
  /\ LET lengths == {Len(wiring.fs), Len(wiring.gs), Len(wiring.perms)}
     IN  result' = IF wiring.fs # <<>> /\ Cardinality(lengths) > 1
                   THEN "InvalidProof" ELSE "InvalidParameters"
  /\ phase' = "done"
  /\ UNCHANGED <<fxs, gxs, forged, frac, prod_x_evals, alpha, permVars>>

\* Mutant: the position is left out.
TaggedUnplaced(values, positions, b, c) ==
  [k \in DOMAIN values |->
     [num_vars |-> values[k].num_vars,
      evals    |-> [x \in DOMAIN values[k].evals |-> values[k].evals[x] ++ c]]]

\* No challenge is drawn from an empty transcript.
RefuseTranscript ==
  /\ phase = "permute"
  /\ Matching
  /\ ~ begun
  /\ result' = "InvalidTranscript"
  /\ phase' = "done"
  /\ UNCHANGED <<fxs, gxs, forged, frac, prod_x_evals, alpha, permVars>>

\* computer_nums_and_denoms: value + beta * position + gamma, in every slot.
Tagged(values, positions, b, c) ==
  [k \in DOMAIN values |->
     [num_vars |-> values[k].num_vars,
      evals    |-> [x \in DOMAIN values[k].evals |->
                      (values[k].evals[x] ++ b ** positions[k][x]) ++ c]]]

Ids(w) == identity_permutation_mles(w.fs[1].num_vars, Len(w.fs))
Perms(w) == [k \in DOMAIN w.perms |-> w.perms[k].evals]

\* Mutant: both sides at their own positions.
computer_nums_and_denoms_unmoved(w, b, c) ==
  [nums   |-> Tagged(w.fs, Ids(w), b, c),
   denoms |-> Tagged(w.gs, Ids(w), b, c)]

computer_nums_and_denoms(w, b, c) ==
  [nums   |-> Tagged(w.fs, Ids(w), b, c),
   denoms |-> Tagged(w.gs, Perms(w), b, c)]

\* PermutationCheck::prove up to its call of ProductCheck::prove.
Permute ==
  /\ phase = "permute"
  /\ Matching
  /\ begun
  /\ beta' \in Challenges
  /\ gamma' \in Challenges
  /\ LET lists == computer_nums_and_denoms(wiring, beta', gamma')
     IN  fxs' = lists.nums /\ gxs' = lists.denoms
  /\ phase' = "prove"
  /\ UNCHANGED <<wiring, begun, forged, frac, prod_x_evals, alpha, result>>

PermNext ==
  \/ RefuseWiring
  \/ RefuseTranscript
  \/ Permute
  \/ Next /\ UNCHANGED permVars

PermSpec == PermInit /\ [][PermNext]_allVars
---------------------------------------------------------------------------
\* How often a value sits at a position, before and after.
Slots(w) == {<<k, x>> : k \in DOMAIN w.fs, x \in Index(w.fs[1].num_vars)}
Count(w, values, positions, v, p) ==
  Cardinality({s \in Slots(w) :
                 values[s[1]].evals[s[2]] = v /\ positions[s[1]][s[2]] = p})

IsPermuted(w) ==
  \A v, p \in Field :
    Count(w, w.fs, Ids(w), v, p) = Count(w, w.gs, Perms(w), v, p)

Equalises(w, b, c) ==
  LET lists == computer_nums_and_denoms(w, b, c)
  IN  Total(lists.nums) = Total(lists.denoms)

\* Values moved along the permutation pass the product check for all
\* challenges, except those that make a denominator zero, where the prover
\* gives up.
PermutedAccepted ==
  (phase = "done" /\ Matching /\ begun /\ IsPermuted(wiring)) =>
    \/ result = "accept"
    \/ /\ result = "InvalidParameters"
       /\ \E b \in Index(nv) : At(gxs, b) = 0

\* Values that were not moved along it pass only for challenges that happen
\* to make the two products equal; out of P^2 pairs of challenges there are
\* at most P times as many of those as there are slots.
NotPermutedNeedsLuck ==
  (result = "accept" /\ Matching /\ ~ IsPermuted(wiring)) =>
    /\ Equalises(wiring, beta, gamma)
    /\ Cardinality({d \in Field \X Field : Equalises(wiring, d[1], d[2])})
         <= P * Cardinality(Slots(wiring))
=============================================================================
