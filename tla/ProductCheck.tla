---------------------------- MODULE ProductCheck ----------------------------
(***************************************************************************)
(* ProductCheck of subroutines/src/poly_iop/prod_check: the products of    *)
(* two lists of tables over the whole hypercube are equal.  The prover     *)
(* commits to frac and to the tree prod of its products, pushed value by   *)
(* value; then alpha is drawn, a ZeroCheck of Q follows (see ZeroCheck,    *)
(* which is taken here to accept exactly a Q that vanishes), and the       *)
(* caller opens prod at the final query.  A dishonest prover commits to    *)
(* tables of its own.                                                      *)
(***************************************************************************)
EXTENDS Multilinear, FiniteSets

CONSTANTS
  Inputs,           \* pairs <<fxs, gxs>> of sequences of [num_vars, evals]
  Forgeries(_, _),  \* Forgeries(fxs, gxs): pairs [frac, prod] made up
  Alphas            \* what alpha may be

\* A Vec of multilinear polynomials of one variable at least: get_index
\* takes one from num_vars.
MleList(list) ==
  /\ list \in Seq({list[k] : k \in DOMAIN list})
  /\ \A k \in DOMAIN list : /\ list[k].num_vars \in Nat \ {0}
                            /\ list[k].evals \in Table(list[k].num_vars)

ASSUME InputsAssumption ==
  \A input \in Inputs :
    /\ MleList(input[1]) /\ MleList(input[2])
    /\ \A t \in Forgeries(input[1], input[2]) :
         t.frac \in Table(input[1][1].num_vars) /\ t.prod \in Table(input[1][1].num_vars)

ASSUME AlphasAssumption == Alphas \subseteq Field

VARIABLES
  fxs, gxs,         \* the two lists of polynomials
  phase,
  frac,             \* evaluations of frac(x)
  prod_x_evals,     \* evaluations of prod(x) pushed so far
  forged,           \* the tables were not made by prove
  alpha,
  result

vars == <<fxs, gxs, phase, forged, frac, prod_x_evals, alpha, result>>

nv == fxs[1].num_vars

ProductInit ==
  /\ \E input \in Inputs : fxs = input[1] /\ gxs = input[2]
  /\ frac = <<>>
  /\ prod_x_evals = <<>>
  /\ forged = FALSE
  /\ alpha = 0
  /\ result = "none"

Init == ProductInit /\ phase = "prove"

---------------------------------------------------------------------------
(* The product over a list of polynomials at one point of the hypercube.   *)
At(list, b) == FProd([k \in DOMAIN list |-> list[k].evals[b]])
Total(list) == FProd([b \in Index(nv) |-> At(list, b)])

Shapely ==
  /\ fxs # <<>>
  /\ Len(fxs) = Len(gxs)
  /\ \A k \in DOMAIN fxs : fxs[k].num_vars = nv /\ gxs[k].num_vars = nv

Refuse ==
  /\ phase = "prove"
  /\ ~ Shapely
  /\ result' = "InvalidParameters"
  /\ phase' = "done"
  /\ UNCHANGED <<fxs, gxs, forged, frac, prod_x_evals, alpha>>

\* compute_frac_poly; batch_inversion skips zeros, which are then refused.
compute_frac_poly ==
  /\ phase = "prove"
  /\ Shapely
  /\ IF \E b \in Index(nv) : At(gxs, b) = 0
     THEN /\ result' = "InvalidParameters"
          /\ phase' = "done"
          /\ UNCHANGED frac
     ELSE /\ frac' = [b \in Index(nv) |-> At(fxs, b) // At(gxs, b)]
          /\ phase' = "pushing"
          /\ UNCHANGED result
  /\ UNCHANGED <<fxs, gxs, forged, prod_x_evals, alpha>>

\* One iteration of compute_product_poly: the first half of the values come
\* from frac, the second half from values pushed before.
PushProduct ==
  LET x   == Len(prod_x_evals)
      idx == get_index(x, nv)
      Pushed(i) == i < Len(prod_x_evals)
      Value(i)  == prod_x_evals[i+1]
  IN  /\ phase = "pushing"
      /\ x < 2^nv - 1
      /\ IF idx.sign = 0
         THEN /\ prod_x_evals' =
                   Append(prod_x_evals, frac[idx.x0] ** frac[idx.x1])
              /\ UNCHANGED <<phase, result>>
         ELSE IF Pushed(idx.x0) /\ Pushed(idx.x1)
         THEN /\ prod_x_evals' =
                   Append(prod_x_evals, Value(idx.x0) ** Value(idx.x1))
              /\ UNCHANGED <<phase, result>>
         ELSE /\ result' = "ShouldNotArrive"
              /\ phase' = "done"
              /\ UNCHANGED prod_x_evals
      /\ UNCHANGED <<fxs, gxs, forged, frac, alpha>>

\* prod(1, ..., 1) := 0, then both commitments.
PushLast ==
  /\ phase = "pushing"
  /\ Len(prod_x_evals) = 2^nv - 1
  /\ prod_x_evals' = Append(prod_x_evals, 0)
  /\ phase' = "committed"
  /\ UNCHANGED <<fxs, gxs, forged, frac, alpha, result>>

Forge ==
  /\ phase = "forge"
  /\ \E t \in Forgeries(fxs, gxs) :
       /\ frac' = t.frac
       /\ prod_x_evals' = [i \in 1 .. 2^nv |-> t.prod[i-1]]
  /\ forged' = TRUE
  /\ phase' = "committed"
  /\ UNCHANGED <<fxs, gxs, alpha, result>>

DrawAlpha ==
  /\ phase = "committed"
  /\ alpha' \in Alphas
  /\ phase' = "challenged"
  /\ UNCHANGED <<fxs, gxs, forged, frac, prod_x_evals, result>>

---------------------------------------------------------------------------
(* prove_zero_check: the polynomial Q on the hypercube, for any alpha.     *)

prod == [b \in Index(nv) |-> prod_x_evals[b+1]]
p1 == [b \in Index(nv) |-> LET idx == get_index(b, nv)
                           IN  IF idx.sign = 0 THEN frac[idx.x0] ELSE prod[idx.x0]]
p2 == [b \in Index(nv) |-> LET idx == get_index(b, nv)
                           IN  IF idx.sign = 0 THEN frac[idx.x1] ELSE prod[idx.x1]]

TreeError(b) == prod[b] -- (p1[b] ** p2[b])

\* Mutant: numerator and denominator the wrong way round.
FracErrorInverted(b) == (frac[b] ** At(fxs, b)) -- At(gxs, b)
FracError(b) == (frac[b] ** At(gxs, b)) -- At(fxs, b)

\* Mutant: the two claims are added up without a random weight.
QUnweighted(a, b) == TreeError(b) ++ FracError(b)
Q(a, b) == TreeError(b) ++ a ** FracError(b)

\* ProductCheckSubClaim.final_query: the point (0, 1, ..., 1), expected 1.
final_query == [i \in 1 .. nv |-> IF i = 1 THEN 0 ELSE 1]

\* verify, and the opening of prod that its caller does.
Verify ==
  /\ phase = "challenged"
  /\ result' = IF /\ \A b \in Index(nv) : Q(alpha, b) = 0
                  /\ Extension(prod, final_query) = 1
               THEN "accept" ELSE "reject"
  /\ phase' = "done"
  /\ UNCHANGED <<fxs, gxs, forged, frac, prod_x_evals, alpha>>

Next ==
  \/ Refuse
  \/ compute_frac_poly
  \/ PushProduct
  \/ PushLast
  \/ Forge
  \/ DrawAlpha
  \/ Verify

Spec == Init /\ [][Next]_vars

\* A dishonest prover meets a verifier whose caller holds two lists of one
\* shape.
ForgeInit == ProductInit /\ Shapely /\ phase = "forge"
ForgeSpec == ForgeInit /\ [][Next]_vars
---------------------------------------------------------------------------
\* The leaves, positions of frac, below position x of prod.
Leaves ==
  LET leaves[x \in 0 .. 2^nv - 2] ==
        IF x < 2^(nv-1) THEN {2*x, 2*x + 1}
        ELSE leaves[2*x - 2^nv] \cup leaves[2*x + 1 - 2^nv]
  IN  leaves

\* The flat array is a product tree at every moment of the loop: each value
\* pushed is the product of frac over a block of leaves, nothing is read
\* before it is pushed, and the position the verifier queries covers every
\* leaf.
ProductTree ==
  /\ result # "ShouldNotArrive"
  /\ phase = "pushing" =>
       /\ \A x \in 0 .. Len(prod_x_evals) - 1 :
            prod_x_evals[x+1] = FProd([l \in Leaves[x] |-> frac[l]])
       /\ Leaves[project(final_query)] = Index(nv)

\* What an honest prover commits to is accepted exactly when the products
\* are equal, for every alpha.
HonestVerdict ==
  (phase = "done" /\ ~ forged /\ prod_x_evals # <<>>) =>
    (result = "accept" <=> Total(fxs) = Total(gxs))

\* Whatever was committed, unequal products are accepted only when alpha
\* cancels a wrong frac against a wrong tree, and each point of the
\* hypercube offers it at most one such alpha.
Cancels(a, b) == FracError(b) # 0 /\ Q(a, b) = 0
UnequalNeedsLuck ==
  (result = "accept" /\ Total(fxs) # Total(gxs)) =>
    /\ \E b \in Index(nv) : Cancels(alpha, b)
    /\ \A b \in Index(nv) : Cardinality({a \in Field : Cancels(a, b)}) <= 1
=============================================================================
