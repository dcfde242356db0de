-------------------------- MODULE PartialEvaluation --------------------------
(***************************************************************************)
(* The three loops of multilinear_polynomial.rs that bind a multilinear    *)
(* polynomial to a partial point, one action per iteration:                *)
(* fix_variables (first variables, in order), fix_variables_no_par (the    *)
(* same, overwriting its own buffer) and fix_last_variables (last          *)
(* variables, from the end).  The step of each loop is the helper of       *)
(* module Multilinear; the buffer between two iterations is what the       *)
(* SumCheck prover keeps between two rounds.                               *)
(***************************************************************************)
EXTENDS Multilinear

CONSTANTS
  Sizes,        \* numbers of variables tried
  Tables(_)     \* the tables tried for each number of variables

ASSUME TablesAssumption ==
  Sizes \subseteq Nat \ {0} /\ \A k \in Sizes : Tables(k) \subseteq Table(k)

Loops == {"fix_variables", "fix_variables_no_par", "fix_last_variables"}

VARIABLES
  loop,         \* which of the three functions runs
  n,            \* poly.num_vars on entry
  f,            \* poly.evaluations on entry
  point,        \* partial_point; Len(point) <= n is asserted by the code
  i,            \* iterations done
  poly          \* the buffer

vars == <<loop, n, f, point, i, poly>>

Init ==
  /\ loop \in Loops
  /\ n \in Sizes
  /\ f \in Tables(n)
  /\ point \in UNION {Point(k) : k \in 0 .. n}
  /\ i = 0
  /\ poly = f

FixFirst ==
  /\ loop = "fix_variables"
  /\ i < Len(point)
  /\ poly' = fix_one_variable_helper(poly, n - i, point[i+1])
  /\ i' = i + 1
  /\ UNCHANGED <<loop, n, f, point>>

FixFirstInPlace ==
  /\ loop = "fix_variables_no_par"
  /\ i < Len(point)
  /\ poly' = fix_one_variable_no_par(poly, n - i, point[i+1])
  /\ i' = i + 1
  /\ UNCHANGED <<loop, n, f, point>>

\* Mutant: the coordinates in order, the variables from the end.
FixLastForward ==
  /\ loop = "fix_last_variables"
  /\ i < Len(point)
  /\ poly' = fix_last_variable_helper(poly, n - i, point[i+1])
  /\ i' = i + 1
  /\ UNCHANGED <<loop, n, f, point>>

FixLast ==
  /\ loop = "fix_last_variables"
  /\ i < Len(point)
  /\ poly' = fix_last_variable_helper(poly, n - i, point[Len(point) - i])
  /\ i' = i + 1
  /\ UNCHANGED <<loop, n, f, point>>

Next == FixFirst \/ FixFirstInPlace \/ FixLast

Spec == Init /\ [][Next]_vars

---------------------------------------------------------------------------
\* The coordinates bound so far, on their side of the free ones.
Bound(rest) ==
  IF loop = "fix_last_variables"
  THEN rest \o SubSeq(point, Len(point) - i + 1, Len(point))
  ELSE SubSeq(point, 1, i) \o rest

\* Between any two iterations the buffer is a table of the variables still
\* free, and it is the input polynomial with the coordinates consumed so far
\* bound to their variables, and nothing else: whatever the remaining point
\* is, extending the buffer there equals extending the input at the whole
\* point.  For the in-place loop this says that no slot is overwritten before
\* it is last read; for the backward one that coordinate and variable stay
\* paired when the point is partial.
BufferIsRestriction ==
  /\ i \in 0 .. Len(point) /\ poly \in Table(n - i)
  /\ \A rest \in Point(n - i) : Extension(poly, rest) = Extension(f, Bound(rest))

\* merge_polynomials and gen_eval_point agree with the order in which
\* variables are bound: the table merged from f and its input neighbours,
\* evaluated at the point generated for an index, is the polynomial at that
\* index (zero for a padding slot), and binding only the last variables to
\* that index gives its table back.
MergedAt(tables, idx) ==
  IF idx < Len(tables) THEN tables[idx+1] ELSE [b \in Index(n) |-> 0]

SelectionByIndex ==
  (loop = "fix_variables" /\ i = n) =>
    \A k \in 1 .. 3 :
      LET ones   == [b \in Index(n) |-> 1]
          tables == SubSeq(<<f, ones, [b \in Index(n) |-> f[b] ** 2]>>, 1, k)
          len    == log2(k)
          merged == merge_polynomials(tables, n)
      IN  \A idx \in 0 .. 2^len - 1 :
            /\ Extension(merged, gen_eval_point(idx, len, point))
                 = Extension(MergedAt(tables, idx), point)
            /\ fix_last_variables(merged, n + len, bit_decompose(idx, len))
                 = MergedAt(tables, idx)

\* The eq table that ZeroCheck multiplies in (build_eq_x_r_vec, grown from
\* the last coordinate) and the closed form the verifier divides by
\* (eq_eval) are the same polynomial: the table is the Lagrange basis at
\* the point, and extending it to any other point gives eq_eval.
EqTableIsEqPolynomial ==
  (loop = "fix_variables" /\ i = n) =>
    LET eq == build_eq_x_r_vec(point)
    IN  /\ eq = [b \in Index(n) |-> Basis(b, point)]
        /\ \A x \in Point(n) : Extension(eq, x) = eq_eval(x, point)
=============================================================================
