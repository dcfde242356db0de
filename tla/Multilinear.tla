---------------------------- MODULE Multilinear ----------------------------
(***************************************************************************)
(* Multilinear extensions as the arithmetic crate computes with them       *)
(* (arithmetic/src/multilinear_polynomial.rs, util.rs and the eq helpers   *)
(* of virtual_polynomial.rs), beside the reference definitions they are    *)
(* compared with.                                                          *)
(*                                                                         *)
(* A table with n variables is a function from 0 .. 2^n - 1 to the field;  *)
(* bit i of an index (little endian) is the value of variable i.  A point  *)
(* is a sequence of field elements, point[1] for variable 0.               *)
(***************************************************************************)
EXTENDS PrimeField, Sequences

CONSTANT Parallel   \* cargo feature "parallel" of the arithmetic crate

Index(n) == 0 .. 2^n - 1
Table(n) == [Index(n) -> Field]
Point(n) == [1 .. n -> Field]

---------------------------------------------------------------------------
(* Reference definitions, not taken from the code.                         *)

Bit(b, i) == (b \div 2^i) % 2

\* The value at x of the Lagrange basis polynomial of index b.
Basis(b, x) ==
  FProd([i \in DOMAIN x |-> IF Bit(b, i-1) = 1 THEN x[i] ELSE 1 -- x[i]])

\* The only multilinear polynomial that agrees with table f, at point x.
Extension(f, x) == FSum([b \in DOMAIN f |-> f[b] ** Basis(b, x)])

---------------------------------------------------------------------------
(* util.rs                                                                 *)

bit_decompose(b, n) == [i \in 1 .. n |-> (b \div 2^(i-1)) % 2]

project(bits) == SumFunction([i \in DOMAIN bits |-> bits[i] * 2^(i-1)])

\* Mutant: the new bit is shifted in at the top.
get_index_top(b, n) ==
  LET low == SubSeq(bit_decompose(b, n), 1, n-1)
  IN  [x0 |-> project(low \o <<0>>), x1 |-> project(low \o <<1>>),
       sign |-> bit_decompose(b, n)[n]]

\* x0 and x1 drop the top bit of b and shift in 0, 1 below; sign is the top.
get_index(b, n) ==
  LET low == SubSeq(bit_decompose(b, n), 1, n-1)
  IN  [x0 |-> project(<<0>> \o low), x1 |-> project(<<1>> \o low),
       sign |-> bit_decompose(b, n)[n]]

\* Mutant: the selector bits in front of the point.
gen_eval_point_front(index, len, point) == bit_decompose(index, len) \o point

gen_eval_point(index, len, point) == point \o bit_decompose(index, len)

\* ceil(log2 k), ark_std::log2.
log2(k) == CHOOSE n \in 0 .. k : 2^n >= k /\ \A m \in 0 .. n-1 : 2^m < k

get_batched_nv(n, k) == n + log2(k)

---------------------------------------------------------------------------
(* multilinear_polynomial.rs                                               *)

\* The two bodies differ in their first term: data[i << 1] with the feature
\* "parallel" and data[i] without it.
fix_one_variable_helper(data, n, r) ==
  [i \in Index(n-1) |->
     (IF Parallel THEN data[2*i] ELSE data[i])
       ++ (data[2*i + 1] -- data[2*i]) ** r]

\* In place: slot b is overwritten before slots 2b', b' > b, are read.
fix_one_variable_no_par(data, n, r) ==
  LET poly[b \in -1 .. 2^(n-1) - 1] ==
        IF b = -1 THEN data
        ELSE LET p == poly[b-1]
             IN  [p EXCEPT ![b] = p[2*b] ++ (p[2*b + 1] -- p[2*b]) ** r]
  IN  [b \in Index(n-1) |-> poly[2^(n-1) - 1][b]]

fix_last_variable_helper(data, n, r) ==
  [i \in Index(n-1) |->
     data[i] ++ (data[i + 2^(n-1)] -- data[i]) ** r]

\* Both loops over a partial point: the first variables in order, the last
\* ones from the end.
fix_variables(f, n, point) ==
  LET poly[i \in 0 .. Len(point)] ==
        IF i = 0 THEN f
        ELSE fix_one_variable_helper(poly[i-1], n - (i-1), point[i])
  IN  poly[Len(point)]

fix_variables_no_par(f, n, point) ==
  LET poly[i \in 0 .. Len(point)] ==
        IF i = 0 THEN f
        ELSE fix_one_variable_no_par(poly[i-1], n - (i-1), point[i])
  IN  poly[Len(point)]

fix_last_variables(f, n, point) ==
  LET poly[i \in 0 .. Len(point)] ==
        IF i = 0 THEN f
        ELSE fix_last_variable_helper(poly[i-1], n - (i-1),
                                      point[Len(point) - (i-1)])
  IN  poly[Len(point)]

evaluate_opt(f, point) == fix_variables(f, Len(point), point)[0]
evaluate_no_par(f, point) == fix_variables_no_par(f, Len(point), point)[0]

\* Tables of one size laid end to end and padded with zeros.
merge_polynomials(tables, n) ==
  [b \in Index(get_batched_nv(n, Len(tables))) |->
     IF b < Len(tables) * 2^n THEN tables[(b \div 2^n) + 1][b % 2^n] ELSE 0]

identity_permutation_mles(n, chunks) ==
  [c \in 1 .. chunks |-> [b \in Index(n) |-> FromInt((c-1) * 2^n + b)]]

---------------------------------------------------------------------------
(* virtual_polynomial.rs                                                   *)

eq_eval(x, y) ==
  FProd([i \in DOMAIN x |->
           (x[i] ** y[i]) ++ (x[i] ** y[i]) -- x[i] -- y[i] ++ 1])

\* Mutant: built from the first coordinate to the last.
build_eq_x_r_vec_forward(r) ==
  [b \in Index(Len(r)) |-> Basis(b, [k \in DOMAIN r |-> r[Len(r) + 1 - k]])]

\* Built from the last coordinate of r to the first, doubling the buffer;
\* Err on an empty r.
build_eq_x_r_vec(r) ==
  LET buf[k \in 1 .. Len(r)] ==     \* buffer for the last k coordinates
        IF k = 1 THEN [b \in Index(1) |-> IF b = 0 THEN 1 -- r[Len(r)] ELSE r[Len(r)]]
        ELSE LET r0 == r[Len(r) - k + 1]
             IN  [b \in Index(k) |->
                    LET bi == buf[k-1][b \div 2]
                    IN  IF b % 2 = 0 THEN bi -- (r0 ** bi) ELSE r0 ** bi]
  IN  buf[Len(r)]
=============================================================================
