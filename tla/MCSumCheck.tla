----------------------------- MODULE MCSumCheck -----------------------------
(* Small instances of SumCheck.                                            *)
EXTENDS SumCheck

Tab(seq) == [b \in 0 .. Len(seq) - 1 |-> FromInt(seq[b+1])]
Term(c, factors) == [coefficient |-> FromInt(c), factors |-> factors]
Poly(n, d, products, mles) ==
  [aux_info |-> [num_variables |-> n, max_degree |-> d],
   products |-> products, mles |-> mles]

\* Two variables, degree 2; the second product is extrapolated, and the two
\* share a table.
Quadratic ==
  Poly(2, 2, <<Term(3, <<1, 2>>), Term(2, <<2>>)>>,
       <<Tab(<<1, 4, 2, 0>>), Tab(<<2, 3, 1, 1>>)>>)
\* One variable, a table used twice in a product.
Square == Poly(1, 2, <<Term(1, <<1, 1>>), Term(4, <<2>>)>>,
               <<Tab(<<3, 1>>), Tab(<<0, 2>>)>>)
\* The same shape; the verifier may hold another aux info.
Twisted == Poly(1, 2, <<Term(2, <<1, 1>>), Term(1, <<2>>)>>,
                <<Tab(<<2, 4>>), Tab(<<1, 3>>)>>)
\* One variable, degree 3, with a linear term to extrapolate twice.
Cubic == Poly(1, 3, <<Term(2, <<1, 2, 1>>), Term(1, <<2>>)>>,
              <<Tab(<<3, 1>>), Tab(<<1, 4>>)>>)
\* One multilinear table.
Linear == Poly(2, 1, <<Term(1, <<1>>)>>, <<Tab(<<1, 0, 3, 2>>)>>)
\* VirtualPolynomial::new(n) before any product is added, and a constant.
Empty == Poly(1, 0, <<>>, <<>>)
Constant == Poly(0, 1, <<Term(1, <<1>>)>>, <<Tab(<<2>>)>>)

Functions(d) == [0 .. d -> Field]

AllMessages == UNION {Functions(d) : d \in 0 .. 3}

Zeros(d) == [t \in 0 .. d |-> 0]
\* Every message of the right length, or for Twisted one of them, and one too
\* short and one too long.
Forged(p) ==
  LET d == p.aux_info.max_degree
  IN  {Zeros(d-1), Zeros(d), Zeros(d+1)}
        \cup IF p = Twisted THEN {} ELSE Functions(d)

\* One value changed, by 1 or by 2, or a zero appended.
OneChanged(m, w) ==
  \/ /\ DOMAIN m = DOMAIN w
     /\ Cardinality({t \in DOMAIN m : m[t] # w[t]}) <= 1
     /\ \A t \in DOMAIN m : w[t] -- m[t] \in 0 .. 2
  \/ /\ Cardinality(DOMAIN w) = Cardinality(DOMAIN m) + 1
     /\ \A t \in DOMAIN w : w[t] = IF t \in DOMAIN m THEN m[t] ELSE 0

\* Its own aux info, or any that agrees with it in one of the two fields.
Aux(p) ==
  IF p \notin {Twisted, Empty, Constant} THEN {p.aux_info}
  ELSE {a \in [num_variables : 0 .. 2, max_degree : 0 .. 2] :
          \/ a.num_variables = p.aux_info.num_variables
          \/ a.max_degree = p.aux_info.max_degree}

Sum(p) == PartialSum(p, <<>>)
TrueOrNot(p) == {Sum(p)} \cup IF p = Twisted THEN {} ELSE {Sum(p) ++ 1}

\* Linear is only ever claimed by someone without a proof, Square also.
BothPhases(p) ==
  CASE p = Linear -> {"forge"}
    [] p = Square -> {"prove", "forge"}
    [] OTHER -> {"prove"}

Provable == {Quadratic, Linear, Square, Twisted, Cubic, Empty, Constant}
=============================================================================
