----------------------- MODULE PartialEvaluationProofs -----------------------
(***************************************************************************)
(* Proofs about PartialEvaluation: for a field and tables of any size, in  *)
(* a build with the cargo feature "parallel", binding variables one at a   *)
(* time, from the front, in place or from the back, restricts the          *)
(* polynomial and nothing else.  In any build the eq table is the Lagrange *)
(* basis, and a table merged from others gives each of them back at its    *)
(* index.                                                                  *)
(***************************************************************************)
EXTENDS PartialEvaluation, FieldLemmas

---------------------------------------------------------------------------
(* The helpers.                                                            *)

LEMMA HelperTypes ==
  ASSUME NEW m \in Nat, NEW data \in Table(m+1), NEW r \in Field
  PROVE  /\ Parallel => fix_one_variable_helper(data, m+1, r) \in Table(m)
         /\ fix_last_variable_helper(data, m+1, r) \in Table(m)
<1>1. (m+1) - 1 = m
  OBVIOUS
<1>2. ASSUME NEW b \in Index(m)
      PROVE  /\ data[2*b] ++ ((data[2*b + 1] -- data[2*b]) ** r) \in Field
             /\ data[b] ++ ((data[b + 2^m] -- data[b]) ** r) \in Field
  <2>1. /\ 2*b \in Index(m+1) /\ 2*b + 1 \in Index(m+1)
        /\ b \in Index(m+1) /\ b + 2^m \in Index(m+1)
    BY IndexFacts
  <2>2. /\ data[2*b] \in Int /\ data[2*b + 1] \in Int
        /\ data[b] \in Int /\ data[b + 2^m] \in Int /\ r \in Int
    BY <2>1, FieldClosed DEF Table
  <2>3. /\ (data[2*b + 1] -- data[2*b]) ** r \in Int
        /\ (data[b + 2^m] -- data[b]) ** r \in Int
    BY <2>2, FieldClosed
  <2> QED BY <2>2, <2>3, FieldClosed
<1>3. Parallel => fix_one_variable_helper(data, m+1, r)
                    = [b \in Index(m) |-> data[2*b] ++ ((data[2*b + 1] -- data[2*b]) ** r)]
  BY <1>1 DEF fix_one_variable_helper
<1>4. fix_last_variable_helper(data, m+1, r)
        = [b \in Index(m) |-> data[b] ++ ((data[b + 2^m] -- data[b]) ** r)]
  BY <1>1 DEF fix_last_variable_helper
<1> QED BY <1>2, <1>3, <1>4 DEF Table

\* The buffer of fix_one_variable_no_par after each of its iterations.
Overwriting(g, data, k, r) ==
  g = [b \in -1 .. k |->
         IF b = -1 THEN data
         ELSE LET p == g[b-1]
              IN  [p EXCEPT ![b] = p[2*b] ++ (p[2*b + 1] -- p[2*b]) ** r]]

LEMMA OverwritingExists ==
  ASSUME NEW data, NEW k \in Nat, NEW r
  PROVE  \E g : Overwriting(g, data, k, r)
<1> DEFINE S == {m \in Nat : \E g : Overwriting(g, data, m - 1, r)}
           step(p, b) == [p EXCEPT ![b] = p[2*b] ++ (p[2*b + 1] -- p[2*b]) ** r]
<1>1. 0 \in S
  <2>1. Overwriting([b \in -1 .. 0 - 1 |-> data], data, 0 - 1, r)
    BY DEF Overwriting
  <2> QED BY <2>1
<1>2. ASSUME NEW m \in Nat, m \in S
      PROVE  m + 1 \in S
  <2>1. PICK g : Overwriting(g, data, m - 1, r)
    BY <1>2
  <2> DEFINE h == [b \in -1 .. m |-> IF b = m THEN step(g[m-1], m) ELSE g[b]]
  <2>2. ASSUME NEW b \in -1 .. m
        PROVE  h[b] = IF b = -1 THEN data ELSE step(h[b-1], b)
    <3> HIDE DEF step
    <3>1. CASE b = m
      <4>1. m - 1 \in -1 .. m /\ m - 1 # m /\ m # -1
        OBVIOUS
      <4>2. h[m] = step(g[m-1], m) /\ h[m-1] = g[m-1]
        BY <4>1
      <4> QED BY <3>1, <4>1, <4>2
    <3>2. CASE b \in 0 .. m - 1
      <4>1. b - 1 \in -1 .. m /\ b - 1 # m /\ b # m /\ b # -1 /\ b \in -1 .. m - 1
        BY <3>2
      <4>2. h[b-1] = g[b-1] /\ h[b] = g[b]
        BY <4>1
      <4>3. g[b] = step(g[b-1], b)
        BY <2>1, <4>1 DEF Overwriting, step
      <4> QED BY <4>1, <4>2, <4>3
    <3>3. CASE b = -1
      <4>1. h[-1] = g[-1] /\ -1 \in -1 .. m - 1
        OBVIOUS
      <4>2. g[-1] = data
        BY <2>1, <4>1 DEF Overwriting
      <4> QED BY <3>3, <4>1, <4>2
    <3> QED BY <3>1, <3>2, <3>3
  <2>3. h = [b \in -1 .. m |-> h[b]]
    OBVIOUS
  <2> HIDE DEF h
  <2>4. Overwriting(h, data, m, r)
    BY <2>2, <2>3 DEF Overwriting
  <2>5. (m + 1) - 1 = m /\ m + 1 \in Nat
    OBVIOUS
  <2> QED BY <2>4, <2>5
<1>3. k + 1 \in S
  <2> HIDE DEF S
  <2> QED BY <1>1, <1>2, Add!NaturalInduction
<1>4. (k + 1) - 1 = k
  OBVIOUS
<1> QED BY <1>3, <1>4

\* Overwriting the table that is being read computes what the helper does
\* into a new one: slot b is written after its last use, since the slots
\* 2b' and 2b'+1 that a later b' reads lie beyond b.
LEMMA InPlaceIsHelper ==
  ASSUME NEW m \in Nat, NEW data \in Table(m+1), NEW r \in Field, Parallel
  PROVE  fix_one_variable_no_par(data, m+1, r) = fix_one_variable_helper(data, m+1, r)
<1> DEFINE new(b) == data[2*b] ++ ((data[2*b + 1] -- data[2*b]) ** r)
<1>1. PICK q \in Nat \ {0} : /\ q = 2^m /\ 2^((m+1) - 1) = q
                             /\ Index((m+1) - 1) = 0 .. q-1 /\ Index(m+1) = 0 .. 2*q - 1
  <2>1. (m+1) - 1 = m
    OBVIOUS
  <2> QED BY <2>1, IndexFacts
<1>2. PICK g : /\ Overwriting(g, data, q - 1, r)
               /\ fix_one_variable_no_par(data, m+1, r) = [b \in 0 .. q-1 |-> g[q-1][b]]
  <2> DEFINE g == CHOOSE g : Overwriting(g, data, q - 1, r)
  <2>1. Overwriting(g, data, q - 1, r)
    <3>1. q - 1 \in Nat
      OBVIOUS
    <3> QED BY <3>1, OverwritingExists
  <2>2. fix_one_variable_no_par(data, m+1, r) = [b \in 0 .. q-1 |-> g[q-1][b]]
    <3> DEFINE e == 2^((m+1) - 1)
    <3>1. fix_one_variable_no_par(data, m+1, r)
            = [b \in Index((m+1) - 1) |->
                 (CHOOSE h : Overwriting(h, data, e - 1, r))[e - 1][b]]
      BY DEF fix_one_variable_no_par, Overwriting
    <3>2. e = q /\ Index((m+1) - 1) = 0 .. q-1
      BY <1>1
    <3> HIDE DEF e
    <3> QED BY <3>1, <3>2
  <2> HIDE DEF g
  <2> QED BY <2>1, <2>2
<1> DEFINE Done(p, k) ==
             /\ DOMAIN p = 0 .. 2*q - 1
             /\ \A j \in 0 .. 2*q - 1 : p[j] = IF j < k THEN new(j) ELSE data[j]
           S == {k \in Nat : k <= q => Done(g[k-1], k)}
<1> HIDE DEF new
<1>3. 0 \in S
  <2>1. g[0-1] = data
    <3>1. -1 \in -1 .. q-1 /\ 0-1 = -1
      OBVIOUS
    <3> QED BY <1>2, <3>1 DEF Overwriting
  <2>2. DOMAIN data = 0 .. 2*q - 1
    BY <1>1 DEF Table
  <2> QED BY <2>1, <2>2
<1>4. ASSUME NEW k \in Nat, k \in S
      PROVE  k + 1 \in S
  <2> SUFFICES ASSUME k + 1 <= q PROVE Done(g[(k+1) - 1], k+1)
    OBVIOUS
  <2>1. Done(g[k-1], k)
    BY <1>4
  <2> DEFINE p == g[k-1]
  <2>2. g[k] = [p EXCEPT ![k] = p[2*k] ++ (p[2*k + 1] -- p[2*k]) ** r]
    <3>1. k \in -1 .. q-1 /\ k # -1
      OBVIOUS
    <3> QED BY <1>2, <3>1 DEF Overwriting
  <2>3. p[2*k] = data[2*k] /\ p[2*k + 1] = data[2*k + 1]
    <3>1. 2*k \in 0 .. 2*q - 1 /\ 2*k + 1 \in 0 .. 2*q - 1 /\ ~ (2*k < k) /\ ~ (2*k + 1 < k)
      OBVIOUS
    <3> QED BY <2>1, <3>1
  <2>4. g[k] = [p EXCEPT ![k] = new(k)]
    BY <2>2, <2>3 DEF new
  <2> HIDE DEF p
  <2>5. DOMAIN p = 0 .. 2*q - 1 /\ \A j \in 0 .. 2*q - 1 : p[j] = IF j < k THEN new(j) ELSE data[j]
    BY <2>1 DEF p
  <2>6. ASSUME NEW j \in 0 .. 2*q - 1
        PROVE  g[k][j] = IF j < k + 1 THEN new(j) ELSE data[j]
    <3>1. CASE j = k
      BY <2>4, <2>5, <3>1
    <3>2. CASE j # k
      <4>1. g[k][j] = p[j] /\ (j < k + 1 <=> j < k)
        BY <2>4, <2>5, <3>2
      <4> QED BY <2>5, <4>1
    <3> QED BY <3>1, <3>2
  <2>7. DOMAIN g[k] = 0 .. 2*q - 1 /\ (k+1) - 1 = k
    BY <2>4, <2>5
  <2> QED BY <2>6, <2>7
<1>5. q \in S
  <2> HIDE DEF S
  <2> QED BY <1>3, <1>4, Add!NaturalInduction
<1>6. \A b \in 0 .. q-1 : g[q-1][b] = new(b)
  <2>1. \A b \in 0 .. q-1 : b \in 0 .. 2*q - 1 /\ b < q
    OBVIOUS
  <2> QED BY <1>5, <2>1
<1>7. fix_one_variable_helper(data, m+1, r) = [b \in 0 .. q-1 |-> new(b)]
  BY <1>1 DEF fix_one_variable_helper, new
<1> QED BY <1>2, <1>6, <1>7

---------------------------------------------------------------------------
(* The loops.                                                              *)

\* What is left to bind shrinks by one variable in every iteration.
InputsTyped ==
  /\ loop \in Loops
  /\ n \in Nat \ {0}
  /\ f \in Table(n)
  /\ point \in Seq(Field) /\ Len(point) <= n

RestrictionInv == InputsTyped /\ BufferIsRestriction

LEMMA RestrictionInit == Init => RestrictionInv
<1> SUFFICES ASSUME Init PROVE RestrictionInv
  OBVIOUS
<1>1. n \in Nat \ {0} /\ f \in Table(n) /\ loop \in Loops
  BY TablesAssumption DEF Init
<1>2. PICK k \in 0 .. n : point \in Point(k)
  BY DEF Init
<1>3. point \in Seq(Field) /\ Len(point) = k /\ k \in Nat
  BY <1>2, PointIsSeq
<1>4. i = 0 /\ poly = f /\ n - i = n
  BY <1>1 DEF Init
<1>5. ASSUME NEW rest \in Point(n)
      PROVE  Bound(rest) = rest
  <2>1. rest \in Seq(Field)
    BY <1>1, PointIsSeq
  <2>2. SubSeq(point, 1, i) = <<>>
    BY <1>4, SubSeqEmpty
  <2>3. SubSeq(point, Len(point) - i + 1, Len(point)) = <<>>
    <3>1. Len(point) - i + 1 \in Int /\ Len(point) \in Int
            /\ Len(point) < Len(point) - i + 1
      BY <1>3, <1>4
    <3> QED BY <3>1, SubSeqEmpty
  <2>4. rest \o <<>> = rest /\ <<>> \o rest = rest
    BY <2>1, ConcatEmptySeq
  <2> QED BY <2>2, <2>3, <2>4 DEF Bound
<1>6. i \in 0 .. Len(point)
  BY <1>3, <1>4
<1> QED BY <1>1, <1>3, <1>4, <1>5, <1>6 DEF RestrictionInv, InputsTyped, BufferIsRestriction

\* One iteration from the front: the buffer g, with the next coordinate
\* bound to its first variable.
LEMMA BindFirst ==
  ASSUME RestrictionInv, Parallel, loop # "fix_last_variables", i < Len(point),
         poly' = fix_one_variable_helper(poly, n - i, point[i+1]),
         i' = i + 1, UNCHANGED <<loop, n, f, point>>
  PROVE  RestrictionInv'
<1>1. PICK m \in Nat, r \in Field :
        m = n - (i+1) /\ n - i = m + 1 /\ r = point[i+1] /\ i \in Nat
  <2>1. /\ n \in Nat /\ Len(point) \in Nat /\ Len(point) <= n /\ i \in 0 .. Len(point)
        /\ point \in Seq(Field)
    BY LenProperties DEF RestrictionInv, InputsTyped, BufferIsRestriction
  <2>2. n - (i+1) \in Nat /\ n - i = n - (i+1) + 1 /\ i+1 \in 1 .. Len(point)
    BY <2>1
  <2>3. point[i+1] \in Field
    BY <2>1, <2>2, ElementOfSeq
  <2> QED BY <2>1, <2>2, <2>3
<1>2. poly \in Table(m+1)
        /\ \A rest \in Point(m+1) : Extension(poly, rest) = Extension(f, Bound(rest))
  BY <1>1 DEF RestrictionInv, BufferIsRestriction
<1> DEFINE g == poly'
<1>3. g = fix_one_variable_helper(poly, m+1, r)
  BY <1>1
<1>4. g = [b \in Index(m) |-> poly[2*b] ++ ((poly[2*b + 1] -- poly[2*b]) ** r)]
  BY <1>1, <1>3 DEF fix_one_variable_helper
<1>5. g \in Table(m)
  BY <1>2, <1>3, HelperTypes
<1>6. ASSUME NEW rest \in Point(m)
      PROVE  Extension(g, rest) = Extension(f, Bound(rest)')
  <2>1. /\ rest \in Seq(Field) /\ <<r>> \o rest \in Point(m+1)
    BY PointFacts
  <2>2. Extension(g, rest) = Extension(poly, <<r>> \o rest)
    <3>1. /\ DOMAIN g = Index(m)
          /\ \A b \in Index(m) : g[b] = poly[2*b] ++ ((poly[2*b + 1] -- poly[2*b]) ** r)
      BY <1>4
    <3> HIDE DEF g
    <3> QED BY <1>2, <3>1, ExtensionFirst
  <2>3. Extension(poly, <<r>> \o rest) = Extension(f, Bound(<<r>> \o rest))
    BY <1>2, <2>1
  <2>4. Bound(<<r>> \o rest) = SubSeq(point, 1, i) \o (<<r>> \o rest)
    BY DEF Bound
  <2>5. Bound(rest)' = SubSeq(point, 1, i+1) \o rest
    BY DEF Bound
  <2>6. SubSeq(point, 1, i+1) \o rest = SubSeq(point, 1, i) \o (<<r>> \o rest)
    <3>1. point \in Seq(Field)
      BY DEF RestrictionInv, InputsTyped
    <3> QED BY <1>1, <2>1, <3>1, ShiftFront, SMTT(20)
  <2> QED BY <2>2, <2>3, <2>4, <2>5, <2>6
<1>7. i + 1 \in 0 .. Len(point)
  BY <1>1, LenProperties DEF RestrictionInv, InputsTyped
<1> QED
  BY <1>1, <1>5, <1>6, <1>7 DEF RestrictionInv, InputsTyped, BufferIsRestriction

\* And one from the back.
LEMMA BindLast ==
  ASSUME RestrictionInv, FixLast
  PROVE  RestrictionInv'
<1>1. PICK m \in Nat, r \in Field :
        m = n - (i+1) /\ n - i = m + 1 /\ r = point[Len(point) - i] /\ i \in Nat
  <2>1. /\ n \in Nat /\ Len(point) \in Nat /\ Len(point) <= n /\ i \in 0 .. Len(point)
        /\ point \in Seq(Field)
    BY LenProperties DEF RestrictionInv, InputsTyped, BufferIsRestriction
  <2>2. n - (i+1) \in Nat /\ n - i = n - (i+1) + 1 /\ Len(point) - i \in 1 .. Len(point)
    BY <2>1 DEF FixLast
  <2>3. point[Len(point) - i] \in Field
    BY <2>1, <2>2, ElementOfSeq
  <2> QED BY <2>1, <2>2, <2>3
<1>2. poly \in Table(m+1)
        /\ \A rest \in Point(m+1) : Extension(poly, rest) = Extension(f, Bound(rest))
  BY <1>1 DEF RestrictionInv, BufferIsRestriction
<1> DEFINE g == poly'
<1>3. g = fix_last_variable_helper(poly, m+1, r)
  BY <1>1 DEF FixLast
<1>4. g = [b \in Index(m) |-> poly[b] ++ ((poly[b + 2^m] -- poly[b]) ** r)]
  <2>1. (m+1) - 1 = m
    OBVIOUS
  <2> QED BY <1>3, <2>1 DEF fix_last_variable_helper
<1>5. g \in Table(m)
  BY <1>2, <1>3, HelperTypes
<1>6. ASSUME NEW rest \in Point(m)
      PROVE  Extension(g, rest) = Extension(f, Bound(rest)')
  <2>1. /\ rest \in Seq(Field) /\ rest \o <<r>> \in Point(m+1)
    BY PointFacts
  <2>2. Extension(g, rest) = Extension(poly, rest \o <<r>>)
    <3>1. /\ DOMAIN g = Index(m)
          /\ \A b \in Index(m) : g[b] = poly[b] ++ ((poly[b + 2^m] -- poly[b]) ** r)
      BY <1>4
    <3> HIDE DEF g
    <3> QED BY <1>2, <3>1, ExtensionLast
  <2>3. Extension(poly, rest \o <<r>>) = Extension(f, Bound(rest \o <<r>>))
    BY <1>2, <2>1
  <2>4. Bound(rest \o <<r>>)
          = (rest \o <<r>>) \o SubSeq(point, Len(point) - i + 1, Len(point))
    BY DEF Bound, FixLast
  <2>5. Bound(rest)' = rest \o SubSeq(point, Len(point) - i, Len(point))
    <3>1. Len(point) - (i+1) + 1 = Len(point) - i
      BY <1>1, LenProperties DEF RestrictionInv, InputsTyped
    <3>2. Bound(rest)' = rest \o SubSeq(point, Len(point) - (i+1) + 1, Len(point))
      BY DEF Bound, FixLast
    <3> QED BY <3>1, <3>2
  <2>6. rest \o SubSeq(point, Len(point) - i, Len(point))
          = (rest \o <<r>>) \o SubSeq(point, Len(point) - i + 1, Len(point))
    <3>1. point \in Seq(Field) /\ i < Len(point)
      BY DEF RestrictionInv, InputsTyped, FixLast
    <3> QED BY <1>1, <2>1, <3>1, ShiftBack
  <2> QED BY <2>2, <2>3, <2>4, <2>5, <2>6
<1>7. i + 1 \in 0 .. Len(point)
  BY <1>1, LenProperties DEF RestrictionInv, InputsTyped, FixLast
<1> QED
  BY <1>1, <1>5, <1>6, <1>7 DEF RestrictionInv, InputsTyped, BufferIsRestriction, FixLast

\* In a build with the feature "parallel", after any number of iterations of
\* any of the three loops over a table and a point of any size, the buffer
\* is the input polynomial with the consumed coordinates bound to their
\* variables and nothing else (PartialEvaluation, BufferIsRestriction).
THEOREM RestrictionAlways == Parallel => (Spec => []BufferIsRestriction)
<1> SUFFICES ASSUME Parallel PROVE Spec => []BufferIsRestriction
  OBVIOUS
<1>1. Init => RestrictionInv
  BY RestrictionInit
<1>2. RestrictionInv /\ [Next]_vars => RestrictionInv'
  <2> SUFFICES ASSUME RestrictionInv, [Next]_vars PROVE RestrictionInv'
    OBVIOUS
  <2>1. CASE FixFirst
    BY <2>1, BindFirst DEF FixFirst
  <2>2. CASE FixFirstInPlace
    <3>1. PICK m \in Nat : n - i = m + 1 /\ poly \in Table(m+1) /\ point[i+1] \in Field
      <4>1. /\ n \in Nat /\ Len(point) \in Nat /\ Len(point) <= n /\ i \in 0 .. Len(point)
            /\ point \in Seq(Field) /\ poly \in Table(n - i)
        BY LenProperties DEF RestrictionInv, InputsTyped, BufferIsRestriction
      <4>2. n - i - 1 \in Nat /\ n - i = n - i - 1 + 1 /\ i+1 \in 1 .. Len(point)
        BY <2>2, <4>1 DEF FixFirstInPlace
      <4>3. point[i+1] \in Field
        BY <4>1, <4>2, ElementOfSeq
      <4> QED BY <4>1, <4>2, <4>3
    <3>2. poly' = fix_one_variable_helper(poly, n - i, point[i+1])
      BY <2>2, <3>1, InPlaceIsHelper DEF FixFirstInPlace
    <3> QED BY <2>2, <3>2, BindFirst DEF FixFirstInPlace
  <2>3. CASE FixLast
    BY <2>3, BindLast
  <2>4. CASE UNCHANGED vars
    BY <2>4 DEF vars, RestrictionInv, InputsTyped, BufferIsRestriction, Bound
  <2> QED BY <2>1, <2>2, <2>3, <2>4 DEF Next
<1>3. RestrictionInv => BufferIsRestriction
  BY DEF RestrictionInv
<1> QED BY <1>1, <1>2, <1>3, PTL DEF Spec

\* How far a loop has come, in any build.
CountInv == InputsTyped /\ i \in 0 .. Len(point)

LEMMA CountAlways == Spec => []CountInv
<1>1. Init => CountInv
  BY RestrictionInit DEF RestrictionInv, BufferIsRestriction, CountInv
<1>2. CountInv /\ [Next]_vars => CountInv'
  <2> SUFFICES ASSUME CountInv, [Next]_vars PROVE CountInv'
    OBVIOUS
  <2>1. Len(point) \in Nat
    BY LenProperties DEF CountInv, InputsTyped
  <2>2. CASE Next
    <3>1. i < Len(point) /\ i' = i + 1 /\ UNCHANGED <<loop, n, f, point>>
      BY <2>2 DEF Next, FixFirst, FixFirstInPlace, FixLast
    <3> QED BY <2>1, <3>1 DEF CountInv, InputsTyped
  <2>3. CASE UNCHANGED vars
    BY <2>3 DEF vars, CountInv, InputsTyped
  <2> QED BY <2>2, <2>3
<1> QED BY <1>1, <1>2, PTL DEF Spec

\* The table of build_eq_x_r_vec, grown from the last coordinate, is the
\* Lagrange basis at the point, and the closed form the verifier divides by
\* is its extension, for points of any number of coordinates
\* (PartialEvaluation, EqTableIsEqPolynomial).
THEOREM EqTableAlways == Spec => []EqTableIsEqPolynomial
<1>1. CountInv => EqTableIsEqPolynomial
  <2> SUFFICES ASSUME CountInv, i = n
               PROVE  LET eq == build_eq_x_r_vec(point)
                      IN  /\ eq = [b \in Index(n) |-> Basis(b, point)]
                          /\ \A x \in Point(n) : Extension(eq, x) = eq_eval(x, point)
    BY DEF EqTableIsEqPolynomial
  <2>1. n \in Nat \ {0} /\ point \in Point(n)
    <3>1. point \in Seq(Field) /\ Len(point) = n /\ n \in Nat \ {0}
      BY LenProperties DEF CountInv, InputsTyped
    <3> QED BY <3>1 DEF Point
  <2>2. build_eq_x_r_vec(point) = EqTable(n, point)
    BY <2>1, BuildIsBasis
  <2>3. \A x \in Point(n) : Extension(EqTable(n, point), x) = eq_eval(x, point)
    BY <2>1, EqAgreesAlways DEF EqAgrees
  <2> QED BY <2>2, <2>3 DEF EqTable
<1> QED BY <1>1, CountAlways, PTL

---------------------------------------------------------------------------
(* Selecting a table from a merged one.                                    *)

\* The part of h whose upper bits are hi, over the m lower variables.
Slice(h, m, hi) == [b \in Index(m) |-> h[b + hi * 2^m]]

\* Quotient and remainder.
LEMMA Quotient ==
  ASSUME NEW a \in Nat, NEW q \in Nat \ {0}
  PROVE  \E d \in Nat, r \in 0 .. q-1 : a = q * d + r /\ d = a \div q /\ r = a % q
<1> DEFINE d == a \div q
           r == a % q
<1>1. d \in Int /\ r \in 0 .. q-1 /\ a = q * d + r
  OBVIOUS
<1> HIDE DEF d, r
<1>2. d \in Nat
  <2>1. SUFFICES ASSUME NEW k \in Nat, d = -1 - k PROVE FALSE
    <3>1. d < 0 => \E k \in Nat : d = -1 - k
      <4>1. d < 0 => -1 - d \in Nat /\ d = -1 - (-1 - d)
        BY <1>1
      <4> QED BY <4>1
    <3> QED BY <1>1, <3>1
  <2>2. PICK c \in Nat : c = q * k
    OBVIOUS
  <2>3. q * d = -q - c
    BY <2>1, <2>2
  <2> QED BY <1>1, <2>2, <2>3
<1>3. d = a \div q /\ r = a % q
  BY DEF d, r
<1> QED BY <1>1, <1>2, <1>3

\* Halving twice divides by the product.
LEMMA HalveAgain ==
  ASSUME NEW a \in Nat, NEW q \in Nat \ {0}
  PROVE  \E d \in Nat, c \in Nat, t \in {0, 1} :
           d = 2*c + t /\ d = a \div q /\ c = a \div (2*q) /\ t = (a \div q) % 2
<1>1. PICK d \in Nat, r \in 0 .. q-1 : a = q * d + r /\ a \div q = d
  BY Quotient
<1>2. PICK e \in Nat, s \in {0, 1} : d = 2*e + s /\ d % 2 = s
  <2>1. PICK e \in Nat, s \in 0 .. 2-1 : d = 2*e + s /\ s = d % 2
    BY Quotient
  <2> QED BY <2>1
<1>3. PICK c \in Nat \ {0}, u \in Nat : c = 2*q /\ u = q*s + r /\ u < c
  <2>1. s = 0 => q*s = 0
    OBVIOUS
  <2>2. s = 1 => q*s = q
    OBVIOUS
  <2>3. 2*q \in Nat \ {0} /\ (s = 0 \/ s = 1) /\ r \in Nat /\ r < q
    OBVIOUS
  <2> QED BY <2>1, <2>2, <2>3
<1>4. a = c * e + u
  <2>1. q * (2*e + s) = (2*q) * e + q*s
    OBVIOUS
  <2> QED BY <1>1, <1>2, <1>3, <2>1
<1>5. a \div c = e
  BY <1>3, <1>4
<1>6. a \div (2*q) = e
  BY <1>3, <1>5
<1>7. (a \div q) % 2 = s
  BY <1>1, <1>2
<1> QED BY <1>1, <1>2, <1>6, <1>7

\* Binding the top variable of a part to a bit halves it.
LEMMA SliceStep ==
  ASSUME NEW m \in Nat, NEW h, NEW hi \in Nat, NEW t \in {0, 1},
         Slice(h, m + 1, hi) \in Table(m + 1)
  PROVE  /\ Slice(h, m, 2*hi + t) \in Table(m)
         /\ fix_last_variable_helper(Slice(h, m + 1, hi), m + 1, t) = Slice(h, m, 2*hi + t)
         /\ \A rest \in Point(m) :
              Extension(Slice(h, m, 2*hi + t), rest)
                = Extension(Slice(h, m + 1, hi), rest \o <<t>>)
<1>1. PICK D, g, q : D = Slice(h, m + 1, hi) /\ g = Slice(h, m, 2*hi + t) /\ q = 2^m
  OBVIOUS
<1>2. /\ q \in Nat \ {0} /\ 2^(m+1) = 2*q
      /\ \A b \in Index(m) : b \in Nat /\ b \in Index(m+1) /\ b + q \in Index(m+1)
  BY <1>1, IndexFacts
<1>3. D \in Table(m + 1) /\ t \in Field
  BY <1>1, FieldClosed
<1>4. ASSUME NEW b \in Index(m)
      PROVE  /\ g[b] = IF t = 1 THEN D[b + q] ELSE D[b]
             /\ g[b] = D[b] ++ ((D[b + q] -- D[b]) ** t)
             /\ g[b] \in Field
  <2>1. D[b] = h[b + hi * (2*q)] /\ D[b + q] = h[(b + q) + hi * (2*q)]
    BY <1>1, <1>2 DEF Slice
  <2>2. g[b] = h[b + (2*hi + t) * q]
    BY <1>1 DEF Slice
  <2>3. /\ t = 0 => b + (2*hi + t) * q = b + hi * (2*q)
        /\ t = 1 => b + (2*hi + t) * q = (b + q) + hi * (2*q)
    <3>1. b \in Nat /\ q \in Nat
      BY <1>2
    <3>2. (2*hi + 0) * q = hi * (2*q) /\ (2*hi + 1) * q = hi * (2*q) + q
      BY <3>1
    <3>3. hi * (2*q) \in Nat
      BY <3>1
    <3> HIDE <1>1
    <3> QED BY <3>1, <3>2, <3>3
  <2>4. t = 0 \/ t = 1
    OBVIOUS
  <2>5. g[b] = IF t = 1 THEN D[b + q] ELSE D[b]
    BY <2>1, <2>2, <2>3, <2>4
  <2>6. PICK x \in Field, y \in Field : x = D[b] /\ y = D[b + q]
    BY <1>2, <1>3 DEF Table
  <2>7. y -- x \in Field /\ x ++ 0 = x /\ x ++ (y -- x) = y
    <3>1. y -- x \in Field
      BY FieldClosed
    <3>2. x ++ (y -- x) = (y -- x) ++ x /\ (y -- x) ++ x = y
      BY <3>1, FieldLaws
    <3> QED BY <3>1, <3>2, UnitLaws
  <2>8. (y -- x) ** 0 = 0 /\ (y -- x) ** 1 = y -- x
    BY <2>7, UnitLaws
  <2> QED BY <2>4, <2>5, <2>6, <2>7, <2>8
<1>5. DOMAIN g = Index(m) /\ g = [b \in Index(m) |-> g[b]]
  BY <1>1 DEF Slice
<1>6. g \in Table(m)
  BY <1>4, <1>5 DEF Table
<1>7. fix_last_variable_helper(D, m + 1, t) = g
  <2>1. (m + 1) - 1 = m
    OBVIOUS
  <2>2. fix_last_variable_helper(D, m + 1, t)
          = [b \in Index(m) |-> D[b] ++ ((D[b + q] -- D[b]) ** t)]
    BY <1>1, <2>1 DEF fix_last_variable_helper
  <2> QED BY <1>4, <1>5, <2>2
<1>8. ASSUME NEW rest \in Point(m)
      PROVE  Extension(g, rest) = Extension(D, rest \o <<t>>)
  BY <1>1, <1>3, <1>4, <1>5, <1>8, ExtensionLast
<1> QED BY <1>1, <1>6, <1>7, <1>8

\* The bits of an index below 2^len, taken from the top.
LEMMA TopBits ==
  ASSUME NEW len \in Nat, NEW idx \in Index(len)
  PROVE  /\ idx \in Nat /\ idx \div 2^len = 0 /\ idx \div 2^0 = idx
         /\ \A j \in 0 .. len - 1 :
              /\ bit_decompose(idx, len)[len - j] \in {0, 1}
              /\ idx \div 2^(len - j) \in Nat
              /\ idx \div 2^(len - (j+1))
                   = 2 * (idx \div 2^(len - j)) + bit_decompose(idx, len)[len - j]
         /\ bit_decompose(idx, len) \in Point(len)
<1>1. idx \in Nat /\ idx < 2^len /\ 2^len \in Nat \ {0} /\ 2^0 = 1
  BY TwoToThe DEF Index
<1>2. idx \div 2^len = 0 /\ idx \div 2^0 = idx
  <2>1. PICK q \in Nat \ {0} : q = 2^len
    BY <1>1
  <2>2. idx \div q = 0
    BY <1>1, <2>1
  <2>3. idx \div 1 = idx
    BY <1>1
  <2> QED BY <1>1, <2>1, <2>2, <2>3
<1>3. ASSUME NEW j \in 0 .. len - 1
      PROVE  /\ bit_decompose(idx, len)[len - j] \in {0, 1}
             /\ idx \div 2^(len - j) \in Nat
             /\ idx \div 2^(len - (j+1))
                  = 2 * (idx \div 2^(len - j)) + bit_decompose(idx, len)[len - j]
  <2>1. PICK e \in Nat : e = len - (j+1) /\ len - j = e + 1 /\ (len - j) - 1 = e
    OBVIOUS
  <2>2. PICK q \in Nat \ {0} : q = 2^e /\ 2^(e+1) = 2*q
    BY TwoToThe
  <2>3. bit_decompose(idx, len)[len - j] = (idx \div q) % 2
    <3>1. len - j \in 1 .. len
      OBVIOUS
    <3> QED BY <2>1, <2>2, <3>1 DEF bit_decompose
  <2>7. 2^(len - j) = 2*q /\ 2^(len - (j+1)) = q
    BY <2>1, <2>2
  <2>8. PICK d \in Nat, c \in Nat, t \in {0, 1} :
          d = 2*c + t /\ d = idx \div q /\ c = idx \div (2*q) /\ t = (idx \div q) % 2
    BY <1>1, <2>2, HalveAgain
  <2>10. bit_decompose(idx, len)[len - j] = t
    BY <2>3, <2>8
  <2>11. idx \div 2^(len - j) = c
    BY <2>7, <2>8
  <2>12. idx \div 2^(len - (j+1)) = d
    BY <2>7, <2>8
  <2> QED BY <2>8, <2>10, <2>11, <2>12
<1>4. bit_decompose(idx, len) \in Point(len)
  <2>1. ASSUME NEW k \in 1 .. len
        PROVE  (idx \div 2^(k-1)) % 2 \in Field
    <3>1. PICK q \in Nat \ {0} : q = 2^(k-1)
      <4>1. k - 1 \in Nat
        OBVIOUS
      <4> QED BY <4>1, TwoToThe
    <3>2. idx \div q \in Nat
      BY <1>1
    <3>3. (idx \div q) % 2 \in {0, 1}
      BY <3>2
    <3> QED BY <3>1, <3>3, FieldClosed
  <2> QED BY <2>1 DEF bit_decompose, Point
<1> QED BY <1>1, <1>2, <1>3, <1>4

\* The buffers of fix_last_variables.
Binding(g, h, k, x) ==
  g = [j \in 0 .. Len(x) |->
         IF j = 0 THEN h
         ELSE fix_last_variable_helper(g[j-1], k - (j-1), x[Len(x) - (j-1)])]

\* Binding the last variables of h to the bits of an index is the part of h
\* there, and so is evaluating h at them.
LEMMA SliceFacts ==
  ASSUME NEW m \in Nat, NEW len \in Nat, NEW h \in Table(m + len), NEW idx \in Index(len)
  PROVE  /\ \A rest \in Point(m) :
              Extension(h, rest \o bit_decompose(idx, len)) = Extension(Slice(h, m, idx), rest)
         /\ fix_last_variables(h, m + len, bit_decompose(idx, len)) = Slice(h, m, idx)
<1> DEFINE part(j) == Slice(h, m + (len - j), idx \div 2^(len - j))
           x == bit_decompose(idx, len)
<1>1. /\ idx \in Nat /\ idx \div 2^len = 0 /\ idx \div 2^0 = idx
      /\ \A j \in 0 .. len - 1 :
           /\ x[len - j] \in {0, 1}
           /\ idx \div 2^(len - j) \in Nat
           /\ idx \div 2^(len - (j+1)) = 2 * (idx \div 2^(len - j)) + x[len - j]
      /\ x \in Point(len)
  BY TopBits
<1> HIDE DEF x
<1>2. part(0) = h /\ part(0) \in Table(m + len)
  <2>1. part(0) = Slice(h, m + len, 0)
    BY <1>1
  <2>2. \A b \in Index(m + len) : b + 0 * 2^(m + len) = b
    <3>1. m + len \in Nat
      OBVIOUS
    <3>2. 2^(m + len) \in Nat /\ Index(m + len) \subseteq Nat
      BY <3>1, IndexFacts
    <3> QED BY <3>2
  <2>3. Slice(h, m + len, 0) = [b \in Index(m + len) |-> h[b]]
    BY <2>2 DEF Slice
  <2>4. h = [b \in Index(m + len) |-> h[b]]
    BY DEF Table
  <2> QED BY <2>1, <2>3, <2>4
<1>3. ASSUME NEW j \in 0 .. len - 1, part(j) \in Table(m + (len - j))
      PROVE  /\ part(j+1) \in Table(m + (len - (j+1)))
             /\ fix_last_variable_helper(part(j), m + (len - j), x[len - j]) = part(j+1)
             /\ \A rest \in Point(m + (len - (j+1))) :
                  Extension(part(j+1), rest) = Extension(part(j), rest \o <<x[len - j]>>)
  <2>1. PICK k \in Nat : k = m + (len - (j+1)) /\ m + (len - j) = k + 1
    OBVIOUS
  <2>2. PICK hi \in Nat, t \in {0, 1} :
          /\ hi = idx \div 2^(len - j) /\ t = x[len - j]
          /\ idx \div 2^(len - (j+1)) = 2*hi + t
    BY <1>1
  <2>3. part(j) = Slice(h, k + 1, hi) /\ part(j+1) = Slice(h, k, 2*hi + t)
    BY <2>1, <2>2
  <2>4. Slice(h, k + 1, hi) \in Table(k + 1)
    BY <1>3, <2>1, <2>3
  <2> HIDE DEF part
  <2>5. /\ Slice(h, k, 2*hi + t) \in Table(k)
        /\ fix_last_variable_helper(Slice(h, k + 1, hi), k + 1, t) = Slice(h, k, 2*hi + t)
        /\ \A rest \in Point(k) :
             Extension(Slice(h, k, 2*hi + t), rest)
               = Extension(Slice(h, k + 1, hi), rest \o <<t>>)
    BY <2>4, SliceStep
  <2> QED BY <2>1, <2>2, <2>3, <2>5
<1>4. part(len) = Slice(h, m, idx)
  <2>1. len - len = 0 /\ m + 0 = m
    OBVIOUS
  <2> QED BY <1>1, <2>1
<1> HIDE DEF part
<1>5. x \in Seq(Field) /\ Len(x) = len /\ DOMAIN x = 1 .. len
  BY <1>1, PointIsSeq
<1> DEFINE Typed == {j \in Nat : j <= len => part(j) \in Table(m + (len - j))}
<1>6. ASSUME NEW j \in 0 .. len
      PROVE  part(j) \in Table(m + (len - j))
  <2>1. 0 \in Typed
    <3>1. m + (len - 0) = m + len
      OBVIOUS
    <3> QED BY <1>2, <3>1
  <2>2. ASSUME NEW a \in Nat, a \in Typed
        PROVE  a + 1 \in Typed
    <3>1. CASE a + 1 <= len
      <4>1. a \in 0 .. len - 1 /\ a <= len
        BY <3>1
      <4>2. part(a+1) \in Table(m + (len - (a+1)))
        BY <1>3, <2>2, <4>1
      <4> QED BY <4>2
    <3> QED BY <3>1
  <2>3. Nat \subseteq Typed
    <3> HIDE DEF Typed
    <3> QED BY <2>1, <2>2, Add!NaturalInduction
  <2> QED BY <2>3
<1>7. ASSUME NEW rest \in Point(m)
      PROVE  Extension(h, rest \o x) = Extension(Slice(h, m, idx), rest)
  <2> DEFINE Same == {j \in Nat : j <= len =>
                        \A r \in Point(m + (len - j)) :
                          Extension(part(j), r) = Extension(h, r \o Ending(x, len, j))}
  <2>1. 0 \in Same
    <3>1. Ending(x, len, 0) = <<>>
      BY <1>1, EndingFacts
    <3>2. ASSUME NEW r \in Point(m + (len - 0))
          PROVE  r \o Ending(x, len, 0) = r
      <4>1. m + (len - 0) \in Nat
        OBVIOUS
      <4>2. r \in Seq(Field)
        BY <4>1, PointIsSeq
      <4> QED BY <3>1, <4>2
    <3> QED BY <1>2, <3>2
  <2>2. ASSUME NEW a \in Nat, a \in Same
        PROVE  a + 1 \in Same
    <3>1. CASE a + 1 <= len
      <4>1. PICK k \in Nat : k = m + (len - (a+1)) /\ m + (len - a) = k + 1
        BY <3>1
      <4>2. a \in 0 .. len - 1 /\ a <= len
        BY <3>1
      <4>3. PICK t \in Field : t = x[len - a] /\ Ending(x, len, a+1) = <<t>> \o Ending(x, len, a)
        BY <1>1, <4>2, EndingFacts
      <4>4. Ending(x, len, a) \in Seq(Field)
        <5>1. Ending(x, len, a) \in Point(a)
          BY <1>1, <4>2, EndingFacts
        <5> QED BY <5>1, PointIsSeq
      <4>5. ASSUME NEW r \in Point(k)
            PROVE  Extension(part(a+1), r) = Extension(h, r \o Ending(x, len, a+1))
        <5>1. r \in Seq(Field) /\ r \o <<t>> \in Point(k + 1)
          BY PointIsSeq, PointFacts
        <5>2. Extension(part(a+1), r) = Extension(part(a), r \o <<t>>)
          <6>1. part(a) \in Table(m + (len - a))
            BY <1>6, <4>2
          <6> QED BY <1>3, <4>1, <4>2, <4>3, <6>1
        <5>3. Extension(part(a), r \o <<t>>)
                = Extension(h, (r \o <<t>>) \o Ending(x, len, a))
          BY <2>2, <4>1, <4>2, <5>1
        <5>4. (r \o <<t>>) \o Ending(x, len, a) = r \o (<<t>> \o Ending(x, len, a))
          <6>1. <<t>> \in Seq(Field)
            OBVIOUS
          <6> QED BY <4>4, <5>1, <6>1, ConcatAssociative
        <5> QED BY <4>3, <5>2, <5>3, <5>4
      <4> QED BY <4>1, <4>5
    <3> QED BY <3>1
  <2>3. Nat \subseteq Same
    <3> HIDE DEF Same
    <3> QED BY <2>1, <2>2, Add!NaturalInduction
  <2>4. Extension(part(len), rest) = Extension(h, rest \o Ending(x, len, len))
    <3>1. m + (len - len) = m
      OBVIOUS
    <3> QED BY <2>3, <3>1
  <2>5. Ending(x, len, len) = x
    BY <1>1, EndingFacts
  <2> QED BY <1>4, <2>4, <2>5
<1>8. fix_last_variables(h, m + len, x) = Slice(h, m, idx)
  <2> DEFINE g == CHOOSE g : Binding(g, h, m + len, x)
  <2>1. Binding([j \in 0 .. len |-> part(j)], h, m + len, x)
    <3> DEFINE w == [j \in 0 .. len |-> part(j)]
    <3>1. ASSUME NEW j \in 0 .. len, j # 0
          PROVE  w[j] = fix_last_variable_helper(w[j-1], (m + len) - (j-1), x[len - (j-1)])
      <4>1. PICK a \in 0 .. len - 1 : a = j - 1 /\ j = a + 1 /\ (m + len) - a = m + (len - a)
        BY <3>1
      <4>2. w[j] = part(a+1) /\ w[j-1] = part(a)
        BY <4>1
      <4>3. part(a) \in Table(m + (len - a))
        BY <1>6
      <4>4. fix_last_variable_helper(part(a), m + (len - a), x[len - a]) = part(a+1)
        BY <1>3, <4>3
      <4> QED BY <4>1, <4>2, <4>4
    <3>2. w[0] = h
      BY <1>2
    <3>3. w = [j \in 0 .. len |-> w[j]]
      OBVIOUS
    <3> HIDE DEF w
    <3>4. w = [j \in 0 .. len |->
                 IF j = 0 THEN h
                 ELSE fix_last_variable_helper(w[j-1], (m + len) - (j-1), x[len - (j-1)])]
      BY <3>1, <3>2, <3>3
    <3>5. Binding(w, h, m + len, x)
      BY <1>5, <3>4 DEF Binding
    <3> QED BY <3>5 DEF w
  <2>2. Binding(g, h, m + len, x)
    BY <2>1
  <2>3. fix_last_variables(h, m + len, x) = g[len]
    BY <1>5 DEF fix_last_variables, Binding
  <2> HIDE DEF g
  <2>4. g[0] = h /\ \A j \in 1 .. len :
          g[j] = fix_last_variable_helper(g[j-1], (m + len) - (j-1), x[len - (j-1)])
    BY <1>5, <2>2 DEF Binding
  <2> DEFINE Found == {j \in Nat : j <= len => g[j] = part(j)}
  <2>5. 0 \in Found
    BY <1>2, <2>4
  <2>6. ASSUME NEW a \in Nat, a \in Found
        PROVE  a + 1 \in Found
    <3>1. CASE a + 1 <= len
      <4>1. /\ a \in 0 .. len - 1 /\ a <= len /\ a + 1 \in 1 .. len /\ (a + 1) - 1 = a
            /\ (m + len) - a = m + (len - a)
        BY <3>1
      <4>2. part(a) \in Table(m + (len - a))
        BY <1>6, <4>1
      <4>3. fix_last_variable_helper(part(a), m + (len - a), x[len - a]) = part(a+1)
        BY <1>3, <4>1, <4>2
      <4>4. g[a+1] = fix_last_variable_helper(g[a], (m + len) - a, x[len - a])
        BY <2>4, <4>1
      <4>5. g[a] = part(a)
        BY <2>6, <4>1
      <4> QED BY <4>1, <4>3, <4>4, <4>5
    <3> QED BY <3>1
  <2>7. Nat \subseteq Found
    <3> HIDE DEF Found
    <3> QED BY <2>5, <2>6, Add!NaturalInduction
  <2>8. g[len] = part(len)
    BY <2>7
  <2> QED BY <1>4, <2>3, <2>8
<1> QED BY <1>7, <1>8 DEF x

LEMMA Log2Type ==
  ASSUME NEW k \in Nat \ {0}
  PROVE  log2(k) \in Nat
<1> DEFINE Enough == {a \in Nat : 2^a >= k}
           Reached(a) == 2^a >= a
           N == {a \in Nat : Reached(a)}
<1>1. \A a \in Nat : 2^a \in Nat \ {0} /\ 2^(a+1) = 2 * 2^a /\ 2^0 = 1
  BY TwoToThe
<1>2. Nat \subseteq N
  <2>1. 0 \in N
    BY <1>1
  <2>2. ASSUME NEW a \in Nat, a \in N
        PROVE  a + 1 \in N
    <3>1. PICK q \in Nat \ {0} : q = 2^a /\ 2^(a+1) = 2*q
      BY <1>1
    <3>2. q >= a
      BY <2>2, <3>1
    <3>3. 2*q >= a + 1
      BY <3>2
    <3> QED BY <3>1, <3>3
  <2> HIDE DEF N
  <2> QED BY <2>1, <2>2, Add!NaturalInduction
<1>3. k \in Enough
  BY <1>2
<1>4. PICK a \in Enough : \A c \in Enough : a <= c
  <2>1. Enough \in SUBSET Nat /\ Enough # {}
    BY <1>3
  <2> HIDE DEF Enough
  <2> QED BY <2>1, Add!LeastNatural
<1>5. a \in 0 .. k /\ 2^a >= k
  BY <1>3, <1>4
<1>6. \A c \in 0 .. a-1 : 2^c < k
  <2> SUFFICES ASSUME NEW c \in 0 .. a-1, ~ (2^c < k) PROVE FALSE
    OBVIOUS
  <2>1. c \in Nat /\ c < a
    BY <1>5
  <2>2. PICK q \in Nat : q = 2^c
    BY <1>1, <2>1
  <2>3. q >= k
    BY <2>2
  <2>4. c \in Enough
    BY <2>1, <2>2, <2>3
  <2> QED BY <1>4, <2>1, <2>4
<1>7. \E c \in 0 .. k : 2^c >= k /\ \A m \in 0 .. c-1 : 2^m < k
  BY <1>5, <1>6
<1>8. log2(k) \in 0 .. k
  BY <1>7 DEF log2
<1> QED BY <1>8

Padding(m) == [b \in Index(m) |-> 0]

\* The part of the merged table at an index is the table of that index, or
\* zero for a padding slot.
LEMMA MergedSlice ==
  ASSUME NEW m \in Nat, NEW tables, NEW k \in Nat \ {0},
         Len(tables) = k, \A j \in 1 .. k : tables[j] \in Table(m),
         NEW idx \in Index(log2(k))
  PROVE  /\ merge_polynomials(tables, m) \in Table(m + log2(k))
         /\ idx < k => Slice(merge_polynomials(tables, m), m, idx) = tables[idx+1]
         /\ idx >= k => Slice(merge_polynomials(tables, m), m, idx) = Padding(m)
<1>1. PICK len, h : len \in Nat /\ len = log2(k) /\ h = merge_polynomials(tables, m)
  BY Log2Type
<1>2. PICK q \in Nat \ {0}, w \in Nat \ {0} :
        q = 2^m /\ w = 2^len /\ 2^(m + len) = q * w /\ Index(m) = 0 .. q-1
        /\ Index(len) = 0 .. w-1 /\ Index(m + len) = 0 .. q*w - 1
  <2>1. 2^m \in Nat \ {0} /\ 2^len \in Nat \ {0} /\ 2^(m + len) = 2^m * 2^len
    BY <1>1, TwoToThe, PowersMultiply
  <2> QED BY <2>1 DEF Index
<1>3. h = [b \in 0 .. q*w - 1 |->
             IF b < k * q THEN tables[(b \div q) + 1][b % q] ELSE 0]
  BY <1>1, <1>2 DEF merge_polynomials, get_batched_nv
<1>4. ASSUME NEW b \in 0 .. q*w - 1
      PROVE  h[b] \in Field
  <2>1. CASE b < k * q
    <3>1. PICK d \in Nat, r \in 0 .. q-1 : b = q * d + r /\ d = b \div q /\ r = b % q
      <4>1. b \in Nat
        BY <1>2
      <4> QED BY <4>1, Quotient
    <3>2. d < k
      <4> SUFFICES ASSUME d >= k PROVE FALSE
        BY <3>1
      <4>1. k * q <= d * q
        BY ProductOrder
      <4>2. q * d = d * q /\ d * q \in Nat /\ k * q \in Nat
        OBVIOUS
      <4>3. PICK e \in Nat, l \in Nat : e = d * q /\ l = k * q
        OBVIOUS
      <4>4. l <= e /\ b = e + r /\ b < l
        BY <2>1, <3>1, <4>1, <4>2, <4>3
      <4> QED BY <4>3, <4>4
    <3>3. h[b] = tables[d+1][r]
      BY <1>3, <2>1, <3>1
    <3>4. tables[d+1] \in Table(m)
      BY <3>2
    <3>5. r \in Index(m)
      BY <1>2
    <3> QED BY <3>3, <3>4, <3>5 DEF Table
  <2>2. CASE ~ (b < k * q)
    BY <1>3, <2>2, FieldClosed
  <2> QED BY <2>1, <2>2
<1>5. h \in Table(m + len)
  BY <1>2, <1>3, <1>4 DEF Table
<1>6. ASSUME NEW b \in Index(m)
      PROVE  /\ idx < k => h[b + idx * 2^m] = tables[idx+1][b]
             /\ idx >= k => h[b + idx * 2^m] = 0
  <2>1. b \in 0 .. q-1 /\ idx \in Nat /\ idx <= w - 1
    BY <1>1, <1>2
  <2>2. PICK c \in Nat : c = idx * q /\ c = q * idx /\ c + q = (idx + 1) * q
    BY <2>1
  <2>3. b + c \in 0 .. q*w - 1
    <3>1. (idx + 1) * q <= w * q
      BY <2>1, ProductOrder
    <3>2. w * q = q * w /\ q * w \in Nat
      OBVIOUS
    <3> QED BY <2>1, <2>2, <3>1, <3>2
  <2>4. (b + c) \div q = idx /\ (b + c) % q = b
    BY <2>1, <2>2
  <2>5. idx < k => b + c < k * q
    <3> SUFFICES ASSUME idx < k PROVE b + c < k * q
      OBVIOUS
    <3>1. (idx + 1) * q <= k * q
      BY <2>1, ProductOrder
    <3>2. k * q \in Nat
      OBVIOUS
    <3> QED BY <2>1, <2>2, <3>1, <3>2
  <2>6. idx >= k => ~ (b + c < k * q)
    <3> SUFFICES ASSUME idx >= k PROVE ~ (b + c < k * q)
      OBVIOUS
    <3>1. k * q <= idx * q
      BY <2>1, ProductOrder
    <3>2. k * q \in Nat
      OBVIOUS
    <3> QED BY <2>1, <2>2, <3>1, <3>2
  <2>7. h[b + c] = IF b + c < k * q THEN tables[idx + 1][b] ELSE 0
    BY <1>3, <2>3, <2>4
  <2>8. b + idx * 2^m = b + c
    BY <1>2, <2>2
  <2> QED BY <2>5, <2>6, <2>7, <2>8
<1>7. idx < k => Slice(h, m, idx) = tables[idx+1]
  <2> SUFFICES ASSUME idx < k PROVE Slice(h, m, idx) = tables[idx+1]
    OBVIOUS
  <2>1. tables[idx+1] \in Table(m)
    <3>1. idx \in 0 .. w-1
      BY <1>1, <1>2
    <3>2. idx + 1 \in 1 .. k
      BY <3>1
    <3> QED BY <3>2
  <2>2. tables[idx+1] = [b \in Index(m) |-> tables[idx+1][b]]
    BY <2>1 DEF Table
  <2>3. Slice(h, m, idx) = [b \in Index(m) |-> tables[idx+1][b]]
    BY <1>6 DEF Slice
  <2> QED BY <2>2, <2>3
<1>8. idx >= k => Slice(h, m, idx) = Padding(m)
  BY <1>6 DEF Slice, Padding
<1> QED BY <1>1, <1>5, <1>7, <1>8

\* For tables over any number of variables, in any build, the table merged
\* from up to three tables, evaluated at the point generated for an index or
\* bound to it, is the table at that index, or zero for a padding slot
\* (PartialEvaluation, SelectionByIndex).
THEOREM SelectionAlways == Spec => []SelectionByIndex
<1>1. CountInv => SelectionByIndex
  <2> SUFFICES ASSUME CountInv, i = n, NEW k \in 1 .. 3
               PROVE  LET ones   == [b \in Index(n) |-> 1]
                          tables == SubSeq(<<f, ones, [b \in Index(n) |-> f[b] ** 2]>>, 1, k)
                          len    == log2(k)
                          merged == merge_polynomials(tables, n)
                      IN  \A idx \in 0 .. 2^len - 1 :
                            /\ Extension(merged, gen_eval_point(idx, len, point))
                                 = Extension(MergedAt(tables, idx), point)
                            /\ fix_last_variables(merged, n + len, bit_decompose(idx, len))
                                 = MergedAt(tables, idx)
    BY DEF SelectionByIndex
  <2> DEFINE ones == [b \in Index(n) |-> 1]
             squares == [b \in Index(n) |-> f[b] ** 2]
             all == <<f, ones, squares>>
             tables == SubSeq(all, 1, k)
             len == log2(k)
             merged == merge_polynomials(tables, n)
  <2>1. n \in Nat /\ point \in Point(n) /\ f \in Table(n)
    <3>1. point \in Seq(Field) /\ Len(point) = n /\ n \in Nat /\ f \in Table(n)
      BY LenProperties DEF CountInv, InputsTyped
    <3> QED BY <3>1 DEF Point
  <2>2. ones \in Table(n) /\ squares \in Table(n)
    <3>1. \A b \in Index(n) : f[b] \in Field
      BY <2>1 DEF Table
    <3>2. \A v \in Field : v ** 2 \in Field
      <4>1. \A v \in Field : v \in Int
        BY FieldClosed
      <4> QED BY <4>1, FieldClosed
    <3>3. \A b \in Index(n) : f[b] ** 2 \in Field
      BY <3>1, <3>2
    <3>4. 1 \in Field
      BY FieldClosed
    <3> QED BY <3>3, <3>4 DEF Table
  <2> HIDE DEF ones, squares
  <2>3. all \in Seq(Table(n)) /\ Len(all) = 3
    BY <2>1, <2>2
  <2> HIDE DEF all
  <2>4. Len(tables) = k /\ \A j \in 1 .. k : tables[j] \in Table(n)
    <3>1. SubSeq(all, 1, k) \in Seq(Table(n)) /\ Len(SubSeq(all, 1, k)) = k - 1 + 1
      <4>1. /\ 1 \in 1 .. Len(all) + 1 /\ k \in 0 .. Len(all) /\ 1 <= k + 1
        BY <2>3
      <4> QED BY <2>3, <4>1, Piece
    <3>2. \A j \in 1 .. k : tables[j] \in Table(n)
      BY <3>1, ElementOfSeq
    <3> QED BY <3>1, <3>2
  <2> HIDE DEF tables
  <2>5. len \in Nat
    BY Log2Type
  <2>6. ASSUME NEW idx \in 0 .. 2^len - 1
        PROVE  /\ Extension(merged, gen_eval_point(idx, len, point))
                    = Extension(MergedAt(tables, idx), point)
               /\ fix_last_variables(merged, n + len, bit_decompose(idx, len))
                    = MergedAt(tables, idx)
    <3>1. idx \in Index(log2(k))
      BY DEF Index
    <3>2. /\ merge_polynomials(tables, n) \in Table(n + log2(k))
          /\ idx < k => Slice(merge_polynomials(tables, n), n, idx) = tables[idx+1]
          /\ idx >= k => Slice(merge_polynomials(tables, n), n, idx) = Padding(n)
      <4>1. k \in Nat \ {0}
        OBVIOUS
      <4> QED BY <2>1, <2>4, <3>1, <4>1, MergedSlice
    <3>3. idx \in Nat /\ (idx < k \/ idx >= k)
      BY <2>5, TwoToThe
    <3>4. Slice(merged, n, idx) = MergedAt(tables, idx)
      BY <2>4, <3>2, <3>3 DEF MergedAt, Padding
    <3>5. idx \in Index(len) /\ merged \in Table(n + len)
      BY <3>1, <3>2
    <3> HIDE DEF merged, len
    <3>6. /\ \A rest \in Point(n) :
               Extension(merged, rest \o bit_decompose(idx, len)) = Extension(Slice(merged, n, idx), rest)
          /\ fix_last_variables(merged, n + len, bit_decompose(idx, len)) = Slice(merged, n, idx)
      BY <2>1, <2>5, <3>5, SliceFacts
    <3> QED BY <2>1, <3>4, <3>6 DEF gen_eval_point
  <2> QED BY <2>6 DEF merged, len, tables, all, ones, squares
<1> QED BY <1>1, CountAlways, PTL
=============================================================================
