---------------------------- MODULE FieldLemmas ----------------------------
(***************************************************************************)
(* What the proofs need to know of the field arithmetic (PrimeField), of   *)
(* sums and products of families, of powers of two and of the bits of a    *)
(* table index (Multilinear), of the polynomials in one variable, told by  *)
(* their divided differences, and of tables with some variables bound.     *)
(***************************************************************************)
EXTENDS Multilinear, SequenceTheorems, FiniteSetTheorems, TLAPS

Add == INSTANCE Folding WITH op <- +, base <- 0
Mul == INSTANCE Folding WITH op <- **, base <- 1
FAdd == INSTANCE Folding WITH op <- ++, base <- 0

---------------------------------------------------------------------------
(* The field.                                                              *)

LEMMA FieldClosed ==
  /\ Field \subseteq Int /\ 0 \in Field /\ 1 \in Field
  /\ \A a, b \in Int : a ++ b \in Field /\ a -- b \in Field /\ a ** b \in Field
  /\ \A n \in Int : FromInt(n) \in Field
  /\ \A a \in Field : FromInt(a) = a
BY PAssumption DEF Field, FromInt, ++, --, **

\* Reducing a summand first changes nothing.
LEMMA ReduceSum ==
  ASSUME NEW a \in Int, NEW b \in Int
  PROVE  (a + b) % P = (a % P) ++ (b % P)
<1>1. PICK p \in Nat \ {0} : p = P
  BY PAssumption
<1> DEFINE qa == a \div p
           ra == a % p
           qb == b \div p
           rb == b % p
<1>2. qa \in Int /\ ra \in Int /\ qb \in Int /\ rb \in Int
      /\ a = p * qa + ra /\ b = p * qb + rb
  OBVIOUS
<1> HIDE DEF qa, ra, qb, rb
<1>3. ASSUME NEW q \in Int, NEW r \in Int
      PROVE  (p * q + r) % p = r % p
  <2> DEFINE d == r \div p
             s == r % p
  <2>1. d \in Int /\ s \in 0 .. p-1 /\ r = p * d + s
    OBVIOUS
  <2> HIDE DEF d, s
  <2>2. p * q + r = p * (q + d) + s
    BY <2>1
  <2>3. \A e \in Int : (p * e + s) % p = s
    BY <2>1
  <2>4. q + d \in Int
    BY <2>1
  <2>5. (p * (q + d) + s) % p = s
    BY <2>3, <2>4
  <2> QED BY <2>2, <2>5 DEF s
<1>4. PICK q \in Int, r \in Int : q = qa + qb /\ r = ra + rb
  BY <1>2
<1>5. a + b = p * q + r
  BY <1>2, <1>4
<1> HIDE DEF qa, ra, qb, rb
<1>6. (p * q + r) % p = r % p
  BY <1>3
<1>7. (a + b) % p = (ra + rb) % p
  BY <1>4, <1>5, <1>6, Zenon
<1> QED BY <1>1, <1>7 DEF ++, ra, rb

\* And so does reducing a factor.
LEMMA ReduceProduct ==
  ASSUME NEW a \in Int, NEW b \in Int
  PROVE  (a * (b % P)) % P = (a * b) % P
<1>1. PICK p \in Nat \ {0} : p = P
  BY PAssumption
<1>2. PICK q \in Int, r \in 0 .. p-1 : b = p * q + r /\ r = b % p
  BY <1>1
<1>3. PICK s \in Int, t \in 0 .. p-1 : a * r = p * s + t /\ t = (a * r) % p
  BY <1>1
<1>4. PICK e \in Int : e = a * q
  OBVIOUS
<1>5. a * b = p * e + a * r
  <2>1. a * b = a * (p * q) + a * r
    BY <1>2
  <2>2. a * (p * q) = p * (a * q)
    BY <1>1
  <2> QED BY <2>1, <2>2, <1>4
<1>6. PICK k \in Int : k = e + s /\ a * b = p * k + t
  <2>1. p * e + p * s = p * (e + s)
    OBVIOUS
  <2> QED BY <1>3, <1>5, <2>1
<1>7. \A e_ \in Int : (p * e_ + t) % p = t
  OBVIOUS
<1>8. (a * b) % p = t
  BY <1>6, <1>7
<1> QED BY <1>1, <1>2, <1>3, <1>8

LEMMA Distributes ==
  ASSUME NEW a \in Field, NEW b \in Field, NEW c \in Field
  PROVE  a ** (b ++ c) = (a ** b) ++ (a ** c)
<1>1. a \in Int /\ b \in Int /\ c \in Int /\ b + c \in Int
        /\ a * b \in Int /\ a * c \in Int
  BY FieldClosed
<1>2. (a * ((b + c) % P)) % P = (a * (b + c)) % P
  BY <1>1, ReduceProduct
<1>3. a * (b + c) = a * b + a * c
  BY <1>1
<1>4. (a * b + a * c) % P = ((a * b) % P) ++ ((a * c) % P)
  BY <1>1, ReduceSum
<1> QED BY <1>2, <1>3, <1>4 DEF **, ++

LEMMA FieldLaws ==
  /\ \A a, b \in Field : a ++ b = b ++ a /\ a ** b = b ** a
  /\ \A a, b, c \in Field : a ++ (b ++ c) = (a ++ b) ++ c
  /\ \A a, b, c \in Field : a ** (b ** c) = (a ** b) ** c
  /\ \A a \in Field : 0 ++ a = a /\ 0 ** a = 0 /\ 1 ** a = a
  /\ \A a, b \in Field : (a ++ b) -- b = a /\ (a -- b) ++ b = a
  /\ \A a, b, c \in Field : a ++ (b -- c) = (a -- c) ++ b
<1>1. \A a, b \in Field : a ++ b = b ++ a /\ a ** b = b ** a
  BY DEF Field, ++, **
<1>2. \A a, b, c \in Field : a ++ (b ++ c) = (a ++ b) ++ c
  BY PAssumption DEF Field, ++
<1>3. \A a, b, c \in Field : a ** (b ** c) = (a ** b) ** c
  BY PAssumption DEF Field, **
<1>4. \A a \in Field : 0 ++ a = a /\ 0 ** a = 0 /\ 1 ** a = a
  BY PAssumption DEF Field, ++, **
<1>5. \A a, b \in Field : (a ++ b) -- b = a /\ (a -- b) ++ b = a
  BY PAssumption DEF Field, ++, --
<1>6. \A a, b, c \in Field : a ++ (b -- c) = (a -- c) ++ b
  BY PAssumption DEF Field, ++, --
<1> QED BY <1>1, <1>2, <1>3, <1>4, <1>5, <1>6

\* The units, on the right as well.
LEMMA UnitLaws ==
  ASSUME NEW a \in Field
  PROVE  a ++ 0 = a /\ a ** 0 = 0 /\ a ** 1 = a
<1>1. a ++ 0 = a
  BY PAssumption DEF Field, ++
<1>2. a ** 0 = 0
  BY PAssumption DEF Field, **
<1>3. a ** 1 = a
  BY PAssumption DEF Field, **
<1> QED BY <1>1, <1>2, <1>3

LEMMA DistributesMinus ==
  ASSUME NEW a \in Field, NEW b \in Field, NEW c \in Field
  PROVE  a ** (b -- c) = (a ** b) -- (a ** c)
<1>1. PICK d \in Field : d = b -- c
  BY FieldClosed
<1>2. b = d ++ c
  BY <1>1, FieldLaws
<1>3. a ** b = (a ** d) ++ (a ** c)
  BY <1>2, Distributes
<1>4. a ** d \in Field /\ a ** c \in Field
  BY FieldClosed
<1> QED BY <1>1, <1>3, <1>4, FieldLaws

\* The line through u at 0 and v at 1, taken at r and weighted with w: u and
\* v weighted with the two shares of w.
LEMMA Blend ==
  ASSUME NEW u \in Field, NEW v \in Field, NEW r \in Field, NEW w \in Field
  PROVE  (u ++ ((v -- u) ** r)) ** w
           = (u ** ((1 -- r) ** w)) ++ (v ** (r ** w))
<1> DEFINE rw == r ** w
           a == u ** w
           b == v ** rw
           c == u ** rw
           d == v -- u
<1>1. /\ rw \in Field /\ a \in Field /\ b \in Field /\ c \in Field /\ d \in Field
      /\ d ** r \in Field /\ 1 -- r \in Field /\ 1 \in Field
  BY FieldClosed
<1> HIDE DEF d
<1>2. (u ++ (d ** r)) ** w = (u ** w) ++ ((d ** r) ** w)
  <2>1. w ** (u ++ (d ** r)) = (w ** u) ++ (w ** (d ** r))
    BY <1>1, Distributes
  <2>2. u ++ (d ** r) \in Field
    BY <1>1, FieldClosed
  <2> QED BY <1>1, <2>1, <2>2, FieldLaws
<1>3. (d ** r) ** w = b -- c
  <2>1. (d ** r) ** w = rw ** d
    BY <1>1, FieldLaws
  <2>2. rw ** d = (rw ** v) -- (rw ** u)
    BY <1>1, DistributesMinus DEF d
  <2> QED BY <1>1, <2>1, <2>2, FieldLaws
<1>4. u ** ((1 -- r) ** w) = a -- c
  <2>1. w ** (1 -- r) = (w ** 1) -- (w ** r)
    BY <1>1, DistributesMinus
  <2>2. (1 -- r) ** w = w -- rw
    BY <1>1, <2>1, FieldLaws
  <2>3. u ** (w -- rw) = (u ** w) -- (u ** rw)
    BY <1>1, DistributesMinus
  <2> QED BY <2>2, <2>3
<1>5. a ++ (b -- c) = (a -- c) ++ b
  BY <1>1, FieldLaws
<1> QED BY <1>2, <1>3, <1>4, <1>5 DEF d

\* The two shares of w, 1-v of it and v of it, blended at u.
LEMMA BlendShares ==
  ASSUME NEW u \in Field, NEW v \in Field, NEW w \in Field
  PROVE  ((1 -- v) ** w) ++ (((v ** w) -- ((1 -- v) ** w)) ** u)
           = ((u ** v) ++ (u ** v) -- u -- v ++ 1) ** w
<1> DEFINE a == 1 -- v
           d == v -- a
           p == u ** v
           q == p -- u
           e == a ++ (d ** u)
<1>1. /\ 1 \in Field /\ a \in Field /\ d \in Field /\ p \in Field /\ q \in Field
      /\ d ** u \in Field /\ e \in Field /\ u -- p \in Field /\ p -- v \in Field
      /\ q -- v \in Field /\ d ** w \in Field
  BY FieldClosed
<1>2. d ** u = q ++ p
  <2>1. u ** d = (u ** v) -- (u ** a)
    BY <1>1, DistributesMinus
  <2>2. u ** a = (u ** 1) -- (u ** v)
    BY <1>1, DistributesMinus
  <2>3. u ** 1 = u /\ u ** d = d ** u
    BY <1>1, FieldLaws
  <2>4. d ** u = p -- (u -- p)
    BY <2>1, <2>2, <2>3
  <2>5. \A x, y \in Field : x -- (y -- x) = (x -- y) ++ x
    BY PAssumption DEF Field, ++, --
  <2> QED BY <1>1, <2>4, <2>5
<1>3. e = ((p ++ (q -- v)) ++ 1)
  <2>1. p ++ (q -- v) = (p -- v) ++ q
    BY <1>1, FieldLaws
  <2>2. ((p -- v) ++ q) ++ 1 = 1 ++ ((p -- v) ++ q)
    BY <1>1, FieldClosed, FieldLaws
  <2>3. 1 ++ ((p -- v) ++ q) = (1 ++ (p -- v)) ++ q
    BY <1>1, FieldLaws
  <2>4. 1 ++ (p -- v) = a ++ p
    BY <1>1, FieldLaws
  <2>5. (a ++ p) ++ q = a ++ (p ++ q)
    BY <1>1, FieldLaws
  <2>6. p ++ q = q ++ p
    BY <1>1, FieldLaws
  <2> QED BY <1>2, <2>1, <2>2, <2>3, <2>4, <2>5, <2>6
<1>4. (a ** w) ++ (((v ** w) -- (a ** w)) ** u) = e ** w
  <2>1. (v ** w) -- (a ** w) = d ** w
    <3>1. w ** d = (w ** v) -- (w ** a)
      BY <1>1, DistributesMinus
    <3> QED BY <1>1, <3>1, FieldLaws
  <2>2. (d ** w) ** u = w ** (d ** u)
    <3>1. (d ** w) ** u = (w ** d) ** u
      BY <1>1, FieldLaws
    <3> QED BY <1>1, <3>1, FieldLaws
  <2>3. w ** e = (w ** a) ++ (w ** (d ** u))
    BY <1>1, Distributes
  <2>4. w ** e = e ** w /\ w ** a = a ** w
    BY <1>1, FieldLaws
  <2> QED BY <2>1, <2>2, <2>3, <2>4
<1> QED BY <1>3, <1>4

LEMMA FiniteAlike ==
  ASSUME NEW S
  PROVE  /\ IsFiniteSet(S) <=> Add!IsFiniteSet(S)
         /\ IsFiniteSet(S) <=> Mul!IsFiniteSet(S)
BY DEF IsFiniteSet, Add!IsFiniteSet, Mul!IsFiniteSet

LEMMA FiniteTotal ==
  ASSUME NEW S
  PROVE  IsFiniteSet(S) <=> FAdd!IsFiniteSet(S)
BY DEF IsFiniteSet, FAdd!IsFiniteSet

LEMMA AddMonoid == Add!Monoid(Int)
BY DEF Add!Monoid

LEMMA TotalMonoid == FAdd!Monoid(Field)
BY FieldClosed, FieldLaws DEF FAdd!Monoid

LEMMA MulMonoid == Mul!Monoid(Field)
<1>1. 1 \in Field /\ \A u, v \in Field : u ** v \in Field
  BY FieldClosed
<1>2. \A u, v \in Field : u ** v = v ** u
  BY DEF Field, **
<1>3. \A u, v, w \in Field : u ** (v ** w) = (u ** v) ** w
  BY PAssumption DEF Field, **
<1>4. \A u \in Field : 1 ** u = u
  BY PAssumption DEF Field, **
<1> QED BY <1>1, <1>2, <1>3, <1>4 DEF Mul!Monoid

---------------------------------------------------------------------------
(* Sums and products of families.                                          *)

LEMMA SumIsFold ==
  ASSUME NEW f
  PROVE  SumFunction(f) = Add!Fold(f, DOMAIN f)
BY DEF SumFunction, SumFunctionOnSet, Add!Fold, Add!FoldFunctionOnSet,
       Add!MapThenFoldSet, FoldFunctionOnSet, MapThenFoldSet

LEMMA ProdIsFold ==
  ASSUME NEW f
  PROVE  FProd(f) = Mul!Fold(f, DOMAIN f)
BY DEF FProd, FoldFunction, Mul!Fold, Mul!FoldFunctionOnSet,
       Mul!MapThenFoldSet, FoldFunctionOnSet, MapThenFoldSet

LEMMA FSumType ==
  ASSUME NEW f, IsFiniteSet(DOMAIN f), \A x \in DOMAIN f : f[x] \in Int
  PROVE  SumFunction(f) \in Int /\ FSum(f) \in Field
<1> DEFINE S == DOMAIN f
<1>1. IsFiniteSet(S) /\ \A x \in S : f[x] \in Int
  OBVIOUS
<1> HIDE DEF S
<1>2. Add!Fold(f, S) \in Int
  BY <1>1, AddMonoid, FiniteAlike, Add!FoldType DEF Add!Typed
<1>3. SumFunction(f) \in Int
  BY <1>2, SumIsFold DEF S
<1> QED BY <1>3, PAssumption DEF FSum, Field

LEMMA FProdType ==
  ASSUME NEW f, IsFiniteSet(DOMAIN f), \A x \in DOMAIN f : f[x] \in Field
  PROVE  FProd(f) \in Field
<1> DEFINE S == DOMAIN f
<1>1. IsFiniteSet(S) /\ \A x \in S : f[x] \in Field
  OBVIOUS
<1> HIDE DEF S
<1>2. Mul!Fold(f, S) \in Field
  BY <1>1, MulMonoid, FiniteAlike, Mul!FoldType DEF Mul!Typed
<1> QED BY <1>2, ProdIsFold DEF S

\* A sum over one index.
LEMMA FSumOne ==
  ASSUME NEW f, NEW x, DOMAIN f = {x}, f[x] \in Field
  PROVE  FSum(f) = f[x]
<1>1. SumFunction(f) = Add!Fold(f, {x})
  BY SumIsFold
<1>2. Add!Fold(f, {}) = 0
  BY FS_EmptySet, FiniteAlike, Add!FoldEquation
<1>3. f[x] \in Int /\ f[x] % P = f[x]
  BY PAssumption DEF Field
<1>4. Add!Fold(f, {} \cup {x}) = f[x] + Add!Fold(f, {})
  <2> DEFINE E == {}
  <2>1. IsFiniteSet(E) /\ x \notin E /\ Add!Typed(f, E \cup {x}, Int)
    BY <1>3, FS_EmptySet DEF Add!Typed
  <2> HIDE DEF E
  <2>2. Add!Fold(f, E \cup {x}) = f[x] + Add!Fold(f, E)
    BY <2>1, AddMonoid, FiniteAlike, Add!FoldAdd
  <2> QED BY <2>2 DEF E
<1>5. {} \cup {x} = {x}
  OBVIOUS
<1> QED BY <1>1, <1>2, <1>3, <1>4, <1>5 DEF FSum

\* g is f at the even indices, h at the odd ones.
Interleaves(m, f, g, h) ==
  /\ m \in Nat
  /\ DOMAIN f = 0 .. 2*m - 1 /\ \A b \in 0 .. 2*m - 1 : f[b] \in Int
  /\ DOMAIN g = 0 .. m-1 /\ \A b \in 0 .. m-1 : g[b] = f[2*b]
  /\ DOMAIN h = 0 .. m-1 /\ \A b \in 0 .. m-1 : h[b] = f[2*b + 1]

\* A sum over the indices 0 .. 2m-1 is the sum over the even ones and the
\* sum over the odd ones.
LEMMA FSumInterleaved ==
  ASSUME NEW m, NEW f, NEW g, NEW h, Interleaves(m, f, g, h)
  PROVE  FSum(f) = FSum(g) ++ FSum(h)
<1>0. /\ m \in Nat
      /\ DOMAIN f = 0 .. 2*m - 1 /\ \A b \in 0 .. 2*m - 1 : f[b] \in Int
      /\ DOMAIN g = 0 .. m-1 /\ \A b \in 0 .. m-1 : g[b] = f[2*b]
      /\ DOMAIN h = 0 .. m-1 /\ \A b \in 0 .. m-1 : h[b] = f[2*b + 1]
  BY DEF Interleaves
<1> DEFINE S == 0 .. m-1
           even == [b \in S |-> 2*b]
           odd == [b \in S |-> 2*b + 1]
           Ev == {even[b] : b \in S}
           Od == {odd[b] : b \in S}
<1>1. IsFiniteSet(S)
  BY <1>0, FS_Interval
<1>2. \A b \in S : even[b] \in 0 .. 2*m - 1 /\ odd[b] \in 0 .. 2*m - 1
  BY <1>0
<1>3. Ev \cup Od = 0 .. 2*m - 1
  <2>1. ASSUME NEW c \in 0 .. 2*m - 1
        PROVE  c \in Ev \cup Od
    <3>1. c \div 2 \in S /\ (c = 2 * (c \div 2) \/ c = 2 * (c \div 2) + 1)
      BY <1>0
    <3> DEFINE b == c \div 2
    <3>2. b \in S /\ (c = even[b] \/ c = odd[b])
      BY <3>1
    <3> HIDE DEF b, even, odd
    <3> QED BY <3>2
  <2> QED BY <1>2, <2>1
<1>4. Ev \cap Od = {}
  BY <1>0
<1>5. IsFiniteSet(Ev) /\ IsFiniteSet(Od)
  <2>1. IsFiniteSet(0 .. 2*m - 1)
    BY <1>0, FS_Interval
  <2> QED BY <1>3, <2>1, FS_Subset
<1>6. /\ Add!Typed(f, Ev \cup Od, Int)
      /\ Add!Typed(f, Ev, Int)
      /\ Add!Typed(f, Od, Int)
  BY <1>0, <1>3 DEF Add!Typed
<1>7. /\ \A x, y \in S : even[x] = even[y] => x = y
      /\ \A x, y \in S : odd[x] = odd[y] => x = y
  BY <1>0
<1>8. /\ \A b \in S : f[even[b]] \in Int /\ g[b] = f[even[b]]
      /\ \A b \in S : f[odd[b]] \in Int /\ h[b] = f[odd[b]]
  BY <1>0, <1>2
<1>9. DOMAIN g = S /\ DOMAIN h = S
  BY <1>0
<1>d. Add!Renames(even, S, Ev) /\ Add!Renames(odd, S, Od)
  <2> HIDE DEF even, odd, S
  <2> QED BY <1>7 DEF Add!Renames
<1> HIDE DEF even, odd, S, Ev, Od
<1>10. Add!Fold(g, S) = Add!Fold(f, Ev)
  BY <1>1, <1>6, <1>8, <1>d, AddMonoid, FiniteAlike, Add!FoldRename
<1>11. Add!Fold(h, S) = Add!Fold(f, Od)
  BY <1>1, <1>6, <1>8, <1>d, AddMonoid, FiniteAlike, Add!FoldRename
<1>12. Add!Fold(f, Ev \cup Od) = Add!Fold(f, Ev) + Add!Fold(f, Od)
  BY <1>4, <1>5, <1>6, AddMonoid, FiniteAlike, Add!FoldUnion
<1>13. SumFunction(f) = SumFunction(g) + SumFunction(h)
  BY <1>0, <1>3, <1>9, <1>10, <1>11, <1>12, SumIsFold
<1>14. SumFunction(g) \in Int /\ SumFunction(h) \in Int
  BY <1>1, <1>8, <1>9, FSumType
<1> QED BY <1>13, <1>14, ReduceSum DEF FSum

\* The same, its hypotheses in full.
LEMMA FSumEvenOdd ==
  ASSUME NEW m \in Nat, NEW f, NEW g, NEW h,
         DOMAIN f = 0 .. 2*m - 1, \A b \in 0 .. 2*m - 1 : f[b] \in Int,
         DOMAIN g = 0 .. m-1, \A b \in 0 .. m-1 : g[b] = f[2*b],
         DOMAIN h = 0 .. m-1, \A b \in 0 .. m-1 : h[b] = f[2*b + 1]
  PROVE  FSum(f) = FSum(g) ++ FSum(h)
<1>1. Interleaves(m, f, g, h)
  BY DEF Interleaves
<1> QED BY <1>1, FSumInterleaved

\* The sum of field elements is their fold with the field's addition.
LEMMA FSumIsTotal ==
  ASSUME NEW f, NEW S, IsFiniteSet(S), DOMAIN f = S, \A x \in S : f[x] \in Field
  PROVE  FSum(f) = FAdd!Fold(f, S)
<1> DEFINE B == {T \in SUBSET S : Add!Fold(f, T) % P # FAdd!Fold(f, T)}
<1>1. SUFFICES ASSUME B # {} PROVE FALSE
  <2>1. S \notin B => FSum(f) = FAdd!Fold(f, S)
    BY SumIsFold DEF FSum
  <2> QED BY <2>1
<1>2. PICK T \in B : \A U \in B : U \subseteq T => U = T
  <2>1. B \in SUBSET SUBSET S
    OBVIOUS
  <2> HIDE DEF B
  <2> QED BY <1>1, <2>1, FiniteTotal, FAdd!MinimalSubset
<1>3. T \in SUBSET S /\ IsFiniteSet(T) /\ Add!Fold(f, T) % P # FAdd!Fold(f, T)
  BY FS_Subset
<1>4. \A x \in S : f[x] \in Int /\ f[x] % P = f[x]
  BY PAssumption DEF Field
<1>5. Add!Typed(f, T, Int) /\ FAdd!Typed(f, T, Field)
  BY <1>3, <1>4 DEF Add!Typed, FAdd!Typed
<1>6. T # {}
  <2>1. Add!Fold({}, {}) = Add!Fold({}, {})
    OBVIOUS
  <2>2. T = {} => Add!Fold(f, T) = 0
    BY <1>3, FiniteAlike, Add!FoldEquation
  <2>3. T = {} => FAdd!Fold(f, T) = 0
    BY <1>3, FiniteTotal, FAdd!FoldEquation
  <2>4. 0 % P = 0
    BY PAssumption
  <2> QED BY <1>3, <2>2, <2>3, <2>4
<1>7. PICK x \in T : TRUE
  BY <1>6
<1> DEFINE U == T \ {x}
<1>8. Add!Fold(f, T) = f[x] + Add!Fold(f, U)
  BY <1>3, <1>5, AddMonoid, FiniteAlike, Add!FoldExtract
<1>9. FAdd!Fold(f, T) = f[x] ++ FAdd!Fold(f, U)
  BY <1>3, <1>5, TotalMonoid, FiniteTotal, FAdd!FoldExtract
<1>10. Add!Fold(f, U) % P = FAdd!Fold(f, U)
  <2>1. U \in SUBSET S /\ U \subseteq T /\ U # T
    BY <1>3, <1>7
  <2> HIDE DEF U
  <2> QED BY <1>2, <2>1
<1>11. Add!Fold(f, U) \in Int
  <2>1. IsFiniteSet(U) /\ Add!Typed(f, U, Int)
    BY <1>3, <1>5, FS_Subset DEF Add!Typed
  <2> HIDE DEF U
  <2> QED BY <2>1, AddMonoid, FiniteAlike, Add!FoldType
<1> HIDE DEF U
<1>12. (f[x] + Add!Fold(f, U)) % P = (f[x] % P) ++ (Add!Fold(f, U) % P)
  BY <1>3, <1>4, <1>11, ReduceSum
<1>13. f[x] % P = f[x]
  BY <1>3, <1>4
<1> QED BY <1>3, <1>8, <1>9, <1>10, <1>12, <1>13

\* The sum of the sums.
LEMMA FSumPlus ==
  ASSUME NEW S, IsFiniteSet(S), NEW f, NEW g, NEW h,
         DOMAIN f = S, DOMAIN g = S, DOMAIN h = S,
         \A x \in S : f[x] \in Field /\ g[x] \in Field /\ h[x] = f[x] ++ g[x]
  PROVE  FSum(h) = FSum(f) ++ FSum(g)
<1>1. \A x \in S : h[x] \in Field
  BY FieldClosed
<1>2. FSum(f) = FAdd!Fold(f, S) /\ FSum(g) = FAdd!Fold(g, S) /\ FSum(h) = FAdd!Fold(h, S)
  BY <1>1, FSumIsTotal
<1>3. FAdd!Typed(f, S, Field) /\ FAdd!Typed(g, S, Field)
  BY DEF FAdd!Typed
<1>4. FAdd!Fold(h, S) = FAdd!Fold(f, S) ++ FAdd!Fold(g, S)
  BY <1>3, TotalMonoid, FiniteTotal, FAdd!FoldPointwise
<1> QED BY <1>2, <1>4

\* A common factor.
LEMMA FSumScale ==
  ASSUME NEW S, IsFiniteSet(S), NEW c \in Field, NEW f, NEW h,
         DOMAIN f = S, DOMAIN h = S,
         \A x \in S : f[x] \in Field /\ h[x] = c ** f[x]
  PROVE  FSum(h) = c ** FSum(f)
<1> DEFINE B == {T \in SUBSET S : FAdd!Fold(h, T) # c ** FAdd!Fold(f, T)}
<1>1. \A x \in S : h[x] \in Field
  BY FieldClosed
<1>2. FSum(f) = FAdd!Fold(f, S) /\ FSum(h) = FAdd!Fold(h, S)
  BY <1>1, FSumIsTotal
<1>3. SUFFICES ASSUME B # {} PROVE FALSE
  <2>1. S \notin B => FAdd!Fold(h, S) = c ** FAdd!Fold(f, S)
    OBVIOUS
  <2> QED BY <1>2, <2>1
<1>4. PICK T \in B : \A U \in B : U \subseteq T => U = T
  <2>1. B \in SUBSET SUBSET S
    OBVIOUS
  <2> HIDE DEF B
  <2> QED BY <1>3, <2>1, FiniteTotal, FAdd!MinimalSubset
<1>5. T \in SUBSET S /\ IsFiniteSet(T) /\ FAdd!Fold(h, T) # c ** FAdd!Fold(f, T)
  BY FS_Subset
<1>6. FAdd!Typed(h, T, Field) /\ FAdd!Typed(f, T, Field)
  BY <1>1, <1>5 DEF FAdd!Typed
<1>7. T # {}
  <2>1. T = {} => FAdd!Fold(h, T) = 0 /\ FAdd!Fold(f, T) = 0
    BY <1>5, FiniteTotal, FAdd!FoldEquation
  <2>2. c ** 0 = 0
    BY FieldClosed, FieldLaws
  <2> QED BY <1>5, <2>1, <2>2
<1>8. PICK x \in T : TRUE
  BY <1>7
<1> DEFINE U == T \ {x}
<1>9. FAdd!Fold(h, T) = h[x] ++ FAdd!Fold(h, U)
  BY <1>5, <1>6, TotalMonoid, FiniteTotal, FAdd!FoldExtract
<1>10. FAdd!Fold(f, T) = f[x] ++ FAdd!Fold(f, U)
  BY <1>5, <1>6, TotalMonoid, FiniteTotal, FAdd!FoldExtract
<1>11. FAdd!Fold(h, U) = c ** FAdd!Fold(f, U)
  <2>1. U \in SUBSET S /\ U \subseteq T /\ U # T
    BY <1>5, <1>8
  <2> HIDE DEF U
  <2> QED BY <1>4, <2>1
<1>12. FAdd!Fold(f, U) \in Field
  <2>1. IsFiniteSet(U) /\ FAdd!Typed(f, U, Field)
    BY <1>5, <1>6, FS_Subset DEF FAdd!Typed
  <2> HIDE DEF U
  <2> QED BY <2>1, TotalMonoid, FiniteTotal, FAdd!FoldType
<1> HIDE DEF U
<1>13. f[x] \in Field /\ h[x] = c ** f[x]
  BY <1>5, <1>8
<1>14. c ** (f[x] ++ FAdd!Fold(f, U)) = (c ** f[x]) ++ (c ** FAdd!Fold(f, U))
  BY <1>12, <1>13, Distributes
<1> QED BY <1>5, <1>9, <1>10, <1>11, <1>13, <1>14

\* A sum over the indices 0 .. 2m-1 is the sum over the first half and the
\* sum over the second.
LEMMA FSumHalves ==
  ASSUME NEW m \in Nat, NEW f, NEW g, NEW h,
         DOMAIN f = 0 .. 2*m - 1, \A b \in 0 .. 2*m - 1 : f[b] \in Field,
         DOMAIN g = 0 .. m-1, \A b \in 0 .. m-1 : g[b] = f[b],
         DOMAIN h = 0 .. m-1, \A b \in 0 .. m-1 : h[b] = f[b + m]
  PROVE  FSum(f) = FSum(g) ++ FSum(h)
<1> DEFINE S == 0 .. m-1
           high == [b \in S |-> b + m]
           Hi == m .. 2*m - 1
<1>1. IsFiniteSet(S) /\ IsFiniteSet(Hi) /\ IsFiniteSet(0 .. 2*m - 1)
  BY FS_Interval
<1>2. S \cup Hi = 0 .. 2*m - 1 /\ S \cap Hi = {}
  OBVIOUS
<1>3. /\ FAdd!Typed(f, S \cup Hi, Field) /\ FAdd!Typed(f, Hi, Field)
      /\ \A b \in S : high[b] \in Hi /\ h[b] = f[high[b]] /\ g[b] = f[b]
      /\ \A b \in S : g[b] \in Field /\ h[b] \in Field
  BY <1>2 DEF FAdd!Typed
<1>4. FAdd!Renames(high, S, Hi)
  <2>1. \A x, y \in S : high[x] = high[y] => x = y
    OBVIOUS
  <2>2. ASSUME NEW z
        PROVE  z \in Hi <=> \E x \in S : z = high[x]
    <3>1. ASSUME z \in Hi
          PROVE  \E x \in S : z = high[x]
      <4>1. z - m \in S /\ z = high[z - m]
        BY <3>1
      <4> QED BY <4>1
    <3>2. \A x \in S : high[x] \in Hi
      OBVIOUS
    <3> QED BY <3>1, <3>2
  <2> HIDE DEF high, Hi, S
  <2> QED BY <2>1, <2>2 DEF FAdd!Renames
<1>5. DOMAIN g = S /\ DOMAIN h = S
  OBVIOUS
<1> HIDE DEF high, S, Hi
<1>6. FAdd!Fold(f, S \cup Hi) = FAdd!Fold(f, S) ++ FAdd!Fold(f, Hi)
  BY <1>1, <1>2, <1>3, TotalMonoid, FiniteTotal, FAdd!FoldUnion
<1>7. FAdd!Fold(h, S) = FAdd!Fold(f, Hi)
  BY <1>1, <1>3, <1>4, TotalMonoid, FiniteTotal, FAdd!FoldRename
<1>8. FAdd!Fold(g, S) = FAdd!Fold(f, S)
  BY <1>1, <1>3, FiniteTotal, FAdd!FoldSame
<1>9. FSum(g) = FAdd!Fold(g, S) /\ FSum(h) = FAdd!Fold(h, S)
  BY <1>1, <1>3, <1>5, FSumIsTotal
<1>10. FSum(f) = FAdd!Fold(f, S \cup Hi)
  BY <1>1, <1>2, FSumIsTotal
<1> QED BY <1>6, <1>7, <1>8, <1>9, <1>10

\* g is the first half of f, h the second.
Joins(m, f, g, h) ==
  /\ m \in Nat
  /\ DOMAIN f = 0 .. 2*m - 1 /\ \A b \in 0 .. 2*m - 1 : f[b] \in Field
  /\ DOMAIN g = 0 .. m-1 /\ \A b \in 0 .. m-1 : g[b] = f[b]
  /\ DOMAIN h = 0 .. m-1 /\ \A b \in 0 .. m-1 : h[b] = f[b + m]

LEMMA FSumJoined ==
  ASSUME NEW m, NEW f, NEW g, NEW h, Joins(m, f, g, h)
  PROVE  FSum(f) = FSum(g) ++ FSum(h)
BY FSumHalves DEF Joins

\* A product over 1 .. n+1: its first factor and the others.
LEMMA FProdFirst ==
  ASSUME NEW n \in Nat, NEW f, NEW g,
         DOMAIN f = 1 .. n+1, \A i \in 1 .. n+1 : f[i] \in Field,
         DOMAIN g = 1 .. n, \A i \in 1 .. n : g[i] = f[i+1]
  PROVE  FProd(f) = f[1] ** FProd(g)
<1> DEFINE S == 1 .. n
           R == 2 .. n+1
           next == [i \in S |-> i+1]
<1>1. IsFiniteSet(S) /\ IsFiniteSet(R) /\ 1 \notin R /\ R \cup {1} = 1 .. n+1
  <2>1. IsFiniteSet(1 .. n)
    BY FS_Interval
  <2>2. IsFiniteSet(2 .. n+1)
    BY FS_Interval
  <2>3. 1 \notin R /\ R \cup {1} = 1 .. n+1
    OBVIOUS
  <2> QED BY <2>1, <2>2, <2>3
<1>2. /\ Mul!Typed(f, R \cup {1}, Field) /\ Mul!Typed(f, R, Field)
      /\ \A i \in S : g[i] = f[next[i]]
  BY <1>1 DEF Mul!Typed
<1>3. Mul!Renames(next, S, R)
  <2>1. \A x, y \in S : next[x] = next[y] => x = y
    OBVIOUS
  <2>2. ASSUME NEW z
        PROVE  z \in R <=> \E x \in S : z = next[x]
    <3>1. ASSUME z \in R
          PROVE  \E x \in S : z = next[x]
      <4>1. z - 1 \in S /\ z = next[z - 1]
        BY <3>1
      <4> QED BY <4>1
    <3> QED BY <3>1
  <2> HIDE DEF next, R, S
  <2> QED BY <2>1, <2>2 DEF Mul!Renames
<1>4. DOMAIN g = S
  OBVIOUS
<1> HIDE DEF next, R, S
<1>5. Mul!Fold(f, R \cup {1}) = f[1] ** Mul!Fold(f, R)
  BY <1>1, <1>2, MulMonoid, FiniteAlike, Mul!FoldAdd
<1>6. Mul!Fold(g, S) = Mul!Fold(f, R)
  BY <1>1, <1>2, <1>3, MulMonoid, FiniteAlike, Mul!FoldRename
<1> QED BY <1>1, <1>4, <1>5, <1>6, ProdIsFold

\* The same for its last factor.
LEMMA FProdLast ==
  ASSUME NEW n \in Nat, NEW f, NEW g,
         DOMAIN f = 1 .. n+1, \A i \in 1 .. n+1 : f[i] \in Field,
         DOMAIN g = 1 .. n, \A i \in 1 .. n : g[i] = f[i]
  PROVE  FProd(f) = f[n+1] ** FProd(g)
<1> DEFINE S == 1 .. n
<1>1. IsFiniteSet(S) /\ n+1 \notin S /\ S \cup {n+1} = 1 .. n+1
  <2>1. IsFiniteSet(S)
    BY FS_Interval
  <2>2. n+1 \notin S /\ S \cup {n+1} = 1 .. n+1
    OBVIOUS
  <2> QED BY <2>1, <2>2
<1>2. Mul!Typed(f, S \cup {n+1}, Field)
  BY <1>1 DEF Mul!Typed
<1>3. DOMAIN g = S /\ \A i \in S : g[i] = f[i]
  OBVIOUS
<1> DEFINE y == n+1
<1> HIDE DEF S, y
<1>4. Mul!Fold(f, S \cup {y}) = f[y] ** Mul!Fold(f, S)
  BY <1>1, <1>2, MulMonoid, FiniteAlike, Mul!FoldAdd DEF y
<1>5. Mul!Fold(g, S) = Mul!Fold(f, S)
  BY <1>1, <1>3, FiniteAlike, Mul!FoldSame
<1> QED BY <1>1, <1>3, <1>4, <1>5, ProdIsFold DEF y
---------------------------------------------------------------------------
(* Powers of two and bits.                                                 *)

LEMMA TwoToThe ==
  /\ 2^0 = 1
  /\ \A n \in Nat : 2^n \in Nat \ {0}
  /\ \A n \in Nat : 2^(n+1) = 2 * 2^n
<1>1. 2^0 = 1
  OBVIOUS
<1>2. ASSUME NEW n \in Nat
      PROVE  IsFiniteSet(1 .. n) /\ IsFiniteSet(SUBSET (1 .. n))
             /\ Cardinality(SUBSET (1 .. n)) = 2^n /\ 2^n \in Nat \ {0}
  <2>1. IsFiniteSet(1 .. n) /\ Cardinality(1 .. n) = n
    BY FS_Interval
  <2>2. IsFiniteSet(SUBSET (1 .. n)) /\ Cardinality(SUBSET (1 .. n)) = 2^n
    BY <2>1, FS_SUBSET
  <2>3. 2^n \in Nat
    BY <2>2, FS_CardinalityType
  <2>4. 2^n # 0
    <3>1. {} \in SUBSET (1 .. n)
      OBVIOUS
    <3> QED BY <2>2, <3>1, FS_EmptySet
  <2> QED BY <2>1, <2>2, <2>3, <2>4
<1>3. ASSUME NEW n \in Nat
      PROVE  2^(n+1) = 2 * 2^n
  <2> DEFINE A == SUBSET (1 .. n)
             B == (SUBSET (1 .. n+1)) \ A
             j == [T \in A |-> T \cup {n+1}]
  <2>1. n+1 \notin 1 .. n /\ 1 .. n+1 = (1 .. n) \cup {n+1}
    OBVIOUS
  <2>2. j \in Bijection(A, B)
    <3>1. \A T \in A : T \cup {n+1} \in B
      BY <2>1
    <3>2. j \in [A -> B]
      BY <3>1
    <3>3. \A T, U \in A : j[T] = j[U] => T = U
      BY <2>1
    <3>4. ASSUME NEW W \in B
          PROVE  \E T \in A : j[T] = W
      <4>1. n+1 \in W /\ W \ {n+1} \in A /\ (W \ {n+1}) \cup {n+1} = W
        BY <2>1
      <4> QED BY <4>1
    <3> HIDE DEF j, A, B
    <3> QED BY <3>2, <3>3, <3>4 DEF Bijection, Injection, Surjection, IsInjective
  <2>3. ExistsBijection(A, B)
    BY <2>2 DEF ExistsBijection
  <2>4. IsFiniteSet(A) /\ Cardinality(A) = 2^n /\ 2^n \in Nat
    BY <1>2
  <2>5. IsFiniteSet(B) /\ Cardinality(B) = 2^n
    <3> HIDE DEF A, B
    <3> QED BY <2>3, <2>4, FS_Bijection
  <2>6. A \cup B = SUBSET (1 .. n+1) /\ A \cap B = {}
    BY <2>1
  <2>7. Cardinality(SUBSET (1 .. n+1)) = 2^(n+1)
    <3>1. n+1 \in Nat
      OBVIOUS
    <3> QED BY <1>2, <3>1
  <2>8. Cardinality(A \cup B) = Cardinality(A) + Cardinality(B) - Cardinality({})
    <3> HIDE DEF A, B
    <3> QED BY <2>4, <2>5, <2>6, FS_Union
  <2>9. Cardinality({}) = 0
    BY FS_EmptySet
  <2> HIDE DEF A, B, j
  <2>10. Cardinality(A \cup B) = 2^n + 2^n
    BY <2>4, <2>5, <2>6, <2>8, <2>9
  <2>11. Cardinality(A \cup B) = 2^(n+1)
    BY <2>6, <2>7, Zenon
  <2>12. PICK x \in Nat : x = 2^n
    BY <2>4
  <2>13. 2^(n+1) = x + x
    BY <2>10, <2>11, <2>12, Zenon
  <2>14. x + x = 2 * x
    OBVIOUS
  <2> QED BY <2>12, <2>13, <2>14, Zenon
<1> QED BY <1>1, <1>2, <1>3

\* Dividing twice divides by the product.
LEMMA HalvesFirst ==
  ASSUME NEW b \in Nat, NEW t \in {0, 1}, NEW q \in Nat \ {0}
  PROVE  (2*b + t) \div (2*q) = b \div q
<1> DEFINE d == b \div q
           r == b % q
<1>1. d \in Int /\ r \in 0 .. q-1 /\ b = q * d + r
  OBVIOUS
<1> HIDE DEF d, r
<1>2. PICK s \in 0 .. 2*q - 1 : s = 2*r + t
  BY <1>1
<1>3. PICK c \in Nat \ {0} : c = 2*q
  OBVIOUS
<1>4. 2*b + t = c * d + s
  BY <1>1, <1>2, <1>3
<1>5. (c * d + s) \div c = d
  BY <1>1, <1>2, <1>3
<1> QED BY <1>3, <1>4, <1>5 DEF d

\* The bits of 2b + t: t, then those of b.
LEMMA BitsOfDouble ==
  ASSUME NEW n \in Nat, NEW b \in Nat, NEW t \in {0, 1}
  PROVE  bit_decompose(2*b + t, n+1) = <<t>> \o bit_decompose(b, n)
<1> DEFINE lhs == bit_decompose(2*b + t, n+1)
           low == bit_decompose(b, n)
<1>1. ASSUME NEW i \in 1 .. n+1
      PROVE  lhs[i] = IF i = 1 THEN t ELSE low[i-1]
  <2>1. CASE i = 1
    <3>1. 2^(i-1) = 1
      BY <2>1
    <3>2. ((2*b + t) \div 1) % 2 = t
      OBVIOUS
    <3> QED BY <2>1, <3>1, <3>2 DEF bit_decompose
  <2>2. CASE i # 1
    <3>1. PICK j \in Nat : i = j + 2
      <4>1. i - 2 \in Nat /\ i = (i - 2) + 2
        BY <2>2
      <4> QED BY <4>1
    <3>2. i - 1 = j + 1 /\ (i-1) - 1 = j /\ i-1 \in 1 .. n
      BY <2>2, <3>1
    <3>3. 2^(i-1) = 2 * 2^j /\ 2^j \in Nat \ {0}
      BY <3>2, TwoToThe
    <3>4. PICK q \in Nat \ {0} : q = 2^j
      BY <3>3
    <3>5. (2*b + t) \div (2*q) = b \div q
      BY HalvesFirst
    <3>6. lhs[i] = ((2*b + t) \div 2^(i-1)) % 2
      BY DEF bit_decompose
    <3>7. low[i-1] = (b \div 2^j) % 2
      BY <3>2 DEF bit_decompose
    <3> QED BY <2>2, <3>3, <3>4, <3>5, <3>6, <3>7
  <2> QED BY <2>1, <2>2
<1>2. low \in Seq(Int) /\ Len(low) = n
  <2>1. \A i \in 1 .. n : 2^(i-1) \in Nat \ {0}
    BY TwoToThe
  <2>2. \A i \in 1 .. n : (b \div 2^(i-1)) % 2 \in Int
    BY <2>1
  <2>3. low \in [1 .. n -> Int]
    BY <2>2 DEF bit_decompose
  <2> HIDE DEF low
  <2> QED BY <2>3
<1>3. lhs \in [1 .. n+1 -> Int]
  <2>1. ASSUME NEW i \in 1 .. n+1
        PROVE  lhs[i] \in Int
    <3> HIDE DEF lhs, low
    <3>1. i # 1 => low[i-1] \in Int
      BY <1>2
    <3> QED BY <1>1, <3>1
  <2>2. lhs = [i \in 1 .. n+1 |-> lhs[i]]
    BY DEF bit_decompose
  <2> HIDE DEF lhs
  <2> QED BY <2>1, <2>2
<1>4. lhs \in Seq(Int) /\ Len(lhs) = n+1
  <2> HIDE DEF lhs
  <2> QED BY <1>3
<1> HIDE DEF lhs, low
<1>5. /\ <<t>> \o low \in Seq(Int) /\ Len(<<t>> \o low) = n+1
      /\ \A i \in 1 .. n+1 :
           (<<t>> \o low)[i] = IF i = 1 THEN t ELSE low[i-1]
  <2>1. <<t>> \in Seq(Int) /\ Len(<<t>>) = 1 /\ <<t>>[1] = t
    OBVIOUS
  <2> QED BY <1>2, <2>1, ConcatProperties
<1>6. lhs = <<t>> \o low
  <2> DEFINE rhs == <<t>> \o low
  <2>1. /\ lhs \in Seq(Int) /\ rhs \in Seq(Int) /\ Len(lhs) = Len(rhs)
        /\ \A i \in 1 .. Len(lhs) : lhs[i] = rhs[i]
    BY <1>1, <1>4, <1>5
  <2> HIDE DEF rhs
  <2>2. lhs = rhs
    BY <2>1, SeqEqual
  <2> QED BY <2>2 DEF rhs
<1> QED BY <1>6 DEF lhs, low

---------------------------------------------------------------------------
(* Extensions, one variable at a time.                                     *)

\* The power of a sum.
LEMMA PowersMultiply ==
  ASSUME NEW i \in Nat, NEW k \in Nat
  PROVE  2^(i+k) = 2^i * 2^k
<1> DEFINE S == {e \in Nat : 2^(i+e) = 2^i * 2^e}
<1>1. 0 \in S
  <2>1. 2^i \in Nat /\ 2^0 = 1 /\ i + 0 = i
    BY TwoToThe
  <2> QED BY <2>1
<1>2. ASSUME NEW e \in Nat, e \in S
      PROVE  e + 1 \in S
  <2>1. 2^(i+e) = 2^i * 2^e
    BY <1>2
  <2>2. 2^((i+e)+1) = 2 * 2^(i+e) /\ 2^(e+1) = 2 * 2^e
    BY TwoToThe
  <2>3. i + (e+1) = (i+e) + 1
    OBVIOUS
  <2>4. PICK x \in Nat, y \in Nat : x = 2^i /\ y = 2^e
    BY TwoToThe
  <2>5. 2 * (x * y) = x * (2 * y)
    OBVIOUS
  <2>6. 2^(i + (e+1)) = 2^i * 2^(e+1)
    BY <2>1, <2>2, <2>3, <2>4, <2>5, Zenon
  <2> QED BY <2>6
<1>3. k \in S
  <2> HIDE DEF S
  <2> QED BY <1>1, <1>2, Add!NaturalInduction
<1> QED BY <1>3

LEMMA BitsOfSum ==
  ASSUME NEW b \in Nat, NEW t \in {0, 1}
  PROVE  /\ Bit(2*b + t, 0) = t
         /\ \A i \in Nat : Bit(2*b + t, i+1) = Bit(b, i)
<1>1. Bit(2*b + t, 0) = t
  <2>1. 2^0 = 1 /\ ((2*b + t) \div 1) % 2 = t
    OBVIOUS
  <2> QED BY <2>1 DEF Bit
<1>2. ASSUME NEW i \in Nat
      PROVE  Bit(2*b + t, i+1) = Bit(b, i)
  <2>1. PICK q \in Nat \ {0} : q = 2^i /\ 2^(i+1) = 2 * q
    BY TwoToThe
  <2>2. (2*b + t) \div (2*q) = b \div q
    BY HalvesFirst
  <2> QED BY <2>1, <2>2 DEF Bit
<1> QED BY <1>1, <1>2

\* Adding the top bit leaves the others alone.
LEMMA BitsUnderTop ==
  ASSUME NEW m \in Nat, NEW b \in Index(m), NEW t \in {0, 1}
  PROVE  /\ Bit(b + t * 2^m, m) = t
         /\ \A i \in 0 .. m-1 : Bit(b + t * 2^m, i) = Bit(b, i)
<1>1. PICK p \in Nat \ {0} : p = 2^m
  BY TwoToThe
<1>2. b \in 0 .. p-1
  BY <1>1 DEF Index
<1>3. Bit(b + t * 2^m, m) = t
  <2>1. (b + t * p) \div p = t
    <3>1. CASE t = 0
      BY <1>2, <3>1
    <3>2. CASE t = 1
      BY <1>2, <3>2
    <3> QED BY <3>1, <3>2
  <2>2. t % 2 = t
    OBVIOUS
  <2> QED BY <1>1, <2>1, <2>2 DEF Bit
<1>4. ASSUME NEW i \in 0 .. m-1
      PROVE  Bit(b + t * 2^m, i) = Bit(b, i)
  <2>1. CASE t = 0
    BY <1>1, <1>2, <2>1
  <2>2. CASE t = 1
    <3>1. i \in Nat /\ m - i - 1 \in Nat /\ m = i + ((m - i - 1) + 1)
      OBVIOUS
    <3>2. PICK q \in Nat \ {0}, k \in Nat : q = 2^i /\ k = 2^(m - i - 1)
      BY <3>1, TwoToThe
    <3>3. 2^((m - i - 1) + 1) = 2 * k
      BY <3>1, <3>2, TwoToThe
    <3>4. p = q * (2 * k)
      <4>1. 2^(i + ((m - i - 1) + 1)) = 2^i * 2^((m - i - 1) + 1)
        BY <3>1, PowersMultiply
      <4> QED BY <1>1, <3>1, <3>2, <3>3, <4>1
    <3>5. PICK d \in Nat, s \in 0 .. q-1 : b = q * d + s /\ d = b \div q
      BY <1>2
    <3>6. PICK e \in Nat : e = d + 2 * k
      OBVIOUS
    <3>7. b + p = q * e + s
      <4>1. q * e = q * d + q * (2 * k)
        BY <3>6
      <4> QED BY <3>4, <3>5, <4>1
    <3>8. (q * e + s) \div q = e
      OBVIOUS
    <3>9. e % 2 = d % 2
      BY <3>2, <3>5, <3>6
    <3>10. Bit(b + t * 2^m, i) = ((b + p) \div q) % 2
      BY <1>1, <2>2, <3>2 DEF Bit
    <3>11. (b + p) \div q = e
      BY <3>7, <3>8, Zenon
    <3>12. Bit(b, i) = d % 2
      BY <3>2, <3>5 DEF Bit
    <3> QED BY <3>9, <3>10, <3>11, <3>12
  <2> QED BY <2>1, <2>2
<1> QED BY <1>3, <1>4

Share(t, r) == IF t = 1 THEN r ELSE 1 -- r

LEMMA PointFacts ==
  ASSUME NEW m \in Nat, NEW rest \in Point(m), NEW r \in Field
  PROVE  /\ rest \in Seq(Field) /\ Len(rest) = m /\ DOMAIN rest = 1 .. m
         /\ \A i \in 1 .. m : rest[i] \in Field
         /\ <<r>> \o rest \in Point(m+1)
         /\ (<<r>> \o rest)[1] = r
         /\ \A i \in 1 .. m : (<<r>> \o rest)[i+1] = rest[i]
         /\ rest \o <<r>> \in Point(m+1)
         /\ (rest \o <<r>>)[m+1] = r
         /\ \A i \in 1 .. m : (rest \o <<r>>)[i] = rest[i]
<1>1. /\ rest \in Seq(Field) /\ Len(rest) = m /\ DOMAIN rest = 1 .. m
      /\ \A i \in 1 .. m : rest[i] \in Field
  BY DEF Point
<1>2. <<r>> \in Seq(Field) /\ Len(<<r>>) = 1 /\ <<r>>[1] = r
  OBVIOUS
<1>3. /\ <<r>> \o rest \in Seq(Field) /\ Len(<<r>> \o rest) = m+1
      /\ \A i \in 1 .. m+1 : (<<r>> \o rest)[i] = IF i <= 1 THEN r ELSE rest[i-1]
  BY <1>1, <1>2, ConcatProperties
<1>4. /\ rest \o <<r>> \in Seq(Field) /\ Len(rest \o <<r>>) = m+1
      /\ \A i \in 1 .. m+1 : (rest \o <<r>>)[i] = IF i <= m THEN rest[i] ELSE r
  BY <1>1, <1>2, ConcatProperties
<1>5. \A s \in Seq(Field) : Len(s) = m+1 => s \in [1 .. m+1 -> Field]
  OBVIOUS
<1> DEFINE front == <<r>> \o rest
           back == rest \o <<r>>
<1> HIDE DEF front, back
<1>6. front \in Point(m+1) /\ front[1] = r
      /\ \A i \in 1 .. m : front[i+1] = rest[i]
  <2>1. front \in Seq(Field) /\ Len(front) = m+1
    BY <1>3 DEF front
  <2>2. front \in Point(m+1)
    BY <1>5, <2>1 DEF Point
  <2>3. front[1] = r
    BY <1>3 DEF front
  <2>4. ASSUME NEW i \in 1 .. m
        PROVE  front[i+1] = rest[i]
    <3>1. i+1 \in 1 .. m+1 /\ ~ (i+1 <= 1) /\ (i+1) - 1 = i
      OBVIOUS
    <3> QED BY <1>3, <3>1 DEF front
  <2> QED BY <2>2, <2>3, <2>4
<1>7. back \in Point(m+1) /\ back[m+1] = r
      /\ \A i \in 1 .. m : back[i] = rest[i]
  <2>1. back \in Seq(Field) /\ Len(back) = m+1
    BY <1>4 DEF back
  <2>2. back \in Point(m+1)
    BY <1>5, <2>1 DEF Point
  <2>3. back[m+1] = r /\ \A i \in 1 .. m : back[i] = rest[i]
    BY <1>4 DEF back
  <2> QED BY <2>2, <2>3
<1> QED BY <1>1, <1>6, <1>7 DEF front, back

LEMMA BasisType ==
  ASSUME NEW m \in Nat, NEW x \in Point(m), NEW b
  PROVE  Basis(b, x) \in Field
<1> DEFINE fam == [i \in DOMAIN x |-> IF Bit(b, i-1) = 1 THEN x[i] ELSE 1 -- x[i]]
<1>1. DOMAIN fam = 1 .. m /\ IsFiniteSet(1 .. m)
  BY FS_Interval DEF Point
<1>2. \A i \in 1 .. m : fam[i] \in Field
  BY FieldClosed DEF Point
<1> HIDE DEF fam
<1>3. FProd(fam) \in Field
  BY <1>1, <1>2, FProdType
<1> QED BY <1>3 DEF Basis, fam

LEMMA BasisFirst ==
  ASSUME NEW m \in Nat, NEW rest \in Point(m), NEW r \in Field,
         NEW b \in Nat, NEW t \in {0, 1}
  PROVE  Basis(2*b + t, <<r>> \o rest) = Share(t, r) ** Basis(b, rest)
<1> DEFINE x == <<r>> \o rest
           c == 2*b + t
           fx == [i \in DOMAIN x |-> IF Bit(c, i-1) = 1 THEN x[i] ELSE 1 -- x[i]]
           fr == [i \in DOMAIN rest |-> IF Bit(b, i-1) = 1 THEN rest[i] ELSE 1 -- rest[i]]
<1>1. /\ DOMAIN x = 1 .. m+1 /\ x[1] = r /\ \A i \in 1 .. m : x[i+1] = rest[i]
      /\ \A i \in 1 .. m+1 : x[i] \in Field
      /\ DOMAIN rest = 1 .. m
  BY PointFacts DEF Point
<1>2. Bit(c, 0) = t /\ \A i \in 1 .. m : Bit(c, i) = Bit(b, i-1)
  <2>1. ASSUME NEW i \in 1 .. m
        PROVE  Bit(c, i) = Bit(b, i-1)
    <3>1. PICK j \in Nat : j = i - 1
      OBVIOUS
    <3>2. Bit(c, j+1) = Bit(b, j)
      BY BitsOfSum
    <3>3. j + 1 = i
      BY <3>1
    <3> QED BY <3>1, <3>2, <3>3, Zenon
  <2> QED BY <2>1, BitsOfSum
<1> HIDE DEF x, c
<1>3. \A i \in 1 .. m+1 : fx[i] \in Field
  BY <1>1, FieldClosed
<1>4. fx[1] = Share(t, r)
  BY <1>1, <1>2 DEF Share
<1>5. \A i \in 1 .. m : fr[i] = fx[i+1]
  <2>1. \A i \in 1 .. m : i+1 \in 1 .. m+1 /\ (i+1) - 1 = i
    OBVIOUS
  <2> QED BY <1>1, <1>2, <2>1
<1>6. DOMAIN fx = 1 .. m+1 /\ DOMAIN fr = 1 .. m
  BY <1>1
<1> HIDE DEF fx, fr
<1>7. FProd(fx) = fx[1] ** FProd(fr)
  BY <1>3, <1>5, <1>6, FProdFirst
<1> QED BY <1>4, <1>7 DEF Basis, fx, fr, x, c

LEMMA BasisLast ==
  ASSUME NEW m \in Nat, NEW rest \in Point(m), NEW r \in Field,
         NEW b \in Index(m), NEW t \in {0, 1}
  PROVE  Basis(b + t * 2^m, rest \o <<r>>) = Share(t, r) ** Basis(b, rest)
<1> DEFINE x == rest \o <<r>>
           c == b + t * 2^m
           fx == [i \in DOMAIN x |-> IF Bit(c, i-1) = 1 THEN x[i] ELSE 1 -- x[i]]
           fr == [i \in DOMAIN rest |-> IF Bit(b, i-1) = 1 THEN rest[i] ELSE 1 -- rest[i]]
<1>1. /\ DOMAIN x = 1 .. m+1 /\ x[m+1] = r /\ \A i \in 1 .. m : x[i] = rest[i]
      /\ \A i \in 1 .. m+1 : x[i] \in Field
      /\ DOMAIN rest = 1 .. m
  <2>1. x \in Point(m+1) /\ x[m+1] = r /\ \A i \in 1 .. m : x[i] = rest[i]
    BY PointFacts
  <2> HIDE DEF x
  <2> QED BY <2>1 DEF Point
<1>2. Bit(c, m) = t /\ \A i \in 1 .. m : Bit(c, i-1) = Bit(b, i-1)
  <2>1. \A i \in 1 .. m : i - 1 \in 0 .. m-1
    OBVIOUS
  <2> QED BY <2>1, BitsUnderTop
<1> HIDE DEF x, c
<1>3. \A i \in 1 .. m+1 : fx[i] \in Field
  BY <1>1, FieldClosed
<1>4. fx[m+1] = Share(t, r)
  <2>1. (m+1) - 1 = m /\ m+1 \in 1 .. m+1
    OBVIOUS
  <2> QED BY <1>1, <1>2, <2>1 DEF Share
<1>5. \A i \in 1 .. m : fr[i] = fx[i]
  BY <1>1, <1>2
<1>6. DOMAIN fx = 1 .. m+1 /\ DOMAIN fr = 1 .. m
  BY <1>1
<1> HIDE DEF fx, fr
<1>7. FProd(fx) = fx[m+1] ** FProd(fr)
  BY <1>3, <1>5, <1>6, FProdLast
<1> QED BY <1>4, <1>7 DEF Basis, fx, fr, x, c

\* Half of an index.
LEMMA IndexFacts ==
  ASSUME NEW m \in Nat
  PROVE  /\ 2^m \in Nat \ {0} /\ 2^(m+1) = 2 * 2^m
         /\ Index(m) = 0 .. 2^m - 1 /\ Index(m+1) = 0 .. 2 * 2^m - 1
         /\ Index(m) \subseteq Nat
         /\ \A b \in Index(m) : /\ 2*b \in Index(m+1) /\ 2*b + 1 \in Index(m+1)
                                /\ b \in Index(m+1) /\ b + 2^m \in Index(m+1)
<1>1. PICK q \in Nat \ {0} : q = 2^m /\ 2^(m+1) = 2 * q
  BY TwoToThe
<1>2. \A b \in 0 .. q-1 : /\ 2*b \in 0 .. 2*q - 1 /\ 2*b + 1 \in 0 .. 2*q - 1
                          /\ b \in 0 .. 2*q - 1 /\ b + q \in 0 .. 2*q - 1
  OBVIOUS
<1>3. Index(m) = 0 .. q - 1 /\ Index(m+1) = 0 .. 2 * q - 1
  BY <1>1 DEF Index
<1> QED BY <1>1, <1>2, <1>3

\* Binding the first variable: neighbours are blended.
LEMMA ExtensionFirst ==
  ASSUME NEW m \in Nat, NEW data \in Table(m+1), NEW r \in Field, NEW rest \in Point(m),
         NEW g, DOMAIN g = Index(m),
         \A b \in Index(m) : g[b] = data[2*b] ++ ((data[2*b + 1] -- data[2*b]) ** r)
  PROVE  Extension(g, rest) = Extension(data, <<r>> \o rest)
<1> DEFINE x == <<r>> \o rest
           q == 2^m
           S == 0 .. q-1
           all == [b \in DOMAIN data |-> data[b] ** Basis(b, x)]
           even == [b \in S |-> data[2*b] ** ((1 -- r) ** Basis(b, rest))]
           odd == [b \in S |-> data[2*b + 1] ** (r ** Basis(b, rest))]
           new == [b \in DOMAIN g |-> g[b] ** Basis(b, rest)]
<1>1. /\ q \in Nat \ {0} /\ Index(m) = S /\ DOMAIN data = 0 .. 2*q - 1 /\ S \subseteq Nat
      /\ \A b \in S : 2*b \in 0 .. 2*q - 1 /\ 2*b + 1 \in 0 .. 2*q - 1
      /\ \A b \in 0 .. 2*q - 1 : data[b] \in Field
  <2>1. /\ q \in Nat \ {0} /\ Index(m) = S /\ Index(m+1) = 0 .. 2*q - 1
    BY IndexFacts
  <2>2. DOMAIN data = Index(m+1) /\ \A b \in Index(m+1) : data[b] \in Field
    BY DEF Table
  <2> HIDE DEF q
  <2> QED BY <2>1, <2>2
<1>f. IsFiniteSet(S)
  <2> HIDE DEF q
  <2> QED BY <1>1, FS_Interval
<1>2. x \in Point(m+1)
  BY PointFacts
<1>3. \A b \in S : /\ Basis(2*b, x) = (1 -- r) ** Basis(b, rest)
                   /\ Basis(2*b + 1, x) = r ** Basis(b, rest)
  <2> SUFFICES ASSUME NEW b \in S
               PROVE  /\ Basis(2*b, x) = (1 -- r) ** Basis(b, rest)
                      /\ Basis(2*b + 1, x) = r ** Basis(b, rest)
    OBVIOUS
  <2>1. b \in Nat /\ 2*b + 0 = 2*b
    BY <1>1
  <2>2. Basis(2*b + 0, x) = Share(0, r) ** Basis(b, rest)
    BY <2>1, BasisFirst
  <2>3. Basis(2*b + 1, x) = Share(1, r) ** Basis(b, rest)
    BY <2>1, BasisFirst
  <2> QED BY <2>1, <2>2, <2>3 DEF Share
<1>4. \A b \in 0 .. 2*q - 1 : Basis(b, x) \in Field
  BY <1>2, BasisType
<1>5. \A b \in S : Basis(b, rest) \in Field
  BY BasisType
<1> HIDE DEF x, q
<1>6. /\ DOMAIN all = 0 .. 2*q - 1 /\ \A b \in 0 .. 2*q - 1 : all[b] \in Field
      /\ DOMAIN even = S /\ DOMAIN odd = S /\ DOMAIN new = S
  BY <1>1, <1>4, FieldClosed
<1>7. \A b \in S : even[b] = all[2*b] /\ odd[b] = all[2*b + 1]
  BY <1>1, <1>3
<1>8. \A b \in S : new[b] = even[b] ++ odd[b]
  <2> SUFFICES ASSUME NEW b \in S PROVE new[b] = even[b] ++ odd[b]
    OBVIOUS
  <2>1. PICK u \in Field, v \in Field, w \in Field :
          u = data[2*b] /\ v = data[2*b + 1] /\ w = Basis(b, rest)
    BY <1>1, <1>5
  <2>2. new[b] = (u ++ ((v -- u) ** r)) ** w
    BY <1>1, <2>1
  <2>3. even[b] = u ** ((1 -- r) ** w) /\ odd[b] = v ** (r ** w)
    BY <2>1
  <2> QED BY <2>2, <2>3, Blend
<1>9. /\ \A b \in 0 .. 2*q - 1 : all[b] \in Int
      /\ \A b \in S : even[b] \in Field /\ odd[b] \in Field
  BY <1>1, <1>6, <1>7, FieldClosed
<1>10. DOMAIN data = 0 .. 2*q - 1
  BY <1>1
<1> HIDE DEF all, even, odd, new
<1>11. FSum(all) = FSum(even) ++ FSum(odd)
  <2>1. /\ q \in Nat
        /\ DOMAIN all = 0 .. 2*q - 1 /\ \A b \in 0 .. 2*q - 1 : all[b] \in Int
        /\ DOMAIN even = 0 .. q-1 /\ \A b \in 0 .. q-1 : even[b] = all[2*b]
        /\ DOMAIN odd = 0 .. q-1 /\ \A b \in 0 .. q-1 : odd[b] = all[2*b + 1]
    BY <1>1, <1>6, <1>7, <1>9
  <2>2. Interleaves(q, all, even, odd)
    BY <2>1 DEF Interleaves
  <2> QED BY <2>2, FSumInterleaved
<1>12. FSum(new) = FSum(even) ++ FSum(odd)
  <2> HIDE DEF S
  <2> QED BY <1>f, <1>6, <1>8, <1>9, FSumPlus
<1> QED BY <1>11, <1>12 DEF Extension, all, new, x

\* Binding the last variable: the halves are blended.
LEMMA ExtensionLast ==
  ASSUME NEW m \in Nat, NEW data \in Table(m+1), NEW r \in Field, NEW rest \in Point(m),
         NEW g, DOMAIN g = Index(m),
         \A b \in Index(m) : g[b] = data[b] ++ ((data[b + 2^m] -- data[b]) ** r)
  PROVE  Extension(g, rest) = Extension(data, rest \o <<r>>)
<1> DEFINE x == rest \o <<r>>
           q == 2^m
           S == 0 .. q-1
           all == [b \in DOMAIN data |-> data[b] ** Basis(b, x)]
           low == [b \in S |-> data[b] ** ((1 -- r) ** Basis(b, rest))]
           high == [b \in S |-> data[b + q] ** (r ** Basis(b, rest))]
           new == [b \in DOMAIN g |-> g[b] ** Basis(b, rest)]
<1>1. /\ q \in Nat \ {0} /\ Index(m) = S /\ DOMAIN data = 0 .. 2*q - 1 /\ S \subseteq Nat
      /\ \A b \in S : b \in 0 .. 2*q - 1 /\ b + q \in 0 .. 2*q - 1
      /\ \A b \in 0 .. 2*q - 1 : data[b] \in Field
  <2>1. /\ q \in Nat \ {0} /\ Index(m) = S /\ Index(m+1) = 0 .. 2*q - 1
    BY IndexFacts
  <2>2. DOMAIN data = Index(m+1) /\ \A b \in Index(m+1) : data[b] \in Field
    BY DEF Table
  <2> HIDE DEF q
  <2> QED BY <2>1, <2>2
<1>f. IsFiniteSet(S)
  <2> HIDE DEF q
  <2> QED BY <1>1, FS_Interval
<1>2. x \in Point(m+1)
  BY PointFacts
<1>3. \A b \in S : /\ Basis(b, x) = (1 -- r) ** Basis(b, rest)
                   /\ Basis(b + q, x) = r ** Basis(b, rest)
  <2> SUFFICES ASSUME NEW b \in S
               PROVE  /\ Basis(b, x) = (1 -- r) ** Basis(b, rest)
                      /\ Basis(b + q, x) = r ** Basis(b, rest)
    OBVIOUS
  <2>1. b \in Index(m) /\ b + 0 * q = b /\ b + 1 * q = b + q
    BY <1>1
  <2>2. Basis(b + 0 * 2^m, x) = Share(0, r) ** Basis(b, rest)
    BY <2>1, BasisLast
  <2>3. Basis(b + 1 * 2^m, x) = Share(1, r) ** Basis(b, rest)
    BY <2>1, BasisLast
  <2> QED BY <2>1, <2>2, <2>3 DEF Share
<1>4. \A b \in 0 .. 2*q - 1 : Basis(b, x) \in Field
  BY <1>2, BasisType
<1>5. \A b \in S : Basis(b, rest) \in Field
  BY BasisType
<1>g. \A b \in S : g[b] = data[b] ++ ((data[b + q] -- data[b]) ** r)
  BY <1>1
<1> HIDE DEF x, q
<1>6. /\ DOMAIN all = 0 .. 2*q - 1 /\ \A b \in 0 .. 2*q - 1 : all[b] \in Field
      /\ DOMAIN low = S /\ DOMAIN high = S /\ DOMAIN new = S
  BY <1>1, <1>4, FieldClosed
<1>7. \A b \in S : low[b] = all[b] /\ high[b] = all[b + q]
  BY <1>1, <1>3
<1>8. \A b \in S : new[b] = low[b] ++ high[b]
  <2> SUFFICES ASSUME NEW b \in S PROVE new[b] = low[b] ++ high[b]
    OBVIOUS
  <2>1. PICK u \in Field, v \in Field, w \in Field :
          u = data[b] /\ v = data[b + q] /\ w = Basis(b, rest)
    BY <1>1, <1>5
  <2>2. new[b] = (u ++ ((v -- u) ** r)) ** w
    BY <1>1, <1>g, <2>1
  <2>3. low[b] = u ** ((1 -- r) ** w) /\ high[b] = v ** (r ** w)
    BY <2>1
  <2> QED BY <2>2, <2>3, Blend
<1>9. \A b \in S : low[b] \in Field /\ high[b] \in Field
  BY <1>1, <1>6, <1>7
<1>10. DOMAIN data = 0 .. 2*q - 1
  BY <1>1
<1> HIDE DEF all, low, high, new
<1>11. FSum(all) = FSum(low) ++ FSum(high)
  <2>1. /\ q \in Nat
        /\ DOMAIN all = 0 .. 2*q - 1 /\ \A b \in 0 .. 2*q - 1 : all[b] \in Field
        /\ DOMAIN low = 0 .. q-1 /\ \A b \in 0 .. q-1 : low[b] = all[b]
        /\ DOMAIN high = 0 .. q-1 /\ \A b \in 0 .. q-1 : high[b] = all[b + q]
    BY <1>1, <1>6, <1>7
  <2>2. Joins(q, all, low, high)
    BY <2>1 DEF Joins
  <2> QED BY <2>2, FSumJoined
<1>12. FSum(new) = FSum(low) ++ FSum(high)
  <2> HIDE DEF S
  <2> QED BY <1>f, <1>6, <1>8, <1>9, FSumPlus
<1> QED BY <1>11, <1>12 DEF Extension, all, new, x

---------------------------------------------------------------------------
(* Pieces of a sequence.                                                   *)

\* The piece of a point between two positions.
LEMMA Piece ==
  ASSUME NEW S, NEW s \in Seq(S), NEW a \in 1 .. Len(s) + 1, NEW b \in 0 .. Len(s), a <= b + 1
  PROVE  /\ SubSeq(s, a, b) \in Seq(S)
         /\ Len(SubSeq(s, a, b)) = b - a + 1
         /\ \A j \in 1 .. b - a + 1 : SubSeq(s, a, b)[j] = s[a + j - 1]
<1>1. Len(s) \in Nat /\ a \in Int /\ b \in Int
  BY LenProperties
<1>2. \A j \in a .. b : s[j] \in S
  BY <1>1, ElementOfSeq
<1>3. /\ SubSeq(s, a, b) \in Seq(S)
      /\ Len(SubSeq(s, a, b)) = IF a <= b THEN b - a + 1 ELSE 0
      /\ \A j \in 1 .. b - a + 1 : SubSeq(s, a, b)[j] = s[a + j - 1]
  BY <1>1, <1>2, SubSeqProperties
<1> QED BY <1>1, <1>3

---------------------------------------------------------------------------
(* Inverses.                                                               *)

LEMMA SubtractionLaws ==
  /\ \A a \in Field : a -- a = 0 /\ a -- 0 = a
  /\ \A a, b \in Field : a -- b = 0 => a = b
  /\ \A a, b \in Field : a -- b = a ++ (0 -- b)
  /\ \A a, b \in Field : 0 -- (a -- b) = b -- a
  /\ \A a, b \in Field : a ++ b = 0 => a = 0 -- b
<1>1. PICK p \in Nat \ {0, 1} : p = P
  BY PAssumption
<1>2. \A a \in 0 .. p-1 : (a - a) % p = 0 /\ (a - 0) % p = a
  OBVIOUS
<1>3. \A a, b \in 0 .. p-1 : (a - b) % p = IF a >= b THEN a - b ELSE a - b + p
  OBVIOUS
<1>4. \A a, b \in 0 .. p-1 : (a + b) % p = IF a + b >= p THEN a + b - p ELSE a + b
  OBVIOUS
<1>5. /\ \A a, b \in Field : a -- b = IF a >= b THEN a - b ELSE a - b + p
      /\ \A a, b \in Field : a ++ b = IF a + b >= p THEN a + b - p ELSE a + b
      /\ Field = 0 .. p-1
  BY <1>1, <1>3, <1>4 DEF Field, --, ++
<1>6. ASSUME NEW a \in Field
      PROVE  /\ a -- a = 0 /\ a -- 0 = a
             /\ 0 -- a = IF a = 0 THEN 0 ELSE p - a
  <2>1. a \in 0 .. p-1 /\ 0 \in Field
    BY <1>5
  <2>2. a -- a = a - a /\ a -- 0 = a - 0
    BY <1>5, <2>1
  <2>3. 0 -- a = IF 0 >= a THEN 0 - a ELSE 0 - a + p
    BY <1>5, <2>1
  <2> QED BY <2>1, <2>2, <2>3
<1>7. ASSUME NEW a \in Field, NEW b \in Field
      PROVE  /\ a -- b = 0 => a = b
             /\ a -- b = a ++ (0 -- b)
             /\ 0 -- (a -- b) = b -- a
             /\ a ++ b = 0 => a = 0 -- b
  <2>1. a \in 0 .. p-1 /\ b \in 0 .. p-1 /\ a -- b \in Field /\ 0 -- b \in Field
    BY <1>5, FieldClosed
  <2>2. a -- b = IF a >= b THEN a - b ELSE a - b + p
    BY <1>5
  <2>3. b -- a = IF b >= a THEN b - a ELSE b - a + p
    BY <1>5
  <2>4. a ++ b = IF a + b >= p THEN a + b - p ELSE a + b
    BY <1>5
  <2>5. 0 -- b = IF b = 0 THEN 0 ELSE p - b
    BY <1>6
  <2>6. 0 -- (a -- b) = IF a -- b = 0 THEN 0 ELSE p - (a -- b)
    BY <1>6, <2>1
  <2>7. a ++ (0 -- b) = IF a + (0 -- b) >= p THEN a + (0 -- b) - p ELSE a + (0 -- b)
    BY <1>5, <2>1
  <2>8. a -- b = 0 => a = b
    BY <2>1, <2>2
  <2>9. a -- b = a ++ (0 -- b)
    BY <2>1, <2>2, <2>5, <2>7
  <2>10. 0 -- (a -- b) = b -- a
    BY <2>1, <2>2, <2>3, <2>6
  <2>11. a ++ b = 0 => a = 0 -- b
    BY <2>1, <2>4, <2>5
  <2> QED BY <2>8, <2>9, <2>10, <2>11
<1> QED BY <1>6, <1>7

\* A non-zero element has an inverse: the least non-zero multiple of a is 1,
\* since it divides P and P is a prime.
LEMMA InverseExists ==
  ASSUME NEW a \in Field, a # 0
  PROVE  \E b \in Field : (a * b) % P = 1
<1> DEFINE T == {m \in 1 .. P-1 : \E k \in Field : m = a ** k}
<1>1. P \in Nat \ {0, 1} /\ \A u, v \in 2 .. P-1 : u * v # P
  BY PAssumption
<1>2. a ** 1 = a
  BY FieldClosed, FieldLaws
<1>3. a \in T
  BY <1>1, <1>2, FieldClosed DEF Field
<1>4. T \in SUBSET Nat /\ T # {}
  BY <1>1, <1>3
<1>5. PICK m \in T : \A u \in T : m <= u
  <2> HIDE DEF T
  <2> QED BY <1>4, Add!LeastNatural
<1>6. PICK k \in Field : m = a ** k
  OBVIOUS
<1>7. m \in 1 .. P-1
  OBVIOUS
<1>8. CASE m = 1
  BY <1>6, <1>8 DEF **
<1>9. CASE m # 1
  <2> DEFINE q == P \div m
             r == P % m
  <2>1. q \in Nat /\ r \in 0 .. m-1 /\ P = m * q + r
    BY <1>1, <1>7
  <2> HIDE DEF q, r
  <2>2. q # 0
    BY <1>7, <2>1
  <2>3. 2 * q <= m * q
    BY <1>7, <1>9, <2>1
  <2>4. q \in 1 .. P-1
    BY <1>1, <2>1, <2>2, <2>3
  <2>5. r # 0
    <3> SUFFICES ASSUME r = 0 PROVE FALSE
      OBVIOUS
    <3>1. m * q = P
      BY <1>1, <1>7, <2>1
    <3>2. q # 1
      BY <1>1, <1>7, <3>1
    <3> QED BY <1>1, <1>7, <1>9, <2>4, <3>1, <3>2
  <2>6. m * q \in 0 .. P-1 /\ m * q = P - r
    BY <1>1, <1>7, <2>1, <2>5
  <2>7. m ** q = P - r
    BY <1>1, <2>6 DEF **
  <2>8. 0 -- (m ** q) = r
    <3>1. P - r \in 1 .. P-1 /\ r \in 1 .. P-1
      BY <1>1, <1>7, <2>1, <2>5
    <3>2. (0 - (P - r)) % P = r
      BY <1>1, <3>1
    <3> QED BY <2>7, <3>2 DEF --
  <2>9. q \in Field /\ m \in Field
    BY <1>1, <1>7, <2>4 DEF Field
  <2>10. 0 -- (m ** q) = a ** (0 -- (k ** q))
    <3>1. k ** q \in Field
      BY <2>9, FieldClosed
    <3>2. a ** (0 -- (k ** q)) = (a ** 0) -- (a ** (k ** q))
      BY <3>1, FieldClosed, DistributesMinus
    <3>3. a ** 0 = 0
      BY FieldClosed, FieldLaws
    <3>4. a ** (k ** q) = m ** q
      BY <1>6, <2>9, FieldLaws
    <3> QED BY <3>2, <3>3, <3>4
  <2>11. 0 -- (k ** q) \in Field
    BY <2>9, FieldClosed
  <2>12. r \in T
    BY <1>1, <1>7, <2>1, <2>5, <2>8, <2>10, <2>11
  <2>13. r < m
    BY <1>7, <2>1
  <2> QED BY <1>5, <1>7, <2>1, <2>12, <2>13
<1> QED BY <1>8, <1>9

LEMMA InverseLaws ==
  ASSUME NEW a \in Field, a # 0
  PROVE  Inv(a) \in Field /\ Inv(a) # 0 /\ a ** Inv(a) = 1 /\ InvOrZero(a) = Inv(a)
<1>1. Inv(a) \in Field /\ a ** Inv(a) = 1
  BY InverseExists DEF Inv, **
<1>2. a ** 0 = 0 /\ 0 # 1
  BY FieldClosed, FieldLaws
<1> QED BY <1>1, <1>2 DEF InvOrZero

LEMMA Cancel ==
  ASSUME NEW a \in Field, a # 0, NEW b \in Field, NEW c \in Field,
         a ** b = a ** c
  PROVE  b = c
<1>1. Inv(a) \in Field /\ a ** Inv(a) = 1
  BY InverseLaws
<1>2. Inv(a) ** a = 1
  BY <1>1, FieldLaws
<1>3. Inv(a) ** (a ** b) = b /\ Inv(a) ** (a ** c) = c
  BY <1>1, <1>2, FieldLaws
<1> QED BY <1>3

LEMMA NonZeroProduct ==
  ASSUME NEW a \in Field, a # 0, NEW b \in Field, b # 0
  PROVE  a ** b \in Field \ {0}
<1>1. a ** 0 = 0 /\ a ** b \in Field
  BY FieldClosed, FieldLaws
<1> QED BY <1>1, FieldClosed, Cancel

\* What a times b is 1 with is the inverse.
LEMMA InverseUnique ==
  ASSUME NEW a \in Field, NEW b \in Field, a ** b = 1
  PROVE  a # 0 /\ Inv(a) = b
<1>1. 0 ** b = 0 /\ 0 # 1
  BY FieldClosed, FieldLaws
<1>2. a # 0
  BY <1>1
<1> QED BY <1>2, InverseLaws, Cancel

LEMMA InverseProduct ==
  ASSUME NEW a \in Field, a # 0, NEW b \in Field, b # 0
  PROVE  Inv(a ** b) = Inv(a) ** Inv(b)
<1>1. /\ Inv(a) \in Field /\ a ** Inv(a) = 1
      /\ Inv(b) \in Field /\ b ** Inv(b) = 1
  BY InverseLaws
<1>2. (a ** b) ** (Inv(a) ** Inv(b)) = 1
  <2>1. (a ** b) ** (Inv(a) ** Inv(b)) = (a ** Inv(a)) ** (b ** Inv(b))
    <3>1. (a ** b) ** (Inv(a) ** Inv(b)) = a ** (b ** (Inv(a) ** Inv(b)))
      <4>1. Inv(a) ** Inv(b) \in Field
        BY <1>1, FieldClosed
      <4> QED BY <4>1, FieldLaws
    <3>2. b ** (Inv(a) ** Inv(b)) = Inv(a) ** (b ** Inv(b))
      BY <1>1, MulMonoid, Mul!MonoidSwap
    <3>3. a ** (Inv(a) ** (b ** Inv(b))) = (a ** Inv(a)) ** (b ** Inv(b))
      <4>1. b ** Inv(b) \in Field
        BY <1>1, FieldClosed
      <4> QED BY <1>1, <4>1, FieldLaws
    <3> QED BY <3>1, <3>2, <3>3
  <2>2. 1 ** 1 = 1
    BY FieldClosed, FieldLaws
  <2> QED BY <1>1, <2>1, <2>2
<1>3. a ** b \in Field /\ Inv(a) ** Inv(b) \in Field
  BY <1>1, FieldClosed
<1> QED BY <1>2, <1>3, InverseUnique

\* The inverse of the opposite.
LEMMA InverseOpposite ==
  ASSUME NEW a \in Field, a # 0
  PROVE  0 -- a \in Field \ {0} /\ Inv(0 -- a) = 0 -- Inv(a)
<1>1. Inv(a) \in Field /\ a ** Inv(a) = 1
  BY InverseLaws
<1>2. 0 -- a \in Field /\ 0 -- Inv(a) \in Field
  BY <1>1, FieldClosed
<1>3. (0 -- a) ** (0 -- Inv(a)) = a ** Inv(a)
  <2>1. (0 -- a) ** (0 -- Inv(a)) = ((0 -- a) ** 0) -- ((0 -- a) ** Inv(a))
    BY <1>1, <1>2, FieldClosed, DistributesMinus
  <2>0. \A u \in Field : u ** 0 = 0
    BY FieldClosed, FieldLaws
  <2>2. (0 -- a) ** 0 = 0
    BY <1>2, <2>0
  <2>3. (0 -- a) ** Inv(a) = Inv(a) ** (0 -- a)
    BY <1>1, <1>2, FieldLaws
  <2>4. Inv(a) ** (0 -- a) = (Inv(a) ** 0) -- (Inv(a) ** a)
    BY <1>1, FieldClosed, DistributesMinus
  <2>5. Inv(a) ** 0 = 0 /\ Inv(a) ** a = a ** Inv(a)
    BY <1>1, <2>0, FieldLaws
  <2>6. 0 -- (0 -- (a ** Inv(a))) = (a ** Inv(a)) -- 0
    BY <1>1, FieldClosed, SubtractionLaws
  <2> QED BY <1>1, <2>1, <2>2, <2>3, <2>4, <2>5, <2>6, FieldClosed, SubtractionLaws
<1> QED BY <1>1, <1>2, <1>3, InverseUnique

---------------------------------------------------------------------------
(* One element of a sum or a product at a time.                            *)

LEMMA FSumExtract ==
  ASSUME NEW S, IsFiniteSet(S), NEW f, NEW g, NEW y \in S,
         DOMAIN f = S, \A x \in S : f[x] \in Field,
         DOMAIN g = S \ {y}, \A x \in S \ {y} : g[x] = f[x]
  PROVE  FSum(f) = f[y] ++ FSum(g)
<1> DEFINE T == S \ {y}
<1>1. IsFiniteSet(T) /\ T \subseteq S
  BY FS_Subset
<1>2. FAdd!Fold(f, S) = f[y] ++ FAdd!Fold(f, T)
  <2>1. FAdd!Typed(f, S, Field)
    BY DEF FAdd!Typed
  <2> QED BY <2>1, TotalMonoid, FiniteTotal, FAdd!FoldExtract
<1>3. DOMAIN g = T /\ \A x \in T : g[x] = f[x] /\ g[x] \in Field
  OBVIOUS
<1> HIDE DEF T
<1>4. FSum(f) = FAdd!Fold(f, S) /\ FSum(g) = FAdd!Fold(g, T)
  BY <1>1, <1>3, FSumIsTotal
<1>5. FAdd!Fold(g, T) = FAdd!Fold(f, T)
  BY <1>1, <1>3, FiniteTotal, FAdd!FoldSame
<1> QED BY <1>2, <1>4, <1>5

LEMMA FSumEmpty ==
  ASSUME NEW f, DOMAIN f = {}
  PROVE  FSum(f) = 0
<1>1. FAdd!Fold(f, {}) = 0
  BY FS_EmptySet, FiniteTotal, FAdd!FoldEquation
<1>2. FSum(f) = FAdd!Fold(f, {})
  BY FS_EmptySet, FSumIsTotal
<1> QED BY <1>1, <1>2

LEMMA FProdExtract ==
  ASSUME NEW S, IsFiniteSet(S), NEW f, NEW g, NEW y \in S,
         DOMAIN f = S, \A x \in S : f[x] \in Field,
         DOMAIN g = S \ {y}, \A x \in S \ {y} : g[x] = f[x]
  PROVE  FProd(f) = f[y] ** FProd(g)
<1> DEFINE T == S \ {y}
<1>1. IsFiniteSet(T) /\ T \subseteq S
  BY FS_Subset
<1>2. Mul!Fold(f, S) = f[y] ** Mul!Fold(f, T)
  <2>1. Mul!Typed(f, S, Field)
    BY DEF Mul!Typed
  <2> QED BY <2>1, MulMonoid, FiniteAlike, Mul!FoldExtract
<1>3. DOMAIN g = T /\ \A x \in T : g[x] = f[x]
  OBVIOUS
<1> HIDE DEF T
<1>4. FProd(f) = Mul!Fold(f, S) /\ FProd(g) = Mul!Fold(g, T)
  BY <1>3, ProdIsFold
<1>5. Mul!Fold(g, T) = Mul!Fold(f, T)
  BY <1>1, <1>3, FiniteAlike, Mul!FoldSame
<1> QED BY <1>2, <1>4, <1>5

LEMMA FProdEmpty ==
  ASSUME NEW f, DOMAIN f = {}
  PROVE  FProd(f) = 1
BY FS_EmptySet, FiniteAlike, Mul!FoldEquation, ProdIsFold

\* A product of non-zero elements.
LEMMA FProdNonZero ==
  ASSUME NEW S, IsFiniteSet(S), NEW f, DOMAIN f = S,
         \A x \in S : f[x] \in Field \ {0}
  PROVE  FProd(f) \in Field \ {0}
<1> DEFINE U == Field \ {0}
<1>1. /\ 1 \in U
      /\ \A a, b \in U : a ** b \in U
      /\ U \subseteq Field
  BY FieldClosed, NonZeroProduct DEF Field
<1> HIDE DEF U
<1>2. Mul!Monoid(U)
  BY <1>1, MulMonoid DEF Mul!Monoid
<1>3. Mul!Typed(f, S, U)
  BY DEF Mul!Typed, U
<1>4. Mul!Fold(f, S) \in U
  BY <1>2, <1>3, FiniteAlike, Mul!FoldType
<1> QED BY <1>4, ProdIsFold DEF U

\* The indices of a product may be renamed.
LEMMA FProdRename ==
  ASSUME NEW S, IsFiniteSet(S), NEW R, NEW j, Mul!Renames(j, S, R),
         NEW f, DOMAIN f = R, \A x \in R : f[x] \in Field,
         NEW g, DOMAIN g = S, \A x \in S : g[x] = f[j[x]]
  PROVE  FProd(g) = FProd(f)
<1>1. Mul!Typed(f, R, Field)
  BY DEF Mul!Typed
<1>2. Mul!Fold(g, S) = Mul!Fold(f, R)
  BY <1>1, MulMonoid, FiniteAlike, Mul!FoldRename
<1> QED BY <1>2, ProdIsFold

\* f over U is g over S and h over the rest T.
SplitsInto(f, U, g, S, h, T) ==
  /\ IsFiniteSet(S) /\ IsFiniteSet(T) /\ S \cap T = {} /\ U = S \cup T
  /\ DOMAIN f = U /\ \A x \in U : f[x] \in Field
  /\ DOMAIN g = S /\ \A x \in S : g[x] = f[x]
  /\ DOMAIN h = T /\ \A x \in T : h[x] = f[x]

LEMMA FProdUnion ==
  ASSUME NEW f, NEW U, NEW g, NEW S, NEW h, NEW T, SplitsInto(f, U, g, S, h, T)
  PROVE  FProd(f) = FProd(g) ** FProd(h)
<1>1. IsFiniteSet(S) /\ IsFiniteSet(T) /\ S \cap T = {} /\ U = S \cup T
  BY DEF SplitsInto
<1>2. Mul!Typed(f, S \cup T, Field)
  BY DEF Mul!Typed, SplitsInto
<1>3. Mul!Fold(f, S \cup T) = Mul!Fold(f, S) ** Mul!Fold(f, T)
  BY <1>1, <1>2, MulMonoid, FiniteAlike, Mul!FoldUnion
<1>4. /\ \A x \in S : g[x] = f[x]
      /\ \A x \in T : h[x] = f[x]
  BY DEF SplitsInto
<1>5. Mul!Fold(g, S) = Mul!Fold(f, S) /\ Mul!Fold(h, T) = Mul!Fold(f, T)
  BY <1>1, <1>4, FiniteAlike, Mul!FoldSame
<1>6. /\ FProd(f) = Mul!Fold(f, S \cup T) /\ FProd(g) = Mul!Fold(g, S)
      /\ FProd(h) = Mul!Fold(h, T)
  BY <1>1, ProdIsFold DEF SplitsInto
<1> QED BY <1>3, <1>5, <1>6

---------------------------------------------------------------------------
(* Divided differences.                                                    *)

\* The product of the distances of j from the other elements of N, and the
\* divided difference of g over the points N.
Den(N, j) == FProd([i \in N \ {j} |-> j -- i])
Divided(N, g) == FSum([j \in N |-> g[j] ** Inv(Den(N, j))])

Functional == [Field -> Field]

\* g is a polynomial of degree k at most: its divided differences over more
\* than k + 1 points are zero.
DegreeAtMost(g, k) ==
  /\ g \in Functional
  /\ \A N \in SUBSET Field : Cardinality(N) >= k + 2 => Divided(N, g) = 0

LEMMA FieldFinite ==
  ASSUME NEW N \in SUBSET Field
  PROVE  IsFiniteSet(N) /\ Cardinality(N) \in Nat
<1>1. IsFiniteSet(Field)
  BY PAssumption, FS_Interval DEF Field
<1> QED BY <1>1, FS_Subset, FS_CardinalityType

LEMMA DenType ==
  ASSUME NEW N \in SUBSET Field, NEW j \in Field
  PROVE  /\ Den(N, j) \in Field \ {0}
         /\ Inv(Den(N, j)) \in Field \ {0} /\ Den(N, j) ** Inv(Den(N, j)) = 1
<1> DEFINE T == N \ {j}
           f == [i \in T |-> j -- i]
<1>1. T \in SUBSET Field
  OBVIOUS
<1>2. \A i \in T : f[i] \in Field \ {0}
  BY FieldClosed, SubtractionLaws
<1>3. DOMAIN f = T /\ Den(N, j) = FProd(f)
  BY DEF Den
<1> HIDE DEF T, f
<1>4. FProd(f) \in Field \ {0}
  BY <1>1, <1>2, <1>3, FieldFinite, FProdNonZero
<1> QED BY <1>3, <1>4, InverseLaws

LEMMA DenStep ==
  ASSUME NEW N \in SUBSET Field, NEW m \in N, NEW j \in N \ {m}
  PROVE  Den(N, j) = (j -- m) ** Den(N \ {m}, j)
<1> DEFINE T == N \ {j}
           f == [i \in T |-> j -- i]
           U == (N \ {m}) \ {j}
           g == [i \in U |-> j -- i]
<1>1. /\ Den(N, j) = FProd(f) /\ Den(N \ {m}, j) = FProd(g)
      /\ T \in SUBSET Field /\ m \in T /\ U = T \ {m} /\ f[m] = j -- m
      /\ DOMAIN f = T /\ DOMAIN g = U
      /\ \A x \in U : g[x] = f[x]
  BY DEF Den
<1>2. \A x \in T : f[x] \in Field
  BY FieldClosed
<1> HIDE DEF T, f, U, g
<1>3. FProd(f) = f[m] ** FProd(g)
  BY <1>1, <1>2, FieldFinite, FProdExtract
<1> QED BY <1>1, <1>3

LEMMA DividedType ==
  ASSUME NEW N \in SUBSET Field, NEW g \in Functional
  PROVE  /\ Divided(N, g) \in Field
         /\ \A j \in N : g[j] ** Inv(Den(N, j)) \in Field
<1>1. \A j \in N : g[j] ** Inv(Den(N, j)) \in Field
  BY DenType, FieldClosed DEF Functional
<1> DEFINE f == [j \in N |-> g[j] ** Inv(Den(N, j))]
<1>2. DOMAIN f = N /\ \A j \in DOMAIN f : f[j] \in Int
  BY <1>1, FieldClosed
<1>3. Divided(N, g) = FSum(f)
  BY DEF Divided
<1> HIDE DEF f
<1> QED BY <1>1, <1>2, <1>3, FieldFinite, FSumType

\* Multiplying by the distance from m takes m out of the points.
LEMMA DividedStep ==
  ASSUME NEW N \in SUBSET Field, NEW m \in N, NEW g \in Functional,
         NEW h \in Functional, \A x \in N : h[x] = (x -- m) ** g[x]
  PROVE  Divided(N, h) = Divided(N \ {m}, g)
<1> DEFINE T == N \ {m}
           u == [j \in N |-> h[j] ** Inv(Den(N, j))]
           v == [j \in T |-> g[j] ** Inv(Den(T, j))]
<1>1. Divided(N, h) = FSum(u) /\ Divided(N \ {m}, g) = FSum(v)
  BY DEF Divided
<1>2. /\ DOMAIN u = N /\ DOMAIN v = T /\ T = N \ {m}
      /\ \A j \in N : u[j] = h[j] ** Inv(Den(N, j))
      /\ \A j \in T : v[j] = g[j] ** Inv(Den(T, j))
      /\ T \in SUBSET Field
  OBVIOUS
<1>3. \A j \in N : u[j] \in Field
  BY <1>2, DividedType
<1>4. \A j \in T : v[j] \in Field
  BY <1>2, DividedType
<1> HIDE DEF T, u, v
<1>5. u[m] = 0
  <2>1. h[m] = 0
    <3>1. m -- m = 0 /\ g[m] \in Field
      BY SubtractionLaws DEF Functional
    <3> QED BY <3>1, FieldLaws
  <2> QED BY <1>2, <2>1, DenType, FieldLaws
<1>6. ASSUME NEW j \in T
      PROVE  v[j] = u[j]
  <2>1. j \in N \ {m} /\ j \in Field /\ m \in Field
    BY <1>2
  <2>2. Den(N, j) = (j -- m) ** Den(T, j)
    BY <1>2, <2>1, DenStep
  <2> DEFINE d == j -- m
             e == Den(T, j)
             y == g[j]
  <2>3. d \in Field /\ d # 0 /\ e \in Field /\ e # 0 /\ y \in Field
    BY <1>2, <2>1, FieldClosed, SubtractionLaws, DenType DEF Functional
  <2>4. h[j] = d ** y
    BY <2>1
  <2>5. Den(N, j) = d ** e
    BY <2>2
  <2>6. u[j] = (d ** y) ** Inv(d ** e) /\ v[j] = y ** Inv(e)
    BY <1>2, <2>1, <2>4, <2>5
  <2> HIDE DEF d, e, y
  <2>7. Inv(d ** e) = Inv(d) ** Inv(e)
    BY <2>3, InverseProduct
  <2>8. Inv(d) \in Field /\ Inv(e) \in Field /\ d ** Inv(d) = 1
    BY <2>3, InverseLaws
  <2>9. (d ** y) ** (Inv(d) ** Inv(e)) = (d ** Inv(d)) ** (y ** Inv(e))
    <3>1. Inv(d) ** Inv(e) \in Field
      BY <2>8, FieldClosed
    <3>2. (d ** y) ** (Inv(d) ** Inv(e)) = d ** (y ** (Inv(d) ** Inv(e)))
      BY <2>3, <3>1, FieldLaws
    <3>3. y ** (Inv(d) ** Inv(e)) = Inv(d) ** (y ** Inv(e))
      BY <2>3, <2>8, MulMonoid, Mul!MonoidSwap
    <3>4. y ** Inv(e) \in Field
      BY <2>3, <2>8, FieldClosed
    <3>5. d ** (Inv(d) ** (y ** Inv(e))) = (d ** Inv(d)) ** (y ** Inv(e))
      BY <2>3, <2>8, <3>4, FieldLaws
    <3> QED BY <3>2, <3>3, <3>5
  <2>10. y ** Inv(e) \in Field
    BY <2>3, <2>8, FieldClosed
  <2>11. 1 ** (y ** Inv(e)) = y ** Inv(e)
    BY <2>10, FieldLaws
  <2> QED BY <2>6, <2>7, <2>8, <2>9, <2>11
<1>7. FSum(u) = u[m] ++ FSum(v)
  BY <1>2, <1>3, <1>6, FieldFinite, FSumExtract
<1>8. FSum(v) \in Field
  BY <1>1, <1>2, DividedType
<1>9. 0 ++ FSum(v) = FSum(v)
  BY <1>8, FieldLaws
<1> QED BY <1>1, <1>5, <1>7, <1>9

LEMMA DividedPlus ==
  ASSUME NEW N \in SUBSET Field, NEW f \in Functional, NEW g \in Functional,
         NEW h \in Functional, \A x \in N : h[x] = f[x] ++ g[x]
  PROVE  Divided(N, h) = Divided(N, f) ++ Divided(N, g)
<1> DEFINE u == [j \in N |-> f[j] ** Inv(Den(N, j))]
           v == [j \in N |-> g[j] ** Inv(Den(N, j))]
           w == [j \in N |-> h[j] ** Inv(Den(N, j))]
<1>1. Divided(N, f) = FSum(u) /\ Divided(N, g) = FSum(v) /\ Divided(N, h) = FSum(w)
  BY DEF Divided
<1>2. ASSUME NEW j \in N
      PROVE  u[j] \in Field /\ v[j] \in Field /\ w[j] = u[j] ++ v[j]
  <2> DEFINE e == Inv(Den(N, j))
  <2>1. e \in Field /\ f[j] \in Field /\ g[j] \in Field
    BY DenType DEF Functional
  <2>2. u[j] = f[j] ** e /\ v[j] = g[j] ** e /\ w[j] = (f[j] ++ g[j]) ** e
    OBVIOUS
  <2> HIDE DEF e, u, v, w
  <2>3. f[j] ++ g[j] \in Field
    BY <2>1, FieldClosed
  <2>4. (f[j] ++ g[j]) ** e = e ** (f[j] ++ g[j]) /\ f[j] ** e = e ** f[j]
          /\ g[j] ** e = e ** g[j]
    BY <2>1, <2>3, FieldLaws
  <2>5. e ** (f[j] ++ g[j]) = (e ** f[j]) ++ (e ** g[j])
    BY <2>1, Distributes
  <2> QED BY <2>1, <2>2, <2>4, <2>5, FieldClosed
<1>3. DOMAIN u = N /\ DOMAIN v = N /\ DOMAIN w = N
  OBVIOUS
<1> HIDE DEF u, v, w
<1>4. FSum(w) = FSum(u) ++ FSum(v)
  BY <1>2, <1>3, FieldFinite, FSumPlus
<1> QED BY <1>1, <1>4

LEMMA DividedScale ==
  ASSUME NEW N \in SUBSET Field, NEW c \in Field, NEW f \in Functional,
         NEW h \in Functional, \A x \in N : h[x] = c ** f[x]
  PROVE  Divided(N, h) = c ** Divided(N, f)
<1> DEFINE u == [j \in N |-> f[j] ** Inv(Den(N, j))]
           w == [j \in N |-> h[j] ** Inv(Den(N, j))]
<1>1. Divided(N, f) = FSum(u) /\ Divided(N, h) = FSum(w)
  BY DEF Divided
<1>2. ASSUME NEW j \in N
      PROVE  u[j] \in Field /\ w[j] = c ** u[j]
  <2> DEFINE e == Inv(Den(N, j))
  <2>1. e \in Field /\ f[j] \in Field
    BY DenType DEF Functional
  <2>2. u[j] = f[j] ** e /\ w[j] = (c ** f[j]) ** e
    OBVIOUS
  <2> HIDE DEF e, u, w
  <2>3. (c ** f[j]) ** e = c ** (f[j] ** e)
    BY <2>1, FieldLaws
  <2> QED BY <2>1, <2>2, <2>3, FieldClosed
<1>3. DOMAIN u = N /\ DOMAIN w = N
  OBVIOUS
<1> HIDE DEF u, w
<1>4. FSum(w) = c ** FSum(u)
  BY <1>2, <1>3, FieldFinite, FSumScale
<1> QED BY <1>1, <1>4

One == [x \in Field |-> 1]

LEMMA OneType == One \in Functional /\ \A x \in Field : One[x] = 1
BY FieldClosed DEF One, Functional

\* Over one point.
LEMMA DividedOnce ==
  ASSUME NEW x \in Field
  PROVE  Divided({x}, One) = 1
<1> DEFINE u == [j \in {x} |-> One[j] ** Inv(Den({x}, j))]
<1>1. Divided({x}, One) = FSum(u)
  BY DEF Divided
<1>2. Den({x}, x) = 1
  <2>1. {x} \ {x} = {}
    OBVIOUS
  <2>2. DOMAIN [i \in {x} \ {x} |-> x -- i] = {}
    BY <2>1
  <2> QED BY <2>2, FProdEmpty DEF Den
<1>3. 1 ** 1 = 1
  BY FieldClosed, FieldLaws
<1>4. Inv(1) = 1
  BY <1>3, FieldClosed, InverseUnique
<1>5. u[x] = 1 /\ DOMAIN u = {x}
  BY <1>2, <1>3, <1>4, OneType
<1> HIDE DEF u
<1> QED BY <1>1, <1>5, FieldClosed, FSumOne

\* A constant has no difference.
LEMMA DividedConstant ==
  \A n \in Nat : \A N \in SUBSET Field :
    Cardinality(N) = n /\ n >= 2 => Divided(N, One) = 0
<1> DEFINE Q(n) == \A N \in SUBSET Field :
                     Cardinality(N) = n /\ n >= 2 => Divided(N, One) = 0
           S == {n \in Nat : Q(n)}
<1>1. 0 \in S
  OBVIOUS
<1>2. ASSUME NEW n \in Nat, Q(n)
      PROVE  Q(n + 1)
  <2> SUFFICES ASSUME NEW N \in SUBSET Field, Cardinality(N) = n + 1, n + 1 >= 2
               PROVE  Divided(N, One) = 0
    OBVIOUS
  <2>1. IsFiniteSet(N) /\ N # {}
    BY FieldFinite, FS_EmptySet
  <2>2. PICK m \in N : TRUE
    BY <2>1
  <2>3. \A y \in N : Cardinality(N \ {y}) = n
    BY <2>1, FS_RemoveElement
  <2>4. PICK l \in N \ {m} : TRUE
    BY <2>2, <2>3, FS_EmptySet
  <2> DEFINE D == Divided(N, One)
             A == Divided(N \ {m}, One)
             id == [x \in Field |-> x]
             h(y) == [x \in Field |-> x -- y]
             s(y) == [x \in Field |-> y ** One[x]]
  <2>5. m \in Field /\ l \in Field /\ m # l
    BY <2>2, <2>4
  <2>6. D \in Field /\ A \in Field
    BY OneType, DividedType
  <2>7. Divided(N \ {l}, One) = A
    <3>1. CASE n >= 2
      BY <1>2, <2>2, <2>3, <2>4, <3>1
    <3>2. CASE ~ (n >= 2)
      <4>1. n = 1
        BY <3>2
      <4>2. ASSUME NEW y \in N
            PROVE  Divided(N \ {y}, One) = 1
        <5>1. IsFiniteSet(N \ {y}) /\ Cardinality(N \ {y}) = 1
          BY <2>1, <2>3, <4>1, FS_RemoveElement
        <5>2. PICK z : N \ {y} = {z}
          BY <5>1, FS_Singleton
        <5>3. z \in Field
          BY <5>2
        <5> QED BY <5>2, <5>3, DividedOnce
      <4> QED BY <2>2, <2>4, <4>2
    <3> QED BY <3>1, <3>2
  <2>8. ASSUME NEW y \in N
        PROVE  Divided(N, id) = Divided(N \ {y}, One) ++ (y ** D)
    <3>1. y \in Field
      OBVIOUS
    <3>2. \A x \in Field : h(y)[x] = x -- y /\ s(y)[x] = y ** One[x]
                            /\ id[x] = x
      OBVIOUS
    <3>3. h(y) \in Functional /\ s(y) \in Functional /\ id \in Functional
      BY <3>1, FieldClosed, OneType DEF Functional
    <3> HIDE DEF h, s, id
    <3>4. \A x \in Field : y ** One[x] = y /\ (x -- y) ** One[x] = x -- y
      <4>1. \A u \in Field : u ** 1 = u
        BY FieldClosed, FieldLaws
      <4>2. \A x \in Field : x -- y \in Field
        BY <3>1, FieldClosed
      <4> QED BY <3>1, <4>1, <4>2, OneType
    <3>5. \A x \in Field : (x -- y) ++ y = x
      BY <3>1, FieldLaws
    <3>6. Divided(N, h(y)) = Divided(N \ {y}, One)
      <4>1. \A x \in N : h(y)[x] = (x -- y) ** One[x]
        BY <3>2, <3>4
      <4> QED BY <3>3, <4>1, OneType, DividedStep
    <3>7. Divided(N, s(y)) = y ** Divided(N, One)
      <4>1. \A x \in N : s(y)[x] = y ** One[x]
        BY <3>2
      <4> QED BY <3>1, <3>3, <4>1, OneType, DividedScale
    <3>8. Divided(N, id) = Divided(N, h(y)) ++ Divided(N, s(y))
      <4>1. \A x \in N : id[x] = h(y)[x] ++ s(y)[x]
        BY <3>2, <3>4, <3>5
      <4> QED BY <3>3, <4>1, DividedPlus
    <3> QED BY <3>6, <3>7, <3>8
  <2>9. A ++ (m ** D) = A ++ (l ** D)
    BY <2>2, <2>4, <2>7, <2>8
  <2> HIDE DEF D, A
  <2>10. m ** D = l ** D
    <3>1. m ** D \in Field /\ l ** D \in Field
      BY <2>5, <2>6, FieldClosed
    <3>2. (m ** D) ++ A = A ++ (m ** D) /\ (l ** D) ++ A = A ++ (l ** D)
      BY <2>6, <3>1, FieldLaws
    <3>3. ((m ** D) ++ A) -- A = m ** D /\ ((l ** D) ++ A) -- A = l ** D
      BY <2>6, <3>1, FieldLaws
    <3> QED BY <2>9, <3>2, <3>3
  <2>11. D = 0
    <3> SUFFICES ASSUME D # 0 PROVE FALSE
      OBVIOUS
    <3>1. D ** m = D ** l
      BY <2>5, <2>6, <2>10, FieldLaws
    <3>2. m = l
      BY <2>5, <2>6, <3>1, Cancel
    <3> QED BY <2>5, <3>2
  <2> QED BY <2>11 DEF D
<1>3. \A n \in Nat : n \in S => n + 1 \in S
  BY <1>2
<1> HIDE DEF Q
<1>4. Nat \subseteq S
  <2> HIDE DEF S
  <2> QED BY <1>1, <1>3, Add!NaturalInduction
<1> QED BY <1>4 DEF Q

LEMMA DegreeOne == DegreeAtMost(One, 0)
<1>1. \A N \in SUBSET Field : Cardinality(N) \in Nat
  BY FieldFinite
<1> QED BY <1>1, OneType, DividedConstant DEF DegreeAtMost

LEMMA DegreeWeaken ==
  ASSUME NEW k \in Nat, NEW l \in Nat, k <= l, NEW g, DegreeAtMost(g, k)
  PROVE  DegreeAtMost(g, l)
<1>1. \A N \in SUBSET Field : Cardinality(N) \in Nat
  BY FieldFinite
<1> QED BY <1>1 DEF DegreeAtMost

LEMMA DegreePlus ==
  ASSUME NEW k \in Nat, NEW f, DegreeAtMost(f, k), NEW g, DegreeAtMost(g, k),
         NEW h \in Functional, \A x \in Field : h[x] = f[x] ++ g[x]
  PROVE  DegreeAtMost(h, k)
<1> SUFFICES ASSUME NEW N \in SUBSET Field, Cardinality(N) >= k + 2
             PROVE  Divided(N, h) = 0
  BY DEF DegreeAtMost
<1>1. Divided(N, f) = 0 /\ Divided(N, g) = 0 /\ f \in Functional /\ g \in Functional
  BY DEF DegreeAtMost
<1>2. \A x \in N : h[x] = f[x] ++ g[x]
  OBVIOUS
<1>3. Divided(N, h) = Divided(N, f) ++ Divided(N, g)
  BY <1>1, <1>2, DividedPlus
<1> QED BY <1>1, <1>3, FieldClosed, FieldLaws

LEMMA DegreeScale ==
  ASSUME NEW k \in Nat, NEW c \in Field, NEW f, DegreeAtMost(f, k),
         NEW h \in Functional, \A x \in Field : h[x] = c ** f[x]
  PROVE  DegreeAtMost(h, k)
<1> SUFFICES ASSUME NEW N \in SUBSET Field, Cardinality(N) >= k + 2
             PROVE  Divided(N, h) = 0
  BY DEF DegreeAtMost
<1>1. Divided(N, f) = 0 /\ f \in Functional
  BY DEF DegreeAtMost
<1>2. \A x \in N : h[x] = c ** f[x]
  OBVIOUS
<1>3. Divided(N, h) = c ** Divided(N, f)
  BY <1>1, <1>2, DividedScale
<1> QED BY <1>1, <1>3, FieldClosed, FieldLaws

\* Multiplying by a linear function raises the degree by one.
LEMMA DegreeLinear ==
  ASSUME NEW k \in Nat, NEW a \in Field, NEW b \in Field, NEW g, DegreeAtMost(g, k),
         NEW h \in Functional, \A x \in Field : h[x] = (a ++ (b ** x)) ** g[x]
  PROVE  DegreeAtMost(h, k + 1)
<1> SUFFICES ASSUME NEW N \in SUBSET Field, Cardinality(N) >= (k + 1) + 2
             PROVE  Divided(N, h) = 0
  BY DEF DegreeAtMost
<1>1. g \in Functional
  BY DEF DegreeAtMost
<1>2. IsFiniteSet(N) /\ Cardinality(N) \in Nat
  BY FieldFinite
<1>3. PICK m \in N : TRUE
  BY <1>2, FS_EmptySet
<1>4. Cardinality(N \ {m}) = Cardinality(N) - 1
  BY <1>2, <1>3, FS_RemoveElement
<1> DEFINE c == a ++ (b ** m)
           u == [x \in Field |-> (x -- m) ** g[x]]
           v == [x \in Field |-> c ** g[x]]
           w == [x \in Field |-> b ** u[x]]
<1>5. \A x \in Field : u[x] = (x -- m) ** g[x] /\ v[x] = c ** g[x] /\ w[x] = b ** u[x]
  OBVIOUS
<1>6. m \in Field /\ c \in Field
  BY <1>3, FieldClosed
<1>7. u \in Functional /\ v \in Functional /\ w \in Functional
  <2>1. \A x \in Field : u[x] \in Field
    BY <1>1, <1>6, FieldClosed DEF Functional
  <2>2. \A x \in Field : v[x] \in Field
    BY <1>1, <1>6, FieldClosed DEF Functional
  <2>3. \A x \in Field : w[x] \in Field
    BY <2>1, FieldClosed
  <2> QED BY <2>1, <2>2, <2>3 DEF Functional
<1> HIDE DEF u, v, w
<1>8. Divided(N, u) = 0
  <2>1. \A x \in N : u[x] = (x -- m) ** g[x]
    BY <1>5
  <2>2. Divided(N, u) = Divided(N \ {m}, g)
    BY <1>1, <1>3, <1>7, <2>1, DividedStep
  <2>3. Cardinality(N \ {m}) >= k + 2
    BY <1>2, <1>4
  <2> QED BY <2>2, <2>3 DEF DegreeAtMost
<1>9. Divided(N, v) = 0
  <2>1. Divided(N, g) = 0
    BY <1>2 DEF DegreeAtMost
  <2>2. Divided(N, v) = c ** Divided(N, g)
    BY <1>1, <1>5, <1>6, <1>7, DividedScale
  <2> HIDE DEF c
  <2> QED BY <1>6, <2>1, <2>2, FieldClosed, FieldLaws
<1>10. Divided(N, w) = 0
  <2>1. Divided(N, w) = b ** Divided(N, u)
    BY <1>5, <1>7, DividedScale
  <2> QED BY <1>8, <2>1, FieldClosed, FieldLaws
<1>11. ASSUME NEW x \in Field
       PROVE  h[x] = v[x] ++ w[x]
  <2>1. g[x] \in Field
    BY <1>1 DEF Functional
  <2>2. a ++ (b ** x) = c ++ (b ** (x -- m))
    <3>1. b ** (x -- m) = (b ** x) -- (b ** m)
      BY <1>6, DistributesMinus
    <3>2. b ** x \in Field /\ b ** m \in Field
      BY <1>6, FieldClosed
    <3>3. a ++ (b ** m) = c
      OBVIOUS
    <3>4. c ++ ((b ** x) -- (b ** m)) = (c -- (b ** m)) ++ (b ** x)
      BY <1>6, <3>2, FieldLaws
    <3>5. c -- (b ** m) = a
      BY <3>2, <3>3, FieldLaws
    <3> QED BY <3>1, <3>4, <3>5
  <2> HIDE DEF c
  <2>3. x -- m \in Field /\ b ** (x -- m) \in Field
    BY <1>6, FieldClosed
  <2>4. (c ++ (b ** (x -- m))) ** g[x] = (c ** g[x]) ++ ((b ** (x -- m)) ** g[x])
    <3>1. c ++ (b ** (x -- m)) \in Field
      BY <1>6, <2>3, FieldClosed
    <3>2. (c ++ (b ** (x -- m))) ** g[x] = g[x] ** (c ++ (b ** (x -- m)))
      BY <2>1, <3>1, FieldLaws
    <3>3. g[x] ** (c ++ (b ** (x -- m))) = (g[x] ** c) ++ (g[x] ** (b ** (x -- m)))
      BY <1>6, <2>1, <2>3, Distributes
    <3>4. g[x] ** c = c ** g[x] /\ g[x] ** (b ** (x -- m)) = (b ** (x -- m)) ** g[x]
      BY <1>6, <2>1, <2>3, FieldLaws
    <3> QED BY <3>2, <3>3, <3>4
  <2>5. (b ** (x -- m)) ** g[x] = b ** ((x -- m) ** g[x])
    BY <2>1, <2>3, FieldLaws
  <2> QED BY <1>5, <2>2, <2>4, <2>5
<1>12. Divided(N, h) = Divided(N, v) ++ Divided(N, w)
  BY <1>7, <1>11, DividedPlus
<1> QED BY <1>9, <1>10, <1>12, FieldClosed, FieldLaws

\* A sum of polynomials, G[s] for s in S.
SumAt(S, G, x) == FSum([s \in S |-> G[s][x]])

LEMMA DegreeSum ==
  ASSUME NEW k \in Nat, NEW S, IsFiniteSet(S), NEW G, \A s \in S : DegreeAtMost(G[s], k),
         NEW h \in Functional, \A x \in Field : h[x] = SumAt(S, G, x)
  PROVE  DegreeAtMost(h, k)
<1> DEFINE Part(T) == [x \in Field |-> FSum([s \in T |-> G[s][x]])]
           B == {T \in SUBSET S : ~ DegreeAtMost(Part(T), k)}
<1>1. \A s \in S : G[s] \in Functional
  BY DEF DegreeAtMost
<1>2. \A s \in S : \A x \in Field : G[s][x] \in Field
  BY <1>1 DEF Functional
<1>3. \A T \in SUBSET S : IsFiniteSet(T)
  BY FS_Subset
<1>4. ASSUME NEW T \in SUBSET S
      PROVE  Part(T) \in Functional
  <2>1. ASSUME NEW x \in Field
        PROVE  FSum([s \in T |-> G[s][x]]) \in Field
    <3> DEFINE u == [s \in T |-> G[s][x]]
    <3>1. DOMAIN u = T /\ \A s \in T : u[s] \in Int
      BY <1>2, FieldClosed
    <3> HIDE DEF u
    <3>2. FSum(u) \in Field
      BY <1>3, <3>1, FSumType
    <3> QED BY <3>2 DEF u
  <2> QED BY <2>1 DEF Functional
<1>5. SUFFICES ASSUME B # {} PROVE FALSE
  <2>1. Part(S) = h
    BY DEF Functional, SumAt
  <2> QED BY <2>1
<1>6. PICK T \in B : \A U \in B : U \subseteq T => U = T
  <2>1. B \in SUBSET SUBSET S
    OBVIOUS
  <2> HIDE DEF B
  <2> QED BY <1>5, <2>1, FiniteTotal, FAdd!MinimalSubset
<1>7. T \in SUBSET S /\ ~ DegreeAtMost(Part(T), k)
  BY <1>6
<1>8. T # {}
  <2> SUFFICES ASSUME T = {} PROVE FALSE
    OBVIOUS
  <2>1. ASSUME NEW x \in Field
        PROVE  Part(T)[x] = 0 ** One[x]
    <3>1. DOMAIN [s \in T |-> G[s][x]] = {}
      OBVIOUS
    <3>2. FSum([s \in T |-> G[s][x]]) = 0
      BY <3>1, FSumEmpty
    <3>3. 0 ** One[x] = 0
      BY OneType, FieldClosed, FieldLaws
    <3> QED BY <3>2, <3>3
  <2>2. DegreeAtMost(One, k)
    BY DegreeOne, DegreeWeaken
  <2>3. Part(T) \in Functional
    BY <1>4, <1>7
  <2> HIDE DEF Part
  <2>4. PICK p : p = Part(T)
    OBVIOUS
  <2>5. p \in Functional /\ 0 \in Field /\ \A x \in Field : p[x] = 0 ** One[x]
    BY <2>1, <2>3, <2>4, FieldClosed
  <2>6. DegreeAtMost(p, k)
    BY <2>2, <2>5, DegreeScale
  <2> QED BY <1>7, <2>4, <2>6
<1>9. PICK y \in T : TRUE
  BY <1>8
<1> DEFINE U == T \ {y}
<1>10. DegreeAtMost(Part(U), k)
  <2>1. U \in SUBSET S /\ U \subseteq T /\ U # T
    BY <1>7, <1>9
  <2> HIDE DEF U
  <2> QED BY <1>6, <2>1
<1>11. ASSUME NEW x \in Field
       PROVE  Part(T)[x] = G[y][x] ++ Part(U)[x]
  <2> DEFINE u == [s \in T |-> G[s][x]]
             v == [s \in U |-> G[s][x]]
  <2>1. /\ DOMAIN u = T /\ \A s \in T : u[s] \in Field
        /\ DOMAIN v = U /\ \A s \in U : v[s] = u[s]
        /\ u[y] = G[y][x] /\ U = T \ {y} /\ IsFiniteSet(T)
    BY <1>2, <1>3, <1>7, <1>9
  <2>2. Part(T)[x] = FSum(u) /\ Part(U)[x] = FSum(v)
    OBVIOUS
  <2> HIDE DEF u, v, Part, U
  <2>3. FSum(u) = u[y] ++ FSum(v)
    BY <1>9, <2>1, FSumExtract
  <2> QED BY <2>1, <2>2, <2>3
<1>12. Part(T) \in Functional /\ DegreeAtMost(G[y], k)
  BY <1>4, <1>7, <1>9
<1> HIDE DEF Part, U
<1>13. DegreeAtMost(Part(T), k)
  BY <1>10, <1>11, <1>12, DegreePlus
<1> QED BY <1>7, <1>13

\* A product of k linear functions.
LinearProduct(a, b, k) == [x \in Field |-> FProd([j \in 1 .. k |-> a[j] ++ (b[j] ** x)])]

LEMMA DegreeProduct ==
  ASSUME NEW n \in Nat, NEW a \in [1 .. n -> Field], NEW b \in [1 .. n -> Field]
  PROVE  DegreeAtMost(LinearProduct(a, b, n), n)
<1> DEFINE S == {k \in Nat : k <= n => DegreeAtMost(LinearProduct(a, b, k), k)}
<1>1. ASSUME NEW k \in 0 .. n
      PROVE  /\ LinearProduct(a, b, k) \in Functional
             /\ \A x \in Field : \A j \in 1 .. k : a[j] ++ (b[j] ** x) \in Field
  <2>1. ASSUME NEW x \in Field, NEW j \in 1 .. k
        PROVE  a[j] ++ (b[j] ** x) \in Field
    <3>1. j \in 1 .. n
      OBVIOUS
    <3>2. a[j] \in Field /\ b[j] \in Field
      BY <3>1
    <3>3. b[j] ** x \in Field
      BY <3>2, FieldClosed
    <3> QED BY <3>2, <3>3, FieldClosed
  <2>2. ASSUME NEW x \in Field
        PROVE  FProd([j \in 1 .. k |-> a[j] ++ (b[j] ** x)]) \in Field
    <3> DEFINE u == [j \in 1 .. k |-> a[j] ++ (b[j] ** x)]
    <3>1. DOMAIN u = 1 .. k /\ \A j \in 1 .. k : u[j] \in Field
      BY <2>1
    <3>2. IsFiniteSet(1 .. k)
      BY FS_Interval
    <3> HIDE DEF u
    <3>3. FProd(u) \in Field
      BY <3>1, <3>2, FProdType
    <3> QED BY <3>3 DEF u
  <2> QED BY <2>1, <2>2 DEF LinearProduct, Functional
<1>2. 0 \in S
  <2>1. LinearProduct(a, b, 0) = One
    <3>1. ASSUME NEW x \in Field
          PROVE  FProd([j \in 1 .. 0 |-> a[j] ++ (b[j] ** x)]) = 1
      <4>1. DOMAIN [j \in 1 .. 0 |-> a[j] ++ (b[j] ** x)] = {}
        OBVIOUS
      <4> QED BY <4>1, FProdEmpty
    <3> QED BY <3>1 DEF LinearProduct, One
  <2> QED BY <2>1, DegreeOne
<1>3. ASSUME NEW k \in Nat, k \in S
      PROVE  k + 1 \in S
  <2> SUFFICES ASSUME k + 1 <= n
               PROVE  DegreeAtMost(LinearProduct(a, b, k + 1), k + 1)
    OBVIOUS
  <2> DEFINE g == LinearProduct(a, b, k)
             h == LinearProduct(a, b, k + 1)
  <2>1. k \in 0 .. n /\ k + 1 \in 0 .. n /\ k + 1 \in 1 .. n /\ DegreeAtMost(g, k)
    BY <1>3
  <2>2. g \in Functional /\ h \in Functional
    BY <1>1, <2>1
  <2>3. ASSUME NEW x \in Field
        PROVE  h[x] = (a[k+1] ++ (b[k+1] ** x)) ** g[x]
    <3> DEFINE u == [j \in 1 .. k+1 |-> a[j] ++ (b[j] ** x)]
               v == [j \in 1 .. k |-> a[j] ++ (b[j] ** x)]
    <3>1. h[x] = FProd(u) /\ g[x] = FProd(v)
      BY DEF LinearProduct
    <3>2. /\ DOMAIN u = 1 .. k+1 /\ \A j \in 1 .. k+1 : u[j] \in Field
          /\ DOMAIN v = 1 .. k /\ \A j \in 1 .. k : v[j] = u[j]
          /\ u[k+1] = a[k+1] ++ (b[k+1] ** x)
      BY <1>1, <2>1
    <3> HIDE DEF u, v, g, h
    <3>3. FProd(u) = u[k+1] ** FProd(v)
      BY <3>2, FProdLast
    <3> QED BY <3>1, <3>2, <3>3
  <2>4. a[k+1] \in Field /\ b[k+1] \in Field
    BY <2>1
  <2> HIDE DEF g, h
  <2>5. DegreeAtMost(h, k + 1)
    BY <2>1, <2>2, <2>3, <2>4, DegreeLinear
  <2> QED BY <2>5 DEF h
<1>4. n \in S
  <2> HIDE DEF S
  <2> QED BY <1>2, <1>3, Add!NaturalInduction
<1> QED BY <1>4

\* The polynomial whose roots are the points of S.
Rooted(S) == [x \in Field |-> FProd([i \in S |-> x -- i])]

LEMMA RootedType ==
  ASSUME NEW S \in SUBSET Field
  PROVE  /\ Rooted(S) \in Functional
         /\ \A x \in Field : (x \in S => Rooted(S)[x] = 0)
                              /\ (x \notin S => Rooted(S)[x] # 0)
         /\ \A x \in Field : Rooted(S \ {x})[x] = Den(S, x)
<1>1. IsFiniteSet(S)
  BY FieldFinite
<1>2. ASSUME NEW x \in Field
      PROVE  /\ FProd([i \in S |-> x -- i]) \in Field
             /\ x \in S => FProd([i \in S |-> x -- i]) = 0
             /\ x \notin S => FProd([i \in S |-> x -- i]) # 0
  <2> DEFINE u == [i \in S |-> x -- i]
             v == [i \in S \ {x} |-> x -- i]
  <2>1. /\ DOMAIN u = S /\ \A i \in S : u[i] = x -- i
        /\ DOMAIN v = S \ {x} /\ \A i \in S \ {x} : v[i] = u[i]
    OBVIOUS
  <2> HIDE DEF u, v
  <2>2. \A i \in S : u[i] \in Field
    BY <2>1, FieldClosed
  <2>3. FProd(u) \in Field
    BY <1>1, <2>1, <2>2, FProdType
  <2>4. CASE x \in S
    <3>1. FProd(u) = u[x] ** FProd(v)
      BY <1>1, <2>1, <2>2, <2>4, FProdExtract
    <3>2. u[x] = 0
      BY <2>1, <2>4, SubtractionLaws
    <3>3. FProd(v) \in Field
      <4>1. IsFiniteSet(S \ {x})
        BY <1>1, FS_RemoveElement
      <4>2. DOMAIN v = S \ {x} /\ \A i \in S \ {x} : v[i] \in Field
        BY <2>1, <2>2
      <4> QED BY <4>1, <4>2, FProdType
    <3>4. 0 ** FProd(v) = 0
      BY <3>3, FieldLaws
    <3> QED BY <2>3, <2>4, <3>1, <3>2, <3>4 DEF u
  <2>5. CASE x \notin S
    <3>1. \A i \in S : u[i] # 0
      BY <2>1, <2>5, SubtractionLaws
    <3>2. FProd(u) \in Field \ {0}
      BY <1>1, <2>1, <2>2, <3>1, FProdNonZero
    <3> QED BY <2>5, <3>2 DEF u
  <2> QED BY <2>4, <2>5
<1> QED BY <1>2 DEF Rooted, Functional, Den

LEMMA DegreeRooted ==
  ASSUME NEW S \in SUBSET Field
  PROVE  DegreeAtMost(Rooted(S), Cardinality(S))
<1> DEFINE B == {T \in SUBSET S : ~ DegreeAtMost(Rooted(T), Cardinality(T))}
<1>1. SUFFICES ASSUME B # {} PROVE FALSE
  OBVIOUS
<1>2. PICK T \in B : \A U \in B : U \subseteq T => U = T
  <2>1. B \in SUBSET SUBSET S /\ IsFiniteSet(S)
    BY FieldFinite
  <2> HIDE DEF B
  <2> QED BY <1>1, <2>1, FiniteTotal, FAdd!MinimalSubset
<1>3. T \in SUBSET Field /\ ~ DegreeAtMost(Rooted(T), Cardinality(T))
  BY <1>2
<1>4. IsFiniteSet(T) /\ Cardinality(T) \in Nat
  BY <1>3, FieldFinite
<1>5. T # {}
  <2> SUFFICES ASSUME T = {} PROVE FALSE
    OBVIOUS
  <2>1. ASSUME NEW x \in Field
        PROVE  FProd([i \in T |-> x -- i]) = 1
    <3>1. DOMAIN [i \in T |-> x -- i] = {}
      OBVIOUS
    <3> QED BY <3>1, FProdEmpty
  <2>2. Rooted(T) = One
    BY <2>1 DEF Rooted, One
  <2>3. Cardinality(T) = 0
    BY FS_EmptySet
  <2> QED BY <1>3, <2>2, <2>3, DegreeOne
<1>6. PICK y \in T : TRUE
  BY <1>5
<1> DEFINE U == T \ {y}
<1>7. DegreeAtMost(Rooted(U), Cardinality(U))
  <2>1. U \in SUBSET S /\ U \subseteq T /\ U # T
    BY <1>2, <1>6
  <2> HIDE DEF U
  <2> QED BY <1>2, <2>1
<1>8. Cardinality(U) = Cardinality(T) - 1 /\ Cardinality(U) \in Nat
  BY <1>4, <1>6, FS_RemoveElement, FS_CardinalityType
<1>9. y \in Field /\ U \in SUBSET Field
  BY <1>3, <1>6
<1>10. ASSUME NEW x \in Field
       PROVE  Rooted(T)[x] = ((0 -- y) ++ (1 ** x)) ** Rooted(U)[x]
  <2> DEFINE u == [i \in T |-> x -- i]
             v == [i \in U |-> x -- i]
  <2>1. /\ DOMAIN u = T /\ \A i \in T : u[i] = x -- i
        /\ DOMAIN v = U /\ \A i \in U : v[i] = u[i] /\ U = T \ {y}
        /\ u[y] = x -- y
    BY <1>6
  <2>2. Rooted(T)[x] = FProd(u) /\ Rooted(U)[x] = FProd(v)
    BY DEF Rooted
  <2> HIDE DEF u, v
  <2>3. \A i \in T : u[i] \in Field
    BY <1>3, <2>1, FieldClosed
  <2>4. FProd(u) = u[y] ** FProd(v)
    BY <1>4, <1>6, <2>1, <2>3, FProdExtract
  <2>5. (0 -- y) ++ (1 ** x) = x -- y
    <3>1. 1 ** x = x /\ 0 -- y \in Field
      BY <1>9, FieldClosed, FieldLaws
    <3>2. (0 -- y) ++ x = x ++ (0 -- y)
      BY <3>1, FieldLaws
    <3>3. x -- y = x ++ (0 -- y)
      BY <1>9, SubtractionLaws
    <3> QED BY <3>1, <3>2, <3>3
  <2> QED BY <2>1, <2>2, <2>4, <2>5
<1>11. Rooted(T) \in Functional
  BY <1>3, RootedType
<1>12. 0 -- y \in Field /\ 1 \in Field
  BY <1>9, FieldClosed
<1> HIDE DEF U
<1>13. DegreeAtMost(Rooted(T), Cardinality(U) + 1)
  BY <1>7, <1>8, <1>10, <1>11, <1>12, DegreeLinear
<1>14. Cardinality(U) + 1 = Cardinality(T)
  BY <1>4, <1>8
<1> QED BY <1>3, <1>13, <1>14

LEMMA FSumZero ==
  ASSUME NEW S, IsFiniteSet(S), NEW f, DOMAIN f = S, \A x \in S : f[x] = 0
  PROVE  FSum(f) = 0
<1>1. 0 \in Field /\ 0 ** 0 = 0
  BY FieldClosed, FieldLaws
<1>2. FSum(f) = 0 ** FSum(f)
  BY <1>1, FSumScale
<1>3. FSum(f) \in Field
  BY <1>1, FieldClosed, FSumType
<1> QED BY <1>2, <1>3, FieldLaws

\* The points N and one more: the share of the new one and the rest.
LEMMA DividedOneMore ==
  ASSUME NEW S \in SUBSET Field, NEW x \in Field, x \notin S, NEW g \in Functional
  PROVE  /\ S \cup {x} \in SUBSET Field
         /\ Cardinality(S \cup {x}) = Cardinality(S) + 1
         /\ Divided(S \cup {x}, g)
              = (g[x] ** Inv(Rooted(S)[x]))
                 ++ FSum([j \in S |-> g[j] ** Inv(Den(S \cup {x}, j))])
<1> DEFINE N == S \cup {x}
           u == [j \in N |-> g[j] ** Inv(Den(N, j))]
           v == [j \in S |-> g[j] ** Inv(Den(N, j))]
<1>1. N \in SUBSET Field /\ N \ {x} = S /\ x \in N
  OBVIOUS
<1>2. /\ Divided(N, g) = FSum(u) /\ DOMAIN u = N /\ DOMAIN v = S
      /\ \A j \in N : u[j] = g[j] ** Inv(Den(N, j))
      /\ \A j \in S : v[j] = u[j]
  BY DEF Divided
<1>3. Den(N, x) = Rooted(S)[x]
  <2>1. S \ {x} = S
    OBVIOUS
  <2> QED BY <1>1, <2>1 DEF Den, Rooted
<1>4. Cardinality(N) = Cardinality(S) + 1
  BY FieldFinite, FS_AddElement
<1>5. IsFiniteSet(N)
  BY <1>1, FieldFinite
<1> HIDE DEF N, u, v
<1>6. \A j \in N : u[j] \in Field
  BY <1>1, <1>2, DividedType
<1>7. FSum(u) = u[x] ++ FSum(v)
  BY <1>1, <1>2, <1>5, <1>6, FSumExtract
<1> QED BY <1>1, <1>2, <1>3, <1>4, <1>7 DEF N, v

\* A polynomial of degree k with more than k roots is zero.
LEMMA FewRoots ==
  ASSUME NEW k \in Nat, NEW g, DegreeAtMost(g, k),
         NEW Z \in SUBSET Field, Cardinality(Z) >= k + 1, \A z \in Z : g[z] = 0
  PROVE  \A x \in Field : g[x] = 0
<1> SUFFICES ASSUME NEW x \in Field, x \notin Z PROVE g[x] = 0
  OBVIOUS
<1> DEFINE N == Z \cup {x}
           v == [j \in Z |-> g[j] ** Inv(Den(N, j))]
           R == Rooted(Z)[x]
<1>1. g \in Functional
  BY DEF DegreeAtMost
<1>2. /\ N \in SUBSET Field /\ Cardinality(N) = Cardinality(Z) + 1
      /\ Divided(N, g) = (g[x] ** Inv(R)) ++ FSum(v)
  BY <1>1, DividedOneMore
<1>3. IsFiniteSet(Z) /\ Cardinality(Z) \in Nat
  BY FieldFinite
<1>4. FSum(v) = 0
  <2>1. ASSUME NEW j \in Z
        PROVE  v[j] = 0
    <3>1. Inv(Den(N, j)) \in Field
      BY <1>2, DenType
    <3> QED BY <3>1, FieldLaws
  <2>2. DOMAIN v = Z
    OBVIOUS
  <2> HIDE DEF v
  <2> QED BY <1>3, <2>1, <2>2, FSumZero
<1>5. Divided(N, g) = 0
  BY <1>2, <1>3 DEF DegreeAtMost
<1>6. R \in Field /\ R # 0 /\ g[x] \in Field
  BY <1>1, RootedType DEF Functional
<1> HIDE DEF N, v, R
<1>7. Inv(R) \in Field /\ Inv(R) # 0
  BY <1>6, InverseLaws
<1>8. g[x] ** Inv(R) = 0
  <2>1. (g[x] ** Inv(R)) \in Field
    BY <1>6, <1>7, FieldClosed
  <2>2. 0 ++ (g[x] ** Inv(R)) = g[x] ** Inv(R)
    BY <2>1, FieldLaws
  <2>3. (g[x] ** Inv(R)) ++ 0 = 0 ++ (g[x] ** Inv(R))
    BY <2>1, FieldClosed, FieldLaws
  <2> QED BY <1>2, <1>4, <1>5, <2>2, <2>3
<1> QED BY <1>6, <1>7, <1>8, NonZeroProduct

\* The value of a polynomial of degree k outside more than k points, from
\* its values there.
Weighed(S, g, x) == FSum([j \in S |-> (g[j] ** Inv(Den(S, j))) ** Inv(x -- j)])

LEMMA WeighedType ==
  ASSUME NEW S \in SUBSET Field, NEW x \in Field, x \notin S,
         NEW g, \A j \in S : g[j] \in Field
  PROVE  /\ Weighed(S, g, x) \in Field
         /\ \A j \in S : /\ x -- j \in Field /\ x -- j # 0
                         /\ Inv(x -- j) \in Field
                         /\ g[j] ** Inv(Den(S, j)) \in Field
                         /\ (g[j] ** Inv(Den(S, j))) ** Inv(x -- j) \in Field
<1>1. ASSUME NEW j \in S
      PROVE  /\ x -- j \in Field /\ x -- j # 0
             /\ Inv(x -- j) \in Field
             /\ g[j] ** Inv(Den(S, j)) \in Field
             /\ (g[j] ** Inv(Den(S, j))) ** Inv(x -- j) \in Field
  <2>1. x -- j \in Field /\ x -- j # 0
    BY FieldClosed, SubtractionLaws
  <2>2. Inv(x -- j) \in Field
    BY <2>1, InverseLaws
  <2>3. Inv(Den(S, j)) \in Field
    BY DenType
  <2>4. g[j] ** Inv(Den(S, j)) \in Field
    BY <2>3, FieldClosed
  <2> QED BY <2>1, <2>2, <2>4, FieldClosed
<1> DEFINE u == [j \in S |-> (g[j] ** Inv(Den(S, j))) ** Inv(x -- j)]
<1>2. DOMAIN u = S /\ \A j \in S : u[j] \in Int
  BY <1>1, FieldClosed
<1> HIDE DEF u
<1>3. FSum(u) \in Field
  BY <1>2, FieldFinite, FSumType
<1> QED BY <1>1, <1>3 DEF Weighed, u

LEMMA ValueOutside ==
  ASSUME NEW k \in Nat, NEW g, DegreeAtMost(g, k),
         NEW S \in SUBSET Field, Cardinality(S) >= k + 1,
         NEW x \in Field, x \notin S
  PROVE  g[x] = Rooted(S)[x] ** Weighed(S, g, x)
<1> DEFINE N == S \cup {x}
           v == [j \in S |-> g[j] ** Inv(Den(N, j))]
           w == [j \in S |-> (g[j] ** Inv(Den(S, j))) ** Inv(x -- j)]
           R == Rooted(S)[x]
           A == Weighed(S, g, x)
           e == 0 -- 1
<1>1. g \in Functional
  BY DEF DegreeAtMost
<1>2. /\ N \in SUBSET Field /\ Cardinality(N) = Cardinality(S) + 1
      /\ Divided(N, g) = (g[x] ** Inv(R)) ++ FSum(v)
  BY <1>1, DividedOneMore
<1>3. IsFiniteSet(S) /\ Cardinality(S) \in Nat
  BY FieldFinite
<1>4. Divided(N, g) = 0
  BY <1>2, <1>3 DEF DegreeAtMost
<1>5. \A j \in S : g[j] \in Field
  BY <1>1 DEF Functional
<1>6. A \in Field /\ \A j \in S : w[j] \in Field
  BY <1>5, WeighedType
<1>7. e \in Field
  BY FieldClosed
<1>8. ASSUME NEW j \in S
      PROVE  v[j] = e ** w[j]
  <2> DEFINE d == x -- j
             i == Inv(d)
             D == Den(S, j)
             y == g[j]
  <2>1. d \in Field /\ d # 0 /\ i \in Field /\ D \in Field /\ D # 0
        /\ Inv(D) \in Field /\ y \in Field /\ y ** Inv(D) \in Field
    BY <1>5, WeighedType, DenType
  <2>2. w[j] = (y ** Inv(D)) ** i
    OBVIOUS
  <2>3. Den(N, j) = (j -- x) ** D
    <3>1. x \in N /\ j \in N \ {x} /\ N \ {x} = S
      OBVIOUS
    <3> HIDE DEF N
    <3> QED BY <1>2, <3>1, DenStep
  <2>4. j -- x = 0 -- d
    <3>1. j \in Field
      OBVIOUS
    <3> QED BY <3>1, SubtractionLaws
  <2>5. v[j] = y ** Inv((0 -- d) ** D)
    BY <2>3, <2>4
  <2> HIDE DEF v, w, d, D, y, N
  <2>6. 0 -- d \in Field /\ 0 -- d # 0 /\ Inv(0 -- d) = 0 -- i
    BY <2>1, InverseOpposite
  <2>7. Inv((0 -- d) ** D) = (0 -- i) ** Inv(D)
    BY <2>1, <2>6, InverseProduct
  <2> HIDE DEF i, e
  <2>8. 0 -- i = e ** i
    <3>1. e ** i = i ** e /\ i ** 0 = 0 ** i /\ 0 ** i = 0 /\ i ** 1 = 1 ** i /\ 1 ** i = i
      BY <1>7, <2>1, FieldClosed, FieldLaws
    <3>2. i ** (0 -- 1) = (i ** 0) -- (i ** 1)
      BY <2>1, FieldClosed, DistributesMinus
    <3> QED BY <3>1, <3>2 DEF e
  <2>9. y ** ((e ** i) ** Inv(D)) = e ** ((y ** Inv(D)) ** i)
    <3>1. i ** Inv(D) \in Field /\ Inv(D) ** i = i ** Inv(D)
      BY <2>1, FieldClosed, FieldLaws
    <3>2. (e ** i) ** Inv(D) = e ** (i ** Inv(D))
      BY <1>7, <2>1, FieldLaws
    <3>3. y ** (e ** (i ** Inv(D))) = e ** (y ** (i ** Inv(D)))
      BY <1>7, <2>1, <3>1, MulMonoid, Mul!MonoidSwap
    <3>4. y ** (Inv(D) ** i) = (y ** Inv(D)) ** i
      BY <2>1, FieldLaws
    <3> QED BY <3>1, <3>2, <3>3, <3>4
  <2> QED BY <2>2, <2>5, <2>7, <2>8, <2>9
<1>9. FSum(v) = e ** A
  <2>1. DOMAIN v = S /\ DOMAIN w = S /\ A = FSum(w)
    BY DEF Weighed
  <2> HIDE DEF v, w, A, e
  <2> QED BY <1>3, <1>6, <1>7, <1>8, <2>1, FSumScale
<1>10. R \in Field /\ R # 0 /\ g[x] \in Field
  BY <1>1, RootedType DEF Functional
<1> HIDE DEF N, v, w, R, A
<1>11. Inv(R) \in Field /\ R ** Inv(R) = 1
  BY <1>10, InverseLaws
<1>12. 0 -- A = e ** A
  <2>1. e ** A = A ** e /\ A ** 0 = 0 ** A /\ 0 ** A = 0 /\ A ** 1 = 1 ** A /\ 1 ** A = A
    BY <1>6, <1>7, FieldClosed, FieldLaws
  <2>2. A ** (0 -- 1) = (A ** 0) -- (A ** 1)
    BY <1>6, FieldClosed, DistributesMinus
  <2> QED BY <2>1, <2>2
<1>13. g[x] ** Inv(R) = A
  <2>1. g[x] ** Inv(R) \in Field /\ 0 -- A \in Field
    BY <1>6, <1>10, <1>11, FieldClosed
  <2>2. (g[x] ** Inv(R)) ++ (0 -- A) = 0
    BY <1>2, <1>4, <1>9, <1>12
  <2>3. g[x] ** Inv(R) = 0 -- (0 -- A)
    BY <2>1, <2>2, SubtractionLaws
  <2>4. 0 -- (0 -- A) = A -- 0
    BY <1>6, FieldClosed, SubtractionLaws
  <2> QED BY <1>6, <2>3, <2>4, SubtractionLaws
<1>14. R ** (g[x] ** Inv(R)) = g[x]
  <2>1. g[x] ** Inv(R) = Inv(R) ** g[x]
    BY <1>10, <1>11, FieldLaws
  <2>2. R ** (Inv(R) ** g[x]) = (R ** Inv(R)) ** g[x]
    BY <1>10, <1>11, FieldLaws
  <2>3. 1 ** g[x] = g[x]
    BY <1>10, FieldLaws
  <2> QED BY <1>11, <2>1, <2>2, <2>3
<1> QED BY <1>13, <1>14 DEF R, A

\* The polynomial through given values p at the points S.
Through(S, p) ==
  [x \in Field |->
     FSum([j \in S |-> (p[j] ** Inv(Den(S, j))) ** Rooted(S \ {j})[x]])]

LEMMA ThroughFacts ==
  ASSUME NEW k \in Nat, NEW S \in SUBSET Field, Cardinality(S) = k + 1,
         NEW p, \A j \in S : p[j] \in Field
  PROVE  DegreeAtMost(Through(S, p), k) /\ \A s \in S : Through(S, p)[s] = p[s]
<1> DEFINE c(j) == p[j] ** Inv(Den(S, j))
           G == [j \in S |-> [x \in Field |-> c(j) ** Rooted(S \ {j})[x]]]
           h == Through(S, p)
<1>1. IsFiniteSet(S)
  BY FieldFinite
<1>2. \A j \in S : c(j) \in Field /\ Inv(Den(S, j)) \in Field
  BY DenType, FieldClosed
<1>3. \A j \in S : S \ {j} \in SUBSET Field /\ Rooted(S \ {j}) \in Functional
  BY RootedType
<1>4. \A j \in S : \A x \in Field : c(j) ** Rooted(S \ {j})[x] \in Field
  <2> SUFFICES ASSUME NEW j \in S, NEW x \in Field
               PROVE  c(j) ** Rooted(S \ {j})[x] \in Field
    OBVIOUS
  <2>1. Rooted(S \ {j})[x] \in Field
    BY <1>3 DEF Functional
  <2>2. c(j) \in Field
    BY <1>2
  <2> HIDE DEF c
  <2> QED BY <2>1, <2>2, FieldClosed
<1>5. ASSUME NEW j \in S
      PROVE  DegreeAtMost(G[j], k)
  <2>1. G[j] = [x \in Field |-> c(j) ** Rooted(S \ {j})[x]]
    OBVIOUS
  <2>2. PICK g : g = G[j]
    OBVIOUS
  <2>3. PICK r : r = Rooted(S \ {j})
    OBVIOUS
  <2>4. PICK d : d = c(j)
    OBVIOUS
  <2>5. Cardinality(S \ {j}) = k
    <3>1. Cardinality(S \ {j}) = Cardinality(S) - 1
      BY <1>1, FS_RemoveElement
    <3> QED BY <3>1
  <2>6. DegreeAtMost(r, k)
    BY <1>3, <2>3, <2>5, DegreeRooted
  <2>7. g \in Functional
    BY <1>4, <2>1, <2>2 DEF Functional
  <2>8. \A x \in Field : g[x] = d ** r[x]
    BY <2>1, <2>2, <2>3, <2>4
  <2>9. d \in Field
    BY <1>2, <2>4
  <2> HIDE DEF G, c
  <2>10. DegreeAtMost(g, k)
    BY <2>6, <2>7, <2>8, <2>9, DegreeScale
  <2> QED BY <2>2, <2>10
<1>6. ASSUME NEW x \in Field
      PROVE  /\ h[x] = FSum([j \in S |-> G[j][x]])
             /\ h[x] \in Field
             /\ x \in S => h[x] = p[x]
  <2> DEFINE u == [j \in S |-> (p[j] ** Inv(Den(S, j))) ** Rooted(S \ {j})[x]]
             v == [j \in S \ {x} |-> u[j]]
  <2>1. h[x] = FSum(u)
    BY DEF Through
  <2>2. u = [j \in S |-> G[j][x]]
    OBVIOUS
  <2>3. \A j \in S : u[j] \in Field /\ u[j] \in Int
    BY <1>4, FieldClosed
  <2>4. DOMAIN u = S /\ DOMAIN v = S \ {x} /\ \A j \in S \ {x} : v[j] = u[j]
    OBVIOUS
  <2>5. FSum(u) \in Field
    <3> HIDE DEF u
    <3> QED BY <1>1, <2>3, <2>4, FSumType
  <2>6. ASSUME x \in S PROVE FSum(u) = p[x]
    <3>1. u[x] = p[x]
      <4> DEFINE D == Den(S, x)
      <4>1. Rooted(S \ {x})[x] = D
        BY RootedType
      <4>2. u[x] = (p[x] ** Inv(D)) ** D
        BY <2>6, <4>1
      <4>3. D \in Field /\ Inv(D) \in Field /\ D ** Inv(D) = 1 /\ p[x] \in Field
        BY <2>6, DenType
      <4> HIDE DEF D, u
      <4>4. (p[x] ** Inv(D)) ** D = p[x] ** (Inv(D) ** D)
        BY <4>3, FieldLaws
      <4>5. Inv(D) ** D = D ** Inv(D) /\ p[x] ** 1 = 1 ** p[x] /\ 1 ** p[x] = p[x]
        BY <4>3, FieldClosed, FieldLaws
      <4> QED BY <4>2, <4>3, <4>4, <4>5
    <3>2. ASSUME NEW j \in S \ {x}
          PROVE  v[j] = 0
      <4>1. Rooted(S \ {j})[x] = 0
        <5>1. S \ {j} \in SUBSET Field /\ x \in S \ {j}
          BY <2>6
        <5> QED BY <5>1, RootedType
      <4>2. c(j) ** 0 = 0
        <5>1. c(j) \in Field
          BY <1>2
        <5> HIDE DEF c
        <5> QED BY <5>1, UnitLaws
      <4>3. v[j] = c(j) ** Rooted(S \ {j})[x]
        OBVIOUS
      <4> QED BY <4>1, <4>2, <4>3
    <3> HIDE DEF u, v
    <3>3. FSum(u) = u[x] ++ FSum(v)
      BY <1>1, <2>3, <2>4, <2>6, FSumExtract
    <3>4. FSum(v) = 0
      <4>1. IsFiniteSet(S \ {x})
        BY <1>1, FS_RemoveElement
      <4> QED BY <2>4, <3>2, <4>1, FSumZero
    <3>5. p[x] ++ 0 = p[x]
      BY <2>6, FieldClosed, FieldLaws
    <3> QED BY <3>1, <3>3, <3>4, <3>5
  <2> HIDE DEF u
  <2> QED BY <2>1, <2>2, <2>5, <2>6
<1>7. h \in Functional
  <2>1. h = [x \in Field |-> h[x]]
    BY DEF Through
  <2> HIDE DEF h
  <2> QED BY <1>6, <2>1 DEF Functional
<1>8. \A s \in S : s \in Field
  OBVIOUS
<1> HIDE DEF h, G, c
<1>9. DegreeAtMost(h, k)
  <2>1. \A s \in S : DegreeAtMost(G[s], k)
    BY <1>5
  <2>2. \A x \in Field : h[x] = SumAt(S, G, x)
    BY <1>6 DEF SumAt
  <2> QED BY <1>1, <1>7, <2>1, <2>2, DegreeSum
<1> QED BY <1>6, <1>8, <1>9 DEF h

\* Fewer than k + 1 arguments tell two polynomials of degree k apart.
LEMMA FewAgreements ==
  ASSUME NEW k \in Nat, NEW f, DegreeAtMost(f, k), NEW g, DegreeAtMost(g, k),
         NEW Z \in SUBSET Field, Cardinality(Z) >= k + 1, \A z \in Z : f[z] = g[z]
  PROVE  \A x \in Field : f[x] = g[x]
<1> DEFINE minus == 0 -- 1
           o == [x \in Field |-> minus ** g[x]]
           h == [x \in Field |-> f[x] -- g[x]]
<1>1. minus \in Field /\ 0 \in Field /\ 1 \in Field
  BY FieldClosed
<1>2. \A x \in Field : f[x] \in Field /\ g[x] \in Field
  BY DEF DegreeAtMost, Functional
<1>3. o \in Functional /\ h \in Functional
  BY <1>1, <1>2, FieldClosed DEF Functional
<1>4. \A x \in Field : o[x] = minus ** g[x] /\ h[x] = f[x] -- g[x]
  OBVIOUS
<1>5. ASSUME NEW x \in Field
      PROVE  h[x] = f[x] ++ o[x]
  <2>1. PICK a \in Field, b \in Field : a = f[x] /\ b = g[x]
    BY <1>2
  <2>2. minus ** b = b ** minus
    BY <1>1, <2>1, FieldLaws
  <2>3. b ** (0 -- 1) = (b ** 0) -- (b ** 1)
    BY <1>1, <2>1, DistributesMinus
  <2>4. b ** 0 = 0 /\ b ** 1 = b
    <3>1. b ** 0 = 0 ** b /\ b ** 1 = 1 ** b
      BY <1>1, <2>1, FieldLaws
    <3> QED BY <2>1, <3>1, FieldLaws
  <2>5. a -- b = a ++ (0 -- b)
    BY <2>1, SubtractionLaws
  <2> QED BY <1>4, <2>1, <2>2, <2>3, <2>4, <2>5
<1> HIDE DEF minus, o, h
<1>6. DegreeAtMost(o, k)
  BY <1>1, <1>3, <1>4, DegreeScale
<1>7. DegreeAtMost(h, k)
  BY <1>3, <1>5, <1>6, DegreePlus
<1>8. \A z \in Z : h[z] = 0
  BY <1>2, <1>4, SubtractionLaws
<1>9. \A x \in Field : h[x] = 0
  BY <1>7, <1>8, FewRoots
<1> QED BY <1>2, <1>4, <1>9, SubtractionLaws

LEMMA Nodes ==
  ASSUME NEW d \in Nat, d < P
  PROVE  /\ 0 .. d \in SUBSET Field /\ Cardinality(0 .. d) = d + 1
         /\ \A j \in 0 .. d : FromInt(j) = j
<1>1. 0 .. d \in SUBSET Field
  BY PAssumption DEF Field
<1>2. Cardinality(0 .. d) = d + 1
  BY FS_Interval
<1> QED BY <1>1, <1>2, FieldClosed

---------------------------------------------------------------------------
(* Two sums in either order.                                               *)

RowSum(G, B, k) == FSum([b \in B |-> G[k][b]])

LEMMA FSumExchange ==
  ASSUME NEW K, IsFiniteSet(K), NEW B, IsFiniteSet(B),
         NEW G, \A k \in K : \A b \in B : G[k][b] \in Field,
         NEW u, DOMAIN u = B, \A b \in B : u[b] = SumAt(K, G, b),
         NEW v, DOMAIN v = K, \A k \in K : v[k] = RowSum(G, B, k)
  PROVE  FSum(u) = FSum(v)
<1> DEFINE Down(T) == [b \in B |-> SumAt(T, G, b)]
           Across(T) == [k \in T |-> RowSum(G, B, k)]
           Bad == {T \in SUBSET K : FSum(Down(T)) # FSum(Across(T))}
<1>1. \A T \in SUBSET K : IsFiniteSet(T)
  BY FS_Subset
<1>2. ASSUME NEW T \in SUBSET K, NEW b \in B
      PROVE  SumAt(T, G, b) \in Field
  <2> DEFINE w == [s \in T |-> G[s][b]]
  <2>1. DOMAIN w = T /\ \A s \in T : w[s] \in Int
    BY FieldClosed
  <2> HIDE DEF w
  <2>2. FSum(w) \in Field
    BY <1>1, <2>1, FSumType
  <2> QED BY <2>2 DEF w, SumAt
<1>3. ASSUME NEW k \in K
      PROVE  RowSum(G, B, k) \in Field
  <2> DEFINE w == [b \in B |-> G[k][b]]
  <2>1. DOMAIN w = B /\ \A b \in B : w[b] \in Int
    BY FieldClosed
  <2> HIDE DEF w
  <2>2. FSum(w) \in Field
    BY <2>1, FSumType
  <2> QED BY <2>2 DEF w, RowSum
<1>4. SUFFICES ASSUME Bad # {} PROVE FALSE
  <2>1. SUFFICES ASSUME FSum(Down(K)) = FSum(Across(K)) PROVE FSum(u) = FSum(v)
    OBVIOUS
  <2>2. PICK d : d = Down(K)
    OBVIOUS
  <2>3. PICK a : a = Across(K)
    OBVIOUS
  <2>4. \A x \in Field : 1 ** x = x
    BY FieldLaws
  <2>5. DOMAIN d = B /\ \A b \in B : d[b] \in Field /\ u[b] = 1 ** d[b]
    BY <1>2, <2>2, <2>4
  <2>6. DOMAIN a = K /\ \A k \in K : a[k] \in Field /\ v[k] = 1 ** a[k]
    BY <1>3, <2>3, <2>4
  <2> HIDE DEF Down, Across
  <2>7. FSum(u) = 1 ** FSum(d) /\ FSum(v) = 1 ** FSum(a)
    BY <2>5, <2>6, FieldClosed, FSumScale
  <2> QED BY <2>1, <2>2, <2>3, <2>7
<1>5. PICK T \in Bad : \A U \in Bad : U \subseteq T => U = T
  <2>1. Bad \in SUBSET SUBSET K
    OBVIOUS
  <2> HIDE DEF Bad
  <2> QED BY <1>4, <2>1, FiniteTotal, FAdd!MinimalSubset
<1>6. T \in SUBSET K /\ FSum(Down(T)) # FSum(Across(T)) /\ IsFiniteSet(T)
  BY <1>1, <1>5
<1>7. T # {}
  <2> SUFFICES ASSUME T = {} PROVE FALSE
    OBVIOUS
  <2>1. ASSUME NEW b \in B PROVE SumAt(T, G, b) = 0
    <3>1. DOMAIN [s \in T |-> G[s][b]] = {}
      OBVIOUS
    <3> QED BY <3>1, FSumEmpty DEF SumAt
  <2>2. DOMAIN Across(T) = {}
    OBVIOUS
  <2>3. DOMAIN Down(T) = B /\ \A b \in B : Down(T)[b] = 0
    BY <2>1
  <2> HIDE DEF Down, Across
  <2>4. FSum(Across(T)) = 0
    BY <2>2, FSumEmpty
  <2>5. PICK d : d = Down(T)
    OBVIOUS
  <2>6. FSum(d) = 0
    BY <2>3, <2>5, FSumZero
  <2> QED BY <1>6, <2>4, <2>5, <2>6
<1>8. PICK y \in T : TRUE
  BY <1>7
<1> DEFINE U == T \ {y}
<1>9. U \in SUBSET K /\ U \subseteq T /\ U # T
  BY <1>6, <1>8
<1>10. FSum(Down(U)) = FSum(Across(U))
  <2> HIDE DEF U, Down, Across
  <2> QED BY <1>5, <1>9
<1>11. FSum(Across(T)) = RowSum(G, B, y) ++ FSum(Across(U))
  <2>1. /\ DOMAIN Across(T) = T /\ \A k \in T : Across(T)[k] \in Field
        /\ DOMAIN Across(U) = T \ {y}
        /\ \A k \in T \ {y} : Across(U)[k] = Across(T)[k]
        /\ Across(T)[y] = RowSum(G, B, y)
    BY <1>3, <1>6
  <2> HIDE DEF U, Across
  <2>2. PICK f, g : f = Across(T) /\ g = Across(U)
    OBVIOUS
  <2>3. FSum(f) = f[y] ++ FSum(g)
    BY <1>6, <1>8, <2>1, <2>2, FSumExtract
  <2> QED BY <2>1, <2>2, <2>3
<1>12. ASSUME NEW b \in B
       PROVE  SumAt(T, G, b) = G[y][b] ++ SumAt(U, G, b)
  <2> DEFINE f == [s \in T |-> G[s][b]]
             g == [s \in U |-> G[s][b]]
  <2>1. /\ DOMAIN f = T /\ \A k \in T : f[k] \in Field
        /\ DOMAIN g = T \ {y} /\ \A k \in T \ {y} : g[k] = f[k]
        /\ f[y] = G[y][b]
    BY <1>6
  <2> HIDE DEF f, g
  <2>2. FSum(f) = f[y] ++ FSum(g)
    BY <1>6, <1>8, <2>1, FSumExtract
  <2> QED BY <2>1, <2>2 DEF f, g, SumAt
<1>13. FSum(Down(T)) = RowSum(G, B, y) ++ FSum(Down(U))
  <2> DEFINE r == [b \in B |-> G[y][b]]
  <2>1. /\ DOMAIN Down(T) = B /\ DOMAIN Down(U) = B /\ DOMAIN r = B
        /\ \A b \in B : /\ r[b] \in Field /\ Down(U)[b] \in Field
                        /\ Down(T)[b] = r[b] ++ Down(U)[b]
    BY <1>2, <1>6, <1>9, <1>12
  <2>2. FSum(r) = RowSum(G, B, y)
    BY DEF RowSum
  <2> HIDE DEF U, Down, r
  <2>3. PICK f, g : f = Down(T) /\ g = Down(U)
    OBVIOUS
  <2>4. FSum(f) = FSum(r) ++ FSum(g)
    BY <2>1, <2>3, FSumPlus
  <2> QED BY <2>2, <2>3, <2>4
<1> QED BY <1>6, <1>10, <1>11, <1>13

---------------------------------------------------------------------------
(* Tables at the Boolean points and on the lines between them.             *)

\* Binding the first variable of a table.
Blended(T, m, r) == [b \in Index(m) |-> T[2*b] ++ ((T[2*b + 1] -- T[2*b]) ** r)]

LEMMA BlendedFacts ==
  ASSUME NEW m \in Nat, NEW T \in Table(m+1), NEW r \in Field
  PROVE  /\ Blended(T, m, r) \in Table(m)
         /\ \A rest \in Point(m) :
              Extension(Blended(T, m, r), rest) = Extension(T, <<r>> \o rest)
         /\ \A b \in Index(m) :
              Blended(T, m, r)[b] = T[2*b] ++ (r ** (T[2*b + 1] -- T[2*b]))
<1> DEFINE g == Blended(T, m, r)
<1>1. DOMAIN g = Index(m)
      /\ \A b \in Index(m) : g[b] = T[2*b] ++ ((T[2*b + 1] -- T[2*b]) ** r)
  BY DEF Blended
<1>2. ASSUME NEW b \in Index(m)
      PROVE  /\ T[2*b] \in Field /\ T[2*b + 1] \in Field
             /\ T[2*b + 1] -- T[2*b] \in Field
             /\ T[2*b] ++ ((T[2*b + 1] -- T[2*b]) ** r) \in Field
             /\ (T[2*b + 1] -- T[2*b]) ** r = r ** (T[2*b + 1] -- T[2*b])
  <2>1. T[2*b] \in Field /\ T[2*b + 1] \in Field
    BY IndexFacts DEF Table
  <2>2. T[2*b + 1] -- T[2*b] \in Field
    BY <2>1, FieldClosed
  <2>3. (T[2*b + 1] -- T[2*b]) ** r \in Field
    BY <2>2, FieldClosed
  <2>4. T[2*b] ++ ((T[2*b + 1] -- T[2*b]) ** r) \in Field
    BY <2>1, <2>3, FieldClosed
  <2>5. (T[2*b + 1] -- T[2*b]) ** r = r ** (T[2*b + 1] -- T[2*b])
    BY <2>2, FieldLaws
  <2> QED BY <2>1, <2>2, <2>4, <2>5
<1>3. g \in Table(m)
  BY <1>2 DEF Blended, Table
<1> HIDE DEF g
<1>4. \A rest \in Point(m) : Extension(g, rest) = Extension(T, <<r>> \o rest)
  BY <1>1, ExtensionFirst
<1> QED BY <1>1, <1>2, <1>3, <1>4 DEF g

LEMMA BitsPoint ==
  ASSUME NEW n \in Nat, NEW b \in Nat
  PROVE  bit_decompose(b, n) \in Point(n)
<1>1. ASSUME NEW i \in 1 .. n
      PROVE  (b \div 2^(i-1)) % 2 \in Field
  <2>1. 2^(i-1) \in Nat \ {0}
    BY TwoToThe
  <2>2. PICK q \in Nat : q = b \div 2^(i-1)
    BY <2>1
  <2>3. q % 2 \in {0, 1}
    BY <2>2
  <2> QED BY <2>2, <2>3, FieldClosed
<1> QED BY <1>1 DEF bit_decompose, Point

AgreesAtIndices(m) ==
  \A g \in Table(m) : \A b \in Index(m) : Extension(g, bit_decompose(b, m)) = g[b]

LEMMA Halved ==
  ASSUME NEW b \in Nat
  PROVE  \E c \in Nat : \E t \in {0, 1} : b = 2*c + t
<1> DEFINE S == {n \in Nat : \E c \in Nat : n = 2*c \/ n = 2*c + 1}
<1>1. 0 \in S
  <2>1. 0 = 2*0
    OBVIOUS
  <2> QED BY <2>1
<1>2. ASSUME NEW n \in Nat, n \in S
      PROVE  n + 1 \in S
  <2>1. PICK c \in Nat : n = 2*c \/ n = 2*c + 1
    BY <1>2
  <2>2. n + 1 = 2*c + 1 \/ n + 1 = 2*(c + 1)
    BY <2>1
  <2>3. c + 1 \in Nat
    BY <2>1
  <2>4. PICK e : e = c + 1
    OBVIOUS
  <2>5. e \in Nat /\ (n + 1 = 2*c + 1 \/ n + 1 = 2*e)
    BY <2>2, <2>3, <2>4
  <2>6. \E d \in Nat : n + 1 = 2*d \/ n + 1 = 2*d + 1
    <3>1. CASE n + 1 = 2*c + 1
      BY <2>1, <3>1
    <3>2. CASE n + 1 = 2*e
      BY <2>5, <3>2
    <3> QED BY <2>5, <3>1, <3>2
  <2> QED BY <2>6
<1> HIDE DEF S
<1>3. Nat \subseteq S
  BY <1>1, <1>2, Add!NaturalInduction
<1>4. PICK c \in Nat : b = 2*c \/ b = 2*c + 1
  BY <1>3 DEF S
<1>5. b = 2*c + 0 \/ b = 2*c + 1
  BY <1>4
<1> QED BY <1>5

LEMMA IndexHalf ==
  ASSUME NEW m \in Nat, NEW b \in Index(m+1)
  PROVE  \E c \in Index(m) : \E t \in {0, 1} : b = 2*c + t
<1>1. PICK h \in Nat \ {0} : h = 2^m /\ Index(m) = 0 .. h - 1 /\ Index(m+1) = 0 .. 2*h - 1
  BY IndexFacts
<1>2. b \in Nat /\ b < 2*h
  BY <1>1
<1>3. \E c \in Nat : \E t \in {0, 1} : b = 2*c + t
  BY <1>2, Halved
<1>4. PICK c \in Nat, t \in {0, 1} : b = 2*c + t
  BY <1>3
<1>5. c \in 0 .. h - 1
  BY <1>2, <1>4
<1> QED BY <1>1, <1>4, <1>5

\* At the bits of an index the extension is the entry there.
LEMMA ExtensionAtIndex == \A m \in Nat : AgreesAtIndices(m)
<1> DEFINE S == {m \in Nat : AgreesAtIndices(m)}
<1>1. AgreesAtIndices(0)
  <2> SUFFICES ASSUME NEW g \in Table(0), NEW b \in Index(0)
               PROVE  Extension(g, bit_decompose(b, 0)) = g[b]
    BY DEF AgreesAtIndices
  <2>1. Index(0) = {0}
    BY TwoToThe DEF Index
  <2>2. b = 0 /\ DOMAIN g = {0} /\ g[0] \in Field
    BY <2>1 DEF Table
  <2> DEFINE x == bit_decompose(b, 0)
             h == [c \in DOMAIN g |-> g[c] ** Basis(c, x)]
  <2>3. DOMAIN x = {}
    BY DEF bit_decompose
  <2>4. Basis(0, x) = 1
    <3> DEFINE f == [i \in DOMAIN x |-> IF Bit(0, i-1) = 1 THEN x[i] ELSE 1 -- x[i]]
    <3>1. DOMAIN f = {}
      BY <2>3
    <3> HIDE DEF f
    <3>2. FProd(f) = 1
      BY <3>1, FProdEmpty
    <3> QED BY <3>2 DEF f, Basis
  <2>5. 1 ** g[0] = g[0] /\ g[0] ** 1 = 1 ** g[0]
    BY <2>2, FieldLaws, FieldClosed
  <2>6. DOMAIN h = {0} /\ h[0] = g[0]
    BY <2>2, <2>4, <2>5
  <2>7. Extension(g, x) = FSum(h)
    BY DEF Extension
  <2> HIDE DEF h, x
  <2>8. FSum(h) = g[0]
    BY <2>2, <2>6, FSumOne
  <2> QED BY <2>2, <2>7, <2>8 DEF x
<1>2. ASSUME NEW m \in Nat, AgreesAtIndices(m)
      PROVE  AgreesAtIndices(m+1)
  <2> SUFFICES ASSUME NEW g \in Table(m+1), NEW b \in Index(m+1)
               PROVE  Extension(g, bit_decompose(b, m+1)) = g[b]
    BY DEF AgreesAtIndices
  <2>1. PICK c \in Index(m), t \in {0, 1} : b = 2*c + t
    BY IndexHalf
  <2>2. c \in Nat /\ t \in Field
    BY IndexFacts, FieldClosed
  <2>3. bit_decompose(b, m+1) = <<t>> \o bit_decompose(c, m)
    BY <2>1, <2>2, BitsOfDouble
  <2>4. Extension(Blended(g, m, t), bit_decompose(c, m))
          = Extension(g, <<t>> \o bit_decompose(c, m))
    BY <2>2, BitsPoint, BlendedFacts
  <2>5. Extension(Blended(g, m, t), bit_decompose(c, m)) = Blended(g, m, t)[c]
    BY <1>2, <2>2, BlendedFacts DEF AgreesAtIndices
  <2>6. Blended(g, m, t)[c] = g[2*c] ++ (t ** (g[2*c + 1] -- g[2*c]))
    BY <2>2, BlendedFacts
  <2>7. g[2*c] \in Field /\ g[2*c + 1] \in Field /\ g[2*c + 1] -- g[2*c] \in Field
    <3>1. g[2*c] \in Field /\ g[2*c + 1] \in Field
      BY IndexFacts DEF Table
    <3> QED BY <3>1, FieldClosed
  <2>8. g[2*c] ++ (t ** (g[2*c + 1] -- g[2*c])) = g[2*c + t]
    <3>1. CASE t = 0
      <4>1. 0 ** (g[2*c + 1] -- g[2*c]) = 0
        BY <2>7, FieldLaws
      <4>2. g[2*c] ++ 0 = g[2*c]
        BY <2>7, UnitLaws
      <4> QED BY <2>2, <3>1, <4>1, <4>2
    <3>2. CASE t = 1
      <4>1. 1 ** (g[2*c + 1] -- g[2*c]) = g[2*c + 1] -- g[2*c]
        BY <2>7, FieldLaws
      <4>2. g[2*c] ++ (g[2*c + 1] -- g[2*c]) = (g[2*c + 1] -- g[2*c]) ++ g[2*c]
        BY <2>7, FieldLaws
      <4>3. (g[2*c + 1] -- g[2*c]) ++ g[2*c] = g[2*c + 1]
        BY <2>7, FieldLaws
      <4> QED BY <3>2, <4>1, <4>2, <4>3
    <3> QED BY <3>1, <3>2
  <2> QED BY <2>1, <2>3, <2>4, <2>5, <2>6, <2>8
<1>3. 0 \in S /\ \A m \in Nat : m \in S => m + 1 \in S
  BY <1>1, <1>2
<1> HIDE DEF S
<1>4. Nat \subseteq S
  BY <1>3, Add!NaturalInduction
<1> QED BY <1>4 DEF S

LEMMA ExtensionLine ==
  ASSUME NEW m \in Nat, NEW T \in Table(m+1), NEW x \in Field, NEW b \in Index(m)
  PROVE  Extension(T, <<x>> \o bit_decompose(b, m))
           = T[2*b] ++ (x ** (T[2*b + 1] -- T[2*b]))
<1>1. b \in Nat
  BY IndexFacts
<1>2. Extension(Blended(T, m, x), bit_decompose(b, m))
        = Extension(T, <<x>> \o bit_decompose(b, m))
  BY <1>1, BitsPoint, BlendedFacts
<1>3. Extension(Blended(T, m, x), bit_decompose(b, m)) = Blended(T, m, x)[b]
  BY BlendedFacts, ExtensionAtIndex DEF AgreesAtIndices
<1> QED BY <1>2, <1>3, BlendedFacts

---------------------------------------------------------------------------
(* Tables with a prefix of the variables bound.                            *)

Binds(T, f, prefix, m) ==
  /\ T \in Table(m)
  /\ \A rest \in Point(m) : Extension(T, rest) = Extension(f, prefix \o rest)

LEMMA PointIsSeq ==
  ASSUME NEW m \in Nat, NEW x \in Point(m)
  PROVE  x \in Seq(Field) /\ Len(x) = m /\ (m = 0 => x = <<>>)
<1>1. x \in Seq(Field) /\ Len(x) = m
  BY DEF Point
<1>2. m = 0 => x = <<>>
  BY <1>1, EmptySeq
<1> QED BY <1>1, <1>2

LEMMA BindsNothing ==
  ASSUME NEW n \in Nat, NEW f \in Table(n)
  PROVE  Binds(f, f, <<>>, n)
<1> SUFFICES ASSUME NEW rest \in Point(n)
             PROVE  Extension(f, rest) = Extension(f, <<>> \o rest)
  BY DEF Binds
<1>1. rest \in Seq(Field)
  BY PointIsSeq
<1>2. <<>> \o rest = rest
  BY <1>1, ConcatEmptySeq
<1> QED BY <1>2

LEMMA BindsNext ==
  ASSUME NEW m \in Nat, NEW T, NEW f, NEW prefix \in Seq(Field), Binds(T, f, prefix, m+1),
         NEW r \in Field
  PROVE  Binds(Blended(T, m, r), f, prefix \o <<r>>, m)
<1>1. T \in Table(m+1)
  BY DEF Binds
<1>2. Blended(T, m, r) \in Table(m)
  BY <1>1, BlendedFacts
<1>3. ASSUME NEW rest \in Point(m)
      PROVE  Extension(Blended(T, m, r), rest) = Extension(f, (prefix \o <<r>>) \o rest)
  <2>1. <<r>> \o rest \in Point(m+1) /\ rest \in Seq(Field)
    BY PointFacts
  <2>2. Extension(Blended(T, m, r), rest) = Extension(T, <<r>> \o rest)
    BY <1>1, BlendedFacts
  <2>3. Extension(T, <<r>> \o rest) = Extension(f, prefix \o (<<r>> \o rest))
    BY <2>1 DEF Binds
  <2>4. <<r>> \in Seq(Field)
    OBVIOUS
  <2>5. prefix \o (<<r>> \o rest) = (prefix \o <<r>>) \o rest
    <3>1. prefix \in Seq(Field) /\ <<r>> \in Seq(Field) /\ rest \in Seq(Field)
      BY <2>1, <2>4
    <3> QED BY <3>1, ConcatAssociative
  <2> QED BY <2>2, <2>3, <2>5
<1> QED BY <1>2, <1>3 DEF Binds

\* Some table binds any prefix.
BindsSome(k) ==
  \A m \in Nat : \A f \in Table(k + m) : \A prefix \in Point(k) :
    \E T : Binds(T, f, prefix, m)

LEMMA BindsAny == \A k \in Nat : BindsSome(k)
<1> DEFINE S == {k \in Nat : BindsSome(k)}
<1>1. BindsSome(0)
  <2> SUFFICES ASSUME NEW m \in Nat, NEW f \in Table(0 + m), NEW prefix \in Point(0)
               PROVE  \E T : Binds(T, f, prefix, m)
    BY DEF BindsSome
  <2>1. prefix = <<>>
    BY PointIsSeq
  <2>2. 0 + m = m
    OBVIOUS
  <2> QED BY <2>1, <2>2, BindsNothing
<1>2. ASSUME NEW k \in Nat, BindsSome(k)
      PROVE  BindsSome(k+1)
  <2> SUFFICES ASSUME NEW m \in Nat, NEW f \in Table((k+1) + m), NEW prefix \in Point(k+1)
               PROVE  \E T : Binds(T, f, prefix, m)
    BY DEF BindsSome
  <2> DEFINE before == [i \in 1 .. k |-> prefix[i]]
             r == prefix[k+1]
  <2>1. r \in Field /\ before \in Point(k)
    BY DEF Point
  <2>2. before \in Seq(Field) /\ Len(before) = k
    BY <2>1, PointIsSeq
  <2>3. prefix = before \o <<r>>
    <3>1. /\ before \o <<r>> \in Point(k+1)
          /\ (before \o <<r>>)[k+1] = r
          /\ \A i \in 1 .. k : (before \o <<r>>)[i] = before[i]
      BY <2>1, PointFacts
    <3>2. \A i \in 1 .. k : before[i] = prefix[i]
      OBVIOUS
    <3> HIDE DEF before
    <3>3. \A i \in 1 .. k+1 : i \in 1 .. k \/ i = k+1
      OBVIOUS
    <3>4. (before \o <<r>>)[k+1] = prefix[k+1]
      BY <3>1 DEF r
    <3>5. \A i \in 1 .. k+1 : prefix[i] = (before \o <<r>>)[i]
      BY <3>1, <3>2, <3>3, <3>4
    <3> QED BY <3>1, <3>5 DEF Point
  <2> HIDE DEF before, r
  <2>4. (k+1) + m = k + (m+1) /\ m+1 \in Nat
    OBVIOUS
  <2>5. PICK T : Binds(T, f, before, m+1)
    BY <1>2, <2>1, <2>4 DEF BindsSome
  <2>6. Binds(Blended(T, m, r), f, before \o <<r>>, m)
    BY <2>1, <2>2, <2>5, BindsNext
  <2> QED BY <2>3, <2>6
<1>3. 0 \in S /\ \A k \in Nat : k \in S => k + 1 \in S
  BY <1>1, <1>2
<1> HIDE DEF S
<1>4. Nat \subseteq S
  BY <1>3, Add!NaturalInduction
<1> QED BY <1>4 DEF S

---------------------------------------------------------------------------
(* The coordinates of a point.                                             *)

\* The next coordinate may be read as the last of those bound or as the
\* first of those left.
LEMMA ShiftFront ==
  ASSUME NEW S, NEW s \in Seq(S), NEW t \in Seq(S), NEW k \in Nat, k < Len(s)
  PROVE  SubSeq(s, 1, k+1) \o t = SubSeq(s, 1, k) \o (<<s[k+1]>> \o t)
<1> DEFINE a == SubSeq(s, 1, k+1)
           b == SubSeq(s, 1, k)
           c == <<s[k+1]>>
           d == c \o t
<1>1. Len(s) \in Nat /\ Len(t) \in Nat /\ s[k+1] \in S
  BY LenProperties, ElementOfSeq
<1>2. /\ a \in Seq(S) /\ Len(a) = k+1 /\ \A j \in 1 .. k+1 : a[j] = s[j]
      /\ b \in Seq(S) /\ Len(b) = k /\ \A j \in 1 .. k : b[j] = s[j]
  <2>1. k+1 - 1 + 1 = k+1 /\ k - 1 + 1 = k /\ \A j \in Nat : 1 + j - 1 = j
    OBVIOUS
  <2>2. /\ 1 \in 1 .. Len(s) + 1 /\ k+1 \in 0 .. Len(s) /\ k \in 0 .. Len(s)
        /\ 1 <= (k+1) + 1 /\ 1 <= k + 1
    BY <1>1
  <2>3. /\ a \in Seq(S) /\ Len(a) = k+1 - 1 + 1
        /\ \A j \in 1 .. k+1 - 1 + 1 : a[j] = s[1 + j - 1]
    BY <2>2, Piece
  <2>4. /\ b \in Seq(S) /\ Len(b) = k - 1 + 1
        /\ \A j \in 1 .. k - 1 + 1 : b[j] = s[1 + j - 1]
    BY <2>2, Piece
  <2> HIDE DEF a, b
  <2> QED BY <2>1, <2>3, <2>4
<1>3. c \in Seq(S) /\ Len(c) = 1 /\ c[1] = s[k+1]
  BY <1>1
<1> HIDE DEF a, b, c, d
<1>l. PICK l \in Nat : l = Len(t)
  BY <1>1
<1>4. /\ d \in Seq(S) /\ Len(d) = 1 + l
      /\ \A j \in 1 .. 1 + l : d[j] = IF j <= 1 THEN c[j] ELSE t[j-1]
  <2>1. /\ c \o t \in Seq(S) /\ Len(c \o t) = Len(c) + Len(t)
        /\ \A j \in 1 .. Len(c) + Len(t) :
             (c \o t)[j] = IF j <= Len(c) THEN c[j] ELSE t[j - Len(c)]
    BY <1>3, ConcatProperties
  <2> QED BY <1>3, <1>l, <2>1 DEF d
<1> DEFINE u == a \o t
           v == b \o d
<1>5. /\ u \in Seq(S) /\ Len(u) = (k+1) + l
      /\ \A j \in 1 .. (k+1) + l : u[j] = IF j <= k+1 THEN a[j] ELSE t[j - (k+1)]
  <2>1. /\ a \o t \in Seq(S) /\ Len(a \o t) = Len(a) + Len(t)
        /\ \A j \in 1 .. Len(a) + Len(t) :
             (a \o t)[j] = IF j <= Len(a) THEN a[j] ELSE t[j - Len(a)]
    BY <1>2, ConcatProperties
  <2> QED BY <1>2, <1>l, <2>1 DEF u
<1>6. /\ v \in Seq(S) /\ Len(v) = k + (1 + l)
      /\ \A j \in 1 .. k + (1 + l) : v[j] = IF j <= k THEN b[j] ELSE d[j - k]
  <2>1. /\ b \o d \in Seq(S) /\ Len(b \o d) = Len(b) + Len(d)
        /\ \A j \in 1 .. Len(b) + Len(d) :
             (b \o d)[j] = IF j <= Len(b) THEN b[j] ELSE d[j - Len(b)]
    BY <1>2, <1>4, ConcatProperties
  <2> QED BY <1>2, <1>4, <1>l, <2>1 DEF v
<1> HIDE DEF u, v
<1>7. ASSUME NEW j \in 1 .. k + (1 + l)
      PROVE  u[j] = v[j]
  <2>j. j \in 1 .. (k+1) + l /\ j \in Nat
    OBVIOUS
  <2>1. CASE j <= k
    <3>1. j \in 1 .. k+1 /\ j \in 1 .. k /\ j <= k+1
      BY <2>j, <2>1
    <3> QED BY <1>2, <1>5, <1>6, <2>j, <2>1, <3>1
  <2>2. CASE j = k+1
    <3>1. u[j] = s[k+1]
      BY <1>2, <1>5, <2>j, <2>2
    <3>2. v[j] = d[1]
      BY <1>6, <2>2
    <3>3. d[1] = c[1]
      BY <1>4
    <3> QED BY <1>3, <3>1, <3>2, <3>3
  <2>3. CASE j > k+1
    <3>1. u[j] = t[j - (k+1)]
      BY <1>5, <2>j, <2>3
    <3>2. v[j] = d[j - k]
      BY <1>6, <2>j, <2>3
    <3>3. j - k \in 1 .. 1 + l /\ ~ (j - k <= 1) /\ (j - k) - 1 = j - (k+1)
      BY <2>3
    <3>4. d[j - k] = t[j - (k+1)]
      BY <1>4, <3>3
    <3> QED BY <3>1, <3>2, <3>4
  <2> QED BY <2>j, <2>1, <2>2, <2>3
<1>8. u = v
  <2>1. (k+1) + l = k + (1 + l)
    OBVIOUS
  <2> QED BY <1>5, <1>6, <1>7, <2>1, SeqEqual
<1> QED BY <1>8 DEF u, v, a, b, c, d

\* The same from the back.
LEMMA ShiftBack ==
  ASSUME NEW S, NEW s \in Seq(S), NEW t \in Seq(S), NEW k \in Nat, k < Len(s)
  PROVE  t \o SubSeq(s, Len(s) - k, Len(s))
           = (t \o <<s[Len(s) - k]>>) \o SubSeq(s, Len(s) - k + 1, Len(s))
<1> DEFINE a == SubSeq(s, Len(s) - k, Len(s))
           b == SubSeq(s, Len(s) - k + 1, Len(s))
           c == <<s[Len(s) - k]>>
           d == t \o c
           u == t \o a
           v == d \o b
<1>1. PICK e \in Nat, m \in Nat : e = Len(s) /\ m = Len(t)
  BY LenProperties
<1>2. /\ a \in Seq(S) /\ Len(a) = k+1 /\ \A j \in 1 .. k+1 : a[j] = s[e - k + j - 1]
      /\ b \in Seq(S) /\ Len(b) = k /\ \A j \in 1 .. k : b[j] = s[e - k + j]
  <2>1. /\ e - k \in 1 .. e + 1 /\ e - k + 1 \in 1 .. e + 1 /\ e \in 0 .. e
        /\ e - k <= e + 1 /\ e - k + 1 <= e + 1
        /\ e - (e - k) + 1 = k + 1 /\ e - (e - k + 1) + 1 = k
        /\ \A j \in Nat : e - k + 1 + j - 1 = e - k + j
    BY <1>1
  <2> DEFINE x == e - k
             y == e - k + 1
  <2>p. /\ x \in 1 .. Len(s) + 1 /\ y \in 1 .. Len(s) + 1 /\ e \in 0 .. Len(s)
        /\ x <= e + 1 /\ y <= e + 1
    BY <1>1, <2>1
  <2>q. a = SubSeq(s, x, e) /\ b = SubSeq(s, y, e)
    BY <1>1
  <2> HIDE DEF a, b, x, y
  <2>2. /\ a \in Seq(S) /\ Len(a) = e - x + 1
        /\ \A j \in 1 .. e - x + 1 : a[j] = s[x + j - 1]
    BY <2>p, <2>q, Piece
  <2>3. /\ b \in Seq(S) /\ Len(b) = e - y + 1
        /\ \A j \in 1 .. e - y + 1 : b[j] = s[y + j - 1]
    BY <2>p, <2>q, Piece
  <2> QED BY <2>1, <2>2, <2>3 DEF x, y
<1>3. c \in Seq(S) /\ Len(c) = 1 /\ c[1] = s[e - k]
  <2>1. e - k \in 1 .. e
    BY <1>1
  <2>2. s[e - k] \in S
    BY <1>1, <2>1, ElementOfSeq
  <2> QED BY <1>1, <2>2
<1> HIDE DEF a, b, c, d, u, v
<1>4. /\ d \in Seq(S) /\ Len(d) = m + 1
      /\ \A j \in 1 .. m + 1 : d[j] = IF j <= m THEN t[j] ELSE c[j - m]
  <2>1. /\ t \o c \in Seq(S) /\ Len(t \o c) = Len(t) + Len(c)
        /\ \A j \in 1 .. Len(t) + Len(c) :
             (t \o c)[j] = IF j <= Len(t) THEN t[j] ELSE c[j - Len(t)]
    BY <1>3, ConcatProperties
  <2> QED BY <1>1, <1>3, <2>1 DEF d
<1>5. /\ u \in Seq(S) /\ Len(u) = m + (k+1)
      /\ \A j \in 1 .. m + (k+1) : u[j] = IF j <= m THEN t[j] ELSE a[j - m]
  <2>1. /\ t \o a \in Seq(S) /\ Len(t \o a) = Len(t) + Len(a)
        /\ \A j \in 1 .. Len(t) + Len(a) :
             (t \o a)[j] = IF j <= Len(t) THEN t[j] ELSE a[j - Len(t)]
    <3>1. t \in Seq(S) /\ a \in Seq(S)
      BY <1>2
    <3> QED BY ONLY <3>1, ConcatProperties
  <2> QED BY <1>1, <1>2, <2>1 DEF u
<1>6. /\ v \in Seq(S) /\ Len(v) = (m+1) + k
      /\ \A j \in 1 .. (m+1) + k : v[j] = IF j <= m+1 THEN d[j] ELSE b[j - (m+1)]
  <2>1. /\ d \o b \in Seq(S) /\ Len(d \o b) = Len(d) + Len(b)
        /\ \A j \in 1 .. Len(d) + Len(b) :
             (d \o b)[j] = IF j <= Len(d) THEN d[j] ELSE b[j - Len(d)]
    <3>1. d \in Seq(S) /\ b \in Seq(S)
      BY <1>2, <1>4
    <3> QED BY <3>1, ConcatProperties
  <2> QED BY <1>1, <1>2, <1>4, <2>1 DEF v
<1>7. ASSUME NEW j \in 1 .. m + (k+1)
      PROVE  u[j] = v[j]
  <2>j. j \in 1 .. (m+1) + k /\ j \in Nat
    OBVIOUS
  <2>1. CASE j <= m
    <3>1. j \in 1 .. m + 1 /\ j <= m + 1
      BY <2>1
    <3>2. v[j] = t[j]
      BY <1>4, <1>6, <2>j, <2>1, <3>1
    <3> QED BY <1>5, <2>1, <3>2
  <2>2. CASE j = m+1
    <3>1. u[j] = a[1] /\ v[j] = c[1]
      <4>1. ~ (j <= m) /\ j - m = 1 /\ j \in 1 .. m+1 /\ j <= m+1
        BY <2>2
      <4> QED BY <1>4, <1>5, <1>6, <2>j, <4>1
    <3>2. a[1] = s[e - k]
      <4>1. 1 \in 1 .. k+1 /\ e - k + 1 - 1 = e - k
        OBVIOUS
      <4> QED BY <1>2, <4>1
    <3> QED BY <1>3, <3>1, <3>2
  <2>3. CASE j > m+1
    <3>1. PICK o \in 1 .. k : o = j - (m+1)
      BY <2>3
    <3>2. /\ j - m = o + 1 /\ o + 1 \in 1 .. k+1 /\ ~ (j <= m) /\ ~ (j <= m+1)
          /\ e - k + (o+1) - 1 = e - k + o
      BY <2>3, <3>1
    <3>3. u[j] = a[o+1] /\ v[j] = b[o]
      BY <1>5, <1>6, <2>j, <3>1, <3>2
    <3>4. a[o+1] = s[e - k + (o+1) - 1] /\ b[o] = s[e - k + o]
      BY <1>2, <3>1, <3>2
    <3> QED BY <3>2, <3>3, <3>4
  <2> QED BY <2>j, <2>1, <2>2, <2>3
<1>8. u = v
  <2>1. m + (k+1) = (m+1) + k
    OBVIOUS
  <2> QED BY <1>5, <1>6, <1>7, <2>1, SeqEqual
<1> QED BY <1>8 DEF u, v, d, a, b, c

---------------------------------------------------------------------------
(* The eq polynomial.                                                      *)

EqTable(m, y) == [b \in Index(m) |-> Basis(b, y)]

\* eq_eval of one pair of coordinates.
EqOne(u, v) == (u ** v) ++ (u ** v) -- u -- v ++ 1

LEMMA PointCons ==
  ASSUME NEW m \in Nat, NEW x \in Point(m+1)
  PROVE  \E u \in Field : \E rest \in Point(m) : x = <<u>> \o rest
<1> DEFINE rest == [j \in 1 .. m |-> x[j+1]]
           v == <<x[1]>> \o rest
<1>1. x[1] \in Field /\ rest \in Point(m)
  <2>1. 1 \in 1 .. m+1 /\ \A j \in 1 .. m : j+1 \in 1 .. m+1
    OBVIOUS
  <2> QED BY <2>1 DEF Point
<1>2. x \in Seq(Field) /\ Len(x) = m+1
  BY PointIsSeq
<1>3. /\ v \in Point(m+1) /\ v[1] = x[1]
      /\ \A j \in 1 .. m : v[j+1] = rest[j]
  BY <1>1, PointFacts
<1>4. v \in Seq(Field) /\ Len(v) = m+1
  BY <1>3, PointIsSeq
<1>5. \A j \in 1 .. m : rest[j] = x[j+1]
  OBVIOUS
<1> HIDE DEF v, rest
<1>6. ASSUME NEW j \in 1 .. m+1
      PROVE  v[j] = x[j]
  <2>1. CASE j = 1
    BY <1>3, <2>1
  <2>2. CASE j # 1
    <3>1. PICK k \in 1 .. m : j = k+1
      <4>1. j - 1 \in 1 .. m /\ j = (j-1) + 1
        BY <2>2
      <4> QED BY <4>1
    <3> QED BY <1>3, <1>5, <3>1
  <2> QED BY <2>1, <2>2
<1>7. v = x
  BY <1>2, <1>4, <1>6, SeqEqual
<1> QED BY <1>1, <1>7 DEF v

\* The basis at y, extended to x, is eq at x and y: the verifier's closed
\* form is the polynomial of the prover's table.
EqAgrees(m) ==
  \A x, y \in Point(m) : Extension(EqTable(m, y), x) = eq_eval(x, y)

LEMMA EqAgreesAtNone == EqAgrees(0)
<1> SUFFICES ASSUME NEW x \in Point(0), NEW y \in Point(0)
             PROVE  Extension(EqTable(0, y), x) = eq_eval(x, y)
  BY DEF EqAgrees
<1>1. DOMAIN x = {} /\ DOMAIN y = {}
  <2>1. 1 .. 0 = {}
    OBVIOUS
  <2> QED BY <2>1 DEF Point
<1>2. eq_eval(x, y) = 1
  <2> DEFINE e == [j \in DOMAIN x |-> (x[j] ** y[j]) ++ (x[j] ** y[j]) -- x[j] -- y[j] ++ 1]
  <2>1. DOMAIN e = {}
    BY <1>1
  <2> HIDE DEF e
  <2>2. FProd(e) = 1
    BY <2>1, FProdEmpty
  <2> QED BY <2>2 DEF eq_eval, e
<1>3. ASSUME NEW b, NEW z \in Point(0), DOMAIN z = {}
      PROVE  Basis(b, z) = 1
  <2> DEFINE e == [j \in DOMAIN z |-> IF Bit(b, j-1) = 1 THEN z[j] ELSE 1 -- z[j]]
  <2>1. DOMAIN e = {}
    BY <1>3
  <2> HIDE DEF e
  <2>2. FProd(e) = 1
    BY <2>1, FProdEmpty
  <2> QED BY <2>2 DEF Basis, e
<1>4. Index(0) = {0}
  BY TwoToThe DEF Index
<1> DEFINE T == EqTable(0, y)
           h == [b \in DOMAIN T |-> T[b] ** Basis(b, x)]
<1>5. DOMAIN T = {0} /\ T[0] = 1
  BY <1>1, <1>3, <1>4 DEF EqTable
<1>6. DOMAIN h = {0} /\ h[0] = 1
  <2> HIDE DEF T
  <2>1. Basis(0, x) = 1 /\ 1 ** 1 = 1
    BY <1>1, <1>3, FieldClosed, FieldLaws
  <2> QED BY <1>5, <2>1
<1> HIDE DEF h
<1>7. FSum(h) = 1
  BY <1>6, FieldClosed, FSumOne
<1> QED BY <1>2, <1>7 DEF Extension, h

LEMMA EqAgreesAtNext ==
  ASSUME NEW m \in Nat, EqAgrees(m)
  PROVE  EqAgrees(m+1)
<1> SUFFICES ASSUME NEW x \in Point(m+1), NEW y \in Point(m+1)
             PROVE  Extension(EqTable(m+1, y), x) = eq_eval(x, y)
  BY DEF EqAgrees
<1>1. PICK u \in Field, xs \in Point(m) : x = <<u>> \o xs
  BY PointCons
<1>2. PICK v \in Field, ys \in Point(m) : y = <<v>> \o ys
  BY PointCons
<1> DEFINE c == EqOne(u, v)
           T == EqTable(m+1, y)
           g == [b \in Index(m) |-> T[2*b] ++ ((T[2*b + 1] -- T[2*b]) ** u)]
           E == EqTable(m, ys)
           fe == [b \in Index(m) |-> E[b] ** Basis(b, xs)]
           fg == [b \in Index(m) |-> g[b] ** Basis(b, xs)]
<1>3. c \in Field
  <2>1. u ** v \in Int /\ (u ** v) -- u -- v \in Int
    BY FieldClosed
  <2>2. (u ** v) ++ (u ** v) -- u -- v \in Int /\ 1 \in Int
    BY <2>1, FieldClosed
  <2> QED BY <2>2, FieldClosed DEF EqOne
<1>4. T \in Table(m+1) /\ \A b \in Index(m+1) : T[b] = Basis(b, y)
  BY BasisType DEF EqTable, Table
<1>5. \A b \in Index(m) : E[b] = Basis(b, ys) /\ Basis(b, ys) \in Field /\ Basis(b, xs) \in Field
  BY BasisType DEF EqTable
<1>6. ASSUME NEW b \in Index(m)
      PROVE  g[b] = c ** E[b]
  <2>1. b \in Nat /\ 2*b \in Index(m+1) /\ 2*b + 1 \in Index(m+1) /\ 2*b + 0 = 2*b
    <3>1. b \in Nat
      BY IndexFacts
    <3>2. 2*b \in Index(m+1) /\ 2*b + 1 \in Index(m+1)
      BY IndexFacts
    <3> QED BY <3>1, <3>2
  <2>2. Basis(2*b + 0, <<v>> \o ys) = Share(0, v) ** Basis(b, ys)
    BY <2>1, BasisFirst
  <2>3. Basis(2*b + 1, <<v>> \o ys) = Share(1, v) ** Basis(b, ys)
    BY <2>1, BasisFirst
  <2> DEFINE w == Basis(b, ys)
  <2>4. T[2*b] = (1 -- v) ** w /\ T[2*b + 1] = v ** w
    BY <1>2, <1>4, <2>1, <2>2, <2>3 DEF Share
  <2>5. w \in Field /\ E[b] = w
    BY <1>5
  <2>6. g[b] = T[2*b] ++ ((T[2*b + 1] -- T[2*b]) ** u)
    OBVIOUS
  <2> HIDE DEF w, g, T, E
  <2>7. ((1 -- v) ** w) ++ (((v ** w) -- ((1 -- v) ** w)) ** u) = c ** w
    BY <2>5, BlendShares DEF EqOne
  <2> QED BY <2>4, <2>5, <2>6, <2>7
<1>7. Extension(g, xs) = Extension(T, x)
  <2>1. /\ DOMAIN g = Index(m)
        /\ \A b \in Index(m) : g[b] = T[2*b] ++ ((T[2*b + 1] -- T[2*b]) ** u)
    OBVIOUS
  <2> HIDE DEF g, T
  <2>2. Extension(g, xs) = Extension(T, <<u>> \o xs)
    BY <1>4, <2>1, ExtensionFirst
  <2> QED BY <1>1, <2>2
<1>8. Extension(g, xs) = FSum(fg) /\ Extension(E, xs) = FSum(fe)
  BY DEF Extension, EqTable
<1>9. \A b \in Index(m) : fe[b] \in Field /\ fg[b] = c ** fe[b]
  <2> SUFFICES ASSUME NEW b \in Index(m) PROVE fe[b] \in Field /\ fg[b] = c ** fe[b]
    OBVIOUS
  <2>1. E[b] \in Field /\ Basis(b, xs) \in Field /\ g[b] = c ** E[b]
    BY <1>5, <1>6
  <2>2. fe[b] = E[b] ** Basis(b, xs) /\ fg[b] = g[b] ** Basis(b, xs)
    OBVIOUS
  <2> HIDE DEF fe, fg, g, E, c
  <2>3. fe[b] \in Field
    BY <2>1, <2>2, FieldClosed
  <2> DEFINE a1 == E[b]
             a2 == Basis(b, xs)
  <2>4. a1 \in Field /\ a2 \in Field /\ fg[b] = (c ** a1) ** a2 /\ fe[b] = a1 ** a2
    BY <2>1, <2>2
  <2> HIDE DEF a1, a2
  <2>5. (c ** a1) ** a2 = c ** (a1 ** a2)
    BY <1>3, <2>4, FieldLaws
  <2> QED BY <2>3, <2>4, <2>5
<1>10. IsFiniteSet(Index(m)) /\ DOMAIN fe = Index(m) /\ DOMAIN fg = Index(m)
  <2>1. 2^m - 1 \in Int
    BY TwoToThe
  <2> QED BY <2>1, FS_Interval DEF Index
<1> HIDE DEF fe, fg, g, E, c, T
<1>11. FSum(fg) = c ** FSum(fe)
  <2> DEFINE S == Index(m)
  <2> HIDE DEF S
  <2>1. /\ IsFiniteSet(S) /\ DOMAIN fe = S /\ DOMAIN fg = S
        /\ \A b \in S : fe[b] \in Field /\ fg[b] = c ** fe[b]
    BY <1>9, <1>10 DEF S
  <2> QED BY <1>3, <2>1, FSumScale
<1>12. Extension(E, xs) = eq_eval(xs, ys)
  BY DEF EqAgrees, E
<1>13. eq_eval(x, y) = c ** eq_eval(xs, ys)
  <2> DEFINE ex == [j \in DOMAIN x |-> EqOne(x[j], y[j])]
             es == [j \in DOMAIN xs |-> EqOne(xs[j], ys[j])]
  <2>1. eq_eval(x, y) = FProd(ex) /\ eq_eval(xs, ys) = FProd(es)
    BY DEF eq_eval, EqOne
  <2>2. /\ x[1] = u /\ y[1] = v
        /\ \A j \in 1 .. m : x[j+1] = xs[j] /\ y[j+1] = ys[j]
    <3>1. (<<u>> \o xs)[1] = u /\ \A j \in 1 .. m : (<<u>> \o xs)[j+1] = xs[j]
      BY PointFacts
    <3>2. (<<v>> \o ys)[1] = v /\ \A j \in 1 .. m : (<<v>> \o ys)[j+1] = ys[j]
      BY PointFacts
    <3> QED BY <1>1, <1>2, <3>1, <3>2
  <2>3. /\ \A j \in 1 .. m+1 : x[j] \in Field /\ y[j] \in Field
        /\ DOMAIN x = 1 .. m+1 /\ DOMAIN xs = 1 .. m
    BY DEF Point
  <2>4. \A a, b \in Field : EqOne(a, b) \in Field
    <3> SUFFICES ASSUME NEW a \in Field, NEW b \in Field PROVE EqOne(a, b) \in Field
      OBVIOUS
    <3>1. a ** b \in Int /\ (a ** b) -- a -- b \in Int
      BY FieldClosed
    <3>2. (a ** b) ++ (a ** b) -- a -- b \in Int /\ 1 \in Int
      BY <3>1, FieldClosed
    <3> QED BY <3>2, FieldClosed DEF EqOne
  <2>5. /\ DOMAIN ex = 1 .. m+1 /\ \A j \in 1 .. m+1 : ex[j] \in Field
        /\ DOMAIN es = 1 .. m /\ ex[1] = c
    BY <2>2, <2>3, <2>4 DEF c
  <2>6. \A j \in 1 .. m : es[j] = ex[j+1]
    <3>1. \A j \in 1 .. m : j+1 \in 1 .. m+1
      OBVIOUS
    <3> QED BY <2>2, <2>3, <3>1
  <2> HIDE DEF ex, es
  <2>7. FProd(ex) = ex[1] ** FProd(es)
    BY <2>5, <2>6, FProdFirst
  <2> QED BY <2>1, <2>5, <2>7
<1> QED BY <1>7, <1>8, <1>11, <1>12, <1>13 DEF T

LEMMA EqAgreesAlways == \A m \in Nat : EqAgrees(m)
<1> DEFINE S == {m \in Nat : EqAgrees(m)}
<1>1. 0 \in S
  BY EqAgreesAtNone
<1>2. \A m \in Nat : m \in S => m + 1 \in S
  BY EqAgreesAtNext
<1>3. Nat \subseteq S
  <2> HIDE DEF S
  <2> QED BY <1>1, <1>2, Add!NaturalInduction
<1> QED BY <1>3

\* The buffer of build_eq_x_r_vec for the last 1, 2, ... k coordinates of r.
Doubling(g, r, k) ==
  g = [j \in 1 .. k |->
         IF j = 1 THEN [b \in Index(1) |-> IF b = 0 THEN 1 -- r[Len(r)] ELSE r[Len(r)]]
         ELSE LET r0 == r[Len(r) - j + 1]
              IN  [b \in Index(j) |->
                     LET bi == g[j-1][b \div 2]
                     IN  IF b % 2 = 0 THEN bi -- (r0 ** bi) ELSE r0 ** bi]]

LEMMA DoublingExists ==
  ASSUME NEW r, NEW k \in Nat
  PROVE  \E g : Doubling(g, r, k)
<1> DEFINE S == {m \in Nat : \E g : Doubling(g, r, m)}
           step(p, j) ==
             IF j = 1 THEN [b \in Index(1) |-> IF b = 0 THEN 1 -- r[Len(r)] ELSE r[Len(r)]]
             ELSE LET r0 == r[Len(r) - j + 1]
                  IN  [b \in Index(j) |->
                         LET bi == p[b \div 2]
                         IN  IF b % 2 = 0 THEN bi -- (r0 ** bi) ELSE r0 ** bi]
           none == 0
<1>0. \A g, m : Doubling(g, r, m) <=> g = [j \in 1 .. m |-> step(g[j-1], j)]
  BY DEF Doubling
<1> HIDE DEF step
<1>1. 0 \in S
  <2>1. 1 .. 0 = {}
    OBVIOUS
  <2>2. Doubling([j \in 1 .. 0 |-> none], r, 0)
    BY <1>0, <2>1
  <2> QED BY <2>2
<1>2. ASSUME NEW m \in Nat, m \in S
      PROVE  m + 1 \in S
  <2>1. PICK g : Doubling(g, r, m)
    BY <1>2
  <2> DEFINE h == [j \in 1 .. m+1 |-> IF j = m+1 THEN step(g[m], m+1) ELSE g[j]]
  <2>2. g = [j \in 1 .. m |-> step(g[j-1], j)]
    BY <1>0, <2>1
  <2>3. ASSUME NEW j \in 1 .. m+1
        PROVE  h[j] = step(h[j-1], j)
    <3>1. CASE j = m+1 /\ m # 0
      <4>1. m \in 1 .. m+1 /\ m # m+1 /\ j - 1 = m
        BY <3>1
      <4>2. h[m] = g[m] /\ h[m+1] = step(g[m], m+1)
        BY <4>1
      <4> QED BY <3>1, <4>1, <4>2
    <3>2. CASE j \in 2 .. m
      <4>1. j - 1 \in 1 .. m+1 /\ j - 1 # m+1 /\ j # m+1 /\ j \in 1 .. m
        BY <3>2
      <4>2. h[j-1] = g[j-1] /\ h[j] = g[j]
        BY <4>1
      <4>3. g[j] = step(g[j-1], j)
        BY <2>2, <4>1
      <4> QED BY <4>2, <4>3
    <3>3. CASE j = 1
      <4>1. \A p, q : step(p, 1) = step(q, 1)
        BY DEF step
      <4>2. h[1] = step(g[m], m+1) \/ h[1] = g[1]
        BY <3>3
      <4>3. CASE m = 0
        <5>1. h[1] = step(g[m], 1)
          BY <4>3
        <5> QED BY <3>3, <4>1, <5>1
      <4>4. CASE m # 0
        <5>1. 1 \in 1 .. m /\ 1 # m+1
          BY <4>4
        <5>2. g[1] = step(g[1-1], 1) /\ h[1] = g[1]
          BY <2>2, <5>1
        <5> QED BY <3>3, <4>1, <5>2
      <4> QED BY <4>3, <4>4
    <3> QED BY <3>1, <3>2, <3>3
  <2>4. h = [j \in 1 .. m+1 |-> h[j]]
    OBVIOUS
  <2> HIDE DEF h
  <2>5. Doubling(h, r, m+1)
    <3>1. h = [j \in 1 .. m+1 |-> step(h[j-1], j)]
      BY <2>3, <2>4
    <3> QED BY <1>0, <3>1
  <2> QED BY <2>5
<1>3. k \in S
  <2> HIDE DEF S
  <2> QED BY <1>1, <1>2, Add!NaturalInduction
<1> QED BY <1>3

\* The last coordinates of a point.
Ending(r, m, k) == SubSeq(r, m - k + 1, m)

LEMMA EndingFacts ==
  ASSUME NEW m \in Nat, NEW r \in Point(m)
  PROVE  /\ \A k \in 0 .. m : Ending(r, m, k) \in Point(k)
         /\ \A k \in 0 .. m-1 : /\ Ending(r, m, k+1) = <<r[m-k]>> \o Ending(r, m, k)
                                /\ r[m-k] \in Field
         /\ Ending(r, m, 0) = <<>>
         /\ Ending(r, m, m) = r
<1>1. r \in Seq(Field) /\ Len(r) = m
  BY PointIsSeq
<1>2. ASSUME NEW k \in 0 .. m
      PROVE  /\ Ending(r, m, k) \in Seq(Field) /\ Len(Ending(r, m, k)) = k
             /\ \A j \in 1 .. k : Ending(r, m, k)[j] = r[m - k + j]
  <2> DEFINE x == m - k + 1
  <2>0. m - x + 1 = k /\ \A j \in Nat : x + j - 1 = m - k + j
    OBVIOUS
  <2>1. x \in 1 .. Len(r) + 1 /\ m \in 0 .. Len(r) /\ x <= m + 1
    BY <1>1
  <2>2. Ending(r, m, k) = SubSeq(r, x, m)
    BY DEF Ending
  <2> HIDE DEF x
  <2>3. /\ SubSeq(r, x, m) \in Seq(Field) /\ Len(SubSeq(r, x, m)) = m - x + 1
        /\ \A j \in 1 .. m - x + 1 : SubSeq(r, x, m)[j] = r[x + j - 1]
    BY <1>1, <2>1, Piece
  <2>4. /\ SubSeq(r, x, m) \in Seq(Field) /\ Len(SubSeq(r, x, m)) = k
        /\ \A j \in 1 .. k : SubSeq(r, x, m)[j] = r[x + j - 1]
    BY <2>0, <2>3
  <2>5. ASSUME NEW j \in 1 .. k
        PROVE  Ending(r, m, k)[j] = r[m - k + j]
    <3>1. x + j - 1 = m - k + j
      BY <2>0
    <3>2. SubSeq(r, x, m)[j] = r[x + j - 1]
      BY <2>4
    <3> QED BY <2>2, <3>1, <3>2
  <2> QED BY <2>2, <2>4, <2>5
<1>3. ASSUME NEW k \in 0 .. m
      PROVE  Ending(r, m, k) \in Point(k)
  <2> DEFINE e == Ending(r, m, k)
  <2>1. e \in Seq(Field) /\ Len(e) = k
    BY <1>2
  <2> HIDE DEF e
  <2>2. e \in [1 .. k -> Field]
    BY <2>1
  <2> QED BY <2>2 DEF e, Point
<1>4. ASSUME NEW k \in 0 .. m-1
      PROVE  /\ Ending(r, m, k+1) = <<r[m-k]>> \o Ending(r, m, k)
             /\ r[m-k] \in Field
  <2>1. /\ k \in Nat /\ k < Len(r) /\ m - (k+1) + 1 = m - k /\ m - k \in 1 .. m
        /\ k+1 \in 0 .. m
    BY <1>1
  <2> DEFINE none == <<>>
  <2>2. none \in Seq(Field)
    OBVIOUS
  <2>3. r[m-k] \in Field
    BY <1>1, <2>1, ElementOfSeq
  <2> HIDE DEF none
  <2>4. none \o SubSeq(r, Len(r) - k, Len(r))
          = (none \o <<r[Len(r) - k]>>) \o SubSeq(r, Len(r) - k + 1, Len(r))
    BY <1>1, <2>1, <2>2, ShiftBack
  <2>5. none \o Ending(r, m, k+1) = (none \o <<r[m - k]>>) \o Ending(r, m, k)
    BY <1>1, <2>1, <2>4 DEF Ending
  <2>6. none \o Ending(r, m, k+1) = Ending(r, m, k+1)
    BY <1>2, <2>1, ConcatEmptySeq DEF none
  <2>7. none \o <<r[m - k]>> = <<r[m - k]>>
    <3>1. <<r[m-k]>> \in Seq(Field)
      BY <2>3
    <3> QED BY <3>1, ConcatEmptySeq DEF none
  <2> QED BY <2>3, <2>5, <2>6, <2>7
<1>5. Ending(r, m, 0) = <<>>
  <2>1. m < m - 0 + 1 /\ m - 0 + 1 \in Int
    OBVIOUS
  <2> QED BY <2>1, SubSeqEmpty DEF Ending
<1>6. Ending(r, m, m) = r
  <2> DEFINE e == Ending(r, m, m)
  <2>1. m \in 0 .. m /\ \A j \in 1 .. m : m - m + j = j
    OBVIOUS
  <2>2. e \in Seq(Field) /\ Len(e) = m /\ \A j \in 1 .. m : e[j] = r[j]
    BY <1>2, <2>1
  <2> HIDE DEF e
  <2>3. e = r
    BY <1>1, <2>2, SeqEqual
  <2> QED BY <2>3 DEF e
<1> QED BY <1>3, <1>4, <1>5, <1>6

\* Growing the table from the last coordinate to the first gives the
\* Lagrange basis.
LEMMA BuildIsBasis ==
  ASSUME NEW m \in Nat \ {0}, NEW r \in Point(m)
  PROVE  build_eq_x_r_vec(r) = EqTable(m, r)
<1>1. PICK g : Doubling(g, r, m) /\ build_eq_x_r_vec(r) = g[m]
  <2> DEFINE g == CHOOSE g : Doubling(g, r, m)
  <2>1. Doubling(g, r, m)
    BY DoublingExists
  <2>2. Len(r) = m
    BY PointIsSeq
  <2>3. build_eq_x_r_vec(r) = (CHOOSE h : Doubling(h, r, Len(r)))[Len(r)]
    BY DEF build_eq_x_r_vec, Doubling
  <2> HIDE DEF g
  <2> QED BY <2>1, <2>2, <2>3 DEF g
<1>2. Len(r) = m
  BY PointIsSeq
<1>3. /\ \A k \in 0 .. m : Ending(r, m, k) \in Point(k)
      /\ \A k \in 0 .. m-1 : /\ Ending(r, m, k+1) = <<r[m-k]>> \o Ending(r, m, k)
                             /\ r[m-k] \in Field
      /\ Ending(r, m, 0) = <<>>
      /\ Ending(r, m, m) = r
  BY EndingFacts
<1> DEFINE Done(k) == g[k] = EqTable(k, Ending(r, m, k))
           S == {k \in Nat : k + 1 <= m => Done(k + 1)}
<1>4. ASSUME NEW k \in 0 .. m-1, NEW b \in Nat, NEW t \in {0, 1}
      PROVE  Basis(2*b + t, Ending(r, m, k+1)) = Share(t, r[m-k]) ** Basis(b, Ending(r, m, k))
  <2> DEFINE u == r[m-k]
             rest == Ending(r, m, k)
  <2>1. u \in Field /\ rest \in Point(k) /\ k \in Nat
    <3>1. k \in 0 .. m /\ k \in Nat
      OBVIOUS
    <3>2. Ending(r, m, k) \in Point(k)
      BY <1>3, <3>1
    <3>3. r[m-k] \in Field
      BY <1>3
    <3> QED BY <3>1, <3>2, <3>3
  <2> HIDE DEF u, rest
  <2>2. Basis(2*b + t, <<u>> \o rest) = Share(t, u) ** Basis(b, rest)
    BY <2>1, BasisFirst
  <2> QED BY <1>3, <2>2 DEF u, rest
<1>5. 0 \in S
  <2>1. Index(1) = {0, 1} /\ 1 \in 1 .. m /\ m - 0 = m
    <3>1. 2^(0+1) = 2 * 2^0 /\ 2^0 = 1
      BY TwoToThe
    <3> QED BY <3>1 DEF Index
  <2>2. g[1] = [b \in Index(1) |-> IF b = 0 THEN 1 -- r[m] ELSE r[m]]
    BY <1>1, <1>2, <2>1 DEF Doubling
  <2>3. ASSUME NEW b \in {0, 1}
        PROVE  Basis(b, Ending(r, m, 1)) = IF b = 0 THEN 1 -- r[m] ELSE r[m]
    <3>1. Basis(2*0 + b, Ending(r, m, 0+1)) = Share(b, r[m-0]) ** Basis(0, Ending(r, m, 0))
      <4>1. 0 \in 0 .. m-1 /\ 0 \in Nat
        OBVIOUS
      <4> QED BY <1>4, <4>1
    <3>2. Basis(0, <<>>) = 1
      <4> DEFINE e == [j \in DOMAIN <<>> |-> IF Bit(0, j-1) = 1 THEN <<>>[j] ELSE 1 -- <<>>[j]]
      <4>1. DOMAIN e = {}
        OBVIOUS
      <4> HIDE DEF e
      <4>2. FProd(e) = 1
        BY <4>1, FProdEmpty
      <4> QED BY <4>2 DEF Basis, e
    <3>3. Share(b, r[m]) \in Field
      <4>1. r[m-0] \in Field
        <5>1. 0 \in 0 .. m-1
          OBVIOUS
        <5> QED BY <1>3, <5>1
      <4> QED BY <2>1, <4>1, FieldClosed DEF Share
    <3>4. Share(b, r[m]) ** 1 = Share(b, r[m])
      BY <3>3, FieldClosed, FieldLaws
    <3>5. 2*0 + b = b /\ 0+1 = 1
      OBVIOUS
    <3> QED BY <1>3, <2>1, <3>1, <3>2, <3>4, <3>5 DEF Share
  <2>4. Done(1)
    BY <2>1, <2>2, <2>3 DEF EqTable
  <2> QED BY <2>4
<1>6. ASSUME NEW k \in Nat, k \in S
      PROVE  k + 1 \in S
  <2> SUFFICES ASSUME k + 2 <= m PROVE Done(k + 2)
    <3>1. (k + 1) + 1 = k + 2
      OBVIOUS
    <3> QED BY <3>1
  <2>1. g[k+1] = EqTable(k+1, Ending(r, m, k+1))
    BY <1>6
  <2> DEFINE u == r[m - (k+1)]
             rest == Ending(r, m, k+1)
  <2>2. k+1 \in 0 .. m-1 /\ k+1 \in 0 .. m /\ k+1 \in Nat /\ (k+1) + 1 = k+2
    OBVIOUS
  <2>3. u \in Field /\ rest \in Point(k+1)
    BY <1>3, <2>2
  <2>4. g[k+2] = [b \in Index(k+2) |->
                    IF b % 2 = 0 THEN g[k+1][b \div 2] -- (u ** g[k+1][b \div 2])
                    ELSE u ** g[k+1][b \div 2]]
    <3>1. k+2 \in 1 .. m /\ k+2 # 1 /\ (k+2) - 1 = k+1 /\ m - (k+2) + 1 = m - (k+1)
      OBVIOUS
    <3>2. g[k+2] = [b \in Index(k+2) |->
                      LET bi == g[(k+2) - 1][b \div 2]
                          r0 == r[Len(r) - (k+2) + 1]
                      IN  IF b % 2 = 0 THEN bi -- (r0 ** bi) ELSE r0 ** bi]
      BY <1>1, <3>1 DEF Doubling
    <3> QED BY <1>2, <3>1, <3>2
  <2>5. ASSUME NEW b \in Index(k+2)
        PROVE  Basis(b, Ending(r, m, k+2))
                 = IF b % 2 = 0 THEN g[k+1][b \div 2] -- (u ** g[k+1][b \div 2])
                   ELSE u ** g[k+1][b \div 2]
    <3> DEFINE e == b \div 2
               t == b % 2
               w == Basis(e, rest)
    <3>1. e \in Index(k+1) /\ e \in Nat /\ t \in {0, 1} /\ b = 2*e + t
      <4>1. PICK q \in Nat \ {0} : Index(k+1) = 0 .. q-1 /\ Index((k+1)+1) = 0 .. 2*q - 1
        BY <2>2, IndexFacts
      <4>2. b \in 0 .. 2*q - 1
        BY <2>2, <4>1
      <4> QED BY <4>1, <4>2
    <3>2. g[k+1][e] = w
      BY <2>1, <3>1 DEF EqTable
    <3>3. w \in Field
      BY <2>2, <2>3, BasisType
    <3>4. Basis(2*e + t, Ending(r, m, (k+1)+1)) = Share(t, u) ** w
      BY <1>4, <2>2, <3>1
    <3> HIDE DEF e, t, w, u, rest
    <3>5. (1 -- u) ** w = w -- (u ** w)
      <4>1. w ** (1 -- u) = (w ** 1) -- (w ** u)
        BY <2>3, <3>3, FieldClosed, DistributesMinus
      <4>2. 1 -- u \in Field /\ 1 \in Field
        BY <2>3, FieldClosed
      <4> QED BY <2>3, <3>3, <4>1, <4>2, FieldLaws
    <3>6. Basis(b, Ending(r, m, k+2)) = IF t = 0 THEN w -- (u ** w) ELSE u ** w
      BY <2>2, <3>1, <3>4, <3>5 DEF Share
    <3> QED BY <3>2, <3>6 DEF e, t
  <2>6. Done(k + 2)
    <3> HIDE DEF u, rest
    <3> QED BY <2>4, <2>5 DEF EqTable
  <2> QED BY <2>6
<1>7. Done(m)
  <2>1. m - 1 \in Nat /\ (m - 1) + 1 = m /\ m <= m
    OBVIOUS
  <2>2. Nat \subseteq S
    <3> HIDE DEF S
    <3> QED BY <1>5, <1>6, Add!NaturalInduction
  <2>3. m - 1 \in S
    BY <2>1, <2>2
  <2> QED BY <2>1, <2>3
<1> QED BY <1>1, <1>3, <1>7

---------------------------------------------------------------------------
(* Polynomials in two variables, as functions of x whose values are        *)
(* functions of c.                                                         *)

\* The divided difference in c, as a function of x.
Slices(N, G) == [x \in Field |-> Divided(N, G[x])]

\* G is of degree M at most in both variables together: over k + 1 points
\* the difference in c is of degree M - k in x, and zero if k is above M.
BiDegree(G, M) ==
  /\ G \in [Field -> Functional]
  /\ \A N \in SUBSET Field : \A k \in Nat :
       Cardinality(N) = k + 1 =>
         /\ k <= M => DegreeAtMost(Slices(N, G), M - k)
         /\ k > M => \A x \in Field : Slices(N, G)[x] = 0

LEMMA SlicesType ==
  ASSUME NEW N \in SUBSET Field, NEW G \in [Field -> Functional]
  PROVE  /\ Slices(N, G) \in Functional
         /\ \A x \in Field : Slices(N, G)[x] = Divided(N, G[x])
<1>1. \A x \in Field : Divided(N, G[x]) \in Field
  BY DividedType
<1> QED BY <1>1 DEF Slices, Functional

LEMMA DegreeZero ==
  ASSUME NEW k \in Nat, NEW g \in Functional, \A x \in Field : g[x] = 0
  PROVE  DegreeAtMost(g, k)
<1>1. 0 \in Field /\ \A x \in Field : g[x] = 0 ** One[x]
  BY FieldClosed, FieldLaws, OneType
<1>2. DegreeAtMost(g, 0)
  BY <1>1, DegreeOne, DegreeScale
<1> QED BY <1>2, DegreeWeaken

Ones == [x \in Field |-> One]

LEMMA BiDegreeOnes == BiDegree(Ones, 0)
<1>1. Ones \in [Field -> Functional] /\ \A x \in Field : Ones[x] = One
  BY OneType DEF Ones
<1>2. ASSUME NEW N \in SUBSET Field, NEW k \in Nat, Cardinality(N) = k + 1
      PROVE  /\ k <= 0 => DegreeAtMost(Slices(N, Ones), 0 - k)
             /\ k > 0 => \A x \in Field : Slices(N, Ones)[x] = 0
  <2>1. Slices(N, Ones) \in Functional /\ \A x \in Field : Slices(N, Ones)[x] = Divided(N, One)
    BY <1>1, SlicesType
  <2>2. CASE k = 0
    <3>1. PICK y \in N : N = {y}
      <4>1. IsFiniteSet(N) /\ Cardinality(N) = 1
        BY <1>2, <2>2, FieldFinite
      <4>2. PICK y : y \in N
        BY <4>1, FS_EmptySet
      <4>3. Cardinality(N \ {y}) = 0 /\ IsFiniteSet(N \ {y})
        BY <4>1, <4>2, FS_RemoveElement
      <4>4. N \ {y} = {}
        BY <4>3, FS_EmptySet
      <4> QED BY <4>2, <4>4
    <3>2. Divided(N, One) = 1
      BY <3>1, DividedOnce
    <3>3. Slices(N, Ones) = One
      BY <2>1, <3>2, OneType DEF Functional
    <3> QED BY <2>2, <3>3, DegreeOne
  <2>3. CASE k # 0
    <3>1. Divided(N, One) = 0
      BY <1>2, <2>3, DividedConstant
    <3> QED BY <2>1, <2>3, <3>1
  <2> QED BY <2>2, <2>3
<1> QED BY <1>1, <1>2 DEF BiDegree

\* The difference in c of (v + p x + c) g(c).
LEMMA SliceLine ==
  ASSUME NEW N \in SUBSET Field, NEW m \in N, NEW g \in Functional, NEW v \in Field,
         NEW p \in Field, NEW x \in Field, NEW h \in Functional,
         \A c \in Field : h[c] = ((v ++ x ** p) ++ c) ** g[c]
  PROVE  Divided(N, h) = (((v ++ m) ++ (p ** x)) ** Divided(N, g)) ++ Divided(N \ {m}, g)
<1>1. PICK w \in Field : w = p ** x /\ w = x ** p
  BY FieldClosed, FieldLaws
<1>2. PICK a \in Field : a = (v ++ m) ++ w
  BY <1>1, FieldClosed
<1> DEFINE f1 == [c \in Field |-> a ** g[c]]
           f2 == [c \in Field |-> (c -- m) ** g[c]]
<1>3. ASSUME NEW c \in Field
      PROVE  /\ a ** g[c] \in Field /\ c -- m \in Field /\ (c -- m) ** g[c] \in Field
             /\ h[c] = (a ** g[c]) ++ ((c -- m) ** g[c])
  <2>1. PICK z \in Field, d \in Field, y \in Field : z = g[c] /\ d = c -- m /\ y = v ++ w
    BY FieldClosed DEF Functional
  <2>2. (v ++ w) ++ c = a ++ d
    <3>1. d ++ m = c
      BY <2>1, FieldLaws
    <3>2. a = y ++ m
      <4>1. (v ++ m) ++ w = v ++ (m ++ w) /\ m ++ w = w ++ m /\ v ++ (w ++ m) = (v ++ w) ++ m
        BY FieldLaws
      <4> QED BY <1>2, <2>1, <4>1
    <3>3. (y ++ m) ++ d = y ++ (m ++ d) /\ m ++ d = d ++ m
      BY FieldLaws
    <3> QED BY <2>1, <3>1, <3>2, <3>3
  <2>3. z ** (a ++ d) = (z ** a) ++ (z ** d)
    BY Distributes
  <2>4. a ++ d \in Field /\ a ** z \in Field /\ d ** z \in Field
    BY FieldClosed
  <2>5. z ** (a ++ d) = (a ++ d) ** z /\ z ** a = a ** z /\ z ** d = d ** z
    BY <2>4, FieldLaws
  <2>6. h[c] = (a ++ d) ** z
    BY <1>1, <2>1, <2>2
  <2> QED BY <2>1, <2>3, <2>4, <2>5, <2>6
<1>4. /\ f1 \in Functional /\ f2 \in Functional
      /\ \A c \in N : f1[c] = a ** g[c] /\ f2[c] = (c -- m) ** g[c] /\ h[c] = f1[c] ++ f2[c]
  BY <1>3 DEF Functional
<1> HIDE DEF f1, f2
<1>5. Divided(N, h) = Divided(N, f1) ++ Divided(N, f2)
  BY <1>4, DividedPlus
<1>6. Divided(N, f1) = a ** Divided(N, g)
  BY <1>4, DividedScale
<1>7. Divided(N, f2) = Divided(N \ {m}, g)
  BY <1>4, DividedStep
<1> QED BY <1>1, <1>2, <1>5, <1>6, <1>7

\* Multiplying by a line raises the degree by one.
LEMMA BiDegreeLine ==
  ASSUME NEW M \in Nat, NEW G, BiDegree(G, M), NEW v \in Field, NEW p \in Field,
         NEW H \in [Field -> Functional],
         \A x, c \in Field : H[x][c] = ((v ++ x ** p) ++ c) ** G[x][c]
  PROVE  BiDegree(H, M + 1)
<1>1. G \in [Field -> Functional]
  BY DEF BiDegree
<1>2. ASSUME NEW N \in SUBSET Field, NEW k \in Nat, Cardinality(N) = k + 1
      PROVE  /\ k <= M + 1 => DegreeAtMost(Slices(N, H), (M + 1) - k)
             /\ k > M + 1 => \A x \in Field : Slices(N, H)[x] = 0
  <2>1. PICK m : m \in N
    <3>1. Cardinality({}) = 0
      BY FS_EmptySet
    <3>2. k + 1 # 0
      OBVIOUS
    <3> QED BY <1>2, <3>1, <3>2
  <2>2. PICK R \in SUBSET Field : R = N \ {m}
    OBVIOUS
  <2>3. Cardinality(R) = k
    <3>1. IsFiniteSet(N)
      BY FieldFinite
    <3>2. Cardinality(R) = Cardinality(N) - 1
      BY <2>1, <2>2, <3>1, FS_RemoveElement
    <3> QED BY <1>2, <3>2
  <2>4. PICK a \in Field : a = v ++ m
    BY <2>1, FieldClosed
  <2> DEFINE U == Slices(N, G)
             W == Slices(R, G)
             Z == Slices(N, H)
             h == [x \in Field |-> (a ++ (p ** x)) ** U[x]]
  <2>5. /\ U \in Functional /\ W \in Functional /\ Z \in Functional
        /\ \A x \in Field : /\ U[x] = Divided(N, G[x]) /\ W[x] = Divided(R, G[x])
                            /\ Z[x] = Divided(N, H[x])
    BY <1>1, SlicesType
  <2>6. ASSUME NEW x \in Field
        PROVE  Z[x] = ((a ++ (p ** x)) ** U[x]) ++ W[x]
    <3>1. G[x] \in Functional /\ H[x] \in Functional
      BY <1>1
    <3>2. Divided(N, H[x]) = (((v ++ m) ++ (p ** x)) ** Divided(N, G[x])) ++ Divided(N \ {m}, G[x])
      BY <2>1, <3>1, SliceLine
    <3> QED BY <2>2, <2>4, <2>5, <3>2
  <2> HIDE DEF U, W, Z
  <2>7. /\ h \in Functional
        /\ \A x \in Field : h[x] = (a ++ (p ** x)) ** U[x] /\ Z[x] = h[x] ++ W[x]
    <3>1. ASSUME NEW x \in Field
          PROVE  (a ++ (p ** x)) ** U[x] \in Field
      <4>1. p ** x \in Field /\ U[x] \in Field
        BY <2>5, FieldClosed DEF Functional
      <4>2. a ++ (p ** x) \in Field
        BY <4>1, FieldClosed
      <4> QED BY <4>1, <4>2, FieldClosed
    <3> QED BY <2>6, <3>1 DEF Functional
  <2> HIDE DEF h
  <2>8. /\ k <= M => DegreeAtMost(U, M - k)
        /\ k > M => \A x \in Field : U[x] = 0
    BY <1>2 DEF BiDegree, U
  <2>9. /\ k # 0 /\ k - 1 <= M => DegreeAtMost(W, (M + 1) - k)
        /\ k # 0 /\ k - 1 > M => \A x \in Field : W[x] = 0
    <3>1. SUFFICES ASSUME k # 0
                   PROVE  /\ k - 1 <= M => DegreeAtMost(W, (M + 1) - k)
                          /\ k - 1 > M => \A x \in Field : W[x] = 0
      OBVIOUS
    <3>2. PICK l \in Nat : l = k - 1 /\ k = l + 1
      BY <3>1
    <3>3. Cardinality(R) = l + 1
      BY <2>3, <3>2
    <3>4. /\ l <= M => DegreeAtMost(W, M - l)
          /\ l > M => \A x \in Field : W[x] = 0
      BY <3>3 DEF BiDegree, W
    <3>5. M - l = (M + 1) - k
      BY <3>2
    <3> QED BY <3>2, <3>4, <3>5
  <2>10. ASSUME NEW x \in Field
         PROVE  0 ++ 0 = 0 /\ (U[x] = 0 => h[x] = 0)
    <3>1. p ** x \in Field /\ 0 \in Field
      BY FieldClosed
    <3>2. a ++ (p ** x) \in Field
      BY <3>1, FieldClosed
    <3> QED BY <2>7, <3>1, <3>2, UnitLaws
  <2>11. CASE k <= M
    <3>1. M - k \in Nat /\ (M - k) + 1 = (M + 1) - k /\ (M + 1) - k \in Nat
      BY <2>11
    <3>2. DegreeAtMost(h, (M - k) + 1)
      BY <2>7, <2>8, <2>11, <3>1, DegreeLinear
    <3>3. DegreeAtMost(W, (M + 1) - k)
      <4>1. CASE k # 0
        BY <2>9, <2>11, <4>1
      <4>2. CASE k = 0
        <5>1. R = {}
          BY <2>3, <4>2, FieldFinite, FS_EmptySet
        <5>2. \A x \in Field : W[x] = 0
          <6>1. \A g : Divided({}, g) = 0
            BY FSumEmpty DEF Divided
          <6> QED BY <2>5, <5>1, <6>1
        <5> QED BY <2>5, <3>1, <5>2, DegreeZero
      <4> QED BY <4>1, <4>2
    <3>4. DegreeAtMost(Z, (M + 1) - k)
      BY <2>5, <2>7, <3>1, <3>2, <3>3, DegreePlus
    <3>5. ~ (k > M + 1)
      BY <2>11
    <3> QED BY <3>4, <3>5 DEF Z
  <2>12. CASE k = M + 1
    <3>1. (M + 1) - k = 0 /\ k # 0 /\ k - 1 <= M /\ k > M /\ ~ (k > M + 1)
      BY <2>12
    <3>2. \A x \in Field : h[x] = 0
      BY <2>8, <2>10, <3>1
    <3>3. DegreeAtMost(h, 0) /\ DegreeAtMost(W, 0)
      BY <2>7, <2>9, <3>1, <3>2, DegreeZero
    <3>4. DegreeAtMost(Z, 0)
      BY <2>5, <2>7, <3>3, DegreePlus
    <3> QED BY <3>1, <3>4 DEF Z
  <2>13. CASE k > M + 1
    <3>1. k # 0 /\ k - 1 > M /\ k > M /\ ~ (k <= M + 1)
      BY <2>13
    <3>2. \A x \in Field : h[x] = 0 /\ W[x] = 0 /\ 0 ++ 0 = 0
      BY <2>8, <2>9, <2>10, <3>1
    <3>3. \A x \in Field : Z[x] = 0
      BY <2>7, <3>2
    <3> QED BY <3>1, <3>3 DEF Z
  <2> QED BY <2>11, <2>12, <2>13
<1> QED BY <1>2 DEF BiDegree

\* So does a difference.
LEMMA DividedMinus ==
  ASSUME NEW N \in SUBSET Field, NEW f \in Functional, NEW g \in Functional,
         NEW h \in Functional, \A x \in N : h[x] = f[x] -- g[x]
  PROVE  Divided(N, h) = Divided(N, f) -- Divided(N, g)
<1>1. ASSUME NEW x \in N
      PROVE  f[x] = h[x] ++ g[x]
  <2>1. f[x] \in Field /\ g[x] \in Field
    BY DEF Functional
  <2> QED BY <2>1, FieldLaws
<1>2. Divided(N, f) = Divided(N, h) ++ Divided(N, g)
  BY <1>1, DividedPlus
<1>3. Divided(N, h) \in Field /\ Divided(N, g) \in Field
  BY DividedType
<1> QED BY <1>2, <1>3, FieldLaws

LEMMA DegreeMinus ==
  ASSUME NEW k \in Nat, NEW f, DegreeAtMost(f, k), NEW g, DegreeAtMost(g, k),
         NEW h \in Functional, \A x \in Field : h[x] = f[x] -- g[x]
  PROVE  DegreeAtMost(h, k)
<1>1. f \in Functional /\ g \in Functional
  BY DEF DegreeAtMost
<1>2. ASSUME NEW N \in SUBSET Field, Cardinality(N) >= k + 2
      PROVE  Divided(N, h) = 0
  <2>1. Divided(N, h) = Divided(N, f) -- Divided(N, g)
    BY <1>1, DividedMinus
  <2>2. Divided(N, f) = 0 /\ Divided(N, g) = 0
    BY <1>2 DEF DegreeAtMost
  <2>3. 0 -- 0 = 0
    BY FieldClosed, SubtractionLaws
  <2> QED BY <2>1, <2>2, <2>3
<1> QED BY <1>2 DEF DegreeAtMost

LEMMA BiDegreeMinus ==
  ASSUME NEW M \in Nat, NEW F, BiDegree(F, M), NEW G, BiDegree(G, M),
         NEW H \in [Field -> Functional],
         \A x, c \in Field : H[x][c] = F[x][c] -- G[x][c]
  PROVE  BiDegree(H, M)
<1>1. F \in [Field -> Functional] /\ G \in [Field -> Functional]
  BY DEF BiDegree
<1>2. ASSUME NEW N \in SUBSET Field, NEW k \in Nat, Cardinality(N) = k + 1
      PROVE  /\ k <= M => DegreeAtMost(Slices(N, H), M - k)
             /\ k > M => \A x \in Field : Slices(N, H)[x] = 0
  <2> DEFINE U == Slices(N, F)
             W == Slices(N, G)
             Z == Slices(N, H)
  <2>1. /\ U \in Functional /\ W \in Functional /\ Z \in Functional
        /\ \A x \in Field : /\ U[x] = Divided(N, F[x]) /\ W[x] = Divided(N, G[x])
                            /\ Z[x] = Divided(N, H[x])
    BY <1>1, SlicesType
  <2>2. ASSUME NEW x \in Field
        PROVE  Z[x] = U[x] -- W[x]
    <3>1. F[x] \in Functional /\ G[x] \in Functional /\ H[x] \in Functional
      BY <1>1
    <3>2. Divided(N, H[x]) = Divided(N, F[x]) -- Divided(N, G[x])
      BY <3>1, DividedMinus
    <3> QED BY <2>1, <3>2
  <2>3. /\ k <= M => DegreeAtMost(U, M - k) /\ DegreeAtMost(W, M - k)
        /\ k > M => \A x \in Field : U[x] = 0 /\ W[x] = 0
    BY <1>2 DEF BiDegree
  <2> HIDE DEF U, W, Z
  <2>4. k <= M => DegreeAtMost(Z, M - k)
    BY <2>1, <2>2, <2>3, DegreeMinus
  <2>5. k > M => \A x \in Field : Z[x] = 0
    BY <2>2, <2>3, FieldClosed, SubtractionLaws
  <2> QED BY <2>4, <2>5 DEF Z
<1> QED BY <1>2 DEF BiDegree

\* A function that is zero at all but one of the points, and its difference
\* over them too.
LEMMA LastRoot ==
  ASSUME NEW S \in SUBSET Field, NEW x \in Field, x \notin S, NEW e \in Functional,
         \A s \in S : e[s] = 0, Divided(S \cup {x}, e) = 0
  PROVE  e[x] = 0
<1> DEFINE rest == [j \in S |-> e[j] ** Inv(Den(S \cup {x}, j))]
<1>1. Divided(S \cup {x}, e) = (e[x] ** Inv(Rooted(S)[x])) ++ FSum(rest)
  BY DividedOneMore
<1>2. \A j \in S : e[j] ** Inv(Den(S \cup {x}, j)) = 0
  <2> SUFFICES ASSUME NEW j \in S PROVE 0 ** Inv(Den(S \cup {x}, j)) = 0
    OBVIOUS
  <2>1. S \cup {x} \in SUBSET Field /\ j \in Field
    OBVIOUS
  <2>2. Inv(Den(S \cup {x}, j)) \in Field
    BY <2>1, DenType
  <2> QED BY <2>2, FieldLaws
<1>3. FSum(rest) = 0
  <2>1. IsFiniteSet(S) /\ DOMAIN rest = S /\ \A j \in S : rest[j] = 0
    BY <1>2, FieldFinite
  <2> HIDE DEF rest
  <2> QED BY <2>1, FSumZero
<1> HIDE DEF rest
<1>4. PICK r \in Field : r = Rooted(S)[x] /\ r # 0
  BY RootedType DEF Functional
<1>5. PICK w \in Field : w = Inv(r) /\ w # 0
  BY <1>4, InverseLaws
<1>6. PICK z \in Field : z = e[x]
  BY DEF Functional
<1>7. z ** w \in Field
  BY FieldClosed
<1>8. z ** w = 0
  BY <1>1, <1>3, <1>4, <1>5, <1>6, <1>7, UnitLaws
<1>9. CASE z # 0
  BY <1>5, <1>8, <1>9, NonZeroProduct
<1> QED BY <1>6, <1>9

\* A polynomial of degree k + 1 without its highest difference.
LEMMA LowerDegree ==
  ASSUME NEW k \in Nat, NEW g, DegreeAtMost(g, k + 1),
         NEW N \in SUBSET Field, Cardinality(N) = k + 2, Divided(N, g) = 0
  PROVE  DegreeAtMost(g, k)
<1>0. g \in Functional /\ IsFiniteSet(N)
  BY FieldFinite DEF DegreeAtMost
<1>1. PICK x : x \in N
  <2>1. Cardinality({}) = 0
    BY FS_EmptySet
  <2>2. k + 2 # 0
    OBVIOUS
  <2> QED BY <2>1, <2>2
<1>2. PICK S \in SUBSET Field : S = N \ {x}
  OBVIOUS
<1>3. Cardinality(S) = k + 1 /\ x \notin S /\ N = S \cup {x} /\ x \in Field
  <2>1. Cardinality(S) = Cardinality(N) - 1
    BY <1>0, <1>1, <1>2, FS_RemoveElement
  <2> QED BY <1>1, <1>2, <2>1
<1>4. PICK h : DegreeAtMost(h, k) /\ \A s \in S : h[s] = g[s]
  <2>1. \A s \in S : g[s] \in Field
    BY <1>0 DEF Functional
  <2> QED BY <1>3, <2>1, ThroughFacts
<1>5. DegreeAtMost(h, k + 1) /\ h \in Functional
  BY <1>4, DegreeWeaken DEF DegreeAtMost
<1> DEFINE e == [c \in Field |-> g[c] -- h[c]]
<1>6. ASSUME NEW c \in Field
      PROVE  g[c] \in Field /\ h[c] \in Field /\ g[c] -- h[c] \in Field
  BY <1>0, <1>5, FieldClosed DEF Functional
<1>7. e \in Functional /\ \A c \in Field : e[c] = g[c] -- h[c]
  BY <1>6 DEF Functional
<1> HIDE DEF e
<1>8. Divided(N, e) = 0
  <2>1. Divided(N, e) = Divided(N, g) -- Divided(N, h)
    BY <1>0, <1>5, <1>7, DividedMinus
  <2>2. Divided(N, h) = 0
    BY <1>4 DEF DegreeAtMost
  <2>3. 0 -- 0 = 0
    BY FieldClosed, SubtractionLaws
  <2> QED BY <2>1, <2>2, <2>3
<1>9. \A s \in S : e[s] = 0
  BY <1>4, <1>6, <1>7, SubtractionLaws
<1>10. e[x] = 0
  BY <1>3, <1>7, <1>8, <1>9, LastRoot
<1>11. \A z \in N : g[z] = h[z]
  <2>1. \A z \in N : z \in Field /\ e[z] = 0
    BY <1>3, <1>9, <1>10
  <2> QED BY <1>6, <1>7, <2>1, SubtractionLaws
<1>12. \A c \in Field : g[c] = h[c]
  <2>1. Cardinality(N) >= (k + 1) + 1
    OBVIOUS
  <2> QED BY <1>5, <1>11, <2>1, FewAgreements
<1>13. g = h
  BY <1>0, <1>5, <1>12 DEF Functional
<1> QED BY <1>4, <1>13

\* Pairs whose second element is one of at most j for each of the first.
Above(R, Z) == {d \in R \X Field : d[2] \in Z[d[1]]}

LEMMA AboveCount ==
  ASSUME NEW Z, NEW j \in Nat, NEW R \in SUBSET Field,
         \A x \in R : Z[x] \in SUBSET Field /\ Cardinality(Z[x]) <= j
  PROVE  IsFiniteSet(Above(R, Z)) /\ Cardinality(Above(R, Z)) <= Cardinality(R) * j
<1> DEFINE Bad == {T \in SUBSET R : ~ (IsFiniteSet(Above(T, Z))
                                         /\ Cardinality(Above(T, Z)) <= Cardinality(T) * j)}
<1>1. ASSUME NEW T \in SUBSET R, NEW y \in T,
             IsFiniteSet(Above(T \ {y}, Z)),
             Cardinality(Above(T \ {y}, Z)) <= Cardinality(T \ {y}) * j
      PROVE  IsFiniteSet(Above(T, Z)) /\ Cardinality(Above(T, Z)) <= Cardinality(T) * j
  <2> DEFINE A == Above(T \ {y}, Z)
             B == {y} \X Z[y]
  <2>1. Above(T, Z) = A \cup B /\ A \cap B = {}
    <3>1. y \in R /\ Z[y] \in SUBSET Field
      OBVIOUS
    <3>2. \A d \in T \X Field : d \in (T \ {y}) \X Field \/ d \in {y} \X Field
      OBVIOUS
    <3> QED BY <3>1, <3>2 DEF Above
  <2>2. IsFiniteSet(B) /\ Cardinality(B) = Cardinality(Z[y])
    <3>1. IsFiniteSet(Z[y]) /\ Cardinality(Z[y]) \in Nat
      BY FieldFinite
    <3>2. IsFiniteSet({y}) /\ Cardinality({y}) = 1
      BY FS_Singleton
    <3>3. IsFiniteSet(B) /\ Cardinality(B) = 1 * Cardinality(Z[y])
      BY <3>1, <3>2, FS_Product
    <3> QED BY <3>1, <3>3
  <2>3. PICK a \in Nat, b \in Nat, t \in Nat :
          a = Cardinality(A) /\ b = Cardinality(B) /\ t = Cardinality(T)
    BY <1>1, <2>2, FieldFinite, FS_CardinalityType
  <2>4. Cardinality(T \ {y}) = t - 1
    BY <2>3, FieldFinite, FS_RemoveElement
  <2>5. IsFiniteSet(A) /\ a <= (t - 1) * j /\ b <= j
    BY <1>1, <2>2, <2>3, <2>4
  <2> HIDE DEF A, B
  <2>6. IsFiniteSet(A \cup B) /\ Cardinality(A \cup B) = a + b - Cardinality(A \cap B)
    BY <2>2, <2>3, <2>5, FS_Union
  <2>7. Cardinality(A \cup B) = a + b
    <3>1. Cardinality(A \cap B) = 0
      BY <2>1, FS_EmptySet
    <3> QED BY <2>3, <2>6, <3>1
  <2>8. (t - 1) * j + j = t * j
    BY <2>3
  <2>9. a + b <= t * j
    <3>1. (t - 1) * j \in Int /\ t * j \in Int
      OBVIOUS
    <3> QED BY <2>5, <2>8, <3>1
  <2> QED BY <2>1, <2>3, <2>6, <2>7, <2>9
<1>2. ASSUME NEW T \in Bad
      PROVE  \E U \in Bad : U \subseteq T /\ U # T
  <2>1. T # {}
    <3>1. Above({}, Z) = {}
      BY DEF Above
    <3>2. IsFiniteSet({}) /\ Cardinality({}) = 0
      BY FS_EmptySet
    <3>3. 0 <= 0 * j
      OBVIOUS
    <3> QED BY <3>1, <3>2, <3>3
  <2>2. PICK y : y \in T
    BY <2>1
  <2>3. T \in SUBSET R /\ T \ {y} \in SUBSET R /\ T \ {y} \subseteq T /\ T \ {y} # T
    BY <2>2
  <2>4. ~ (IsFiniteSet(Above(T, Z)) /\ Cardinality(Above(T, Z)) <= Cardinality(T) * j)
    OBVIOUS
  <2>5. ~ (IsFiniteSet(Above(T \ {y}, Z))
             /\ Cardinality(Above(T \ {y}, Z)) <= Cardinality(T \ {y}) * j)
    BY <1>1, <2>2, <2>3, <2>4
  <2>6. T \ {y} \in Bad
    BY <2>3, <2>5
  <2> QED BY <2>3, <2>6
<1>3. Bad = {}
  <2>1. Bad \in SUBSET SUBSET R /\ IsFiniteSet(R)
    BY FieldFinite
  <2> HIDE DEF Bad
  <2> QED BY <1>2, <2>1, FiniteAlike, Mul!MinimalSubset
<1> QED BY <1>3

LEMMA DividedNothing ==
  ASSUME NEW N \in SUBSET Field, NEW g \in Functional, \A x \in Field : g[x] = 0
  PROVE  Divided(N, g) = 0
<1>1. 0 \in Field /\ One \in Functional /\ \A x \in N : g[x] = 0 ** One[x]
  BY FieldClosed, FieldLaws, OneType
<1>2. Divided(N, g) = 0 ** Divided(N, One)
  BY <1>1, DividedScale
<1>3. Divided(N, One) \in Field
  BY <1>1, DividedType
<1> QED BY <1>2, <1>3, FieldLaws

LEMMA ProductOrder ==
  ASSUME NEW a \in Nat, NEW b \in Nat, NEW c \in Nat, a <= b
  PROVE  a * c <= b * c
<1>1. PICK d \in Nat : b = a + d
  <2>1. b - a \in Nat /\ b = a + (b - a)
    OBVIOUS
  <2> QED BY <2>1
<1>2. (a + d) * c = a * c + d * c
  OBVIOUS
<1>3. d * c \in Nat /\ a * c \in Nat
  OBVIOUS
<1> QED BY <1>1, <1>2, <1>3

LEMMA FieldCount == IsFiniteSet(Field) /\ Cardinality(Field) = P
<1>1. Field = 0 .. P - 1 /\ P \in Nat /\ P # 0
  BY PAssumption DEF Field
<1>2. 0 \in Int /\ P - 1 \in Int
  BY <1>1
<1>3. IsFiniteSet(0 .. P-1) /\ Cardinality(0 .. P-1) = P
  BY <1>1, <1>2, FS_Interval
<1> QED BY <1>1, <1>3

LEMMA BiDegreeRow ==
  ASSUME NEW M \in Nat, NEW G, BiDegree(G, M), NEW x \in Field
  PROVE  DegreeAtMost(G[x], M)
<1>1. G \in [Field -> Functional]
  BY DEF BiDegree
<1>2. ASSUME NEW N \in SUBSET Field, Cardinality(N) >= M + 2
      PROVE  Divided(N, G[x]) = 0
  <2>1. PICK k \in Nat : Cardinality(N) = k + 1
    <3>1. Cardinality(N) \in Nat
      BY FieldFinite
    <3>2. Cardinality(N) - 1 \in Nat /\ Cardinality(N) = (Cardinality(N) - 1) + 1
      BY <1>2, <3>1
    <3> QED BY <3>2
  <2>2. k > M
    BY <1>2, <2>1
  <2>3. Slices(N, G)[x] = 0
    BY <2>1, <2>2 DEF BiDegree
  <2> QED BY <1>1, <2>3, SlicesType
<1> QED BY <1>1, <1>2 DEF DegreeAtMost

Roots(G) == {d \in Field \X Field : G[d[1]][d[2]] = 0}

\* A polynomial of degree M in two variables that is not zero everywhere is
\* zero at no more than M P points.
LEMMA BiRoots ==
  ASSUME NEW M \in Nat, M < P, NEW G, BiDegree(G, M),
         NEW y \in Field, NEW b \in Field, G[y][b] # 0
  PROVE  IsFiniteSet(Roots(G)) /\ Cardinality(Roots(G)) <= P * M
<1> DEFINE J == {j \in Nat : j <= M /\ \A x \in Field : DegreeAtMost(G[x], j)}
<1>0. G \in [Field -> Functional] /\ P \in Nat
  BY PAssumption DEF BiDegree
<1>1. M \in J
  BY BiDegreeRow
<1>2. PICK j \in J : \A i \in J : j <= i
  <2>1. J \in SUBSET Nat
    OBVIOUS
  <2> HIDE DEF J
  <2> QED BY <1>1, <2>1, Mul!LeastNatural
<1>3. j \in Nat /\ j <= M /\ \A x \in Field : DegreeAtMost(G[x], j)
  OBVIOUS
<1>4. \A i \in Nat : i <= M /\ (\A x \in Field : DegreeAtMost(G[x], i)) => j <= i
  BY <1>2
<1> HIDE DEF J
<1>5. PICK N \in SUBSET Field : N = 0 .. j /\ Cardinality(N) = j + 1 /\ 0 \in N
  <2>1. j < P
    BY <1>0, <1>3
  <2>2. 0 .. j \in SUBSET Field /\ Cardinality(0 .. j) = j + 1
    BY <1>3, <2>1, Nodes
  <2> QED BY <1>3, <2>2
<1>6. PICK a : /\ a \in Functional /\ \A x \in Field : a[x] = Divided(N, G[x])
               /\ DegreeAtMost(a, M - j)
  <2>1. Slices(N, G) \in Functional /\ \A x \in Field : Slices(N, G)[x] = Divided(N, G[x])
    BY <1>0, SlicesType
  <2>2. DegreeAtMost(Slices(N, G), M - j)
    BY <1>3, <1>5 DEF BiDegree
  <2> QED BY <2>1, <2>2
<1>7. PICK z \in Field : a[z] # 0
  <2> SUFFICES ASSUME \A x \in Field : a[x] = 0 PROVE FALSE
    OBVIOUS
  <2>1. \A x \in Field : Divided(N, G[x]) = 0
    BY <1>6
  <2>2. CASE j = 0
    <3>1. N = {} \cup {0} /\ {} \in SUBSET Field /\ 0 \in Field
      BY <1>5, <2>2
    <3>2. G[y] \in Functional /\ DegreeAtMost(G[y], 0) /\ Divided({} \cup {0}, G[y]) = 0
      BY <1>0, <1>3, <2>1, <2>2, <3>1
    <3>3. G[y][0] = 0
      BY <3>1, <3>2, LastRoot
    <3>4. {0} \in SUBSET Field /\ Cardinality({0}) >= 0 + 1
      BY <3>1, FS_Singleton
    <3>5. \A c \in Field : G[y][c] = 0
      BY <3>2, <3>3, <3>4, FewRoots
    <3> QED BY <3>5
  <2>3. CASE j # 0
    <3>1. PICK k \in Nat : j = k + 1
      <4>1. j - 1 \in Nat /\ j = (j - 1) + 1
        BY <1>3, <2>3
      <4> QED BY <4>1
    <3>2. Cardinality(N) = k + 2
      BY <1>5, <3>1
    <3>3. \A x \in Field : DegreeAtMost(G[x], k)
      BY <1>3, <2>1, <3>1, <3>2, LowerDegree
    <3>4. k <= M /\ ~ (j <= k)
      BY <1>3, <3>1
    <3> QED BY <1>4, <3>3, <3>4
  <2> QED BY <2>2, <2>3
<1>8. PICK A \in SUBSET Field : A = {x \in Field : a[x] = 0}
  OBVIOUS
<1>9. Cardinality(A) <= M - j
  <2>1. Cardinality(A) \in Nat /\ M - j \in Nat
    BY <1>3, FieldFinite
  <2>2. ASSUME Cardinality(A) >= (M - j) + 1
        PROVE  FALSE
    <3>1. \A x \in Field : a[x] = 0
      BY <1>6, <1>8, <2>1, <2>2, FewRoots
    <3> QED BY <1>7, <3>1
  <2> QED BY <2>1, <2>2
<1>10. PICK Z : Z = [x \in Field |-> {c \in Field : G[x][c] = 0}]
  OBVIOUS
<1>11. ASSUME NEW x \in Field \ A
       PROVE  Z[x] \in SUBSET Field /\ Cardinality(Z[x]) <= j
  <2>1. Z[x] \in SUBSET Field /\ \A c \in Z[x] : G[x][c] = 0
    BY <1>10
  <2>2. Cardinality(Z[x]) \in Nat
    BY <2>1, FieldFinite
  <2>3. ASSUME Cardinality(Z[x]) >= j + 1
        PROVE  FALSE
    <3>1. \A c \in Field : G[x][c] = 0
      BY <1>3, <2>1, <2>3, FewRoots
    <3>2. G[x] \in Functional
      BY <1>0
    <3>3. Divided(N, G[x]) = 0
      BY <3>1, <3>2, DividedNothing
    <3> QED BY <1>6, <1>8, <3>3
  <2> QED BY <1>3, <2>1, <2>2, <2>3
<1>12. IsFiniteSet(Field) /\ Cardinality(Field) = P
  BY FieldCount
<1>13. ASSUME NEW x \in A
       PROVE  Z[x] \in SUBSET Field /\ Cardinality(Z[x]) <= P
  <2>1. Z[x] \in SUBSET Field
    BY <1>10
  <2> QED BY <1>12, <2>1, FS_Subset
<1>14. PICK B \in SUBSET Field : B = Field \ A
  OBVIOUS
<1>15. IsFiniteSet(Above(A, Z)) /\ Cardinality(Above(A, Z)) <= Cardinality(A) * P
  BY <1>0, <1>13, AboveCount
<1>16. IsFiniteSet(Above(B, Z)) /\ Cardinality(Above(B, Z)) <= Cardinality(B) * j
  BY <1>3, <1>11, <1>14, AboveCount
<1>17. Roots(G) = Above(A, Z) \cup Above(B, Z) /\ Above(A, Z) \cap Above(B, Z) = {}
  BY <1>10, <1>14 DEF Roots, Above
<1>18. PICK p1 \in Nat, p2 \in Nat, n1 \in Nat, n2 \in Nat :
         /\ p1 = Cardinality(Above(A, Z)) /\ p2 = Cardinality(Above(B, Z))
         /\ n1 = Cardinality(A) /\ n2 = Cardinality(B) /\ n2 <= P
  <2>1. Cardinality(B) <= P
    BY <1>12, FS_Subset
  <2> QED BY <1>15, <1>16, <2>1, FieldFinite, FS_CardinalityType
<1>19. IsFiniteSet(Roots(G)) /\ Cardinality(Roots(G)) = p1 + p2
  <2>1. /\ IsFiniteSet(Above(A, Z) \cup Above(B, Z))
        /\ Cardinality(Above(A, Z) \cup Above(B, Z))
             = Cardinality(Above(A, Z)) + Cardinality(Above(B, Z))
                 - Cardinality(Above(A, Z) \cap Above(B, Z))
    BY <1>15, <1>16, FS_Union
  <2>2. Cardinality(Above(A, Z) \cap Above(B, Z)) = 0
    BY <1>17, FS_EmptySet
  <2> QED BY <1>17, <1>18, <2>1, <2>2
<1>20. p1 + p2 <= P * M
  <2>1. PICK i \in Nat : i = M - j /\ M = i + j
    BY <1>3
  <2>2. n1 * P <= i * P
    BY <1>0, <1>9, <1>18, <2>1, ProductOrder
  <2>3. n2 * j <= P * j
    BY <1>0, <1>3, <1>18, ProductOrder
  <2>4. P * (i + j) = i * P + P * j
    BY <1>0, <1>3
  <2>5. /\ p1 <= n1 * P /\ p2 <= n2 * j
        /\ n1 * P \in Nat /\ n2 * j \in Nat /\ i * P \in Nat /\ P * j \in Nat
    BY <1>0, <1>3, <1>15, <1>16, <1>18
  <2> QED BY <2>1, <2>2, <2>3, <2>4, <2>5
<1> QED BY <1>19, <1>20
=============================================================================
