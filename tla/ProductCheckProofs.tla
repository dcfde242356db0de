------------------------- MODULE ProductCheckProofs -------------------------
(***************************************************************************)
(* Theorems about ProductCheck and PermutationCheck, for every field and   *)
(* lists of any number of tables of any size.                              *)
(***************************************************************************)
EXTENDS PermutationCheck, FieldLemmas

---------------------------------------------------------------------------
(* get_index.                                                              *)

LEMMA SumLast ==
  ASSUME NEW n \in Nat, NEW f, NEW g,
         DOMAIN f = 1 .. n+1, \A i \in 1 .. n+1 : f[i] \in Int,
         DOMAIN g = 1 .. n, \A i \in 1 .. n : g[i] = f[i]
  PROVE  SumFunction(f) = f[n+1] + SumFunction(g)
<1> DEFINE S == 1 .. n
<1>1. IsFiniteSet(S) /\ n+1 \notin S /\ S \cup {n+1} = 1 .. n+1
  <2>1. IsFiniteSet(S)
    BY FS_Interval
  <2>2. n+1 \notin S /\ S \cup {n+1} = 1 .. n+1
    OBVIOUS
  <2> QED BY <2>1, <2>2
<1>2. Add!Typed(f, S \cup {n+1}, Int)
  BY <1>1 DEF Add!Typed
<1>3. DOMAIN g = S /\ \A i \in S : g[i] = f[i]
  OBVIOUS
<1> DEFINE y == n+1
<1> HIDE DEF S, y
<1>4. Add!Fold(f, S \cup {y}) = f[y] + Add!Fold(f, S)
  BY <1>1, <1>2, AddMonoid, FiniteAlike, Add!FoldAdd DEF y
<1>5. Add!Fold(g, S) = Add!Fold(f, S)
  BY <1>1, <1>3, FiniteAlike, Add!FoldSame
<1> QED BY <1>1, <1>3, <1>4, <1>5, SumIsFold DEF y

\* The top bit of an index and the index below it.
LEMMA TopBit ==
  ASSUME NEW m \in Nat, NEW z \in Index(m+1)
  PROVE  \E y \in Index(m) : \E t \in {0, 1} : z = y + t * 2^m
<1>1. PICK h \in Nat \ {0} : h = 2^m /\ Index(m) = 0 .. h - 1 /\ Index(m+1) = 0 .. 2*h - 1
  BY IndexFacts
<1>2. CASE z < h
  <2>1. z \in 0 .. h-1 /\ z = z + 0 * h
    BY <1>1, <1>2
  <2> QED BY <1>1, <2>1
<1>3. CASE z >= h
  <2>1. z - h \in 0 .. h-1 /\ z = (z - h) + 1 * h
    BY <1>1, <1>3
  <2> QED BY <1>1, <2>1
<1> QED BY <1>1, <1>2, <1>3

LEMMA TopAndRest ==
  ASSUME NEW m \in Nat, NEW y \in Index(m), NEW t \in {0, 1}
  PROVE  /\ bit_decompose(y + t * 2^m, m+1)[m+1] = t
         /\ \A i \in 1 .. m : bit_decompose(y + t * 2^m, m+1)[i] = bit_decompose(y, m)[i]
         /\ DOMAIN bit_decompose(y, m) = 1 .. m
         /\ DOMAIN bit_decompose(y + t * 2^m, m+1) = 1 .. m+1
<1>1. ASSUME NEW b, NEW k \in Nat
      PROVE  /\ DOMAIN bit_decompose(b, k) = 1 .. k
             /\ \A i \in 1 .. k : bit_decompose(b, k)[i] = Bit(b, i-1)
  BY DEF bit_decompose, Bit
<1>2. /\ Bit(y + t * 2^m, m) = t
      /\ \A i \in 0 .. m-1 : Bit(y + t * 2^m, i) = Bit(y, i)
  BY BitsUnderTop
<1> DEFINE b == y + t * 2^m
<1> HIDE DEF b
<1>3. bit_decompose(b, m+1)[m+1] = Bit(b, m)
  <2>1. m+1 \in 1 .. m+1 /\ (m+1) - 1 = m /\ m+1 \in Nat
    OBVIOUS
  <2> QED BY <1>1, <2>1
<1>4. ASSUME NEW i \in 1 .. m
      PROVE  bit_decompose(b, m+1)[i] = bit_decompose(y, m)[i]
  <2>1. i \in 1 .. m+1 /\ i - 1 \in 0 .. m-1 /\ m+1 \in Nat
    OBVIOUS
  <2>2. bit_decompose(b, m+1)[i] = Bit(b, i-1)
    BY <1>1, <2>1
  <2>3. bit_decompose(y, m)[i] = Bit(y, i-1)
    BY <1>1
  <2> QED BY <1>2, <2>1, <2>2, <2>3 DEF b
<1>5. m+1 \in Nat
  OBVIOUS
<1> QED BY <1>1, <1>2, <1>3, <1>4, <1>5 DEF b

Projects(m) == \A z \in Index(m) : project(bit_decompose(z, m)) = z

\* project undoes bit_decompose.
LEMMA ProjectBits == \A m \in Nat : Projects(m)
<1> DEFINE S == {m \in Nat : Projects(m)}
           Weights(bits) == [i \in DOMAIN bits |-> bits[i] * 2^(i-1)]
<1>0. \A bits : project(bits) = SumFunction(Weights(bits))
  BY DEF project
<1>1. Projects(0)
  <2> SUFFICES ASSUME NEW z \in Index(0) PROVE project(bit_decompose(z, 0)) = z
    BY DEF Projects
  <2>1. z = 0
    BY TwoToThe DEF Index
  <2> DEFINE w == Weights(bit_decompose(z, 0))
  <2>2. DOMAIN w = {}
    BY DEF bit_decompose
  <2>3. project(bit_decompose(z, 0)) = SumFunction(w)
    BY <1>0
  <2> HIDE DEF w
  <2>4. SumFunction(w) = 0
    BY <2>2, FS_EmptySet, FiniteAlike, Add!FoldEquation, SumIsFold
  <2> QED BY <2>1, <2>3, <2>4
<1>2. ASSUME NEW m \in Nat, Projects(m)
      PROVE  Projects(m+1)
  <2> SUFFICES ASSUME NEW z \in Index(m+1) PROVE project(bit_decompose(z, m+1)) = z
    BY DEF Projects
  <2>1. PICK y \in Index(m), t \in {0, 1} : z = y + t * 2^m
    BY TopBit
  <2> DEFINE v == bit_decompose(z, m+1)
             u == bit_decompose(y, m)
             f == Weights(v)
             g == Weights(u)
  <2>2. /\ v[m+1] = t /\ \A i \in 1 .. m : v[i] = u[i]
        /\ DOMAIN u = 1 .. m /\ DOMAIN v = 1 .. m+1
    BY <2>1, TopAndRest
  <2>3. \A i \in 1 .. m+1 : v[i] \in Int /\ 2^(i-1) \in Nat
    <3>1. v \in Point(m+1)
      <4>1. m+1 \in Nat /\ z \in Nat
        BY IndexFacts
      <4> QED BY <4>1, BitsPoint
    <3>2. ASSUME NEW i \in 1 .. m+1
          PROVE  2^(i-1) \in Nat
      BY TwoToThe
    <3> QED BY <3>1, <3>2 DEF Point, Field
  <2> HIDE DEF u, v
  <2>4. DOMAIN f = 1 .. m+1 /\ DOMAIN g = 1 .. m /\ f[m+1] = t * 2^m
    <3>1. m+1 \in 1 .. m+1 /\ (m+1) - 1 = m
      OBVIOUS
    <3> QED BY <2>2, <3>1
  <2>5. /\ \A i \in 1 .. m+1 : f[i] \in Int
        /\ \A i \in 1 .. m : g[i] = f[i]
    BY <2>2, <2>3
  <2> HIDE DEF f, g
  <2>6. SumFunction(f) = f[m+1] + SumFunction(g)
    BY <2>4, <2>5, SumLast
  <2>7. SumFunction(g) = y
    BY <1>0, <1>2 DEF g, u, Projects
  <2>8. project(v) = SumFunction(f)
    BY <1>0 DEF f
  <2>9. y \in Nat /\ 2^m \in Nat
    BY IndexFacts
  <2> QED BY <2>1, <2>4, <2>6, <2>7, <2>8, <2>9 DEF v
<1>3. 0 \in S /\ \A m \in Nat : m \in S => m + 1 \in S
  BY <1>1, <1>2
<1> HIDE DEF S
<1>4. Nat \subseteq S
  BY <1>3, Add!NaturalInduction
<1> QED BY <1>4 DEF S

\* The three results: twice the index without its top bit, one more, and
\* that bit.
LEMMA GetIndex ==
  ASSUME NEW m \in Nat, NEW y \in Index(m), NEW t \in {0, 1}
  PROVE  get_index(y + t * 2^m, m+1) = [x0 |-> 2*y, x1 |-> 2*y + 1, sign |-> t]
<1> DEFINE b == y + t * 2^m
           v == bit_decompose(b, m+1)
           low == SubSeq(v, 1, (m+1) - 1)
<1>1. /\ v[m+1] = t /\ \A i \in 1 .. m : v[i] = bit_decompose(y, m)[i]
      /\ DOMAIN bit_decompose(y, m) = 1 .. m /\ DOMAIN v = 1 .. m+1
  BY TopAndRest
<1>2. y \in Nat /\ b \in Nat /\ m+1 \in Nat
  <2>1. y \in Nat /\ m+1 \in Nat
    BY IndexFacts
  <2>2. PICK p \in Nat : p = 2^m
    BY TwoToThe
  <2>3. t * p \in Nat
    BY <2>2
  <2> QED BY <2>1, <2>2, <2>3
<1>3. v \in Point(m+1) /\ bit_decompose(y, m) \in Point(m)
  BY <1>2, BitsPoint
<1> HIDE DEF b
<1>4. low = bit_decompose(y, m)
  <2>1. v \in Seq(Field) /\ Len(v) = m+1
    BY <1>2, <1>3, PointIsSeq
  <2>2. bit_decompose(y, m) \in Seq(Field) /\ Len(bit_decompose(y, m)) = m
    BY <1>3, PointIsSeq
  <2> HIDE DEF v
  <2>3. /\ low \in Seq(Field) /\ Len(low) = m
        /\ \A j \in 1 .. m : low[j] = v[1 + j - 1]
    <3>1. 1 \in 1 .. Len(v) + 1 /\ m \in 0 .. Len(v) /\ 1 <= m + 1 /\ m - 1 + 1 = m
          /\ (m+1) - 1 = m
      BY <2>1
    <3> QED BY <2>1, <3>1, Piece
  <2>4. \A j \in 1 .. m : low[j] = bit_decompose(y, m)[j]
    <3>1. \A j \in 1 .. m : 1 + j - 1 = j
      OBVIOUS
    <3> QED BY <1>1, <2>3, <3>1
  <2> HIDE DEF low
  <2> QED BY <2>2, <2>3, <2>4
<1>5. /\ bit_decompose(2*y + 0, m+1) = <<0>> \o bit_decompose(y, m)
      /\ bit_decompose(2*y + 1, m+1) = <<1>> \o bit_decompose(y, m)
  BY <1>2, BitsOfDouble
<1>6. /\ project(bit_decompose(2*y + 0, m+1)) = 2*y + 0
      /\ project(bit_decompose(2*y + 1, m+1)) = 2*y + 1
  <2>1. 2*y + 0 \in Index(m+1) /\ 2*y + 1 \in Index(m+1)
    <3>1. 2*y + 0 = 2*y
      BY <1>2
    <3> QED BY <3>1, IndexFacts
  <2> QED BY <1>2, <2>1, ProjectBits DEF Projects
<1>7. get_index(b, m+1) = [x0 |-> project(<<0>> \o low), x1 |-> project(<<1>> \o low),
                           sign |-> v[m+1]]
  BY DEF get_index
<1>8. 2*y + 0 = 2*y
  BY <1>2
<1> HIDE DEF low, v
<1> QED BY <1>1, <1>4, <1>5, <1>6, <1>7, <1>8 DEF b

\* The point (0, 1, ..., 1) is the last index but one.
AllOnes(m) == bit_decompose(2^m - 1, m) = [i \in 1 .. m |-> 1]

LEMMA OnesAlways == \A m \in Nat : AllOnes(m)
<1> DEFINE S == {m \in Nat : AllOnes(m)}
<1>1. AllOnes(0)
  BY DEF AllOnes, bit_decompose
<1>2. ASSUME NEW m \in Nat, AllOnes(m)
      PROVE  AllOnes(m+1)
  <2>1. PICK c \in Nat : c = 2^m - 1 /\ 2^(m+1) - 1 = 2*c + 1
    BY TwoToThe
  <2>2. bit_decompose(2*c + 1, m+1) = <<1>> \o bit_decompose(c, m)
    BY <2>1, BitsOfDouble
  <2>3. <<1>> \o [i \in 1 .. m |-> 1] = [i \in 1 .. m+1 |-> 1]
    <3>1. [i \in 1 .. m |-> 1] \in Point(m)
      BY FieldClosed DEF Point
    <3> DEFINE r == [i \in 1 .. m |-> 1]
               l == [i \in 1 .. m+1 |-> 1]
    <3>2. l \in Point(m+1)
      BY FieldClosed DEF Point
    <3>3. \A i \in 1 .. m : r[i] = 1
      OBVIOUS
    <3>4. \A i \in 1 .. m+1 : l[i] = 1
      OBVIOUS
    <3> HIDE DEF r, l
    <3>5. <<1>> \o r \in Point(m+1) /\ (<<1>> \o r)[1] = 1
          /\ \A i \in 1 .. m : (<<1>> \o r)[i+1] = r[i]
      BY <3>1, FieldClosed, PointFacts DEF r
    <3>6. ASSUME NEW i \in 1 .. m+1
          PROVE  (<<1>> \o r)[i] = 1
      <4>1. CASE i = 1
        BY <3>5, <4>1
      <4>2. CASE i # 1
        <5>1. i - 1 \in 1 .. m /\ (i-1) + 1 = i
          BY <4>2
        <5>2. (<<1>> \o r)[(i-1) + 1] = r[i-1]
          BY <3>5, <5>1
        <5> QED BY <3>3, <5>1, <5>2
      <4> QED BY <4>1, <4>2
    <3>7. <<1>> \o r = l
      BY <3>2, <3>4, <3>5, <3>6 DEF Point
    <3> QED BY <3>7 DEF r, l
  <2> QED BY <1>2, <2>1, <2>2, <2>3 DEF AllOnes
<1>3. 0 \in S /\ \A m \in Nat : m \in S => m + 1 \in S
  BY <1>1, <1>2
<1> HIDE DEF S
<1>4. Nat \subseteq S
  BY <1>3, Add!NaturalInduction
<1> QED BY <1>4 DEF S

LEMMA PointEqual ==
  ASSUME NEW m \in Nat, NEW x \in Point(m), NEW y \in Point(m),
         \A i \in 1 .. m : x[i] = y[i]
  PROVE  x = y
BY DEF Point

LEMMA QueryFacts ==
  ASSUME NEW m \in Nat, NEW T \in Table(m+1)
  PROVE  LET q == [i \in 1 .. m+1 |-> IF i = 1 THEN 0 ELSE 1]
         IN  /\ project(q) = 2^(m+1) - 2
             /\ Extension(T, q) = T[2^(m+1) - 2]
<1> DEFINE q == [i \in 1 .. m+1 |-> IF i = 1 THEN 0 ELSE 1]
<1>1. PICK c \in Nat : /\ c = 2^m - 1 /\ 2^(m+1) - 2 = 2*c + 0
                       /\ 2*c \in Index(m+1) /\ 2*c + 0 = 2*c
  <2>1. PICK h \in Nat \ {0} : h = 2^m /\ 2^(m+1) = 2*h /\ Index(m+1) = 0 .. 2*h - 1
    BY IndexFacts
  <2>2. PICK c \in Nat : c = h - 1
    BY <2>1
  <2> QED BY <2>1, <2>2
<1>2. bit_decompose(2*c + 0, m+1) = <<0>> \o [i \in 1 .. m |-> 1]
  <2>1. bit_decompose(2*c + 0, m+1) = <<0>> \o bit_decompose(c, m)
    BY BitsOfDouble
  <2>2. bit_decompose(c, m) = [i \in 1 .. m |-> 1]
    BY <1>1, OnesAlways DEF AllOnes
  <2> QED BY <2>1, <2>2
<1>3. <<0>> \o [i \in 1 .. m |-> 1] = q
  <2> DEFINE r == [i \in 1 .. m |-> 1]
  <2>1. r \in Point(m) /\ q \in Point(m+1)
    BY FieldClosed DEF Point
  <2>2. (\A i \in 1 .. m : r[i] = 1) /\ \A i \in 1 .. m+1 : q[i] = IF i = 1 THEN 0 ELSE 1
    OBVIOUS
  <2> HIDE DEF r, q
  <2>3. <<0>> \o r \in Point(m+1) /\ (<<0>> \o r)[1] = 0
        /\ \A i \in 1 .. m : (<<0>> \o r)[i+1] = r[i]
    BY <2>1, FieldClosed, PointFacts
  <2>4. ASSUME NEW i \in 1 .. m+1
        PROVE  (<<0>> \o r)[i] = q[i]
    <3>1. CASE i = 1
      BY <2>2, <2>3, <3>1
    <3>2. CASE i # 1
      <4>1. i - 1 \in 1 .. m /\ (i-1) + 1 = i
        BY <3>2
      <4>2. (<<0>> \o r)[(i-1) + 1] = r[i-1]
        BY <2>3, <4>1
      <4> QED BY <2>2, <3>2, <4>1, <4>2
    <3> QED BY <3>1, <3>2
  <2>5. <<0>> \o r = q
    BY <2>1, <2>3, <2>4, m+1 \in Nat, PointEqual
  <2> QED BY <2>5 DEF r
<1> HIDE DEF q
<1>4. q = bit_decompose(2*c, m+1)
  BY <1>1, <1>2, <1>3
<1>5. project(q) = 2*c
  BY <1>1, <1>4, ProjectBits DEF Projects
<1>6. Extension(T, q) = T[2*c]
  BY <1>1, <1>4, ExtensionAtIndex DEF AgreesAtIndices
<1> QED BY <1>1, <1>5, <1>6 DEF q

---------------------------------------------------------------------------
(* The flat array.  Position y of the tree is leaf y of frac below 2h, and *)
(* entry y - 2h of prod above; prod[x] is the product of the positions 2x  *)
(* and 2x + 1.                                                             *)

\* The leaves below each of the first k entries of prod.
LeafTable(g, h, k) ==
  g = [x \in 0 .. k-1 |->
         IF x < h THEN {2*x, 2*x + 1} ELSE g[2*x - 2*h] \cup g[2*x + 1 - 2*h]]

LEMMA LeafTableExists ==
  ASSUME NEW h \in Nat \ {0}
  PROVE  \E g : LeafTable(g, h, 2*h - 1)
<1> DEFINE S == {k \in Nat : k <= 2*h - 1 => \E g : LeafTable(g, h, k)}
           step(p, x) == IF x < h THEN {2*x, 2*x + 1} ELSE p[2*x - 2*h] \cup p[2*x + 1 - 2*h]
<1>0. \A g, k : LeafTable(g, h, k) <=> g = [x \in 0 .. k-1 |-> step(g, x)]
  BY DEF LeafTable
<1>1. 0 \in S
  <2>1. 0 .. 0-1 = {}
    OBVIOUS
  <2>2. LeafTable([x \in 0 .. 0-1 |-> 0], h, 0)
    BY <2>1 DEF LeafTable
  <2> QED BY <2>2
<1>2. ASSUME NEW k \in Nat, k \in S
      PROVE  k + 1 \in S
  <2>1. SUFFICES ASSUME k + 1 <= 2*h - 1 PROVE \E g : LeafTable(g, h, k+1)
    OBVIOUS
  <2>2. PICK g : LeafTable(g, h, k)
    BY <1>2, <2>1
  <2> DEFINE f == [x \in 0 .. (k+1)-1 |-> IF x = k THEN step(g, k) ELSE g[x]]
  <2>3. g = [x \in 0 .. k-1 |-> step(g, x)]
    BY <1>0, <2>2
  <2> HIDE DEF step
  <2>4. \A x \in 0 .. k-1 : g[x] = step(g, x)
    BY <2>3
  <2>5. \A x \in 0 .. (k+1)-1 : f[x] = IF x = k THEN step(g, k) ELSE g[x]
    OBVIOUS
  <2>6. f = [x \in 0 .. (k+1)-1 |-> f[x]]
    OBVIOUS
  <2> HIDE DEF f
  <2>7. ASSUME NEW x \in 0 .. (k+1)-1
        PROVE  f[x] = step(f, x)
    <3>1. step(f, x) = step(g, x)
      <4>1. CASE x < h
        BY <4>1 DEF step
      <4>2. CASE ~ (x < h)
        <5>1. 2*x - 2*h \in 0 .. k-1 /\ 2*x + 1 - 2*h \in 0 .. k-1
          BY <2>1, <4>2
        <5>2. \A y \in 0 .. k-1 : f[y] = g[y]
          BY <2>5
        <5> QED BY <5>1, <5>2 DEF step
      <4> QED BY <4>1, <4>2
    <3>2. CASE x = k
      BY <2>5, <3>1, <3>2
    <3>3. CASE x # k
      <4>1. x \in 0 .. k-1
        BY <3>3
      <4> QED BY <2>4, <2>5, <3>1, <3>3, <4>1
    <3> QED BY <3>2, <3>3
  <2>8. f = [x \in 0 .. (k+1)-1 |-> step(f, x)]
    BY <2>6, <2>7
  <2> QED BY <1>0, <2>8
<1> HIDE DEF S
<1>3. Nat \subseteq S
  BY <1>1, <1>2, Add!NaturalInduction
<1>4. 2*h - 1 \in Nat
  OBVIOUS
<1> QED BY <1>3, <1>4 DEF S

\* The leaves below a position.
Held(g, h, y) == IF y < 2*h THEN {y} ELSE g[y - 2*h]

LEMMA HeldStep ==
  ASSUME NEW h \in Nat \ {0}, NEW g, LeafTable(g, h, 2*h - 1), NEW x \in 0 .. 2*h - 2
  PROVE  /\ g[x] = Held(g, h, 2*x) \cup Held(g, h, 2*x + 1)
         /\ Held(g, h, 2*h + x) = g[x]
<1>1. x \in 0 .. (2*h - 1) - 1
  OBVIOUS
<1>2. g[x] = IF x < h THEN {2*x, 2*x + 1} ELSE g[2*x - 2*h] \cup g[2*x + 1 - 2*h]
  BY <1>1 DEF LeafTable
<1>3. CASE x < h
  <2>1. 2*x < 2*h /\ 2*x + 1 < 2*h
    BY <1>3
  <2>2. Held(g, h, 2*x) = {2*x} /\ Held(g, h, 2*x + 1) = {2*x + 1}
    BY <2>1 DEF Held
  <2>3. ~ (2*h + x < 2*h) /\ (2*h + x) - 2*h = x
    OBVIOUS
  <2> QED BY <1>2, <1>3, <2>2, <2>3 DEF Held
<1>4. CASE ~ (x < h)
  <2>1. ~ (2*x < 2*h) /\ ~ (2*x + 1 < 2*h)
    BY <1>4
  <2>2. Held(g, h, 2*x) = g[2*x - 2*h] /\ Held(g, h, 2*x + 1) = g[2*x + 1 - 2*h]
    BY <2>1 DEF Held
  <2>3. ~ (2*h + x < 2*h) /\ (2*h + x) - 2*h = x
    OBVIOUS
  <2> QED BY <1>2, <1>4, <2>2, <2>3 DEF Held
<1> QED BY <1>3, <1>4

\* When k entries of prod are made, the positions not yet read are 2k and
\* those after it; their leaves share out the table.
Window(h, k) == 2*k .. 2*h + k - 1

Shared(g, h, k) ==
  /\ \A y \in Window(h, k) : Held(g, h, y) \subseteq 0 .. 2*h - 1
  /\ \A y, z \in Window(h, k) : y # z => Held(g, h, y) \cap Held(g, h, z) = {}
  /\ \A l \in 0 .. 2*h - 1 : \E y \in Window(h, k) : l \in Held(g, h, y)

LEMMA SharedStep ==
  ASSUME NEW h \in Nat \ {0}, NEW g, LeafTable(g, h, 2*h - 1), NEW k \in 0 .. 2*h - 2,
         Shared(g, h, k)
  PROVE  Shared(g, h, k+1)
<1> DEFINE H(y) == Held(g, h, y)
           new == 2*h + k
<1>1. H(new) = H(2*k) \cup H(2*k + 1)
  BY HeldStep
<1>2. /\ 2*k \in Window(h, k) /\ 2*k + 1 \in Window(h, k)
      /\ new \in Window(h, k+1)
      /\ \A y \in Window(h, k+1) : y # new => /\ y \in Window(h, k)
                                              /\ y # 2*k /\ y # 2*k + 1
      /\ \A y \in Window(h, k) : y # 2*k /\ y # 2*k + 1 => y \in Window(h, k+1)
  BY DEF Window
<1> HIDE DEF H, new
<1>3. /\ \A y \in Window(h, k) : H(y) \subseteq 0 .. 2*h - 1
      /\ \A y, z \in Window(h, k) : y # z => H(y) \cap H(z) = {}
      /\ \A l \in 0 .. 2*h - 1 : \E y \in Window(h, k) : l \in H(y)
  BY DEF Shared, H
<1>4. \A y \in Window(h, k+1) : H(y) \subseteq 0 .. 2*h - 1
  BY <1>1, <1>2, <1>3
<1>5. \A y, z \in Window(h, k+1) : y # z => H(y) \cap H(z) = {}
  <2>1. ASSUME NEW y \in Window(h, k+1), y # new
        PROVE  H(y) \cap H(new) = {}
    BY <1>1, <1>2, <1>3, <2>1
  <2>2. ASSUME NEW y \in Window(h, k+1), NEW z \in Window(h, k+1), y # z
        PROVE  H(y) \cap H(z) = {}
    <3>1. CASE y # new /\ z # new
      BY <1>2, <1>3, <2>2, <3>1
    <3>2. CASE y = new
      BY <2>1, <2>2, <3>2
    <3>3. CASE z = new
      BY <2>1, <2>2, <3>3
    <3> QED BY <3>1, <3>2, <3>3
  <2> QED BY <2>2
<1>6. ASSUME NEW l \in 0 .. 2*h - 1
      PROVE  \E y \in Window(h, k+1) : l \in H(y)
  <2>1. PICK y \in Window(h, k) : l \in H(y)
    BY <1>3
  <2>2. CASE y = 2*k \/ y = 2*k + 1
    BY <1>1, <1>2, <2>1, <2>2
  <2>3. CASE y # 2*k /\ y # 2*k + 1
    BY <1>2, <2>1, <2>3
  <2> QED BY <2>2, <2>3
<1> QED BY <1>4, <1>5, <1>6 DEF Shared, H

LEMMA SharedAlways ==
  ASSUME NEW h \in Nat \ {0}, NEW g, LeafTable(g, h, 2*h - 1)
  PROVE  \A k \in 0 .. 2*h - 1 : Shared(g, h, k)
<1> DEFINE S == {k \in Nat : k <= 2*h - 1 => Shared(g, h, k)}
<1>1. 0 \in S
  <2>1. Window(h, 0) = 0 .. 2*h - 1
    BY DEF Window
  <2>2. \A y \in 0 .. 2*h - 1 : Held(g, h, y) = {y}
    BY DEF Held
  <2>3. \A y \in Window(h, 0) : Held(g, h, y) \subseteq 0 .. 2*h - 1
    BY <2>1, <2>2
  <2>4. \A y, z \in Window(h, 0) : y # z => Held(g, h, y) \cap Held(g, h, z) = {}
    BY <2>1, <2>2
  <2>5. \A l \in 0 .. 2*h - 1 : \E y \in Window(h, 0) : l \in Held(g, h, y)
    BY <2>1, <2>2
  <2>6. Shared(g, h, 0)
    BY <2>3, <2>4, <2>5 DEF Shared
  <2> QED BY <2>6
<1>2. ASSUME NEW k \in Nat, k \in S
      PROVE  k + 1 \in S
  <2>1. SUFFICES ASSUME k + 1 <= 2*h - 1 PROVE Shared(g, h, k+1)
    OBVIOUS
  <2>2. k \in 0 .. 2*h - 2 /\ Shared(g, h, k)
    BY <1>2, <2>1
  <2> QED BY <2>2, SharedStep
<1> HIDE DEF S
<1>3. Nat \subseteq S
  BY <1>1, <1>2, Add!NaturalInduction
<1> QED BY <1>3 DEF S

\* The two children of an entry have no leaf in common, and the entry that
\* the verifier queries has them all.
LEMMA LeafFacts ==
  ASSUME NEW h \in Nat \ {0}, NEW g, LeafTable(g, h, 2*h - 1)
  PROVE  /\ \A x \in 0 .. 2*h - 2 :
              /\ Held(g, h, 2*x) \cap Held(g, h, 2*x + 1) = {}
              /\ Held(g, h, 2*x) \subseteq 0 .. 2*h - 1
              /\ Held(g, h, 2*x + 1) \subseteq 0 .. 2*h - 1
         /\ g[2*h - 2] = 0 .. 2*h - 1
<1>1. ASSUME NEW x \in 0 .. 2*h - 2
      PROVE  /\ Held(g, h, 2*x) \cap Held(g, h, 2*x + 1) = {}
             /\ Held(g, h, 2*x) \subseteq 0 .. 2*h - 1
             /\ Held(g, h, 2*x + 1) \subseteq 0 .. 2*h - 1
  <2>1. x \in 0 .. 2*h - 1
    OBVIOUS
  <2>2. Shared(g, h, x)
    BY <2>1, SharedAlways
  <2>3. 2*x \in Window(h, x) /\ 2*x + 1 \in Window(h, x) /\ 2*x # 2*x + 1
    BY DEF Window
  <2> QED BY <2>2, <2>3 DEF Shared
<1>2. g[2*h - 2] = 0 .. 2*h - 1
  <2>1. 2*h - 1 \in 0 .. 2*h - 1 /\ 2*h - 2 \in 0 .. 2*h - 2
    OBVIOUS
  <2>2. Shared(g, h, 2*h - 1)
    BY <2>1, SharedAlways
  <2>3. Window(h, 2*h - 1) = {2*h + (2*h - 2)}
    BY DEF Window
  <2>4. Held(g, h, 2*h + (2*h - 2)) = g[2*h - 2]
    BY <2>1, HeldStep
  <2>5. /\ \A y \in Window(h, 2*h - 1) : Held(g, h, y) \subseteq 0 .. 2*h - 1
        /\ \A l \in 0 .. 2*h - 1 : \E y \in Window(h, 2*h - 1) : l \in Held(g, h, y)
    BY <2>2 DEF Shared
  <2>6. g[2*h - 2] \subseteq 0 .. 2*h - 1
    BY <2>3, <2>4, <2>5
  <2>7. ASSUME NEW l \in 0 .. 2*h - 1
        PROVE  l \in g[2*h - 2]
    BY <2>3, <2>4, <2>5
  <2> QED BY <2>6, <2>7
<1> QED BY <1>1, <1>2

\* Position y of the tree of frac and prod.
Node(F, p, h, y) == IF y < 2*h THEN F[y] ELSE p[y - 2*h]
Branch(F, p, h, x) == p[x] = Node(F, p, h, 2*x) ** Node(F, p, h, 2*x + 1)

\* The product of part of a family.
ProdOver(F, s) == FProd([l \in s |-> F[l]])

LEMMA ProdOverOne ==
  ASSUME NEW F, NEW y, F[y] \in Field
  PROVE  ProdOver(F, {y}) = F[y]
<1> DEFINE f == [l \in {y} |-> F[l]]
<1>1. DOMAIN f = {y} /\ f[y] = F[y] /\ f[y] \in Field
  OBVIOUS
<1> HIDE DEF f
<1>2. Mul!Fold(f, {y}) = f[y]
  BY <1>1, MulMonoid, Mul!FoldOne
<1>3. FProd(f) = Mul!Fold(f, {y})
  BY <1>1, ProdIsFold
<1> QED BY <1>1, <1>2, <1>3 DEF ProdOver, f

LEMMA ProdOverFacts ==
  ASSUME NEW U, IsFiniteSet(U), NEW F, \A l \in U : F[l] \in Field
  PROVE  /\ ProdOver(F, {}) = 1
         /\ \A y \in U : ProdOver(F, {y}) = F[y]
         /\ \A s \in SUBSET U : ProdOver(F, s) \in Field
         /\ \A s, t \in SUBSET U :
              s \cap t = {} => ProdOver(F, s \cup t) = ProdOver(F, s) ** ProdOver(F, t)
         /\ \A s \in SUBSET U : \A y \in s :
              ProdOver(F, s) = F[y] ** ProdOver(F, s \ {y})
<1>1. ASSUME NEW s \in SUBSET U
      PROVE  IsFiniteSet(s) /\ \A l \in s : F[l] \in Field
  BY FS_Subset
<1>2. ASSUME NEW y \in U
      PROVE  ProdOver(F, {y}) = F[y]
  BY ProdOverOne
<1>3. ASSUME NEW s \in SUBSET U
      PROVE  ProdOver(F, s) \in Field
  <2> DEFINE f == [l \in s |-> F[l]]
  <2>1. DOMAIN f = s /\ \A l \in s : f[l] \in Field
    BY <1>1
  <2> HIDE DEF f
  <2>2. FProd(f) \in Field
    BY <1>1, <2>1, FProdType
  <2> QED BY <2>2 DEF ProdOver, f
<1>4. ASSUME NEW s \in SUBSET U, NEW t \in SUBSET U, s \cap t = {}
      PROVE  ProdOver(F, s \cup t) = ProdOver(F, s) ** ProdOver(F, t)
  <2> DEFINE f == [l \in s |-> F[l]]
             g == [l \in t |-> F[l]]
             e == [l \in s \cup t |-> F[l]]
  <2>1. SplitsInto(e, s \cup t, f, s, g, t)
    BY <1>1, <1>4 DEF SplitsInto
  <2> HIDE DEF f, g, e
  <2>2. FProd(e) = FProd(f) ** FProd(g)
    BY <2>1, FProdUnion
  <2> QED BY <2>2 DEF ProdOver, f, g, e
<1>5. ProdOver(F, {}) = 1
  <2> DEFINE f == [l \in {} |-> F[l]]
  <2>1. DOMAIN f = {}
    OBVIOUS
  <2> HIDE DEF f
  <2>2. FProd(f) = 1
    BY <2>1, FProdEmpty
  <2> QED BY <2>2 DEF ProdOver, f
<1>6. ASSUME NEW s \in SUBSET U, NEW y \in s
      PROVE  ProdOver(F, s) = F[y] ** ProdOver(F, s \ {y})
  <2>1. /\ {y} \in SUBSET U /\ s \ {y} \in SUBSET U /\ {y} \cap (s \ {y}) = {}
        /\ {y} \cup (s \ {y}) = s /\ y \in U
    OBVIOUS
  <2>2. ProdOver(F, {y} \cup (s \ {y})) = ProdOver(F, {y}) ** ProdOver(F, s \ {y})
    BY <1>4, <2>1
  <2>3. ProdOver(F, {y}) = F[y]
    BY <1>2, <2>1
  <2> QED BY <2>1, <2>2, <2>3
<1> QED BY <1>2, <1>3, <1>4, <1>5, <1>6

TreeUpTo(F, p, h, k) == \A x \in 0 .. k-1 : Branch(F, p, h, x)

\* Entries made by the rule are the products of their leaves.
LEMMA TreeProducts ==
  ASSUME NEW h \in Nat \ {0}, NEW F \in [0 .. 2*h - 1 -> Field], NEW g,
         LeafTable(g, h, 2*h - 1), NEW p, NEW k \in 0 .. 2*h - 1,
         TreeUpTo(F, p, h, k)
  PROVE  \A x \in 0 .. k-1 : p[x] = ProdOver(F, g[x])
<1> DEFINE S == {n \in Nat : n <= k => \A x \in 0 .. n-1 : p[x] = ProdOver(F, g[x])}
           U == 0 .. 2*h - 1
<1>0. /\ \A y \in U : ProdOver(F, {y}) = F[y]
      /\ \A s, t \in SUBSET U :
           s \cap t = {} => ProdOver(F, s \cup t) = ProdOver(F, s) ** ProdOver(F, t)
  <2>1. IsFiniteSet(U) /\ \A l \in U : F[l] \in Field
    BY FS_Interval
  <2> HIDE DEF U
  <2>2. \A y \in U : ProdOver(F, {y}) = F[y]
    BY <2>1, ProdOverOne
  <2>3. \A s, t \in SUBSET U :
          s \cap t = {} => ProdOver(F, s \cup t) = ProdOver(F, s) ** ProdOver(F, t)
    BY <2>1, ProdOverFacts
  <2> QED BY <2>2, <2>3
<1>1. 0 \in S
  OBVIOUS
<1>2. ASSUME NEW n \in Nat, n \in S
      PROVE  n + 1 \in S
  <2>1. SUFFICES ASSUME n + 1 <= k
                 PROVE  \A x \in 0 .. (n+1)-1 : p[x] = ProdOver(F, g[x])
    OBVIOUS
  <2>2. \A x \in 0 .. n-1 : p[x] = ProdOver(F, g[x])
    BY <1>2, <2>1
  <2>3. n \in 0 .. k-1 /\ n \in 0 .. 2*h - 2
    BY <2>1
  <2>4. ASSUME NEW y \in 0 .. 2*n + 1
        PROVE  Node(F, p, h, y) = ProdOver(F, Held(g, h, y))
    <3>1. CASE y < 2*h
      <4>1. y \in 0 .. 2*h - 1
        BY <3>1
      <4>2. Held(g, h, y) = {y} /\ Node(F, p, h, y) = F[y]
        BY <3>1 DEF Held, Node
      <4> QED BY <1>0, <4>1, <4>2
    <3>2. CASE ~ (y < 2*h)
      <4>1. y - 2*h \in 0 .. n-1
        BY <2>3, <3>2
      <4>2. Held(g, h, y) = g[y - 2*h] /\ Node(F, p, h, y) = p[y - 2*h]
        BY <3>2 DEF Held, Node
      <4> QED BY <2>2, <4>1, <4>2
    <3> QED BY <3>1, <3>2
  <2>5. p[n] = Node(F, p, h, 2*n) ** Node(F, p, h, 2*n + 1)
    BY <2>3 DEF Branch, TreeUpTo
  <2>6. 2*n \in 0 .. 2*n + 1 /\ 2*n + 1 \in 0 .. 2*n + 1
    OBVIOUS
  <2>7. g[n] = Held(g, h, 2*n) \cup Held(g, h, 2*n + 1)
    BY <2>3, HeldStep
  <2>8. /\ Held(g, h, 2*n) \cap Held(g, h, 2*n + 1) = {}
        /\ Held(g, h, 2*n) \in SUBSET (0 .. 2*h - 1)
        /\ Held(g, h, 2*n + 1) \in SUBSET (0 .. 2*h - 1)
    BY <2>3, LeafFacts
  <2>9. ProdOver(F, g[n]) = ProdOver(F, Held(g, h, 2*n)) ** ProdOver(F, Held(g, h, 2*n + 1))
    BY <1>0, <2>7, <2>8
  <2>10. p[n] = ProdOver(F, g[n])
    BY <2>4, <2>5, <2>6, <2>9
  <2>11. \A x \in 0 .. (n+1)-1 : x = n \/ x \in 0 .. n-1
    OBVIOUS
  <2> QED BY <2>2, <2>10, <2>11
<1> HIDE DEF S
<1>3. Nat \subseteq S
  BY <1>1, <1>2, Add!NaturalInduction
<1> QED BY <1>3 DEF S

\* A whole tree has the product of frac where the verifier looks.
LEMMA TreeTop ==
  ASSUME NEW h \in Nat \ {0}, NEW F \in [0 .. 2*h - 1 -> Field], NEW p,
         \A x \in 0 .. 2*h - 2 : Branch(F, p, h, x)
  PROVE  p[2*h - 2] = FProd(F)
<1>1. PICK g : LeafTable(g, h, 2*h - 1)
  BY LeafTableExists
<1>2. 2*h - 1 \in 0 .. 2*h - 1 /\ (2*h - 1) - 1 = 2*h - 2 /\ 2*h - 2 \in 0 .. 2*h - 2
  OBVIOUS
<1>3. p[2*h - 2] = ProdOver(F, g[2*h - 2])
  <2> DEFINE k == 2*h - 1
  <2>1. k \in 0 .. 2*h - 1 /\ TreeUpTo(F, p, h, k)
    BY <1>2 DEF TreeUpTo
  <2> HIDE DEF k
  <2>2. \A x \in 0 .. k-1 : p[x] = ProdOver(F, g[x])
    BY <1>1, <2>1, TreeProducts
  <2> QED BY <1>2, <2>2 DEF k
<1>4. g[2*h - 2] = 0 .. 2*h - 1
  BY <1>1, LeafFacts
<1>5. F = [l \in 0 .. 2*h - 1 |-> F[l]]
  OBVIOUS
<1> QED BY <1>3, <1>4, <1>5 DEF ProdOver

---------------------------------------------------------------------------
(* Products of two lists.                                                  *)

LEMMA FProdTimes ==
  ASSUME NEW S, IsFiniteSet(S), NEW f, NEW g, NEW h,
         DOMAIN f = S, DOMAIN g = S, DOMAIN h = S,
         \A x \in S : f[x] \in Field /\ g[x] \in Field /\ h[x] = f[x] ** g[x]
  PROVE  FProd(h) = FProd(f) ** FProd(g)
<1>1. Mul!Typed(f, S, Field) /\ Mul!Typed(g, S, Field)
  BY DEF Mul!Typed
<1>2. Mul!Fold(h, S) = Mul!Fold(f, S) ** Mul!Fold(g, S)
  BY <1>1, MulMonoid, FiniteAlike, Mul!FoldPointwise
<1> QED BY <1>2, ProdIsFold

\* All polynomials of the list have n variables.
Uniform(list, n) ==
  /\ \E l \in Nat : DOMAIN list = 1 .. l
  /\ \A k \in DOMAIN list : list[k].evals \in Table(n)

LEMMA AtType ==
  ASSUME NEW n \in Nat, NEW list, Uniform(list, n), NEW b \in Index(n)
  PROVE  At(list, b) \in Field
<1> DEFINE f == [k \in DOMAIN list |-> list[k].evals[b]]
<1>1. \A k \in DOMAIN list : list[k].evals[b] \in Field
  BY DEF Uniform, Table
<1>2. IsFiniteSet(DOMAIN list)
  BY FS_Interval DEF Uniform
<1>3. IsFiniteSet(DOMAIN f) /\ \A k \in DOMAIN f : f[k] \in Field
  BY <1>1, <1>2
<1> HIDE DEF f
<1>4. FProd(f) \in Field
  BY <1>3, FProdType
<1> QED BY <1>4 DEF At, f

LEMMA IndexFinite ==
  ASSUME NEW n \in Nat
  PROVE  IsFiniteSet(Index(n))
<1>1. PICK h \in Nat \ {0} : h = 2^n
  BY TwoToThe
<1>2. Index(n) = 0 .. h - 1
  BY <1>1 DEF Index
<1> QED BY <1>1, <1>2, FS_Interval

LEMMA TotalType ==
  ASSUME nv \in Nat, NEW list, Uniform(list, nv)
  PROVE  /\ Total(list) \in Field
         /\ (\A b \in Index(nv) : At(list, b) # 0) => Total(list) # 0
<1> DEFINE f == [b \in Index(nv) |-> At(list, b)]
<1>1. IsFiniteSet(Index(nv))
  BY IndexFinite
<1>2. DOMAIN f = Index(nv) /\ \A b \in Index(nv) : f[b] = At(list, b) /\ f[b] \in Field
  BY AtType
<1> HIDE DEF f
<1>3. FProd(f) \in Field
  BY <1>1, <1>2, FProdType
<1>4. (\A b \in Index(nv) : At(list, b) # 0) => FProd(f) # 0
  <2>1. SUFFICES ASSUME \A b \in Index(nv) : At(list, b) # 0
                 PROVE  FProd(f) # 0
    OBVIOUS
  <2>2. \A b \in Index(nv) : f[b] \in Field \ {0}
    BY <1>2, <2>1
  <2> QED BY <1>1, <1>2, <2>2, FProdNonZero
<1> QED BY <1>3, <1>4 DEF Total, f

\* If frac times the second list is the first list everywhere, so it is for
\* the products.
LEMMA FracTotal ==
  ASSUME nv \in Nat, Uniform(fxs, nv), Uniform(gxs, nv), NEW F \in Table(nv),
         \A b \in Index(nv) : F[b] ** At(gxs, b) = At(fxs, b)
  PROVE  Total(fxs) = FProd(F) ** Total(gxs)
<1> DEFINE g == [b \in Index(nv) |-> At(gxs, b)]
           h == [b \in Index(nv) |-> At(fxs, b)]
<1>1. IsFiniteSet(Index(nv))
  BY IndexFinite
<1>2. /\ DOMAIN g = Index(nv) /\ DOMAIN h = Index(nv) /\ DOMAIN F = Index(nv)
      /\ \A b \in Index(nv) : F[b] \in Field /\ g[b] \in Field /\ h[b] = F[b] ** g[b]
  BY AtType DEF Table
<1> HIDE DEF g, h
<1>3. FProd(h) = FProd(F) ** FProd(g)
  BY <1>1, <1>2, FProdTimes
<1> QED BY <1>3 DEF Total, g, h

---------------------------------------------------------------------------
(* What Q vanishing on the hypercube says.                                 *)

half == 2^(nv-1)

Shape == nv \in Nat \ {0} /\ Uniform(fxs, nv) /\ Uniform(gxs, nv)

LEMMA HalfFacts ==
  ASSUME nv \in Nat \ {0}
  PROVE  /\ half \in Nat \ {0} /\ 2^nv = 2 * half /\ Index(nv) = 0 .. 2*half - 1
         /\ nv - 1 \in Nat /\ (nv - 1) + 1 = nv /\ Index(nv-1) = 0 .. half - 1
<1>1. nv - 1 \in Nat /\ (nv - 1) + 1 = nv
  OBVIOUS
<1>2. /\ 2^(nv-1) \in Nat \ {0} /\ 2^((nv-1)+1) = 2 * 2^(nv-1)
      /\ Index((nv-1)+1) = 0 .. 2 * 2^(nv-1) - 1 /\ Index(nv-1) = 0 .. 2^(nv-1) - 1
  BY <1>1, IndexFacts
<1> QED BY <1>1, <1>2 DEF half

\* Entry b of the tree reads the positions 2b and 2b + 1.
LEMMA Children ==
  ASSUME nv \in Nat \ {0}, NEW b \in Index(nv)
  PROVE  /\ b < half => get_index(b, nv) = [x0 |-> 2*b, x1 |-> 2*b + 1, sign |-> 0]
         /\ b >= half => get_index(b, nv)
              = [x0 |-> 2*b - 2*half, x1 |-> 2*b + 1 - 2*half, sign |-> 1]
         /\ p1[b] = Node(frac, prod, half, 2*b)
         /\ p2[b] = Node(frac, prod, half, 2*b + 1)
<1>0. b \in 0 .. 2*half - 1 /\ half \in Nat \ {0}
  BY HalfFacts
<1>1. CASE b < half
  <2>1. b \in Index(nv-1) /\ b = b + 0 * half /\ nv - 1 \in Nat
    BY <1>0, <1>1, HalfFacts
  <2>2. get_index(b + 0 * half, (nv-1) + 1) = [x0 |-> 2*b, x1 |-> 2*b + 1, sign |-> 0]
    BY <2>1, GetIndex DEF half
  <2>3. get_index(b, nv) = [x0 |-> 2*b, x1 |-> 2*b + 1, sign |-> 0]
    BY <2>1, <2>2, HalfFacts
  <2>4. p1[b] = frac[2*b] /\ p2[b] = frac[2*b + 1]
    BY <2>3 DEF p1, p2
  <2>5. 2*b < 2*half /\ 2*b + 1 < 2*half /\ ~ (b >= half)
    BY <1>0, <1>1
  <2> QED BY <1>1, <2>3, <2>4, <2>5 DEF Node
<1>2. CASE b >= half
  <2>0. PICK y \in Index(nv-1) : b = y + 1 * half /\ y = b - half
    <3>1. b - half \in 0 .. half - 1 /\ b = (b - half) + 1 * half
      BY <1>0, <1>2
    <3> QED BY <3>1, HalfFacts
  <2>1. nv - 1 \in Nat /\ 2*y = 2*b - 2*half /\ 2*y + 1 = 2*b + 1 - 2*half
    BY <1>0, <2>0, HalfFacts
  <2>2. get_index(y + 1 * half, (nv-1) + 1) = [x0 |-> 2*y, x1 |-> 2*y + 1, sign |-> 1]
    BY <2>1, GetIndex DEF half
  <2>3. get_index(b, nv) = [x0 |-> 2*b - 2*half, x1 |-> 2*b + 1 - 2*half, sign |-> 1]
    BY <2>0, <2>1, <2>2, HalfFacts
  <2>4. p1[b] = prod[2*b - 2*half] /\ p2[b] = prod[2*b + 1 - 2*half]
    BY <2>3 DEF p1, p2
  <2>5. ~ (2*b < 2*half) /\ ~ (2*b + 1 < 2*half) /\ ~ (b < half)
    BY <1>0, <1>2
  <2>6. /\ Node(frac, prod, half, 2*b) = prod[2*b - 2*half]
        /\ Node(frac, prod, half, 2*b + 1) = prod[2*b + 1 - 2*half]
    <3>1. (2*b + 1) - 2*half = 2*b + 1 - 2*half
      BY <1>0
    <3> QED BY <2>5, <3>1 DEF Node
  <2> QED BY <2>3, <2>4, <2>5, <2>6
<1> QED BY <1>0, <1>1, <1>2

Tabled == Shape /\ frac \in Table(nv) /\ prod \in Table(nv)

LEMMA NodeType ==
  ASSUME Tabled, NEW b \in Index(nv)
  PROVE  /\ Node(frac, prod, half, 2*b) \in Field
         /\ Node(frac, prod, half, 2*b + 1) \in Field
<1>1. half \in Nat \ {0} /\ Index(nv) = 0 .. 2*half - 1 /\ b \in 0 .. 2*half - 1
  BY HalfFacts DEF Tabled, Shape
<1>2. ASSUME NEW y \in 0 .. 4*half - 1
      PROVE  Node(frac, prod, half, y) \in Field
  <2>1. CASE y < 2*half
    <3>1. y \in 0 .. 2*half - 1
      BY <1>1, <2>1
    <3> QED BY <1>1, <2>1, <3>1 DEF Node, Tabled, Table
  <2>2. CASE ~ (y < 2*half)
    <3>1. y - 2*half \in 0 .. 2*half - 1
      BY <1>1, <2>2
    <3> QED BY <1>1, <2>2, <3>1 DEF Node, Tabled, Table
  <2> QED BY <2>1, <2>2
<1>3. 2*b \in 0 .. 4*half - 1 /\ 2*b + 1 \in 0 .. 4*half - 1
  BY <1>1
<1> QED BY <1>2, <1>3

LEMMA ErrorFacts ==
  ASSUME Tabled, NEW b \in Index(nv)
  PROVE  /\ TreeError(b) \in Field /\ FracError(b) \in Field
         /\ TreeError(b) = 0 <=> Branch(frac, prod, half, b)
         /\ FracError(b) = 0 <=> frac[b] ** At(gxs, b) = At(fxs, b)
<1>1. /\ prod[b] \in Field /\ frac[b] \in Field
      /\ At(gxs, b) \in Field /\ At(fxs, b) \in Field
  <2>1. nv \in Nat /\ Uniform(fxs, nv) /\ Uniform(gxs, nv)
    BY DEF Tabled, Shape
  <2> QED BY <2>1, AtType DEF Tabled, Table
<1>2. PICK u \in Field, v \in Field : u = Node(frac, prod, half, 2*b)
                                   /\ v = Node(frac, prod, half, 2*b + 1)
  BY NodeType
<1>3. TreeError(b) = prod[b] -- (u ** v)
  BY <1>2, Children DEF TreeError, Tabled, Shape
<1>4. u ** v \in Field /\ frac[b] ** At(gxs, b) \in Field
  BY <1>1, <1>2, FieldClosed
<1>5. TreeError(b) \in Field /\ FracError(b) \in Field
  BY <1>1, <1>3, <1>4, FieldClosed DEF FracError
<1>6. \A c, d \in Field : c -- d = 0 <=> c = d
  BY SubtractionLaws
<1>7. TreeError(b) = 0 <=> prod[b] = u ** v
  BY <1>1, <1>3, <1>4, <1>6
<1>8. FracError(b) = 0 <=> frac[b] ** At(gxs, b) = At(fxs, b)
  BY <1>1, <1>4, <1>6 DEF FracError
<1> QED BY <1>2, <1>5, <1>7, <1>8 DEF Branch

LEMMA FinalQuery ==
  ASSUME Tabled
  PROVE  /\ project(final_query) = 2*half - 2 /\ 2*half - 2 \in Index(nv)
         /\ Extension(prod, final_query) = prod[2*half - 2]
<1>1. nv - 1 \in Nat /\ (nv - 1) + 1 = nv /\ 2^nv = 2*half
      /\ half \in Nat \ {0} /\ Index(nv) = 0 .. 2*half - 1
  BY HalfFacts DEF Tabled, Shape
<1>2. prod \in Table((nv - 1) + 1)
  BY <1>1 DEF Tabled
<1>3. LET q == [i \in 1 .. (nv - 1) + 1 |-> IF i = 1 THEN 0 ELSE 1]
      IN  /\ project(q) = 2^((nv - 1) + 1) - 2
          /\ Extension(prod, q) = prod[2^((nv - 1) + 1) - 2]
  BY <1>1, <1>2, QueryFacts
<1>4. LET q == [i \in 1 .. nv |-> IF i = 1 THEN 0 ELSE 1]
      IN  /\ project(q) = 2^nv - 2 /\ Extension(prod, q) = prod[2^nv - 2]
  BY <1>1, <1>3
<1>5. 2*half - 2 \in Index(nv)
  BY <1>1
<1> QED BY <1>1, <1>4, <1>5 DEF final_query

\* Where the verifier queries it, a tree without error holds the product of
\* frac.
LEMMA QueryIsProduct ==
  ASSUME Tabled, \A x \in 0 .. 2*half - 2 : Branch(frac, prod, half, x)
  PROVE  Extension(prod, final_query) = FProd(frac) /\ FProd(frac) \in Field
<1>1. half \in Nat \ {0} /\ Index(nv) = 0 .. 2*half - 1
  BY HalfFacts DEF Tabled, Shape
<1>2. frac \in [0 .. 2*half - 1 -> Field]
  BY <1>1 DEF Tabled, Table
<1>3. prod[2*half - 2] = FProd(frac)
  BY <1>1, <1>2, TreeTop
<1>4. prod[2*half - 2] \in Field
  BY FinalQuery DEF Tabled, Table
<1> QED BY <1>3, <1>4, FinalQuery

LEMMA NoErrors ==
  ASSUME Tabled, \A b \in Index(nv) : TreeError(b) = 0 /\ FracError(b) = 0,
         Extension(prod, final_query) = 1
  PROVE  Total(fxs) = Total(gxs)
<1>1. nv \in Nat /\ Uniform(fxs, nv) /\ Uniform(gxs, nv) /\ frac \in Table(nv)
  BY DEF Tabled, Shape
<1>2. half \in Nat \ {0} /\ Index(nv) = 0 .. 2*half - 1
  BY HalfFacts DEF Tabled, Shape
<1>3. \A b \in Index(nv) : /\ Branch(frac, prod, half, b)
                           /\ frac[b] ** At(gxs, b) = At(fxs, b)
  BY ErrorFacts
<1>4. \A x \in 0 .. 2*half - 2 : x \in Index(nv)
  BY <1>2
<1>5. FProd(frac) = 1
  BY <1>3, <1>4, QueryIsProduct
<1>6. Total(fxs) = FProd(frac) ** Total(gxs)
  BY <1>1, <1>3, FracTotal
<1>7. Total(gxs) \in Field
  BY <1>1, TotalType
<1> QED BY <1>5, <1>6, <1>7, FieldLaws

\* Everything a verifier that accepts has seen.
Accepted ==
  /\ Tabled
  /\ alpha \in Field
  /\ \A b \in Index(nv) : Q(alpha, b) = 0
  /\ Extension(prod, final_query) = 1

LEMMA UnequalCancels ==
  ASSUME Accepted, Total(fxs) # Total(gxs)
  PROVE  \E b \in Index(nv) : Cancels(alpha, b)
<1>1. SUFFICES ASSUME \A b \in Index(nv) : ~ Cancels(alpha, b) PROVE FALSE
  OBVIOUS
<1>2. Tabled
  BY DEF Accepted
<1>3. ASSUME NEW b \in Index(nv)
      PROVE  TreeError(b) = 0 /\ FracError(b) = 0
  <2>1. FracError(b) = 0
    BY <1>1 DEF Cancels, Accepted
  <2>2. TreeError(b) ++ alpha ** 0 = 0
    BY <2>1 DEF Q, Accepted
  <2>3. TreeError(b) \in Field /\ alpha \in Field
    BY <1>2, ErrorFacts DEF Accepted
  <2> QED BY <2>1, <2>2, <2>3, UnitLaws
<1> QED BY <1>2, <1>3, NoErrors DEF Accepted

LEMMA FewCancel ==
  ASSUME Tabled, NEW b \in Index(nv)
  PROVE  Cardinality({a \in Field : Cancels(a, b)}) <= 1
<1> DEFINE A == {a \in Field : Cancels(a, b)}
<1>1. ASSUME NEW c \in A, NEW d \in A
      PROVE  c = d
  <2>1. PICK e \in Field, t \in Field : e = FracError(b) /\ t = TreeError(b)
    BY ErrorFacts
  <2>2. e # 0 /\ t ++ c ** e = 0 /\ t ++ d ** e = 0 /\ c \in Field /\ d \in Field
    BY <2>1 DEF Cancels, Q
  <2>3. c ** e \in Field /\ d ** e \in Field
    BY <2>1, <2>2, FieldClosed
  <2>4. c ** e = 0 -- t /\ d ** e = 0 -- t
    <3>1. \A x \in Field : t ++ x = 0 => x = 0 -- t
      <4> SUFFICES ASSUME NEW x \in Field, t ++ x = 0 PROVE x = 0 -- t
        OBVIOUS
      <4>1. x ++ t = 0
        BY <2>1, FieldLaws
      <4> QED BY <2>1, <4>1, SubtractionLaws
    <3> QED BY <2>2, <2>3, <3>1
  <2>5. e ** c = e ** d
    BY <2>1, <2>2, <2>4, FieldLaws
  <2> QED BY <2>1, <2>2, <2>5, Cancel
<1>2. CASE A = {}
  BY <1>2, FS_EmptySet
<1>3. CASE A # {}
  <2>1. PICK c \in A : TRUE
    BY <1>3
  <2> HIDE DEF A
  <2>2. A = {c}
    BY <1>1, <2>1
  <2>3. Cardinality({c}) = 1
    BY FS_Singleton
  <2> QED BY <2>2, <2>3 DEF A
<1> QED BY <1>2, <1>3

---------------------------------------------------------------------------
(* The tables of an honest prover.                                         *)

Denominated == \A b \in Index(nv) : At(gxs, b) # 0
FracMade == frac = [b \in Index(nv) |-> At(fxs, b) // At(gxs, b)]
TreeMade ==
  /\ \A x \in 0 .. 2*half - 2 : Branch(frac, prod, half, x)
  /\ prod[2*half - 1] = 0
Honest == Denominated /\ FracMade /\ TreeMade

LEMMA FracFacts ==
  ASSUME Shape, Denominated, FracMade
  PROVE  /\ frac \in Table(nv)
         /\ \A b \in Index(nv) : frac[b] ** At(gxs, b) = At(fxs, b)
<1>1. ASSUME NEW b \in Index(nv)
      PROVE  /\ At(fxs, b) // At(gxs, b) \in Field
             /\ (At(fxs, b) // At(gxs, b)) ** At(gxs, b) = At(fxs, b)
  <2>1. PICK u \in Field, v \in Field : u = At(fxs, b) /\ v = At(gxs, b)
    <3>1. At(fxs, b) \in Field /\ At(gxs, b) \in Field
      BY AtType DEF Shape
    <3> QED BY <3>1
  <2>2. v # 0
    BY <2>1 DEF Denominated
  <2>3. PICK w \in Field : w = Inv(v) /\ v ** w = 1
    BY <2>1, <2>2, InverseLaws
  <2>4. u ** w \in Field /\ u // v = u ** w
    BY <2>1, <2>3, FieldClosed DEF //
  <2>5. (u ** w) ** v = u ** (w ** v) /\ w ** v = v ** w
    BY <2>1, <2>3, FieldLaws
  <2>6. u ** 1 = u
    BY <2>1, UnitLaws
  <2> QED BY <2>1, <2>3, <2>4, <2>5, <2>6
<1> QED BY <1>1 DEF FracMade, Table

LEMMA HonestErrors ==
  ASSUME Tabled, Honest, NEW b \in Index(nv)
  PROVE  TreeError(b) = 0 /\ FracError(b) = 0
<1>1. FracError(b) = 0
  BY FracFacts, ErrorFacts DEF Honest, Tabled
<1>2. half \in Nat \ {0} /\ Index(nv) = 0 .. 2*half - 1 /\ b \in 0 .. 2*half - 1
  BY HalfFacts DEF Tabled, Shape
<1>3. Branch(frac, prod, half, b)
  <2>1. CASE b \in 0 .. 2*half - 2
    BY <2>1 DEF Honest, TreeMade
  <2>2. CASE b = 2*half - 1
    <3>1. ~ (2*b + 1 < 2*half) /\ (2*b + 1) - 2*half = 2*half - 1
      BY <1>2, <2>2
    <3>2. Node(frac, prod, half, 2*b + 1) = 0
      BY <3>1 DEF Node, Honest, TreeMade
    <3>3. Node(frac, prod, half, 2*b) ** 0 = 0
      BY NodeType, UnitLaws
    <3>4. prod[b] = 0
      BY <2>2 DEF Honest, TreeMade
    <3> QED BY <3>2, <3>3, <3>4 DEF Branch
  <2> QED BY <1>2, <2>1, <2>2
<1> QED BY <1>1, <1>3, ErrorFacts

\* Its proof passes exactly when the products are equal.
LEMMA HonestPasses ==
  ASSUME Tabled, Honest, alpha \in Field
  PROVE  ((\A b \in Index(nv) : Q(alpha, b) = 0) /\ Extension(prod, final_query) = 1)
           <=> Total(fxs) = Total(gxs)
<1>1. \A b \in Index(nv) : TreeError(b) = 0 /\ FracError(b) = 0
  BY HonestErrors
<1>2. ASSUME NEW b \in Index(nv)
      PROVE  Q(alpha, b) = 0
  <2>1. alpha ** 0 = 0 /\ 0 ++ 0 = 0
    BY FieldClosed, UnitLaws
  <2> QED BY <1>1, <2>1 DEF Q
<1>3. ASSUME Extension(prod, final_query) = 1
      PROVE  Total(fxs) = Total(gxs)
  BY <1>1, <1>3, NoErrors
<1>4. ASSUME Total(fxs) = Total(gxs)
      PROVE  Extension(prod, final_query) = 1
  <2>1. nv \in Nat /\ Uniform(fxs, nv) /\ Uniform(gxs, nv) /\ frac \in Table(nv)
    BY DEF Tabled, Shape
  <2>2. PICK e \in Field : e = FProd(frac) /\ Extension(prod, final_query) = e
    BY QueryIsProduct DEF Honest, TreeMade
  <2>3. PICK t \in Field : t = Total(gxs) /\ t # 0
    BY <2>1, TotalType DEF Honest, Denominated
  <2>4. Total(fxs) = e ** t
    BY <2>1, <2>2, <2>3, FracTotal, FracFacts DEF Honest, Tabled
  <2>5. t ** e = t ** 1
    <3>1. t ** e = e ** t /\ t ** 1 = t
      BY <2>2, <2>3, FieldLaws, UnitLaws
    <3> QED BY <1>4, <2>3, <2>4, <3>1
  <2>6. e = 1
    BY <2>2, <2>3, <2>5, FieldClosed, Cancel
  <2> QED BY <2>2, <2>6
<1> QED BY <1>2, <1>3, <1>4

---------------------------------------------------------------------------
(* The invariant.                                                          *)

Phases == {"permute", "prove", "forge", "pushing", "committed", "challenged", "done"}

Results == {"none", "InvalidParameters", "InvalidProof", "InvalidTranscript",
            "accept", "reject"}

ProductInv ==
  /\ phase \in Phases /\ result \in Results
  /\ MleList(fxs) /\ MleList(gxs) /\ alpha \in Field
  /\ phase # "done" => result = "none"
  /\ phase \in {"permute", "prove"} => ~ forged /\ prod_x_evals = <<>>
  /\ phase = "forge" =>
       /\ Shapely
       /\ \A t \in Forgeries(fxs, gxs) : t.frac \in Table(nv) /\ t.prod \in Table(nv)
  /\ phase = "pushing" =>
       /\ ~ forged /\ Shapely /\ Denominated /\ FracMade
       /\ prod_x_evals \in Seq(Field) /\ Len(prod_x_evals) <= 2*half - 1
       /\ \A x \in 0 .. Len(prod_x_evals) - 1 : Branch(frac, prod, half, x)
  /\ phase \in {"committed", "challenged"} =>
       /\ Tabled
       /\ ~ forged => Honest
  /\ result = "accept" => Accepted
  /\ HonestVerdict

LEMMA ShapeFacts ==
  ASSUME MleList(fxs), MleList(gxs), Shapely
  PROVE  Shape
<1>1. ASSUME NEW list, MleList(list)
      PROVE  \E l \in Nat : DOMAIN list = 1 .. l /\ (list # <<>> => l # 0)
  <2>1. list \in Seq({list[k] : k \in DOMAIN list})
    BY <1>1 DEF MleList
  <2>2. DOMAIN list = 1 .. Len(list) /\ Len(list) \in Nat /\ (list # <<>> => Len(list) # 0)
    BY <2>1
  <2> QED BY <2>2
<1>2. /\ \A k \in DOMAIN fxs : fxs[k].num_vars = nv /\ gxs[k].num_vars = nv
      /\ fxs # <<>> /\ Len(fxs) = Len(gxs)
  BY DEF Shapely
<1>3. 1 \in DOMAIN fxs
  BY <1>1, <1>2
<1>4. DOMAIN gxs = DOMAIN fxs
  <2>1. fxs \in Seq({fxs[k] : k \in DOMAIN fxs}) /\ gxs \in Seq({gxs[k] : k \in DOMAIN gxs})
    BY DEF MleList
  <2>2. DOMAIN fxs = 1 .. Len(fxs) /\ DOMAIN gxs = 1 .. Len(gxs)
    BY <2>1
  <2> QED BY <1>2, <2>2
<1>5. nv \in Nat \ {0}
  BY <1>3 DEF MleList, nv
<1>6. \A k \in DOMAIN fxs : fxs[k].evals \in Table(nv)
  BY <1>2 DEF MleList
<1>7. \A k \in DOMAIN gxs : gxs[k].evals \in Table(nv)
  BY <1>2, <1>4 DEF MleList
<1> QED BY <1>1, <1>5, <1>6, <1>7 DEF Shape, Uniform

LEMMA InvInit ==
  /\ Init => ProductInv
  /\ ForgeInit => ProductInv
  /\ PermInit => ProductInv
<1>1. 0 \in Field
  BY FieldClosed
<1>2. ASSUME ProductInit
      PROVE  /\ MleList(fxs) /\ MleList(gxs)
             /\ \A t \in Forgeries(fxs, gxs) : t.frac \in Table(nv) /\ t.prod \in Table(nv)
  <2>1. PICK input \in Inputs : fxs = input[1] /\ gxs = input[2]
    BY <1>2 DEF ProductInit
  <2> QED BY <2>1, InputsAssumption DEF nv
<1>3. MleList(<<>>)
  BY DEF MleList
<1>4. ASSUME Init PROVE ProductInv
  <2>1. phase = "prove" /\ result = "none" /\ alpha = 0 /\ ~ forged /\ prod_x_evals = <<>>
    BY <1>4 DEF Init, ProductInit
  <2> QED BY <1>1, <1>2, <1>4, <2>1 DEF Init, ProductInv, Phases, Results, HonestVerdict
<1>5. ASSUME ForgeInit PROVE ProductInv
  <2>1. phase = "forge" /\ result = "none" /\ alpha = 0 /\ ~ forged /\ prod_x_evals = <<>>
    BY <1>5 DEF ForgeInit, ProductInit
  <2> QED BY <1>1, <1>2, <1>5, <2>1 DEF ForgeInit, ProductInv, Phases, Results, HonestVerdict
<1>6. ASSUME PermInit PROVE ProductInv
  <2>1. /\ phase = "permute" /\ result = "none" /\ alpha = 0 /\ ~ forged
        /\ prod_x_evals = <<>> /\ fxs = <<>> /\ gxs = <<>>
    BY <1>6 DEF PermInit
  <2> QED BY <1>1, <1>3, <2>1 DEF ProductInv, Phases, Results, HonestVerdict
<1> QED BY <1>4, <1>5, <1>6

\* A call that ends without a tree.
LEMMA InvEnded ==
  ASSUME ProductInv, MleList(fxs'), MleList(gxs'), alpha' = alpha, prod_x_evals' = <<>>,
         phase' = "done", result' \in Results \ {"accept"}
  PROVE  ProductInv'
BY DEF ProductInv, Phases, HonestVerdict

LEMMA InvRefuse ==
  ASSUME ProductInv, Refuse
  PROVE  ProductInv'
<1>1. /\ MleList(fxs') /\ MleList(gxs') /\ alpha' = alpha /\ prod_x_evals' = <<>>
      /\ phase' = "done" /\ result' \in Results \ {"accept"}
  BY DEF ProductInv, Refuse, Results
<1> QED BY <1>1, InvEnded

LEMMA InvFrac ==
  ASSUME ProductInv, compute_frac_poly
  PROVE  ProductInv'
<1>1. /\ phase = "prove" /\ Shapely /\ ~ forged /\ prod_x_evals = <<>>
      /\ fxs' = fxs /\ gxs' = gxs /\ forged' = forged /\ prod_x_evals' = prod_x_evals
      /\ alpha' = alpha /\ result = "none" /\ MleList(fxs) /\ MleList(gxs) /\ alpha \in Field
  BY DEF ProductInv, compute_frac_poly
<1>2. CASE \E b \in Index(nv) : At(gxs, b) = 0
  <2>1. phase' = "done" /\ result' = "InvalidParameters"
    BY <1>2 DEF compute_frac_poly
  <2>2. /\ MleList(fxs') /\ MleList(gxs') /\ prod_x_evals' = <<>>
        /\ result' \in Results \ {"accept"}
    BY <1>1, <2>1 DEF Results
  <2> QED BY <1>1, <2>1, <2>2, InvEnded
<1>3. CASE ~ \E b \in Index(nv) : At(gxs, b) = 0
  <2>1. /\ phase' = "pushing" /\ result' = result
        /\ frac' = [b \in Index(nv) |-> At(fxs, b) // At(gxs, b)]
    BY <1>3 DEF compute_frac_poly
  <2>2. nv' = nv /\ half' = half
    BY <1>1 DEF nv, half
  <2>3. Shapely' /\ Denominated' /\ FracMade'
    <3>1. Shapely'
      BY <1>1, <2>2 DEF Shapely
    <3>2. Denominated'
      BY <1>1, <1>3, <2>2 DEF Denominated
    <3>3. FracMade'
      BY <1>1, <2>1, <2>2 DEF FracMade
    <3> QED BY <3>1, <3>2, <3>3
  <2>4. half \in Nat \ {0}
    BY <1>1, ShapeFacts, HalfFacts DEF Shape
  <2>5. /\ prod_x_evals' \in Seq(Field) /\ Len(prod_x_evals') = 0
        /\ Len(prod_x_evals') <= 2*half' - 1 /\ 0 .. Len(prod_x_evals') - 1 = {}
    BY <1>1, <2>2, <2>4
  <2>6. \A x \in 0 .. Len(prod_x_evals') - 1 : Branch(frac', prod', half', x)
    BY <2>5
  <2>7. HonestVerdict'
    BY <2>1 DEF HonestVerdict
  <2>8. phase' \in Phases /\ result' \in Results
    BY <1>1, <2>1 DEF Phases, Results
  <2> QED BY <1>1, <2>1, <2>3, <2>5, <2>6, <2>7, <2>8 DEF ProductInv
<1> QED BY <1>2, <1>3

\* One more entry leaves the tree below it as it is.
LEMMA TreeGrows ==
  ASSUME nv \in Nat \ {0}, nv' = nv, frac' = frac, prod_x_evals \in Seq(Field),
         Len(prod_x_evals) <= 2*half - 1,
         \A x \in 0 .. Len(prod_x_evals) - 1 : Branch(frac, prod, half, x),
         NEW v \in Field, prod_x_evals' = Append(prod_x_evals, v)
  PROVE  /\ prod_x_evals' \in Seq(Field) /\ Len(prod_x_evals') = Len(prod_x_evals) + 1
         /\ half' = half
         /\ prod'[Len(prod_x_evals)] = v
         /\ \A x \in 0 .. Len(prod_x_evals) - 1 : prod'[x] = prod[x]
         /\ \A x \in 0 .. Len(prod_x_evals) - 1 : Branch(frac', prod', half', x)
<1> DEFINE k == Len(prod_x_evals)
<1>1. half \in Nat \ {0} /\ Index(nv) = 0 .. 2*half - 1 /\ half' = half /\ k \in Nat
  BY HalfFacts DEF half
<1>2. /\ prod_x_evals' \in Seq(Field) /\ Len(prod_x_evals') = k + 1
      /\ \A i \in 1 .. k : prod_x_evals'[i] = prod_x_evals[i]
      /\ prod_x_evals'[k+1] = v
  OBVIOUS
<1>3. k \in Index(nv) /\ \A x \in 0 .. k-1 : x \in Index(nv) /\ x + 1 \in 1 .. k
  BY <1>1
<1>4. prod' = [b \in Index(nv) |-> prod_x_evals'[b+1]]
  BY DEF prod
<1>5. prod = [b \in Index(nv) |-> prod_x_evals[b+1]]
  BY DEF prod
<1> HIDE DEF k
<1>6. prod'[k] = v /\ \A x \in 0 .. k-1 : prod'[x] = prod[x]
  BY <1>2, <1>3, <1>4, <1>5
<1>7. ASSUME NEW x \in 0 .. k-1
      PROVE  Branch(frac', prod', half', x)
  <2>1. ASSUME NEW y \in 0 .. 2*x + 1
        PROVE  Node(frac', prod', half', y) = Node(frac, prod, half, y)
    <3>1. CASE y < 2*half
      BY <1>1, <3>1 DEF Node
    <3>2. CASE ~ (y < 2*half)
      <4>1. y - 2*half \in 0 .. k-1
        BY <1>1, <3>2 DEF k
      <4> QED BY <1>1, <1>6, <3>2, <4>1 DEF Node
    <3> QED BY <3>1, <3>2
  <2>2. 2*x \in 0 .. 2*x + 1 /\ 2*x + 1 \in 0 .. 2*x + 1
    BY <1>1
  <2>3. prod[x] = Node(frac, prod, half, 2*x) ** Node(frac, prod, half, 2*x + 1)
    BY DEF Branch, k
  <2>4. prod'[x] = prod[x]
    BY <1>6
  <2>5. /\ Node(frac', prod', half', 2*x) = Node(frac, prod, half, 2*x)
        /\ Node(frac', prod', half', 2*x + 1) = Node(frac, prod, half, 2*x + 1)
    BY <2>1, <2>2
  <2> QED BY <2>3, <2>4, <2>5 DEF Branch
<1> QED BY <1>1, <1>2, <1>6, <1>7 DEF k

LEMMA PushingFacts ==
  ASSUME ProductInv, phase = "pushing"
  PROVE  /\ Shape /\ Shapely /\ Denominated /\ FracMade /\ frac \in Table(nv) /\ ~ forged
         /\ prod_x_evals \in Seq(Field) /\ Len(prod_x_evals) <= 2*half - 1
         /\ \A x \in 0 .. Len(prod_x_evals) - 1 : Branch(frac, prod, half, x)
         /\ result = "none"
         /\ half \in Nat \ {0} /\ Index(nv) = 0 .. 2*half - 1 /\ 2^nv = 2*half
<1>1. /\ Shapely /\ Denominated /\ FracMade /\ ~ forged /\ MleList(fxs) /\ MleList(gxs)
      /\ prod_x_evals \in Seq(Field) /\ Len(prod_x_evals) <= 2*half - 1
      /\ \A x \in 0 .. Len(prod_x_evals) - 1 : Branch(frac, prod, half, x)
      /\ result = "none"
  BY DEF ProductInv
<1>2. Shape
  BY <1>1, ShapeFacts
<1> QED BY <1>1, <1>2, FracFacts, HalfFacts DEF Shape

\* What PushProduct appends: no entry is read before it is pushed.
LEMMA PushedValue ==
  ASSUME ProductInv, PushProduct
  PROVE  LET k == Len(prod_x_evals)
             v == Node(frac, prod, half, 2*k) ** Node(frac, prod, half, 2*k + 1)
         IN  /\ k < 2*half - 1
             /\ v \in Field /\ prod_x_evals' = Append(prod_x_evals, v)
             /\ phase' = phase /\ result' = result
<1> DEFINE k == Len(prod_x_evals)
           idx == get_index(k, nv)
           v == Node(frac, prod, half, 2*k) ** Node(frac, prod, half, 2*k + 1)
<1>1. /\ Shape /\ frac \in Table(nv) /\ prod_x_evals \in Seq(Field) /\ k \in Nat
      /\ half \in Nat \ {0} /\ Index(nv) = 0 .. 2*half - 1 /\ 2^nv = 2*half
  BY PushingFacts DEF PushProduct
<1>2. k < 2*half - 1 /\ k \in Index(nv)
  <2>1. k < 2^nv - 1
    BY DEF PushProduct
  <2> QED BY <1>1, <2>1
<1>3. CASE k < half
  <2>1. idx = [x0 |-> 2*k, x1 |-> 2*k + 1, sign |-> 0]
    BY <1>1, <1>2, <1>3, Children DEF Shape
  <2>2. v = frac[2*k] ** frac[2*k + 1]
    <3>1. 2*k < 2*half /\ 2*k + 1 < 2*half
      BY <1>1, <1>3
    <3> QED BY <3>1 DEF Node
  <2>3. v \in Field
    <3>1. 2*k \in Index(nv) /\ 2*k + 1 \in Index(nv)
      BY <1>1, <1>3
    <3>2. frac[2*k] \in Field /\ frac[2*k + 1] \in Field
      BY <1>1, <3>1 DEF Table
    <3> QED BY <2>2, <3>2, FieldClosed
  <2>4. idx.sign = 0 /\ idx.x0 = 2*k /\ idx.x1 = 2*k + 1
    BY <2>1
  <2> HIDE DEF v, idx
  <2>5. /\ prod_x_evals' = Append(prod_x_evals, frac[idx.x0] ** frac[idx.x1])
        /\ phase' = phase /\ result' = result
    BY <2>4 DEF PushProduct, idx, k
  <2> QED BY <1>2, <2>2, <2>3, <2>4, <2>5 DEF v
<1>4. CASE ~ (k < half)
  <2>0. k >= half
    BY <1>1, <1>4
  <2>1. idx = [x0 |-> 2*k - 2*half, x1 |-> 2*k + 1 - 2*half, sign |-> 1]
    BY <1>1, <1>2, <2>0, Children DEF Shape
  <2>2. PICK i \in 0 .. k-1, j \in 0 .. k-1 :
             /\ i = 2*k - 2*half /\ j = 2*k + 1 - 2*half /\ j = (2*k + 1) - 2*half
             /\ i \in Index(nv) /\ j \in Index(nv)
    <3>1. /\ 2*k - 2*half \in 0 .. k-1 /\ 2*k + 1 - 2*half \in 0 .. k-1
          /\ 2*k + 1 - 2*half = (2*k + 1) - 2*half
          /\ \A x \in 0 .. k-1 : x \in Index(nv)
      BY <1>1, <1>2, <2>0
    <3> QED BY <3>1
  <2>3. v = prod_x_evals[i+1] ** prod_x_evals[j+1]
    <3>1. ~ (2*k < 2*half) /\ ~ (2*k + 1 < 2*half)
      BY <1>1, <2>0
    <3>2. v = prod[i] ** prod[j]
      BY <2>2, <3>1 DEF Node
    <3>3. prod[i] = prod_x_evals[i+1] /\ prod[j] = prod_x_evals[j+1]
      BY <2>2 DEF prod
    <3> QED BY <3>2, <3>3
  <2>4. v \in Field
    <3>1. i + 1 \in 1 .. k /\ j + 1 \in 1 .. k
      BY <1>1, <2>2
    <3>2. prod_x_evals[i+1] \in Field /\ prod_x_evals[j+1] \in Field
      BY <1>1, <3>1
    <3> QED BY <2>3, <3>2, FieldClosed
  <2>5. idx.sign # 0 /\ idx.x0 = i /\ idx.x1 = j /\ i < k /\ j < k
    <3>1. i < k /\ j < k
      BY <1>1, <2>2
    <3> QED BY <2>1, <2>2, <3>1
  <2> HIDE DEF v, idx
  <2>6. /\ prod_x_evals' = Append(prod_x_evals, prod_x_evals[idx.x0 + 1] ** prod_x_evals[idx.x1 + 1])
        /\ phase' = phase /\ result' = result
    BY <2>5 DEF PushProduct, idx, k
  <2> QED BY <1>2, <2>3, <2>4, <2>5, <2>6 DEF v
<1> QED BY <1>3, <1>4

LEMMA InvPush ==
  ASSUME ProductInv, PushProduct
  PROVE  ProductInv'
<1> DEFINE k == Len(prod_x_evals)
           v == Node(frac, prod, half, 2*k) ** Node(frac, prod, half, 2*k + 1)
<1>1. /\ phase = "pushing" /\ fxs' = fxs /\ gxs' = gxs /\ forged' = forged
      /\ frac' = frac /\ alpha' = alpha /\ nv' = nv
  BY DEF PushProduct, nv
<1>2. /\ k < 2*half - 1 /\ v \in Field /\ prod_x_evals' = Append(prod_x_evals, v)
      /\ phase' = phase /\ result' = result
  BY PushedValue
<1>3. /\ Shape /\ Shapely /\ Denominated /\ FracMade /\ ~ forged
      /\ prod_x_evals \in Seq(Field) /\ k <= 2*half - 1 /\ k \in Nat
      /\ \A x \in 0 .. k - 1 : Branch(frac, prod, half, x)
      /\ result = "none" /\ half \in Nat \ {0}
  BY <1>1, PushingFacts
<1> HIDE DEF v
<1>4. /\ prod_x_evals' \in Seq(Field) /\ Len(prod_x_evals') = k + 1
      /\ half' = half
      /\ prod'[k] = v
      /\ \A x \in 0 .. k - 1 : prod'[x] = prod[x]
      /\ \A x \in 0 .. k - 1 : Branch(frac', prod', half', x)
  BY <1>1, <1>2, <1>3, TreeGrows DEF Shape
<1>5. Branch(frac', prod', half', k)
  <2>1. ASSUME NEW y \in 0 .. 2*k + 1
        PROVE  Node(frac', prod', half', y) = Node(frac, prod, half, y)
    <3>1. CASE y < 2*half
      BY <1>1, <1>4, <3>1 DEF Node
    <3>2. CASE ~ (y < 2*half)
      <4>1. y - 2*half \in 0 .. k-1
        BY <1>2, <1>3, <3>2
      <4> QED BY <1>1, <1>4, <3>2, <4>1 DEF Node
    <3> QED BY <3>1, <3>2
  <2>2. 2*k \in 0 .. 2*k + 1 /\ 2*k + 1 \in 0 .. 2*k + 1
    BY <1>3
  <2>3. /\ Node(frac', prod', half', 2*k) = Node(frac, prod, half, 2*k)
        /\ Node(frac', prod', half', 2*k + 1) = Node(frac, prod, half, 2*k + 1)
    BY <2>1, <2>2
  <2> QED BY <1>4, <2>3 DEF Branch, v
<1>6. \A x \in 0 .. Len(prod_x_evals') - 1 : Branch(frac', prod', half', x)
  <2>1. \A x \in 0 .. (k + 1) - 1 : x = k \/ x \in 0 .. k-1
    BY <1>3
  <2> QED BY <1>4, <1>5, <2>1
<1>7. Shapely' /\ Denominated' /\ FracMade'
  BY <1>1, <1>3 DEF Shapely, Denominated, FracMade
<1>8. /\ MleList(fxs') /\ MleList(gxs') /\ alpha' \in Field /\ ~ forged'
      /\ phase' = "pushing" /\ result' = "none" /\ Len(prod_x_evals') <= 2*half' - 1
  BY <1>1, <1>2, <1>3, <1>4 DEF ProductInv
<1>9. HonestVerdict' /\ phase' \in Phases /\ result' \in Results
  BY <1>8 DEF HonestVerdict, Phases, Results
<1> QED BY <1>4, <1>6, <1>7, <1>8, <1>9 DEF ProductInv

LEMMA InvLast ==
  ASSUME ProductInv, PushLast
  PROVE  ProductInv'
<1> DEFINE k == Len(prod_x_evals)
<1>1. /\ phase = "pushing" /\ fxs' = fxs /\ gxs' = gxs /\ forged' = forged
      /\ frac' = frac /\ alpha' = alpha /\ nv' = nv /\ result' = result
      /\ k = 2^nv - 1 /\ prod_x_evals' = Append(prod_x_evals, 0) /\ phase' = "committed"
  BY DEF PushLast, nv
<1>2. /\ Shape /\ Denominated /\ FracMade /\ frac \in Table(nv) /\ ~ forged
      /\ prod_x_evals \in Seq(Field) /\ k <= 2*half - 1 /\ k \in Nat
      /\ \A x \in 0 .. k - 1 : Branch(frac, prod, half, x)
      /\ result = "none" /\ half \in Nat \ {0} /\ Index(nv) = 0 .. 2*half - 1 /\ 2^nv = 2*half
  BY <1>1, PushingFacts
<1>3. /\ prod_x_evals' \in Seq(Field) /\ Len(prod_x_evals') = k + 1
      /\ half' = half
      /\ prod'[k] = 0
      /\ \A x \in 0 .. k - 1 : Branch(frac', prod', half', x)
  BY <1>1, <1>2, FieldClosed, TreeGrows DEF Shape
<1>4. k = 2*half - 1 /\ k - 1 = 2*half - 2
  BY <1>1, <1>2
<1>5. Shape' /\ Denominated' /\ FracMade'
  BY <1>1, <1>2 DEF Shape, Denominated, FracMade
<1>6. TreeMade'
  BY <1>3, <1>4 DEF TreeMade
<1>7. Tabled'
  <2>1. ASSUME NEW b \in Index(nv)
        PROVE  prod_x_evals'[b+1] \in Field
    <3>1. b + 1 \in 1 .. k + 1
      BY <1>2, <1>4
    <3> QED BY <1>3, <3>1
  <2>2. prod' = [b \in Index(nv) |-> prod_x_evals'[b+1]]
    BY <1>1 DEF prod
  <2>3. prod' \in Table(nv)
    BY <2>1, <2>2 DEF Table
  <2> QED BY <1>1, <1>2, <1>5, <2>3 DEF Tabled
<1>8. MleList(fxs') /\ MleList(gxs') /\ alpha' \in Field
  BY <1>1 DEF ProductInv
<1>9. HonestVerdict' /\ phase' \in Phases /\ result' \in Results
  BY <1>1, <1>2 DEF HonestVerdict, Phases, Results
<1> QED BY <1>1, <1>2, <1>5, <1>6, <1>7, <1>8, <1>9 DEF ProductInv, Honest

LEMMA InvForge ==
  ASSUME ProductInv, Forge
  PROVE  ProductInv'
<1>1. PICK t \in Forgeries(fxs, gxs) :
           frac' = t.frac /\ prod_x_evals' = [i \in 1 .. 2^nv |-> t.prod[i-1]]
  BY DEF Forge
<1>2. /\ phase = "forge" /\ forged' = TRUE /\ phase' = "committed" /\ nv' = nv
      /\ fxs' = fxs /\ gxs' = gxs /\ alpha' = alpha /\ result' = result
  BY DEF Forge, nv
<1>3. /\ MleList(fxs) /\ MleList(gxs) /\ Shapely /\ alpha \in Field /\ result = "none"
      /\ t.frac \in Table(nv) /\ t.prod \in Table(nv)
  BY <1>2 DEF ProductInv
<1>4. Shape /\ Shape'
  BY <1>2, <1>3, ShapeFacts DEF Shape
<1>5. prod' \in Table(nv)
  <2>1. ASSUME NEW b \in Index(nv)
        PROVE  prod_x_evals'[b+1] \in Field
    <3>1. half \in Nat \ {0} /\ b \in 0 .. 2*half - 1 /\ 2^nv = 2*half
      BY <1>4, HalfFacts DEF Shape
    <3>2. b + 1 \in 1 .. 2^nv /\ (b + 1) - 1 = b
      BY <3>1
    <3>3. prod_x_evals'[b+1] = t.prod[b]
      BY <1>1, <3>2
    <3> QED BY <1>3, <3>3 DEF Table
  <2>2. prod' = [b \in Index(nv) |-> prod_x_evals'[b+1]]
    BY <1>2 DEF prod
  <2> QED BY <2>1, <2>2 DEF Table
<1>6. Tabled'
  BY <1>1, <1>2, <1>3, <1>4, <1>5 DEF Tabled
<1>7. HonestVerdict' /\ phase' \in Phases /\ result' \in Results
  BY <1>2, <1>3 DEF HonestVerdict, Phases, Results
<1> QED BY <1>2, <1>3, <1>6, <1>7 DEF ProductInv

\* The tables and the lists stay as they are.
Kept == UNCHANGED <<fxs, gxs, forged, frac, prod_x_evals>>

LEMMA KeptFacts ==
  ASSUME Kept
  PROVE  /\ nv' = nv /\ half' = half /\ prod' = prod /\ (Tabled' <=> Tabled)
         /\ (Honest' <=> Honest) /\ final_query' = final_query
         /\ Total(fxs)' = Total(fxs) /\ Total(gxs)' = Total(gxs)
<1>1. nv' = nv /\ half' = half /\ prod' = prod
  BY DEF Kept, nv, half, prod
<1>2. Tabled' <=> Tabled
  BY <1>1 DEF Kept, Tabled, Shape
<1>3. Honest' <=> Honest
  BY <1>1 DEF Kept, Honest, Denominated, FracMade, TreeMade
<1>4. final_query' = final_query /\ Total(fxs)' = Total(fxs) /\ Total(gxs)' = Total(gxs)
  BY <1>1 DEF Kept, final_query, Total
<1> QED BY <1>1, <1>2, <1>3, <1>4

LEMMA InvDraw ==
  ASSUME ProductInv, DrawAlpha
  PROVE  ProductInv'
<1>1. /\ phase = "committed" /\ alpha' \in Field /\ phase' = "challenged" /\ Kept
      /\ fxs' = fxs /\ gxs' = gxs /\ forged' = forged /\ result' = result
  BY AlphasAssumption DEF DrawAlpha, Kept
<1>2. /\ MleList(fxs) /\ MleList(gxs) /\ Tabled /\ (~ forged => Honest) /\ result = "none"
  BY <1>1 DEF ProductInv
<1>3. HonestVerdict' /\ phase' \in Phases /\ result' \in Results
  BY <1>1, <1>2 DEF HonestVerdict, Phases, Results
<1> QED BY <1>1, <1>2, <1>3, KeptFacts DEF ProductInv

LEMMA InvVerify ==
  ASSUME ProductInv, Verify
  PROVE  ProductInv'
<1> DEFINE Passes == /\ \A b \in Index(nv) : Q(alpha, b) = 0
                     /\ Extension(prod, final_query) = 1
<1>1. /\ phase = "challenged" /\ phase' = "done" /\ Kept /\ alpha' = alpha
      /\ fxs' = fxs /\ gxs' = gxs /\ forged' = forged
      /\ result' = IF Passes THEN "accept" ELSE "reject"
  BY DEF Verify, Kept
<1>2. MleList(fxs) /\ MleList(gxs) /\ Tabled /\ (~ forged => Honest) /\ alpha \in Field
  BY <1>1 DEF ProductInv
<1>3. Passes => Accepted'
  <2>1. \A b : Q(alpha, b)' = Q(alpha, b)
    BY <1>1, KeptFacts DEF Q, TreeError, FracError, p1, p2, At, Kept
  <2> QED BY <1>1, <1>2, <2>1, KeptFacts DEF Accepted
<1>4. ~ forged => (Passes <=> Total(fxs) = Total(gxs))
  BY <1>2, HonestPasses
<1> HIDE DEF Passes
<1>5. HonestVerdict'
  BY <1>1, <1>4, KeptFacts DEF HonestVerdict
<1>6. phase' \in Phases /\ result' \in Results /\ (result' = "accept" => Accepted')
  BY <1>1, <1>3 DEF Phases, Results
<1> QED BY <1>1, <1>2, <1>5, <1>6 DEF ProductInv

LEMMA InvStutter ==
  ASSUME ProductInv, UNCHANGED vars
  PROVE  ProductInv'
<1>1. Kept /\ alpha' = alpha /\ phase' = phase /\ result' = result
      /\ fxs' = fxs /\ gxs' = gxs /\ forged' = forged /\ frac' = frac
      /\ prod_x_evals' = prod_x_evals
  BY DEF vars, Kept
<1>2. Shapely' = Shapely /\ Denominated' = Denominated /\ FracMade' = FracMade
  BY <1>1 DEF Shapely, Denominated, FracMade, nv
<1>3. Accepted' = Accepted /\ HonestVerdict' = HonestVerdict
  BY <1>1 DEF Accepted, HonestVerdict, Tabled, Shape, Q, TreeError, FracError, p1, p2, At,
              prod, nv, final_query, Total
<1> QED BY <1>1, <1>2, <1>3, KeptFacts DEF ProductInv

LEMMA InvNext ==
  ASSUME ProductInv, [Next]_vars
  PROVE  ProductInv'
BY InvRefuse, InvFrac, InvPush, InvLast, InvForge, InvDraw, InvVerify, InvStutter DEF Next

---------------------------------------------------------------------------
(* The theorems about ProductCheck.                                        *)

LEMMA LeavesAreTable ==
  ASSUME nv \in Nat \ {0}
  PROVE  LeafTable(Leaves, half, 2*half - 1)
<1> DEFINE Makes(g) ==
             g = [x \in 0 .. 2^nv - 2 |->
                    IF x < 2^(nv-1) THEN {2*x, 2*x + 1}
                    ELSE g[2*x - 2^nv] \cup g[2*x + 1 - 2^nv]]
<1>1. half \in Nat \ {0} /\ 2^nv = 2*half /\ 2^(nv-1) = half
  BY HalfFacts DEF half
<1>2. 2^nv - 2 = (2*half - 1) - 1
  BY <1>1
<1>3. \A g : Makes(g) <=> LeafTable(g, half, 2*half - 1)
  BY <1>1, <1>2 DEF LeafTable
<1>4. Leaves = CHOOSE g : Makes(g)
  BY DEF Leaves
<1> HIDE DEF Makes
<1>5. \E g : Makes(g)
  BY <1>1, <1>3, LeafTableExists
<1>6. Makes(Leaves)
  BY <1>4, <1>5
<1> QED BY <1>3, <1>6

LEMMA TreeFromInv == ProductInv => ProductTree
<1> SUFFICES ASSUME ProductInv PROVE ProductTree
  OBVIOUS
<1>1. result # "ShouldNotArrive"
  BY DEF ProductInv, Results
<1>2. ASSUME phase = "pushing"
      PROVE  /\ \A x \in 0 .. Len(prod_x_evals) - 1 :
                  prod_x_evals[x+1] = FProd([l \in Leaves[x] |-> frac[l]])
             /\ Leaves[project(final_query)] = Index(nv)
  <2> DEFINE k == Len(prod_x_evals)
  <2>1. /\ Shape /\ frac \in Table(nv) /\ nv \in Nat \ {0}
        /\ prod_x_evals \in Seq(Field) /\ k <= 2*half - 1 /\ k \in Nat
        /\ \A x \in 0 .. k - 1 : Branch(frac, prod, half, x)
        /\ half \in Nat \ {0} /\ Index(nv) = 0 .. 2*half - 1 /\ 2^nv = 2*half
    BY <1>2, PushingFacts DEF Shape
  <2>2. LeafTable(Leaves, half, 2*half - 1)
    BY <2>1, LeavesAreTable
  <2>3. frac \in [0 .. 2*half - 1 -> Field] /\ k \in 0 .. 2*half - 1
    BY <2>1 DEF Table
  <2> HIDE DEF k
  <2>4. \A x \in 0 .. k-1 : prod[x] = ProdOver(frac, Leaves[x])
    <3>1. TreeUpTo(frac, prod, half, k)
      BY <2>1 DEF TreeUpTo
    <3>2. half \in Nat \ {0} /\ LeafTable(Leaves, half, 2*half - 1)
      BY <2>1, <2>2
    <3> QED BY <2>3, <3>1, <3>2, TreeProducts
  <2>5. \A x \in 0 .. k-1 : prod[x] = prod_x_evals[x+1]
    <3>1. \A x \in 0 .. k-1 : x \in Index(nv)
      BY <2>1
    <3> QED BY <3>1 DEF prod
  <2>6. project(final_query) = 2*half - 2
    <3> DEFINE T == [b \in Index((nv - 1) + 1) |-> 0]
    <3>1. T \in Table((nv - 1) + 1) /\ nv - 1 \in Nat /\ (nv - 1) + 1 = nv
      BY <2>1, FieldClosed DEF Table
    <3> HIDE DEF T
    <3>2. LET q == [i \in 1 .. (nv - 1) + 1 |-> IF i = 1 THEN 0 ELSE 1]
          IN  project(q) = 2^((nv - 1) + 1) - 2
      BY <3>1, QueryFacts
    <3>3. project([i \in 1 .. nv |-> IF i = 1 THEN 0 ELSE 1]) = 2^nv - 2
      BY <3>1, <3>2
    <3> QED BY <2>1, <3>3 DEF final_query
  <2>7. Leaves[2*half - 2] = 0 .. 2*half - 1
    BY <2>1, <2>2, LeafFacts
  <2> QED BY <2>1, <2>4, <2>5, <2>6, <2>7 DEF ProdOver, k
<1> QED BY <1>1, <1>2 DEF ProductTree

LEMMA LuckFromInv == ProductInv => UnequalNeedsLuck
<1> SUFFICES ASSUME ProductInv, result = "accept", Total(fxs) # Total(gxs)
             PROVE  /\ \E b \in Index(nv) : Cancels(alpha, b)
                    /\ \A b \in Index(nv) : Cardinality({a \in Field : Cancels(a, b)}) <= 1
  BY DEF UnequalNeedsLuck
<1>1. Accepted
  BY DEF ProductInv
<1>2. Tabled
  BY <1>1 DEF Accepted
<1> QED BY <1>1, <1>2, UnequalCancels, FewCancel

LEMMA ProductInvAlways ==
  /\ Spec => []ProductInv
  /\ ForgeSpec => []ProductInv
<1>1. Init => ProductInv
  BY InvInit
<1>2. ForgeInit => ProductInv
  BY InvInit
<1>3. ProductInv /\ [Next]_vars => ProductInv'
  BY InvNext
<1> QED BY <1>1, <1>2, <1>3, PTL DEF Spec, ForgeSpec

\* For tables of any number of variables, the array an honest prover fills
\* is a product tree at every moment of the loop, nothing is read before it
\* is pushed, and the entry the verifier queries covers every leaf
\* (ProductCheck, ProductTree).
THEOREM ProductTreeAlways == Spec => []ProductTree
BY ProductInvAlways, TreeFromInv, PTL

\* For lists of any number of tables of any size and for every alpha, the
\* proof of an honest prover is accepted exactly when the two products are
\* equal (ProductCheck, HonestVerdict).
THEOREM HonestVerdictAlways == Spec => []HonestVerdict
<1>1. ProductInv => HonestVerdict
  BY DEF ProductInv
<1> QED BY <1>1, ProductInvAlways, PTL

\* Whatever tables a prover commits to, of an honest prover or made up,
\* unequal products are accepted only for an alpha that cancels a wrong frac
\* against a wrong tree, at most one for each point of the hypercube
\* (ProductCheck, UnequalNeedsLuck).
THEOREM UnequalNeedsLuckAlways ==
  /\ Spec => []UnequalNeedsLuck
  /\ ForgeSpec => []UnequalNeedsLuck
BY ProductInvAlways, LuckFromInv, PTL

---------------------------------------------------------------------------
(* Families with the same keys.                                            *)

Fiber(S, key, q) == {s \in S : key[s] = q}

\* Every key occurs as often in S as in T.
Alike(S, k1, T, k2, Keys) ==
  \A q \in Keys : Cardinality(Fiber(S, k1, q)) = Cardinality(Fiber(T, k2, q))

LEMMA FiberRemove ==
  ASSUME NEW S, IsFiniteSet(S), NEW key, NEW s \in S, NEW q
  PROVE  /\ IsFiniteSet(Fiber(S, key, q)) /\ Cardinality(Fiber(S, key, q)) \in Nat
         /\ Cardinality(Fiber(S \ {s}, key, q))
              = IF key[s] = q THEN Cardinality(Fiber(S, key, q)) - 1
                ELSE Cardinality(Fiber(S, key, q))
<1>1. Fiber(S, key, q) \subseteq S
  BY DEF Fiber
<1>2. IsFiniteSet(Fiber(S, key, q)) /\ Cardinality(Fiber(S, key, q)) \in Nat
  BY <1>1, FS_Subset, FS_CardinalityType
<1>3. Fiber(S \ {s}, key, q) = Fiber(S, key, q) \ {s}
  BY DEF Fiber
<1>4. s \in Fiber(S, key, q) <=> key[s] = q
  BY DEF Fiber
<1> QED BY <1>2, <1>3, <1>4, FS_RemoveElement

\* Taking out one of each with the same key changes nothing.
LEMMA AlikeRemove ==
  ASSUME NEW S, IsFiniteSet(S), NEW k1, NEW s \in S, NEW T, IsFiniteSet(T), NEW k2, NEW t \in T,
         k1[s] = k2[t], NEW Keys
  PROVE  Alike(S, k1, T, k2, Keys) <=> Alike(S \ {s}, k1, T \ {t}, k2, Keys)
<1>1. ASSUME NEW q \in Keys
      PROVE  Cardinality(Fiber(S, k1, q)) = Cardinality(Fiber(T, k2, q)) <=>
             Cardinality(Fiber(S \ {s}, k1, q)) = Cardinality(Fiber(T \ {t}, k2, q))
  <2>1. PICK a \in Nat : /\ a = Cardinality(Fiber(S, k1, q))
                         /\ Cardinality(Fiber(S \ {s}, k1, q)) = IF k1[s] = q THEN a - 1 ELSE a
    BY FiberRemove
  <2>2. PICK b \in Nat : /\ b = Cardinality(Fiber(T, k2, q))
                         /\ Cardinality(Fiber(T \ {t}, k2, q)) = IF k2[t] = q THEN b - 1 ELSE b
    BY FiberRemove
  <2> QED BY <2>1, <2>2
<1> QED BY <1>1 DEF Alike

\* An element of S has a partner in T.
LEMMA AlikePartner ==
  ASSUME NEW S, IsFiniteSet(S), NEW k1, NEW T, IsFiniteSet(T), NEW k2, NEW Keys,
         Alike(S, k1, T, k2, Keys), NEW s \in S, k1[s] \in Keys
  PROVE  \E t \in T : k1[s] = k2[t]
<1> DEFINE q == k1[s]
<1>1. IsFiniteSet(Fiber(S, k1, q)) /\ s \in Fiber(S, k1, q)
  BY FiberRemove DEF Fiber
<1>2. Cardinality(Fiber(S, k1, q)) # 0
  BY <1>1, FS_EmptySet
<1>3. Cardinality(Fiber(T, k2, q)) # 0
  BY <1>2 DEF Alike
<1>4. Fiber(T, k2, q) # {}
  BY <1>3, FS_EmptySet
<1> QED BY <1>4 DEF Fiber

\* The values at the keys multiply to the same.
SameProduct(n, S, k1, T, k2, Keys, e) ==
  \A A \in SUBSET S : \A B \in SUBSET T :
    Cardinality(A) = n /\ Alike(A, k1, B, k2, Keys) =>
      ProdOver([s \in S |-> e[k1[s]]], A) = ProdOver([t \in T |-> e[k2[t]]], B)

Marked(S, e, key) == [s \in S |-> e[key[s]]]

LEMMA AlikeProduct ==
  ASSUME NEW S, IsFiniteSet(S), NEW T, IsFiniteSet(T), NEW Keys,
         NEW k1, \A s \in S : k1[s] \in Keys, NEW k2, \A t \in T : k2[t] \in Keys,
         NEW e, \A q \in Keys : e[q] \in Field, Alike(S, k1, T, k2, Keys)
  PROVE  FProd(Marked(S, e, k1)) = FProd(Marked(T, e, k2))
<1> DEFINE f == [s \in S |-> e[k1[s]]]
           g == [t \in T |-> e[k2[t]]]
           N == {n \in Nat : SameProduct(n, S, k1, T, k2, Keys, e)}
<1>1. /\ \A s \in S : f[s] = e[k1[s]] /\ f[s] \in Field
      /\ \A t \in T : g[t] = e[k2[t]] /\ g[t] \in Field
  OBVIOUS
<1>2. \A n : SameProduct(n, S, k1, T, k2, Keys, e) <=>
        \A A \in SUBSET S : \A B \in SUBSET T :
          Cardinality(A) = n /\ Alike(A, k1, B, k2, Keys) => ProdOver(f, A) = ProdOver(g, B)
  BY DEF SameProduct
<1>3. FProd(f) = ProdOver(f, S) /\ FProd(g) = ProdOver(g, T)
  <2>1. f = [s \in S |-> f[s]] /\ g = [t \in T |-> g[t]]
    OBVIOUS
  <2> HIDE DEF f, g
  <2> QED BY <2>1 DEF ProdOver
<1> HIDE DEF f, g
<1>4. /\ ProdOver(f, {}) = 1 /\ ProdOver(g, {}) = 1
      /\ \A A \in SUBSET S : \A s \in A : ProdOver(f, A) = f[s] ** ProdOver(f, A \ {s})
      /\ \A B \in SUBSET T : \A t \in B : ProdOver(g, B) = g[t] ** ProdOver(g, B \ {t})
  <2>0. (\A s \in S : f[s] \in Field) /\ \A t \in T : g[t] \in Field
    BY <1>1
  <2>1. /\ ProdOver(f, {}) = 1
        /\ \A A \in SUBSET S : \A s \in A : ProdOver(f, A) = f[s] ** ProdOver(f, A \ {s})
    BY <2>0, ProdOverFacts
  <2>2. /\ ProdOver(g, {}) = 1
        /\ \A B \in SUBSET T : \A t \in B : ProdOver(g, B) = g[t] ** ProdOver(g, B \ {t})
    BY <2>0, ProdOverFacts
  <2> QED BY <2>1, <2>2
<1>5. ASSUME NEW A \in SUBSET S
      PROVE  IsFiniteSet(A)
  BY FS_Subset
<1>6. ASSUME NEW B \in SUBSET T
      PROVE  IsFiniteSet(B)
  BY FS_Subset
<1>7. 0 \in N
  <2> SUFFICES ASSUME NEW A \in SUBSET S, NEW B \in SUBSET T,
                      Cardinality(A) = 0, Alike(A, k1, B, k2, Keys)
               PROVE  ProdOver(f, A) = ProdOver(g, B)
    BY <1>2
  <2>1. A = {}
    BY <1>5, FS_EmptySet
  <2>2. B = {}
    <3>1. SUFFICES ASSUME NEW t \in B PROVE FALSE
      OBVIOUS
    <3>2. Alike(B, k2, A, k1, Keys)
      BY DEF Alike
    <3>3. \E a \in A : k2[t] = k1[a]
      BY <1>5, <1>6, <3>2, AlikePartner
    <3> QED BY <2>1, <3>3
  <2> QED BY <1>4, <2>1, <2>2
<1>8. ASSUME NEW n \in Nat, n \in N
      PROVE  n + 1 \in N
  <2> SUFFICES ASSUME NEW A \in SUBSET S, NEW B \in SUBSET T,
                      Cardinality(A) = n + 1, Alike(A, k1, B, k2, Keys)
               PROVE  ProdOver(f, A) = ProdOver(g, B)
    BY <1>2
  <2>1. PICK s \in A : TRUE
    <3>1. A # {}
      BY FS_EmptySet
    <3> QED BY <3>1
  <2>0. IsFiniteSet(A) /\ IsFiniteSet(B) /\ s \in A /\ k1[s] \in Keys
    BY <1>5, <1>6, <2>1
  <2>2. PICK t \in B : k1[s] = k2[t]
    BY <2>0, AlikePartner
  <2>3. Cardinality(A \ {s}) = n
    <3>1. Cardinality(A \ {s}) = Cardinality(A) - 1
      BY <2>0, FS_RemoveElement
    <3> QED BY <3>1
  <2>4. Alike(A \ {s}, k1, B \ {t}, k2, Keys)
    BY <1>5, <1>6, <2>1, <2>2, AlikeRemove
  <2>5. ProdOver(f, A \ {s}) = ProdOver(g, B \ {t})
    BY <1>2, <1>8, <2>3, <2>4
  <2>6. f[s] = g[t]
    BY <1>1, <2>1, <2>2
  <2> QED BY <1>4, <2>1, <2>2, <2>5, <2>6
<1>9. Nat \subseteq N
  <2> HIDE DEF N
  <2> QED BY <1>7, <1>8, Add!NaturalInduction
<1>10. Cardinality(S) \in N
  BY <1>9, FS_CardinalityType
<1>11. ProdOver(f, S) = ProdOver(g, T)
  BY <1>2, <1>10
<1> QED BY <1>3, <1>11 DEF f, g, Marked

\* A product of products is the product over the pairs.
Columns(f, K, B) == [b \in B |-> FProd([k \in K |-> f[<<k, b>>]])]

Grid(f, K, B) == f \in [K \X B -> Field]

LEMMA FlatProduct ==
  ASSUME NEW K, IsFiniteSet(K), NEW B, IsFiniteSet(B),
         NEW f, Grid(f, K, B)
  PROVE  FProd(Columns(f, K, B)) = FProd(f)
<1> DEFINE u == [b \in B |-> FProd([k \in K |-> f[<<k, b>>]])]
           Bad == {T \in SUBSET B : ProdOver(u, T) # ProdOver(f, K \X T)}
<1>1. IsFiniteSet(K \X B) /\ f \in [K \X B -> Field]
  BY FS_Product DEF Grid
<1>2. ASSUME NEW b \in B
      PROVE  ProdOver(f, K \X {b}) = u[b] /\ u[b] \in Field
  <2> DEFINE R == K \X {b}
             j == [k \in K |-> <<k, b>>]
             g == [k \in K |-> f[<<k, b>>]]
             h == [s \in R |-> f[s]]
  <2>1. /\ DOMAIN g = K /\ \A k \in K : g[k] = h[j[k]] /\ g[k] \in Field
        /\ DOMAIN h = R /\ \A s \in R : h[s] \in Field
    BY <1>1
  <2>2. Mul!Renames(j, K, R)
    <3>1. j \in [K -> R] /\ \A k, i \in K : j[k] = j[i] => k = i
      OBVIOUS
    <3>2. \A s \in R : \E k \in K : j[k] = s
      OBVIOUS
    <3> QED BY <3>1, <3>2 DEF Mul!Renames
  <2> HIDE DEF R, j, g, h
  <2>3. FProd(g) = FProd(h)
    BY <2>1, <2>2, FProdRename
  <2>4. FProd(g) \in Field
    BY <2>1, FProdType
  <2> QED BY <2>3, <2>4 DEF ProdOver, g, h, R
<1>6. u = [b \in B |-> u[b]] /\ f = [s \in K \X B |-> f[s]]
  BY <1>1
<1>7. u = Columns(f, K, B)
  BY DEF Columns
<1> HIDE DEF u
<1>9. \A b \in B : u[b] \in Field
  BY <1>2
<1>3. ASSUME NEW T \in Bad
      PROVE  \E U \in Bad : U \subseteq T /\ U # T
  <2>1. PICK y \in T : TRUE
    <3>1. CASE T = {}
      <4>1. K \X T = {}
        BY <3>1
      <4>2. ProdOver(u, {}) = 1 /\ ProdOver(f, {}) = 1
        BY <1>1, <1>9, ProdOverFacts
      <4> QED BY <3>1, <4>1, <4>2
    <3>2. CASE T # {}
      BY <3>2
    <3> QED BY <3>1, <3>2
  <2>2. y \in B /\ T \ {y} \in SUBSET B
    OBVIOUS
  <2>3. ProdOver(u, T) = u[y] ** ProdOver(u, T \ {y})
    <3>1. T \in SUBSET B /\ y \in T
      OBVIOUS
    <3> HIDE DEF Bad
    <3> QED BY ONLY <1>9, <3>1, IsFiniteSet(B), ProdOverFacts
  <2>4. ProdOver(f, K \X T) = ProdOver(f, K \X {y}) ** ProdOver(f, K \X (T \ {y}))
    <3> DEFINE s == K \X {y}
               t == K \X (T \ {y})
    <3>1. s \in SUBSET (K \X B) /\ t \in SUBSET (K \X B) /\ s \cap t = {} /\ s \cup t = K \X T
      BY <2>2
    <3> HIDE DEF s, t
    <3>2. ProdOver(f, s \cup t) = ProdOver(f, s) ** ProdOver(f, t)
      BY <1>1, <3>1, ProdOverFacts
    <3> QED BY <3>1, <3>2 DEF s, t
  <2>5. T \ {y} \in Bad
    BY <1>2, <2>2, <2>3, <2>4
  <2> QED BY <2>1, <2>5
<1>4. Bad = {}
  <2>1. Bad \in SUBSET SUBSET B
    OBVIOUS
  <2> HIDE DEF Bad
  <2> QED BY <1>3, <2>1, FiniteAlike, Mul!MinimalSubset
<1>5. ProdOver(u, B) = ProdOver(f, K \X B)
  BY <1>4
<1> QED BY <1>5, <1>6, <1>7 DEF ProdOver

---------------------------------------------------------------------------
(* The lists of a wiring.                                                  *)

\* The value and the position in every slot, and what the challenges make of
\* the two.
Placed(values, positions, S) ==
  [s \in S |-> <<values[s[1]].evals[s[2]], positions[s[1]][s[2]]>>]
Mark(b, c) == [q \in Field \X Field |-> (q[1] ++ b ** q[2]) ++ c]

\* l tables of values and of positions over n variables.
Placing(values, positions, l, n) ==
  /\ DOMAIN values = 1 .. l
  /\ \A k \in 1 .. l : /\ values[k].num_vars = n
                       /\ values[k].evals \in Table(n) /\ positions[k] \in Table(n)

LEMMA PlacedType ==
  ASSUME NEW n \in Nat, NEW l \in Nat, NEW values, NEW positions,
         Placing(values, positions, l, n)
  PROVE  \A s \in (1 .. l) \X Index(n) :
           Placed(values, positions, (1 .. l) \X Index(n))[s] \in Field \X Field
BY DEF Placing, Placed, Table

LEMMA MarkType ==
  ASSUME NEW b \in Field, NEW c \in Field
  PROVE  /\ \A q \in Field \X Field : Mark(b, c)[q] \in Field
         /\ \A v, p \in Field : Mark(b, c)[<<v, p>>] = (v ++ b ** p) ++ c
<1>1. ASSUME NEW v \in Field, NEW p \in Field
      PROVE  (v ++ b ** p) ++ c \in Field
  <2>1. b ** p \in Field
    BY FieldClosed
  <2>2. v ++ b ** p \in Field
    BY <2>1, FieldClosed
  <2> QED BY <2>2, FieldClosed
<1> QED BY <1>1 DEF Mark

TagsOf(list, l, n, e, key) ==
  /\ MleList(list) /\ DOMAIN list = 1 .. l /\ Len(list) = l /\ list # <<>>
  /\ \A k \in 1 .. l : list[k].num_vars = n /\ list[k].evals \in Table(n)
  /\ \A k \in 1 .. l : \A x \in Index(n) : list[k].evals[x] = e[key[<<k, x>>]]

LEMMA TaggedFacts ==
  ASSUME NEW n \in Nat \ {0}, NEW l \in Nat \ {0}, NEW values, NEW positions,
         Placing(values, positions, l, n), NEW b \in Field, NEW c \in Field
  PROVE  TagsOf(Tagged(values, positions, b, c), l, n,
                Mark(b, c), Placed(values, positions, (1 .. l) \X Index(n)))
<1> DEFINE list == Tagged(values, positions, b, c)
<1>1. ASSUME NEW k \in 1 .. l
      PROVE  /\ list[k].num_vars = n /\ list[k].evals \in Table(n)
             /\ \A x \in Index(n) :
                  list[k].evals[x]
                    = Mark(b, c)[Placed(values, positions, (1 .. l) \X Index(n))[<<k, x>>]]
  <2>1. /\ DOMAIN values = 1 .. l /\ DOMAIN values[k].evals = Index(n)
        /\ values[k].num_vars = n
        /\ \A x \in Index(n) : values[k].evals[x] \in Field /\ positions[k][x] \in Field
    BY DEF Placing, Table
  <2>2. /\ list[k].num_vars = n
        /\ list[k].evals = [x \in Index(n) |-> (values[k].evals[x] ++ b ** positions[k][x]) ++ c]
    BY <2>1 DEF Tagged
  <2> HIDE DEF list
  <2>3. ASSUME NEW x \in Index(n)
        PROVE  /\ list[k].evals[x] \in Field
               /\ list[k].evals[x]
                    = Mark(b, c)[Placed(values, positions, (1 .. l) \X Index(n))[<<k, x>>]]
    <3>1. Placed(values, positions, (1 .. l) \X Index(n))[<<k, x>>]
            = <<values[k].evals[x], positions[k][x]>>
      BY DEF Placed
    <3>2. list[k].evals[x] = (values[k].evals[x] ++ b ** positions[k][x]) ++ c
      BY <2>2
    <3>3. PICK v \in Field, p \in Field : v = values[k].evals[x] /\ p = positions[k][x]
      BY <2>1
    <3>4. Mark(b, c)[<<v, p>>] = (v ++ b ** p) ++ c /\ Mark(b, c)[<<v, p>>] \in Field
      BY MarkType
    <3> QED BY <3>1, <3>2, <3>3, <3>4
  <2>4. list[k].evals \in [Index(n) -> Field]
    BY <2>2, <2>3
  <2> QED BY <2>2, <2>3, <2>4 DEF Table
<1>2. DOMAIN list = 1 .. l
  BY DEF Tagged, Placing
<1>3. list \in Seq({list[k] : k \in DOMAIN list}) /\ Len(list) = l /\ list # <<>>
  <2>1. list = [k \in 1 .. l |-> list[k]]
    BY <1>2 DEF Tagged
  <2> HIDE DEF list
  <2>2. list \in [1 .. l -> {list[k] : k \in DOMAIN list}]
    BY <1>2, <2>1
  <2>3. list \in Seq({list[k] : k \in DOMAIN list})
    BY <2>2
  <2> QED BY <1>2, <2>3
<1> HIDE DEF list
<1>4. MleList(list)
  BY <1>1, <1>2, <1>3 DEF MleList
<1> QED BY <1>1, <1>2, <1>3, <1>4 DEF TagsOf, list

\* Its product is the product over the slots.
LEMMA TaggedTotal ==
  ASSUME nv \in Nat \ {0}, NEW l \in Nat \ {0}, NEW values, NEW positions,
         Placing(values, positions, l, nv), NEW b \in Field, NEW c \in Field
  PROVE  Total(Tagged(values, positions, b, c))
           = FProd(Marked((1 .. l) \X Index(nv), Mark(b, c),
                          Placed(values, positions, (1 .. l) \X Index(nv))))
<1> DEFINE S == (1 .. l) \X Index(nv)
           key == Placed(values, positions, S)
           e == Mark(b, c)
           f == [s \in S |-> e[key[s]]]
           list == Tagged(values, positions, b, c)
           u == [x \in Index(nv) |-> At(list, x)]
<1>1. IsFiniteSet(1 .. l) /\ IsFiniteSet(Index(nv))
  BY FS_Interval, IndexFinite
<1>2. f \in [S -> Field]
  BY PlacedType, MarkType
<1>3. ASSUME NEW x \in Index(nv)
      PROVE  At(list, x) = FProd([k \in 1 .. l |-> f[<<k, x>>]])
  <2>1. /\ DOMAIN list = 1 .. l
        /\ \A k \in 1 .. l : list[k].evals[x] = e[key[<<k, x>>]]
    <3>1. TagsOf(list, l, nv, e, key)
      BY TaggedFacts
    <3> HIDE DEF list, e, key
    <3> QED BY <3>1 DEF TagsOf
  <2>2. \A k \in 1 .. l : f[<<k, x>>] = e[key[<<k, x>>]]
    OBVIOUS
  <2> HIDE DEF list, f, e, key
  <2>3. [k \in DOMAIN list |-> list[k].evals[x]] = [k \in 1 .. l |-> f[<<k, x>>]]
    BY <2>1, <2>2
  <2> QED BY <2>3 DEF At
<1>4. u = Columns(f, 1 .. l, Index(nv))
  <2> HIDE DEF f
  <2> QED BY <1>3 DEF Columns
<1>5. FProd(u) = FProd(f)
  <2>1. Grid(f, 1 .. l, Index(nv))
    BY <1>2 DEF Grid
  <2> HIDE DEF u, f
  <2>2. FProd(Columns(f, 1 .. l, Index(nv))) = FProd(f)
    BY <1>1, <2>1, FlatProduct
  <2> QED BY <1>4, <2>2
<1> QED BY <1>5 DEF Total, Marked

\* A wiring that PermutationCheck::prove takes.
LEMMA WiringFacts ==
  ASSUME wiring \in Wirings, Matching
  PROVE  \E l \in Nat \ {0}, n \in Nat \ {0} :
           /\ n = wiring.fs[1].num_vars
           /\ Placing(wiring.fs, Ids(wiring), l, n) /\ Placing(wiring.gs, Perms(wiring), l, n)
           /\ Slots(wiring) = (1 .. l) \X Index(n)
<1>1. MleList(wiring.fs) /\ MleList(wiring.gs) /\ MleList(wiring.perms)
  BY WiringsAssumption
<1>2. PICK fs, gs, ps : fs = wiring.fs /\ gs = wiring.gs /\ ps = wiring.perms
  OBVIOUS
<1>3. /\ fs \in Seq({fs[k] : k \in DOMAIN fs}) /\ gs \in Seq({gs[k] : k \in DOMAIN gs})
      /\ ps \in Seq({ps[k] : k \in DOMAIN ps})
  BY <1>1, <1>2 DEF MleList
<1>4. /\ fs # <<>> /\ Len(fs) = Len(gs) /\ Len(fs) = Len(ps)
      /\ \A k \in DOMAIN fs : {fs[k].num_vars, gs[k].num_vars, ps[k].num_vars} = {fs[1].num_vars}
  BY <1>2 DEF Matching
<1>5. PICK l \in Nat : l = Len(fs)
  BY <1>3
<1>6. l # 0 /\ DOMAIN fs = 1 .. l /\ DOMAIN gs = 1 .. l /\ DOMAIN ps = 1 .. l
  <2>1. Len(fs) = 0 => fs = <<>>
    BY <1>3
  <2>2. l # 0
    BY <1>4, <1>5, <2>1
  <2>3. DOMAIN fs = 1 .. Len(fs) /\ DOMAIN gs = 1 .. Len(gs) /\ DOMAIN ps = 1 .. Len(ps)
    BY <1>3
  <2>4. Len(fs) = l /\ Len(gs) = l /\ Len(ps) = l
    BY <1>4, <1>5
  <2> QED BY <2>2, <2>3, <2>4
<1>7. PICK n : n = fs[1].num_vars
  OBVIOUS
<1>8. \A k \in 1 .. l : fs[k].num_vars = n /\ gs[k].num_vars = n /\ ps[k].num_vars = n
  BY <1>4, <1>6, <1>7
<1>9. \A k \in 1 .. l : fs[k].evals \in Table(n) /\ gs[k].evals \in Table(n) /\ ps[k].evals \in Table(n)
  BY <1>1, <1>2, <1>6, <1>8 DEF MleList
<1>10. n \in Nat \ {0}
  <2>1. \A k \in DOMAIN fs : fs[k].num_vars \in Nat \ {0}
    BY <1>1, <1>2 DEF MleList
  <2>2. 1 \in DOMAIN fs
    BY <1>5, <1>6
  <2> QED BY <1>7, <2>1, <2>2
<1>11. \A k \in 1 .. l : Ids(wiring)[k] \in Table(n)
  <2>1. Ids(wiring) = identity_permutation_mles(n, l)
    BY <1>2, <1>5, <1>7 DEF Ids
  <2>2. PICK h \in Nat : h = 2^n /\ Index(n) = 0 .. h - 1
    BY <1>10, IndexFacts
  <2>3. ASSUME NEW k \in 1 .. l, NEW b \in Index(n)
        PROVE  FromInt((k-1) * 2^n + b) \in Field
    <3>1. (k-1) * h \in Int
      OBVIOUS
    <3>2. (k-1) * h + b \in Int
      BY <2>2, <3>1
    <3> QED BY <2>2, <3>2, FieldClosed
  <2> QED BY <2>1, <2>3 DEF identity_permutation_mles, Table
<1>12. \A k \in 1 .. l : Perms(wiring)[k] \in Table(n)
  BY <1>2, <1>6, <1>9 DEF Perms
<1>13. Slots(wiring) = (1 .. l) \X Index(n)
  <2>1. Slots(wiring) = {<<k, x>> : k \in 1 .. l, x \in Index(n)}
    BY <1>2, <1>6, <1>7 DEF Slots
  <2> QED BY <2>1
<1> QED BY <1>2, <1>5, <1>6, <1>7, <1>8, <1>9, <1>10, <1>11, <1>12, <1>13 DEF Placing

\* fxs and gxs were made from the wiring.
Wired ==
  /\ fxs = computer_nums_and_denoms(wiring, beta, gamma).nums
  /\ gxs = computer_nums_and_denoms(wiring, beta, gamma).denoms

LEMMA WiredFacts ==
  ASSUME wiring \in Wirings, Matching, beta \in Field, gamma \in Field, Wired
  PROVE  /\ MleList(fxs) /\ MleList(gxs) /\ Shapely
         /\ nv = wiring.fs[1].num_vars
<1>1. PICK l \in Nat \ {0}, n \in Nat \ {0} :
        /\ n = wiring.fs[1].num_vars
        /\ Placing(wiring.fs, Ids(wiring), l, n) /\ Placing(wiring.gs, Perms(wiring), l, n)
  BY WiringFacts
<1>2. PICK K : K = (1 .. l) \X Index(n)
  OBVIOUS
<1>3. /\ fxs = Tagged(wiring.fs, Ids(wiring), beta, gamma)
      /\ gxs = Tagged(wiring.gs, Perms(wiring), beta, gamma)
  BY DEF Wired, computer_nums_and_denoms
<1>4. TagsOf(fxs, l, n, Mark(beta, gamma), Placed(wiring.fs, Ids(wiring), K))
  BY <1>1, <1>2, <1>3, TaggedFacts
<1>5. TagsOf(gxs, l, n, Mark(beta, gamma), Placed(wiring.gs, Perms(wiring), K))
  BY <1>1, <1>2, <1>3, TaggedFacts
<1>6. nv = n
  BY <1>4 DEF TagsOf, nv
<1>7. Shapely
  BY <1>4, <1>5, <1>6 DEF TagsOf, Shapely
<1> QED BY <1>1, <1>4, <1>5, <1>6, <1>7 DEF TagsOf

\* For tables moved along the permutation the products are equal.
LEMMA PermutedEqual ==
  ASSUME wiring \in Wirings, Matching, beta \in Field, gamma \in Field, Wired,
         IsPermuted(wiring)
  PROVE  Total(fxs) = Total(gxs)
<1>1. PICK l \in Nat \ {0} :
        /\ Placing(wiring.fs, Ids(wiring), l, nv) /\ Placing(wiring.gs, Perms(wiring), l, nv)
        /\ Slots(wiring) = (1 .. l) \X Index(nv) /\ nv \in Nat \ {0}
  BY WiringFacts, WiredFacts
<1>2. PICK S, k1, k2, e :
        /\ S = (1 .. l) \X Index(nv) /\ e = Mark(beta, gamma)
        /\ k1 = Placed(wiring.fs, Ids(wiring), S) /\ k2 = Placed(wiring.gs, Perms(wiring), S)
  OBVIOUS
<1>3. /\ fxs = Tagged(wiring.fs, Ids(wiring), beta, gamma)
      /\ gxs = Tagged(wiring.gs, Perms(wiring), beta, gamma)
  BY DEF Wired, computer_nums_and_denoms
<1>4. Total(fxs) = FProd(Marked(S, e, k1))
  BY <1>1, <1>2, <1>3, TaggedTotal
<1>5. Total(gxs) = FProd(Marked(S, e, k2))
  BY <1>1, <1>2, <1>3, TaggedTotal
<1>6. IsFiniteSet(S)
  <2>1. IsFiniteSet(1 .. l) /\ IsFiniteSet(Index(nv))
    BY <1>1, FS_Interval, IndexFinite
  <2> QED BY <1>2, <2>1, FS_Product
<1>7. /\ \A s \in S : k1[s] \in Field \X Field /\ k2[s] \in Field \X Field
      /\ \A q \in Field \X Field : e[q] \in Field
  BY <1>1, <1>2, PlacedType, MarkType
<1>8. Alike(S, k1, S, k2, Field \X Field)
  <2> SUFFICES ASSUME NEW q \in Field \X Field
               PROVE  Cardinality(Fiber(S, k1, q)) = Cardinality(Fiber(S, k2, q))
    BY DEF Alike
  <2>1. PICK v \in Field, p \in Field : q = <<v, p>>
    OBVIOUS
  <2>2. Count(wiring, wiring.fs, Ids(wiring), v, p) = Count(wiring, wiring.gs, Perms(wiring), v, p)
    BY DEF IsPermuted
  <2>3. Fiber(S, k1, q) = {s \in Slots(wiring) :
                              wiring.fs[s[1]].evals[s[2]] = v /\ Ids(wiring)[s[1]][s[2]] = p}
    BY <1>1, <1>2, <2>1 DEF Fiber, Placed
  <2>4. Fiber(S, k2, q) = {s \in Slots(wiring) :
                              wiring.gs[s[1]].evals[s[2]] = v /\ Perms(wiring)[s[1]][s[2]] = p}
    BY <1>1, <1>2, <2>1 DEF Fiber, Placed
  <2> QED BY <2>2, <2>3, <2>4 DEF Count
<1>9. FProd(Marked(S, e, k1)) = FProd(Marked(S, e, k2))
  BY <1>6, <1>7, <1>8, AlikeProduct
<1> QED BY <1>4, <1>5, <1>9

---------------------------------------------------------------------------
(* The lines of the slots: v + p x + c, for a value v at position p.       *)

Keyed(S, key) == \A s \in S : key[s] \in Field \X Field

\* The product of the lines of A, a part of the slots S.
Lines(S, key, A) ==
  [x \in Field |-> [c \in Field |-> ProdOver(Marked(S, Mark(x, c), key), A)]]

LEMMA LinesFacts ==
  ASSUME NEW S, IsFiniteSet(S), NEW key, Keyed(S, key), NEW A \in SUBSET S
  PROVE  /\ Lines(S, key, A) \in [Field -> Functional]
         /\ A = {} => Lines(S, key, A) = Ones
         /\ \A s \in A : \A x, c \in Field :
              Lines(S, key, A)[x][c]
                = ((key[s][1] ++ x ** key[s][2]) ++ c) ** Lines(S, key, A \ {s})[x][c]
<1>1. ASSUME NEW x \in Field, NEW c \in Field
      PROVE  /\ Lines(S, key, A)[x][c] \in Field
             /\ A = {} => Lines(S, key, A)[x][c] = 1
             /\ \A s \in A : Lines(S, key, A)[x][c]
                  = ((key[s][1] ++ x ** key[s][2]) ++ c) ** Lines(S, key, A \ {s})[x][c]
  <2>1. PICK F : F = Marked(S, Mark(x, c), key)
    OBVIOUS
  <2>2. ASSUME NEW s \in S
        PROVE  F[s] \in Field /\ F[s] = (key[s][1] ++ x ** key[s][2]) ++ c
    <3>1. PICK v \in Field, p \in Field : key[s] = <<v, p>>
      BY DEF Keyed
    <3>2. F[s] = Mark(x, c)[<<v, p>>]
      BY <2>1, <3>1 DEF Marked
    <3>3. Mark(x, c)[<<v, p>>] \in Field /\ Mark(x, c)[<<v, p>>] = (v ++ x ** p) ++ c
      BY MarkType
    <3> QED BY <3>1, <3>2, <3>3
  <2>3. \A s \in S : F[s] \in Field
    BY <2>2
  <2>4. /\ ProdOver(F, {}) = 1
        /\ \A B \in SUBSET S : ProdOver(F, B) \in Field
        /\ \A B \in SUBSET S : \A s \in B : ProdOver(F, B) = F[s] ** ProdOver(F, B \ {s})
    BY <2>3, ProdOverFacts
  <2>5. \A B : Lines(S, key, B)[x][c] = ProdOver(F, B)
    BY <2>1 DEF Lines
  <2> QED BY <2>2, <2>4, <2>5
<1>2. Lines(S, key, A) \in [Field -> Functional]
  BY <1>1 DEF Lines, Functional
<1>3. A = {} => Lines(S, key, A) = Ones
  <2>1. SUFFICES ASSUME A = {} PROVE Lines(S, key, A) = Ones
    OBVIOUS
  <2>2. \A x \in Field : Lines(S, key, A)[x] = One
    BY <1>1, <2>1 DEF Lines, One
  <2> QED BY <2>2 DEF Lines, Ones
<1> QED BY <1>1, <1>2, <1>3

\* One line taken out.
LEMMA LineTaken ==
  ASSUME NEW S, IsFiniteSet(S), NEW key, Keyed(S, key), NEW A \in SUBSET S, NEW s \in A,
         NEW v, NEW p, v = key[s][1], p = key[s][2], NEW x \in Field, NEW c \in Field
  PROVE  /\ Lines(S, key, A)[x][c]
              = ((v ++ x ** p) ++ c) ** Lines(S, key, A \ {s})[x][c]
         /\ Lines(S, key, A \ {s})[x][c] \in Field
<1>1. A \ {s} \in SUBSET S
  OBVIOUS
<1>2. Lines(S, key, A \ {s}) \in [Field -> Functional]
  BY <1>1, LinesFacts
<1>3. Lines(S, key, A)[x][c]
        = ((key[s][1] ++ x ** key[s][2]) ++ c) ** Lines(S, key, A \ {s})[x][c]
  BY LinesFacts
<1> QED BY <1>2, <1>3 DEF Functional

LinesOf(n, S, key) ==
  \A A \in SUBSET S : Cardinality(A) = n => BiDegree(Lines(S, key, A), n)

LEMMA LinesDegree ==
  ASSUME NEW S, IsFiniteSet(S), NEW key, Keyed(S, key)
  PROVE  \A n \in Nat : LinesOf(n, S, key)
<1> DEFINE N == {n \in Nat : LinesOf(n, S, key)}
<1>1. 0 \in N
  <2>1. ASSUME NEW A \in SUBSET S, Cardinality(A) = 0
        PROVE  BiDegree(Lines(S, key, A), 0)
    <3>1. A = {}
      BY <2>1, FS_Subset, FS_EmptySet
    <3>2. Lines(S, key, A) = Ones
      BY <3>1, LinesFacts
    <3> QED BY <3>2, BiDegreeOnes
  <2> QED BY <2>1 DEF LinesOf
<1>2. ASSUME NEW n \in Nat, n \in N
      PROVE  n + 1 \in N
  <2>1. ASSUME NEW A \in SUBSET S, Cardinality(A) = n + 1
        PROVE  BiDegree(Lines(S, key, A), n + 1)
    <3>1. IsFiniteSet(A)
      BY FS_Subset
    <3>2. PICK s : s \in A
      <4>1. Cardinality({}) = 0 /\ n + 1 # 0
        BY FS_EmptySet
      <4> QED BY <2>1, <4>1
    <3>3. Cardinality(A \ {s}) = n
      <4>1. Cardinality(A \ {s}) = Cardinality(A) - 1
        BY <3>1, <3>2, FS_RemoveElement
      <4> QED BY <2>1, <4>1
    <3>4. PICK v \in Field, p \in Field : v = key[s][1] /\ p = key[s][2]
      BY <3>2 DEF Keyed
    <3>5. A \ {s} \in SUBSET S
      OBVIOUS
    <3>6. BiDegree(Lines(S, key, A \ {s}), n)
      BY <1>2, <3>3, <3>5 DEF LinesOf
    <3>7. /\ Lines(S, key, A) \in [Field -> Functional]
          /\ \A x, c \in Field : Lines(S, key, A)[x][c]
               = ((v ++ x ** p) ++ c) ** Lines(S, key, A \ {s})[x][c]
      BY <3>2, <3>4, LinesFacts
    <3> QED BY <3>6, <3>7, BiDegreeLine
  <2> QED BY <2>1 DEF LinesOf
<1>3. Nat \subseteq N
  <2> HIDE DEF N
  <2> QED BY <1>1, <1>2, Add!NaturalInduction
<1> QED BY <1>3

\* Two different lines meet at one x at most.
LEMMA Transpose ==
  ASSUME NEW a \in Field, NEW b \in Field, NEW v \in Field, NEW w \in Field,
         v ++ a = w ++ b
  PROVE  a -- b = w -- v
<1>1. PICK z \in Field : z = b -- v
  BY FieldClosed
<1>2. z ++ v = b
  BY <1>1, FieldLaws
<1>3. (w ++ z) ++ v = w ++ (z ++ v) /\ v ++ a = a ++ v
  BY FieldLaws
<1>4. (w ++ z) ++ v = a ++ v
  BY <1>2, <1>3
<1>5. PICK y \in Field : y = w ++ z
  BY FieldClosed
<1>6. (y ++ v) -- v = y /\ (a ++ v) -- v = a
  BY FieldLaws
<1>7. y = a
  BY <1>4, <1>5, <1>6
<1>8. w ++ (b -- v) = (w -- v) ++ b
  BY FieldLaws
<1>9. PICK u \in Field : u = w -- v
  BY FieldClosed
<1>10. a = u ++ b
  BY <1>1, <1>5, <1>7, <1>8, <1>9
<1> QED BY <1>9, <1>10, FieldLaws

LEMMA LinesMeet ==
  ASSUME NEW v \in Field, NEW p \in Field, NEW w \in Field, NEW q \in Field,
         NEW x \in Field, NEW y \in Field, x # y,
         v ++ x ** p = w ++ x ** q, v ++ y ** p = w ++ y ** q
  PROVE  v = w /\ p = q
<1>1. PICK a \in Field, b \in Field, d \in Field, e \in Field :
        a = x ** p /\ b = x ** q /\ d = y ** p /\ e = y ** q
  BY FieldClosed
<1>2. PICK s \in Field : s = p -- q
  BY FieldClosed
<1>3. a -- b = w -- v /\ d -- e = w -- v
  BY <1>1, Transpose
<1>4. x ** s = y ** s
  <2>1. x ** (p -- q) = (x ** p) -- (x ** q) /\ y ** (p -- q) = (y ** p) -- (y ** q)
    BY DistributesMinus
  <2> QED BY <1>1, <1>2, <1>3, <2>1
<1>5. s = 0
  <2>1. s ** x = x ** s /\ s ** y = y ** s
    BY FieldLaws
  <2>2. CASE s # 0
    BY <1>4, <2>1, <2>2, Cancel
  <2> QED BY <2>2
<1>6. p = q
  <2>1. p -- q = 0
    BY <1>2, <1>5
  <2> QED BY <2>1, SubtractionLaws
<1>7. (v ++ a) -- a = v /\ (w ++ a) -- a = w
  BY FieldLaws
<1> QED BY <1>1, <1>6, <1>7

\* A line is zero at exactly one c for each x.
LEMMA LineZero ==
  ASSUME NEW v \in Field, NEW p \in Field, NEW x \in Field
  PROVE  /\ 0 -- (v ++ x ** p) \in Field
         /\ \A c \in Field : /\ (v ++ x ** p) ++ c \in Field
                             /\ (v ++ x ** p) ++ c = 0 <=> c = 0 -- (v ++ x ** p)
<1>1. PICK u \in Field : u = v ++ x ** p
  <2>1. x ** p \in Field
    BY FieldClosed
  <2> QED BY <2>1, FieldClosed
<1>2. ASSUME NEW c \in Field
      PROVE  u ++ c \in Field /\ (u ++ c = 0 <=> c = 0 -- u)
  <2>1. u ++ c = c ++ u /\ u ++ c \in Field
    BY FieldLaws, FieldClosed
  <2>2. c ++ u = 0 => c = 0 -- u
    BY SubtractionLaws
  <2>3. (0 -- u) ++ u = 0
    BY FieldClosed, FieldLaws
  <2> QED BY <2>1, <2>2, <2>3
<1> QED BY <1>1, <1>2, FieldClosed

\* Where the product is zero, one of the lines is.
ZeroLine(n, S, key) ==
  \A A \in SUBSET S : Cardinality(A) = n =>
    \A x, c \in Field : Lines(S, key, A)[x][c] = 0 =>
      \E s \in A : (key[s][1] ++ x ** key[s][2]) ++ c = 0

LEMMA ZeroLineAlways ==
  ASSUME NEW S, IsFiniteSet(S), NEW key, Keyed(S, key)
  PROVE  \A n \in Nat : ZeroLine(n, S, key)
<1> DEFINE N == {n \in Nat : ZeroLine(n, S, key)}
<1>1. 0 \in N
  <2>1. ASSUME NEW A \in SUBSET S, Cardinality(A) = 0, NEW x \in Field, NEW c \in Field
        PROVE  Lines(S, key, A)[x][c] # 0
    <3>1. A = {}
      BY <2>1, FS_Subset, FS_EmptySet
    <3>2. Lines(S, key, A)[x][c] = 1
      BY <3>1, LinesFacts, OneType DEF Ones
    <3> QED BY <3>2
  <2> QED BY <2>1 DEF ZeroLine
<1>2. ASSUME NEW n \in Nat, n \in N
      PROVE  n + 1 \in N
  <2>1. ASSUME NEW A \in SUBSET S, Cardinality(A) = n + 1, NEW x \in Field, NEW c \in Field,
               Lines(S, key, A)[x][c] = 0
        PROVE  \E s \in A : (key[s][1] ++ x ** key[s][2]) ++ c = 0
    <3>1. IsFiniteSet(A)
      BY FS_Subset
    <3>2. PICK s : s \in A
      <4>1. Cardinality({}) = 0 /\ n + 1 # 0
        BY FS_EmptySet
      <4> QED BY <2>1, <4>1
    <3>3. Cardinality(A \ {s}) = n
      <4>1. Cardinality(A \ {s}) = Cardinality(A) - 1
        BY <3>1, <3>2, FS_RemoveElement
      <4> QED BY <2>1, <4>1
    <3>4. PICK v \in Field, p \in Field : v = key[s][1] /\ p = key[s][2]
      BY <3>2 DEF Keyed
    <3>5. A \ {s} \in SUBSET S
      OBVIOUS
    <3>6. PICK l \in Field : l = (v ++ x ** p) ++ c
      BY LineZero
    <3>7. PICK r \in Field : r = Lines(S, key, A \ {s})[x][c]
      BY <3>5, LinesFacts DEF Functional
    <3>8. l ** r = 0
      BY <2>1, <3>2, <3>4, <3>6, <3>7, LinesFacts
    <3>9. l = 0 \/ r = 0
      BY <3>8, NonZeroProduct
    <3>10. r = 0 => \E t \in A \ {s} : (key[t][1] ++ x ** key[t][2]) ++ c = 0
      BY <1>2, <3>3, <3>5, <3>7 DEF ZeroLine
    <3> QED BY <3>2, <3>4, <3>6, <3>9, <3>10
  <2> QED BY <2>1 DEF ZeroLine
<1>3. Nat \subseteq N
  <2> HIDE DEF N
  <2> QED BY <1>1, <1>2, Add!NaturalInduction
<1> QED BY <1>3

EqualLines(S, k1, A, T, k2, B) ==
  \A x, c \in Field : Lines(S, k1, A)[x][c] = Lines(T, k2, B)[x][c]

\* Every line of A is a line of B, if the products are the same and there
\* are fewer lines than field elements: the lines of B meet it in one point
\* each.
LEMMA LinePartner ==
  ASSUME NEW S, IsFiniteSet(S), NEW k1, Keyed(S, k1), NEW A \in SUBSET S, NEW s \in A,
         NEW T, IsFiniteSet(T), NEW k2, Keyed(T, k2), NEW B \in SUBSET T, Cardinality(B) < P,
         \A x, c \in Field : Lines(S, k1, A)[x][c] = Lines(T, k2, B)[x][c]
  PROVE  \E t \in B : k1[s] = k2[t]
<1>1. PICK v \in Field, p \in Field : k1[s] = <<v, p>> /\ v = k1[s][1] /\ p = k1[s][2]
  BY DEF Keyed
<1>2. PICK n \in Nat : n = Cardinality(B)
  BY FS_Subset, FS_CardinalityType
<1>3. ASSUME NEW x \in Field
      PROVE  \E t \in B : v ++ x ** p = k2[t][1] ++ x ** k2[t][2]
  <2>1. PICK c \in Field : c = 0 -- (v ++ x ** p)
    BY LineZero
  <2>2. (v ++ x ** p) ++ c = 0
    BY <2>1, LineZero
  <2>3. PICK r \in Field : r = Lines(S, k1, A \ {s})[x][c]
    BY <1>1, LineTaken
  <2>4. Lines(S, k1, A)[x][c] = ((v ++ x ** p) ++ c) ** r
    BY <1>1, <2>3, LineTaken
  <2>5. Lines(T, k2, B)[x][c] = 0
    BY <2>2, <2>3, <2>4, FieldLaws
  <2>6. PICK t \in B : (k2[t][1] ++ x ** k2[t][2]) ++ c = 0
    BY <1>2, <2>5, ZeroLineAlways DEF ZeroLine
  <2>7. PICK w \in Field, q \in Field : w = k2[t][1] /\ q = k2[t][2]
    BY DEF Keyed
  <2>8. c = 0 -- (w ++ x ** q)
    BY <2>6, <2>7, LineZero
  <2>9. PICK a \in Field, b \in Field : a = v ++ x ** p /\ b = w ++ x ** q
    <3>1. x ** p \in Field /\ x ** q \in Field
      BY FieldClosed
    <3> QED BY <3>1, FieldClosed
  <2>10. a = b
    <3>1. 0 -- a = 0 -- b
      BY <2>1, <2>8, <2>9
    <3>2. 0 -- (0 -- a) = a -- 0 /\ 0 -- (0 -- b) = b -- 0 /\ a -- 0 = a /\ b -- 0 = b
      BY FieldClosed, SubtractionLaws
    <3> QED BY <3>1, <3>2
  <2> QED BY <2>7, <2>9, <2>10
<1>4. PICK g \in [Field -> B] :
        \A x \in Field : v ++ x ** p = k2[g[x]][1] ++ x ** k2[g[x]][2]
  <2>1. [x \in Field |-> CHOOSE t \in B : v ++ x ** p = k2[t][1] ++ x ** k2[t][2]]
          \in [Field -> B]
    BY <1>3
  <2> QED BY <1>3, <2>1
<1>5. PICK x \in Field, y \in Field : x # y /\ g[x] = g[y]
  <2>1. IsFiniteSet(Field) /\ Cardinality(Field) = P
    BY FieldCount
  <2>2. IsFiniteSet(B) /\ Cardinality(B) < Cardinality(Field)
    BY <2>1, FS_Subset
  <2> QED BY <2>1, <2>2, FS_PigeonHole
<1>6. PICK t \in B : t = g[x]
  OBVIOUS
<1>7. PICK w \in Field, q \in Field : k2[t] = <<w, q>>
  BY DEF Keyed
<1>8. v ++ x ** p = w ++ x ** q /\ v ++ y ** p = w ++ y ** q
  BY <1>4, <1>5, <1>6, <1>7
<1>9. v = w /\ p = q
  BY <1>5, <1>8, LinesMeet
<1> QED BY <1>1, <1>7, <1>9

\* Without one line each, the products are still the same.
LEMMA LinesWithout ==
  ASSUME NEW S, IsFiniteSet(S), NEW k1, Keyed(S, k1), NEW A \in SUBSET S, NEW s \in A,
         NEW T, IsFiniteSet(T), NEW k2, Keyed(T, k2), NEW B \in SUBSET T, NEW t \in B,
         k1[s] = k2[t],
         NEW n \in Nat, n + 1 < P, Cardinality(A \ {s}) = n, Cardinality(B \ {t}) = n,
         EqualLines(S, k1, A, T, k2, B)
  PROVE  EqualLines(S, k1, A \ {s}, T, k2, B \ {t})
<1>1. PICK v \in Field, p \in Field :
        v = k1[s][1] /\ p = k1[s][2] /\ v = k2[t][1] /\ p = k2[t][2]
  BY DEF Keyed
<1>2. PICK F, G : F = Lines(S, k1, A \ {s}) /\ G = Lines(T, k2, B \ {t})
  OBVIOUS
<1>3. A \ {s} \in SUBSET S /\ B \ {t} \in SUBSET T
  OBVIOUS
<1>4. BiDegree(F, n) /\ BiDegree(G, n)
  BY <1>2, <1>3, LinesDegree DEF LinesOf
<1>5. F \in [Field -> Functional] /\ G \in [Field -> Functional]
  BY <1>4 DEF BiDegree
<1> SUFFICES ASSUME NEW x \in Field PROVE \A c \in Field : F[x][c] = G[x][c]
  BY <1>2 DEF EqualLines
<1>6. PICK z \in Field : z = 0 -- (v ++ x ** p)
  BY LineZero
<1>7. PICK Z \in SUBSET Field : Z = Field \ {z}
  OBVIOUS
<1>8. ASSUME NEW c \in Z
      PROVE  F[x][c] = G[x][c]
  <2>1. c \in Field /\ c # z
    BY <1>7
  <2>2. PICK l \in Field : l = (v ++ x ** p) ++ c /\ l # 0
    BY <1>6, <2>1, LineZero
  <2>3. Lines(S, k1, A)[x][c] = l ** F[x][c]
    BY <1>1, <1>2, <2>1, <2>2, LineTaken
  <2>4. Lines(T, k2, B)[x][c] = l ** G[x][c]
    BY <1>1, <1>2, <2>1, <2>2, LineTaken
  <2>5. l ** F[x][c] = l ** G[x][c]
    BY <2>1, <2>3, <2>4 DEF EqualLines
  <2>6. F[x][c] \in Field /\ G[x][c] \in Field
    BY <1>5, <2>1 DEF Functional
  <2> QED BY <2>2, <2>5, <2>6, Cancel
<1>9. Cardinality(Z) >= n + 1
  <2>1. Cardinality(Z) = Cardinality(Field) - 1
    BY <1>7, FieldCount, FS_RemoveElement
  <2> QED BY <2>1, FieldCount, PAssumption
<1>10. DegreeAtMost(F[x], n) /\ DegreeAtMost(G[x], n)
  BY <1>4, BiDegreeRow
<1> QED BY <1>8, <1>9, <1>10, FewAgreements

\* If the products are the same, the lines are.
SameLines(n, S, k1, T, k2) ==
  \A A \in SUBSET S : \A B \in SUBSET T :
    Cardinality(A) = n /\ Cardinality(B) = n /\ n < P /\ EqualLines(S, k1, A, T, k2, B) =>
      Alike(A, k1, B, k2, Field \X Field)

LEMMA AlikeNothing ==
  ASSUME NEW A, A = {}, NEW B, B = {}, NEW k1, NEW k2, NEW Keys
  PROVE  Alike(A, k1, B, k2, Keys)
BY DEF Alike, Fiber

LEMMA SameLinesAlways ==
  ASSUME NEW S, IsFiniteSet(S), NEW k1, Keyed(S, k1),
         NEW T, IsFiniteSet(T), NEW k2, Keyed(T, k2)
  PROVE  \A n \in Nat : SameLines(n, S, k1, T, k2)
<1> DEFINE N == {n \in Nat : SameLines(n, S, k1, T, k2)}
<1>1. 0 \in N
  <2>1. ASSUME NEW A \in SUBSET S, Cardinality(A) = 0, NEW B \in SUBSET T, Cardinality(B) = 0
        PROVE  Alike(A, k1, B, k2, Field \X Field)
    <3>1. IsFiniteSet(A) /\ IsFiniteSet(B)
      BY FS_Subset
    <3>2. A = {} /\ B = {}
      BY <2>1, <3>1, FS_EmptySet
    <3> QED BY <3>2, AlikeNothing
  <2> QED BY <2>1 DEF SameLines
<1>2. ASSUME NEW n \in Nat, n \in N
      PROVE  n + 1 \in N
  <2>1. ASSUME NEW A \in SUBSET S, Cardinality(A) = n + 1,
               NEW B \in SUBSET T, Cardinality(B) = n + 1, n + 1 < P,
               EqualLines(S, k1, A, T, k2, B)
        PROVE  Alike(A, k1, B, k2, Field \X Field)
    <3>1. IsFiniteSet(A) /\ IsFiniteSet(B)
      BY FS_Subset
    <3>2. PICK s : s \in A
      <4>1. Cardinality({}) = 0 /\ n + 1 # 0
        BY FS_EmptySet
      <4> QED BY <2>1, <4>1
    <3>3. \A x, c \in Field : Lines(S, k1, A)[x][c] = Lines(T, k2, B)[x][c]
      BY <2>1 DEF EqualLines
    <3>4. PICK t \in B : k1[s] = k2[t]
      <4>1. Cardinality(B) < P
        BY <2>1
      <4> QED BY <3>2, <3>3, <4>1, LinePartner
    <3>5. Cardinality(A \ {s}) = n
      <4>1. Cardinality(A \ {s}) = Cardinality(A) - 1
        BY <3>1, <3>2, FS_RemoveElement
      <4> QED BY <2>1, <4>1
    <3>6. Cardinality(B \ {t}) = n
      <4>1. Cardinality(B \ {t}) = Cardinality(B) - 1
        BY <3>1, <3>4, FS_RemoveElement
      <4> QED BY <2>1, <4>1
    <3>7. EqualLines(S, k1, A \ {s}, T, k2, B \ {t})
      BY <2>1, <3>2, <3>4, <3>5, <3>6, LinesWithout
    <3>8. Alike(A \ {s}, k1, B \ {t}, k2, Field \X Field)
      <4>1. A \ {s} \in SUBSET S /\ B \ {t} \in SUBSET T /\ n < P
        BY <2>1, PAssumption
      <4> QED BY <1>2, <3>5, <3>6, <3>7, <4>1 DEF SameLines
    <3> QED BY <3>1, <3>2, <3>4, <3>8, AlikeRemove
  <2>2. SameLines(n + 1, S, k1, T, k2)
    BY <2>1 DEF SameLines
  <2> QED BY <2>2
<1>3. Nat \subseteq N
  <2> HIDE DEF N
  <2> QED BY <1>1, <1>2, Add!NaturalInduction
<1> QED BY <1>3

\* The product over all the slots.
LEMMA LinesTotal ==
  ASSUME NEW S, NEW key, NEW x \in Field, NEW c \in Field
  PROVE  Lines(S, key, S)[x][c] = FProd(Marked(S, Mark(x, c), key))
<1>1. PICK F : F = Marked(S, Mark(x, c), key)
  OBVIOUS
<1>2. F = [l \in S |-> F[l]]
  BY <1>1 DEF Marked
<1>3. ProdOver(F, S) = FProd(F)
  BY <1>2 DEF ProdOver
<1> QED BY <1>1, <1>3 DEF Lines

\* Where the two products agree.
Agreeing(S, k1, k2) ==
  {d \in Field \X Field : Lines(S, k1, S)[d[1]][d[2]] = Lines(S, k2, S)[d[1]][d[2]]}

\* Slots whose keys differ agree for few challenges.
LEMMA FewAgree ==
  ASSUME NEW S, IsFiniteSet(S), NEW k1, Keyed(S, k1), NEW k2, Keyed(S, k2),
         ~ Alike(S, k1, S, k2, Field \X Field)
  PROVE  Cardinality(Agreeing(S, k1, k2)) <= P * Cardinality(S)
<1>1. PICK m \in Nat : m = Cardinality(S)
  BY FS_CardinalityType
<1>2. PICK F, G : F = Lines(S, k1, S) /\ G = Lines(S, k2, S)
  OBVIOUS
<1>3. F \in [Field -> Functional] /\ G \in [Field -> Functional]
  BY <1>2, LinesFacts
<1>4. CASE P <= m
  <2>1. IsFiniteSet(Field \X Field) /\ Cardinality(Field \X Field) = P * P
    BY FieldCount, FS_Product
  <2>2. Agreeing(S, k1, k2) \subseteq Field \X Field
    BY DEF Agreeing
  <2>3. /\ Cardinality(Agreeing(S, k1, k2)) <= P * P
        /\ Cardinality(Agreeing(S, k1, k2)) \in Nat
    BY <2>1, <2>2, FS_Subset, FS_CardinalityType
  <2>4. P * P <= m * P
    BY <1>4, ProductOrder, PAssumption
  <2>5. m * P = P * m /\ P * P \in Nat /\ m * P \in Nat
    BY PAssumption
  <2> QED BY <1>1, <2>3, <2>4, <2>5
<1>5. CASE m < P
  <2>1. PICK y \in Field, b \in Field : F[y][b] # G[y][b]
    <3>1. ~ EqualLines(S, k1, S, S, k2, S)
      BY <1>1, <1>5, SameLinesAlways DEF SameLines
    <3> QED BY <1>2, <3>1 DEF EqualLines
  <2>2. PICK H : H = [x \in Field |-> [c \in Field |-> F[x][c] -- G[x][c]]]
    OBVIOUS
  <2>3. \A x, c \in Field : F[x][c] \in Field /\ G[x][c] \in Field
    BY <1>3 DEF Functional
  <2>4. \A x, c \in Field : H[x][c] = F[x][c] -- G[x][c] /\ H[x][c] \in Field
    BY <2>2, <2>3, FieldClosed
  <2>5. H \in [Field -> Functional]
    BY <2>2, <2>4 DEF Functional
  <2>6. BiDegree(F, m) /\ BiDegree(G, m)
    BY <1>1, <1>2, LinesDegree DEF LinesOf
  <2>7. BiDegree(H, m)
    BY <2>4, <2>5, <2>6, BiDegreeMinus
  <2>8. \A x, c \in Field : H[x][c] = 0 <=> F[x][c] = G[x][c]
    BY <2>3, <2>4, SubtractionLaws
  <2>9. H[y][b] # 0
    BY <2>1, <2>8
  <2>10. Cardinality(Roots(H)) <= P * m
    BY <1>5, <2>7, <2>9, BiRoots
  <2>11. Agreeing(S, k1, k2) = Roots(H)
    BY <1>2, <2>8 DEF Agreeing, Roots
  <2> QED BY <1>1, <2>10, <2>11
<1>6. m < P \/ P <= m
  BY PAssumption
<1> QED BY <1>4, <1>5, <1>6

\* Alike slots are a permuted wiring.
LEMMA AlikePermuted ==
  ASSUME NEW l \in Nat \ {0}, NEW S, S = (1 .. l) \X Index(wiring.fs[1].num_vars),
         Slots(wiring) = S,
         NEW k1, k1 = Placed(wiring.fs, Ids(wiring), S),
         NEW k2, k2 = Placed(wiring.gs, Perms(wiring), S),
         Alike(S, k1, S, k2, Field \X Field)
  PROVE  IsPermuted(wiring)
<1> SUFFICES ASSUME NEW v \in Field, NEW p \in Field
             PROVE  Count(wiring, wiring.fs, Ids(wiring), v, p)
                      = Count(wiring, wiring.gs, Perms(wiring), v, p)
  BY DEF IsPermuted
<1>1. PICK q \in Field \X Field : q = <<v, p>>
  OBVIOUS
<1>2. Cardinality(Fiber(S, k1, q)) = Cardinality(Fiber(S, k2, q))
  BY DEF Alike
<1>3. Fiber(S, k1, q) = {s \in Slots(wiring) :
                            wiring.fs[s[1]].evals[s[2]] = v /\ Ids(wiring)[s[1]][s[2]] = p}
  BY <1>1 DEF Fiber, Placed
<1>4. Fiber(S, k2, q) = {s \in Slots(wiring) :
                            wiring.gs[s[1]].evals[s[2]] = v /\ Perms(wiring)[s[1]][s[2]] = p}
  BY <1>1 DEF Fiber, Placed
<1> QED BY <1>2, <1>3, <1>4 DEF Count

\* For tables that were not moved along the permutation the products are
\* equal for few challenges.
LEMMA FewEqualise ==
  ASSUME wiring \in Wirings, Matching, nv = wiring.fs[1].num_vars, ~ IsPermuted(wiring)
  PROVE  Cardinality({d \in Field \X Field : Equalises(wiring, d[1], d[2])})
           <= P * Cardinality(Slots(wiring))
<1>1. PICK l \in Nat \ {0} :
        /\ Placing(wiring.fs, Ids(wiring), l, nv) /\ Placing(wiring.gs, Perms(wiring), l, nv)
        /\ Slots(wiring) = (1 .. l) \X Index(nv) /\ nv \in Nat \ {0}
  BY WiringFacts
<1>2. PICK S, k1, k2 :
        /\ S = (1 .. l) \X Index(nv)
        /\ k1 = Placed(wiring.fs, Ids(wiring), S) /\ k2 = Placed(wiring.gs, Perms(wiring), S)
  OBVIOUS
<1>3. IsFiniteSet(S)
  <2>1. IsFiniteSet(1 .. l) /\ IsFiniteSet(Index(nv))
    BY <1>1, FS_Interval, IndexFinite
  <2> QED BY <1>2, <2>1, FS_Product
<1>4. Keyed(S, k1) /\ Keyed(S, k2)
  BY <1>1, <1>2, PlacedType DEF Keyed
<1>5. ~ Alike(S, k1, S, k2, Field \X Field)
  BY <1>1, <1>2, AlikePermuted
<1>6. Cardinality(Agreeing(S, k1, k2)) <= P * Cardinality(S)
  BY <1>3, <1>4, <1>5, FewAgree
<1>7. ASSUME NEW b \in Field, NEW c \in Field
      PROVE  Equalises(wiring, b, c) <=> Lines(S, k1, S)[b][c] = Lines(S, k2, S)[b][c]
  <2>1. Total(Tagged(wiring.fs, Ids(wiring), b, c)) = FProd(Marked(S, Mark(b, c), k1))
    BY <1>1, <1>2, TaggedTotal
  <2>2. Total(Tagged(wiring.gs, Perms(wiring), b, c)) = FProd(Marked(S, Mark(b, c), k2))
    BY <1>1, <1>2, TaggedTotal
  <2>3. /\ Lines(S, k1, S)[b][c] = FProd(Marked(S, Mark(b, c), k1))
        /\ Lines(S, k2, S)[b][c] = FProd(Marked(S, Mark(b, c), k2))
    BY LinesTotal
  <2> QED BY <2>1, <2>2, <2>3 DEF Equalises, computer_nums_and_denoms
<1>8. {d \in Field \X Field : Equalises(wiring, d[1], d[2])} = Agreeing(S, k1, k2)
  BY <1>7 DEF Agreeing
<1> QED BY <1>1, <1>2, <1>6, <1>8

---------------------------------------------------------------------------
(* The invariant of PermutationCheck.                                      *)

PermInv ==
  /\ ProductInv
  /\ phase # "forge"
  /\ wiring \in Wirings /\ beta \in Field /\ gamma \in Field
  /\ phase \notin {"permute", "done"} => Matching /\ begun
  /\ phase # "permute" /\ Matching /\ begun => Wired /\ ~ forged
  /\ phase \in {"committed", "challenged"} => prod_x_evals # <<>>
  /\ phase = "done" /\ Matching /\ begun =>
       \/ result \in {"accept", "reject"} /\ prod_x_evals # <<>>
       \/ result = "InvalidParameters" /\ \E b \in Index(nv) : At(gxs, b) = 0
  /\ result = "accept" => phase = "done" /\ Matching /\ begun

LEMMA PermInvInit == PermInit => PermInv
<1>1. 0 \in Field
  BY FieldClosed
<1> QED BY <1>1, InvInit DEF PermInit, PermInv

\* The call ends before the lists are made.
LEMMA PermRefused ==
  ASSUME PermInv, RefuseWiring \/ RefuseTranscript
  PROVE  PermInv'
<1>1. /\ phase = "permute" /\ phase' = "done" /\ ~ (Matching /\ begun)
      /\ result' \in {"InvalidProof", "InvalidParameters", "InvalidTranscript"}
      /\ UNCHANGED <<fxs, gxs, forged, frac, prod_x_evals, alpha, permVars>>
  BY DEF RefuseWiring, RefuseTranscript
<1>2. ProductInv'
  <2>1. MleList(fxs') /\ MleList(gxs') /\ alpha' = alpha /\ prod_x_evals' = <<>>
    BY <1>1 DEF PermInv, ProductInv
  <2>2. result' \in Results \ {"accept"}
    BY <1>1 DEF Results
  <2> QED BY <1>1, <2>1, <2>2, InvEnded DEF PermInv
<1>3. wiring' = wiring /\ begun' = begun /\ beta' = beta /\ gamma' = gamma
  BY <1>1 DEF permVars
<1>4. Matching' = Matching
  BY <1>3 DEF Matching
<1> QED BY <1>1, <1>2, <1>3, <1>4 DEF PermInv

LEMMA PermPermute ==
  ASSUME PermInv, Permute
  PROVE  PermInv'
<1>1. /\ phase = "permute" /\ phase' = "prove" /\ Matching /\ begun
      /\ beta' \in Field /\ gamma' \in Field /\ wiring' = wiring /\ begun' = begun
      /\ fxs' = computer_nums_and_denoms(wiring, beta', gamma').nums
      /\ gxs' = computer_nums_and_denoms(wiring, beta', gamma').denoms
      /\ forged' = forged /\ prod_x_evals' = prod_x_evals /\ alpha' = alpha /\ result' = result
  BY ChallengesAssumption DEF Permute
<1>2. /\ ~ forged /\ prod_x_evals = <<>> /\ result = "none" /\ alpha \in Field
      /\ wiring \in Wirings
  BY <1>1 DEF PermInv, ProductInv
<1>3. Matching' /\ Wired'
  BY <1>1 DEF Matching, Wired
<1>4. MleList(fxs') /\ MleList(gxs')
  <2>1. PICK l \in Nat \ {0}, n \in Nat \ {0} :
          /\ Placing(wiring.fs, Ids(wiring), l, n) /\ Placing(wiring.gs, Perms(wiring), l, n)
    BY <1>1, <1>2, WiringFacts
  <2>2. PICK b \in Field, c \in Field : b = beta' /\ c = gamma'
    BY <1>1
  <2>3. /\ fxs' = Tagged(wiring.fs, Ids(wiring), b, c)
        /\ gxs' = Tagged(wiring.gs, Perms(wiring), b, c)
    BY <1>1, <2>2 DEF computer_nums_and_denoms
  <2> QED BY <2>1, <2>3, TaggedFacts DEF TagsOf
<1>5. ProductInv'
  <2>1. HonestVerdict'
    BY <1>1 DEF HonestVerdict
  <2>2. phase' \in Phases /\ result' \in Results
    BY <1>1, <1>2 DEF Phases, Results
  <2> QED BY <1>1, <1>2, <1>4, <2>1, <2>2 DEF ProductInv
<1> QED BY <1>1, <1>2, <1>3, <1>5 DEF PermInv

\* ProductCheck's steps leave the wiring and the lists as they are.
LEMMA PermKept ==
  ASSUME PermInv, UNCHANGED permVars, fxs' = fxs, gxs' = gxs
  PROVE  /\ wiring' = wiring /\ begun' = begun /\ beta' = beta /\ gamma' = gamma
         /\ Matching' = Matching /\ Wired' = Wired
         /\ (\E b \in Index(nv) : At(gxs, b) = 0)' = (\E b \in Index(nv) : At(gxs, b) = 0)
<1>1. wiring' = wiring /\ begun' = begun /\ beta' = beta /\ gamma' = gamma
  BY DEF permVars
<1> QED BY <1>1 DEF Matching, Wired, nv, At

\* What a step of ProductCheck does, seen from the wiring.
LEMMA PermStep ==
  ASSUME PermInv, Next
  PROVE  /\ phase \notin {"permute", "done", "forge"} /\ phase' \notin {"permute", "forge"}
         /\ fxs' = fxs /\ gxs' = gxs /\ forged' = forged
         /\ phase' \in {"committed", "challenged"} =>
              \/ phase \in {"committed", "challenged"} /\ prod_x_evals' = prod_x_evals
              \/ prod_x_evals' # <<>>
         /\ phase' = "done" =>
              \/ ~ Shapely
              \/ result' = "InvalidParameters" /\ \E b \in Index(nv) : At(gxs, b) = 0
              \/ result' = "ShouldNotArrive"
              \/ /\ result' \in {"accept", "reject"} /\ phase = "challenged"
                 /\ prod_x_evals' = prod_x_evals
<1>1. CASE Refuse
  BY <1>1 DEF Refuse
<1>2. CASE compute_frac_poly
  BY <1>2 DEF compute_frac_poly
<1>3. CASE PushProduct
  BY <1>3 DEF PushProduct
<1>4. CASE PushLast
  <2>1. phase = "pushing" /\ phase' = "committed" /\ prod_x_evals' = Append(prod_x_evals, 0)
    BY <1>4 DEF PushLast
  <2>2. prod_x_evals \in Seq(Field)
    BY <2>1 DEF PermInv, ProductInv
  <2>3. Append(prod_x_evals, 0) # <<>>
    <3>1. PICK v \in Field : v = 0
      BY FieldClosed
    <3>2. Len(Append(prod_x_evals, v)) = Len(prod_x_evals) + 1 /\ Len(prod_x_evals) \in Nat
      BY <2>2
    <3> QED BY <3>1, <3>2
  <2> QED BY <1>4, <2>1, <2>3 DEF PushLast
<1>5. CASE Forge
  BY <1>5 DEF Forge, PermInv
<1>6. CASE DrawAlpha
  BY <1>6 DEF DrawAlpha
<1>7. CASE Verify
  <2>1. phase = "challenged" /\ phase' = "done" /\ result' \in {"accept", "reject"}
    BY <1>7 DEF Verify
  <2> QED BY <1>7, <2>1 DEF Verify
<1> QED BY <1>1, <1>2, <1>3, <1>4, <1>5, <1>6, <1>7 DEF Next

LEMMA PermProduct ==
  ASSUME PermInv, Next, UNCHANGED permVars
  PROVE  PermInv'
<1>1. ProductInv'
  BY InvNext DEF PermInv
<1>2. /\ Matching /\ begun /\ Wired /\ ~ forged
      /\ wiring \in Wirings /\ beta \in Field /\ gamma \in Field
  BY PermStep DEF PermInv
<1>3. Shapely
  BY <1>2, WiredFacts
<1>4. result' # "ShouldNotArrive"
  BY <1>1 DEF ProductInv, Results
<1>5. phase \in {"committed", "challenged"} => prod_x_evals # <<>>
  BY DEF PermInv
<1>6. /\ wiring' = wiring /\ begun' = begun /\ beta' = beta /\ gamma' = gamma
      /\ Matching' = Matching /\ Wired' = Wired
      /\ (\E b \in Index(nv) : At(gxs, b) = 0)' = (\E b \in Index(nv) : At(gxs, b) = 0)
  BY PermStep, PermKept
<1>7. phase' \in {"committed", "challenged"} => prod_x_evals' # <<>>
  BY <1>5, PermStep
<1>8. phase' = "done" =>
        \/ result' \in {"accept", "reject"} /\ prod_x_evals' # <<>>
        \/ result' = "InvalidParameters" /\ \E b \in Index(nv) : At(gxs, b) = 0
  BY <1>3, <1>4, <1>5, PermStep
<1>9. phase' # "forge" /\ forged' = forged
  BY PermStep
<1>10. result' = "accept" => phase' = "done" /\ Matching' /\ begun'
  BY <1>1, <1>2, <1>6 DEF ProductInv
<1> QED BY <1>1, <1>2, <1>6, <1>7, <1>8, <1>9, <1>10 DEF PermInv

LEMMA PermStutter ==
  ASSUME PermInv, UNCHANGED allVars
  PROVE  PermInv'
<1>1. UNCHANGED vars /\ UNCHANGED permVars
  BY DEF allVars
<1>2. ProductInv'
  BY <1>1, InvStutter DEF PermInv
<1>3. /\ phase' = phase /\ result' = result /\ fxs' = fxs /\ gxs' = gxs /\ forged' = forged
      /\ prod_x_evals' = prod_x_evals
  BY <1>1 DEF vars
<1> QED BY <1>1, <1>2, <1>3, PermKept DEF PermInv

LEMMA PermInvAlways == PermSpec => []PermInv
<1>1. PermInit => PermInv
  BY PermInvInit
<1>2. PermInv /\ [PermNext]_allVars => PermInv'
  BY PermRefused, PermPermute, PermProduct, PermStutter DEF PermNext
<1> QED BY <1>1, <1>2, PTL DEF PermSpec

\* For any number of tables of any size and all challenges, values moved
\* along the permutation are accepted unless a denominator is zero
\* (PermutationCheck, PermutedAccepted).
THEOREM PermutedAcceptedAlways == PermSpec => []PermutedAccepted
<1>1. PermInv => PermutedAccepted
  <2> SUFFICES ASSUME PermInv, phase = "done", Matching, begun, IsPermuted(wiring)
               PROVE  \/ result = "accept"
                      \/ /\ result = "InvalidParameters"
                         /\ \E b \in Index(nv) : At(gxs, b) = 0
    BY DEF PermutedAccepted
  <2>1. Wired /\ ~ forged /\ wiring \in Wirings /\ beta \in Field /\ gamma \in Field /\ HonestVerdict
    BY DEF PermInv, ProductInv
  <2>2. Total(fxs) = Total(gxs)
    BY <2>1, PermutedEqual
  <2>3. prod_x_evals # <<>> => result = "accept"
    BY <2>1, <2>2 DEF HonestVerdict
  <2> QED BY <2>3 DEF PermInv
<1> QED BY <1>1, PermInvAlways, PTL

\* For any number of tables of any size and every field, values that were not
\* moved along the permutation are accepted only for challenges that make
\* the two products equal, and there are few of those
\* (PermutationCheck, NotPermutedNeedsLuck).
THEOREM NotPermutedNeedsLuckAlways == PermSpec => []NotPermutedNeedsLuck
<1>1. PermInv => NotPermutedNeedsLuck
  <2> SUFFICES ASSUME PermInv, result = "accept", Matching, ~ IsPermuted(wiring)
               PROVE  /\ Equalises(wiring, beta, gamma)
                      /\ Cardinality({d \in Field \X Field : Equalises(wiring, d[1], d[2])})
                           <= P * Cardinality(Slots(wiring))
    BY DEF NotPermutedNeedsLuck
  <2>1. phase = "done" /\ begun
    BY DEF PermInv
  <2>2. /\ Wired /\ ~ forged /\ wiring \in Wirings /\ beta \in Field /\ gamma \in Field
        /\ HonestVerdict /\ prod_x_evals # <<>>
    BY <2>1 DEF PermInv, ProductInv
  <2>3. Total(fxs) = Total(gxs)
    BY <2>1, <2>2 DEF HonestVerdict
  <2>4. Equalises(wiring, beta, gamma)
    BY <2>2, <2>3 DEF Wired, Equalises
  <2>5. nv = wiring.fs[1].num_vars
    BY <2>2, WiredFacts
  <2> QED BY <2>2, <2>4, <2>5, FewEqualise
<1> QED BY <1>1, PermInvAlways, PTL
=============================================================================
