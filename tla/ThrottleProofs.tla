---------------------------- MODULE ThrottleProofs ----------------------------
(***************************************************************************)
(* Proofs about Throttle, for any rows, clocks and limits.                 *)
(*                                                                         *)
(* Two things are compared all along: the arithmetic on the bytes of a     *)
(* text with the alphabetical order of texts, and the product over the     *)
(* parsed schedules with the product over the rows.  The product is a fold *)
(* over a set; it is unfolded once, into a function on the subsets of the  *)
(* set, and what is said of it is said of its smallest counterexample.     *)
(***************************************************************************)
EXTENDS Throttle, SequenceTheorems, FiniteSetTheorems, TLAPS

Texts == Seq(0 .. 255)

\* a row the table may hold
RowSound(row) ==
  /\ row.enabled \in BOOLEAN
  /\ row.start \in Texts /\ row.end \in Texts
  /\ row.mul.num \in Nat \ {0} /\ row.mul.den \in Nat \ {0}

ThrottleInv ==
  /\ DOMAIN table = Ids /\ \A i \in Ids : table[i] # NoRow => RowSound(table[i])
  /\ DOMAIN published \subseteq Ids /\ \A i \in DOMAIN published : RowSound(published[i])
  /\ snapshot = [i \in DOMAIN published |-> Parsed(published[i])]
  /\ clock \in Times

-----------------------------------------------------------------------------
(* Times.  A well-formed text is its four digits; the number parsed from it *)
(* and its place in the alphabet agree.                                     *)

\* Whatever a text holds, it is parsed as a minute of the day.
LEMMA ParsedIsMinute ==
  ASSUME NEW s \in Texts
  PROVE  ParseHHMM(s) \in 0 .. 1439
<1>1. CASE Len(s) # 5
  BY <1>1 DEF ParseHHMM
<1>2. CASE Len(s) = 5
  <2> DEFINE h == Digit(s[1]) * 10 + Digit(s[2])
             m == Digit(s[4]) * 10 + Digit(s[5])
  <2>1. s[1] \in 0 .. 255 /\ s[2] \in 0 .. 255 /\ s[4] \in 0 .. 255 /\ s[5] \in 0 .. 255
    <3>1. \A i \in 1 .. Len(s) : s[i] \in 0 .. 255
      BY ElementOfSeq DEF Texts
    <3>2. 1 \in 1 .. 5 /\ 2 \in 1 .. 5 /\ 4 \in 1 .. 5 /\ 5 \in 1 .. 5
      OBVIOUS
    <3>3. QED
      BY <1>2, <3>1, <3>2
  <2>2. \A b \in 0 .. 255 : Digit(b) \in Nat
    BY DEF Digit
  <2>3. Digit(s[1]) \in Nat /\ Digit(s[2]) \in Nat /\ Digit(s[4]) \in Nat /\ Digit(s[5]) \in Nat
    BY <2>1, <2>2
  <2>4. h \in Nat /\ m \in Nat
    BY <2>3
  <2>5. ParseHHMM(s) = IF h > 23 \/ m > 59 THEN 0 ELSE h * 60 + m
    BY <1>2 DEF ParseHHMM
  <2> HIDE DEF h, m
  <2>6. QED
    BY <2>4, <2>5
<1>3. QED
  BY <1>1, <1>2

\* A well-formed text is parsed as the minute its digits stand for.
LEMMA ParsedIsMeant ==
  ASSUME NEW s \in Texts, WellFormed(s)
  PROVE  /\ Len(s) = 5 /\ s = <<s[1], s[2], 58, s[4], s[5]>>
         /\ s[1] \in 48 .. 50 /\ s[2] \in 48 .. 57 /\ s[4] \in 48 .. 53 /\ s[5] \in 48 .. 57
         /\ s[1] = 50 => s[2] < 52
         /\ ParseHHMM(s) = ((s[1] - 48) * 10 + (s[2] - 48)) * 60
                           + (s[4] - 48) * 10 + (s[5] - 48)
<1>1. Len(s) = 5 /\ s[3] = 58
  BY DEF WellFormed
<1>2. s[1] \in 48 .. 57 /\ s[2] \in 48 .. 57 /\ s[4] \in 48 .. 57 /\ s[5] \in 48 .. 57
  BY DEF WellFormed, Digits
<1>3. (s[1] < 50 \/ (s[1] = 50 /\ s[2] < 52)) /\ s[4] < 54
  BY DEF WellFormed
<1>4. s = <<s[1], s[2], 58, s[4], s[5]>>
  BY <1>1 DEF Texts
<1>5. \A b \in 48 .. 57 : Digit(b) = b - 48
  BY DEF Digit
<1> DEFINE h == Digit(s[1]) * 10 + Digit(s[2])
           m == Digit(s[4]) * 10 + Digit(s[5])
<1>6. h = (s[1] - 48) * 10 + (s[2] - 48) /\ m = (s[4] - 48) * 10 + (s[5] - 48)
  BY <1>2, <1>5
<1>7. ParseHHMM(s) = IF h > 23 \/ m > 59 THEN 0 ELSE h * 60 + m
  BY <1>1 DEF ParseHHMM
<1> HIDE DEF h, m
<1>8. QED
  BY <1>1, <1>2, <1>3, <1>4, <1>6, <1>7

\* Digits are compared from the left.
LEMMA FromTheLeft ==
  ASSUME NEW a \in 0 .. 2, NEW b \in 0 .. 9, NEW c \in 0 .. 5, NEW d \in 0 .. 9,
         NEW e \in 0 .. 2, NEW f \in 0 .. 9, NEW g \in 0 .. 5, NEW h \in 0 .. 9
  PROVE  (a * 10 + b) * 60 + c * 10 + d <= (e * 10 + f) * 60 + g * 10 + h
         <=> \/ a < e
             \/ a = e /\ b < f
             \/ a = e /\ b = f /\ c < g
             \/ a = e /\ b = f /\ c = g /\ d <= h
  OBVIOUS

\* Of two well-formed times, the one that is not later is not later in the alphabet.
LEMMA OrderIsAlphabetical ==
  ASSUME NEW s \in Texts, NEW t \in Texts, WellFormed(s), WellFormed(t)
  PROVE  NotAfter(s, t) <=> ParseHHMM(s) <= ParseHHMM(t)
<1> DEFINE Before == \E i \in 1 .. 5 : s[i] < t[i] /\ \A j \in 1 .. (i - 1) : s[j] = t[j]
<1>1. Before <=> \/ s[1] < t[1]
                 \/ s[1] = t[1] /\ s[2] < t[2]
                 \/ s[1] = t[1] /\ s[2] = t[2] /\ s[4] < t[4]
                 \/ s[1] = t[1] /\ s[2] = t[2] /\ s[4] = t[4] /\ s[5] < t[5]
  <2>1. s[3] = 58 /\ t[3] = 58
    BY DEF WellFormed
  <2>2. Before <=> \/ s[1] < t[1] /\ \A j \in 1 .. 0 : s[j] = t[j]
                   \/ s[2] < t[2] /\ \A j \in 1 .. 1 : s[j] = t[j]
                   \/ s[3] < t[3] /\ \A j \in 1 .. 2 : s[j] = t[j]
                   \/ s[4] < t[4] /\ \A j \in 1 .. 3 : s[j] = t[j]
                   \/ s[5] < t[5] /\ \A j \in 1 .. 4 : s[j] = t[j]
    <3>1. 1 .. 5 = {1, 2, 3, 4, 5}
      OBVIOUS
    <3>2. QED
      BY <3>1
  <2>3. /\ 1 .. 0 = {} /\ 1 .. 1 = {1} /\ 1 .. 2 = {1, 2} /\ 1 .. 3 = {1, 2, 3}
        /\ 1 .. 4 = {1, 2, 3, 4}
    OBVIOUS
  <2> HIDE DEF Before
  <2>4. QED
    BY <2>1, <2>2, <2>3
<1>2. s = t <=> s[1] = t[1] /\ s[2] = t[2] /\ s[4] = t[4] /\ s[5] = t[5]
  BY ParsedIsMeant
<1>3. NotAfter(s, t) <=> s = t \/ Before
  BY DEF NotAfter
<1> HIDE DEF Before
<1>4. NotAfter(s, t) <=> \/ s[1] < t[1]
                         \/ s[1] = t[1] /\ s[2] < t[2]
                         \/ s[1] = t[1] /\ s[2] = t[2] /\ s[4] < t[4]
                         \/ s[1] = t[1] /\ s[2] = t[2] /\ s[4] = t[4] /\ s[5] <= t[5]
  BY <1>1, <1>2, <1>3, ParsedIsMeant
<1> DEFINE a == s[1] - 48
           b == s[2] - 48
           c == s[4] - 48
           d == s[5] - 48
           e == t[1] - 48
           f == t[2] - 48
           g == t[4] - 48
           h == t[5] - 48
<1>5. /\ a \in 0 .. 2 /\ b \in 0 .. 9 /\ c \in 0 .. 5 /\ d \in 0 .. 9
      /\ e \in 0 .. 2 /\ f \in 0 .. 9 /\ g \in 0 .. 5 /\ h \in 0 .. 9
  BY ParsedIsMeant
<1>6. /\ ParseHHMM(s) = (a * 10 + b) * 60 + c * 10 + d
      /\ ParseHHMM(t) = (e * 10 + f) * 60 + g * 10 + h
  BY ParsedIsMeant
<1>7. NotAfter(s, t) <=> \/ a < e
                         \/ a = e /\ b < f
                         \/ a = e /\ b = f /\ c < g
                         \/ a = e /\ b = f /\ c = g /\ d <= h
  BY <1>4, ParsedIsMeant
<1> HIDE DEF a, b, c, d, e, f, g, h
<1>8. QED
  BY <1>5, <1>6, <1>7, FromTheLeft

\* The minute of a clock is written as a well-formed text, and parsed from it again.
LEMMA TextIsParsed ==
  ASSUME NEW t \in Times
  PROVE  /\ TextOf(t.minute) \in Texts /\ WellFormed(TextOf(t.minute))
         /\ ParseHHMM(TextOf(t.minute)) = t.minute
<1> DEFINE minute == t.minute
           h == minute \div 60
           m == minute % 60
           a == 48 + (h \div 10)
           b == 48 + (h % 10)
           c == 48 + (m \div 10)
           d == 48 + (m % 10)
           text == <<a, b, 58, c, d>>
<1>1. h \in 0 .. 23 /\ m \in 0 .. 59 /\ minute = h * 60 + m
  <2>1. minute \in 0 .. 1439
    BY ThrottleAssumption
  <2> HIDE DEF minute
  <2>2. QED
    BY <2>1
<1> HIDE DEF h, m
<1>2. /\ a \in 48 .. 50 /\ b \in 48 .. 57 /\ c \in 48 .. 53 /\ d \in 48 .. 57
      /\ a = 50 => b < 52
      /\ h = (a - 48) * 10 + (b - 48) /\ m = (c - 48) * 10 + (d - 48)
  BY <1>1
<1>3. TextOf(t.minute) = text
  BY DEF TextOf, h, m
<1> HIDE DEF a, b, c, d, minute
<1>4. text \in Texts /\ Len(text) = 5
  BY <1>2 DEF Texts
<1>5. text[1] = a /\ text[2] = b /\ text[3] = 58 /\ text[4] = c /\ text[5] = d
  OBVIOUS
<1> HIDE DEF text
<1>6. WellFormed(text)
  BY <1>2, <1>4, <1>5 DEF WellFormed, Digits
<1>7. ParseHHMM(text) = minute
  <2>1. ParseHHMM(text) = ((a - 48) * 10 + (b - 48)) * 60 + (c - 48) * 10 + (d - 48)
    BY <1>4, <1>5, <1>6, ParsedIsMeant
  <2>2. QED
    BY <1>1, <1>2, <2>1
<1>8. QED
  BY <1>3, <1>4, <1>6, <1>7 DEF minute

-----------------------------------------------------------------------------
(* The product.  TLA+ takes the fold as any function that satisfies its     *)
(* equation on the subsets of a set: for a finite set there is one, and     *)
(* only one.                                                                *)

Some(s) == CHOOSE i \in s : TRUE

\* f is the product of the multipliers of rows, for every subset of S
Unfolds(f, rows, S) ==
  f = [s \in SUBSET S |-> IF s = {} THEN One
                          ELSE Times2(rows[Some(s)].mul, f[s \ {Some(s)}])]

\* Of some subsets of a finite set, one has none of the others in it.
LEMMA SmallestSubset ==
  ASSUME NEW S, IsFiniteSet(S), NEW F \in SUBSET (SUBSET S), F # {}
  PROVE  \E T \in F : \A U \in F : U \subseteq T => U = T
<1>1. IsWellFoundedOn(StrictSubsetOrdering(S), SUBSET S)
  BY FS_StrictSubsetOrderingWellFounded, FS_FiniteSubsetsOfFinite
<1>2. \E T \in F : \A U \in F : ~(<<U, T>> \in StrictSubsetOrdering(S))
  BY <1>1, WFMin
<1>3. QED
  BY <1>2 DEF StrictSubsetOrdering

\* The smallest of a nonempty set is left without one of its elements.
LEMMA SomeRemoved ==
  ASSUME NEW s, s # {}
  PROVE  Some(s) \in s /\ s \ {Some(s)} \subseteq s /\ s \ {Some(s)} # s
  BY DEF Some

\* Two products of the same rows agree where both are defined.
LEMMA UnfoldsAgree ==
  ASSUME NEW rows, NEW S, NEW T, IsFiniteSet(S), NEW f, NEW g,
         Unfolds(f, rows, S), Unfolds(g, rows, T)
  PROVE  \A V \in SUBSET (S \cap T) : f[V] = g[V]
<1> DEFINE Bad == {V \in SUBSET (S \cap T) : f[V] # g[V]}
<1>1. ASSUME Bad # {} PROVE FALSE
  <2>1. PICK V \in Bad : \A U \in Bad : U \subseteq V => U = V
    <3>1. Bad \in SUBSET (SUBSET S)
      OBVIOUS
    <3> HIDE DEF Bad
    <3>2. QED
      BY <1>1, <3>1, SmallestSubset
  <2>2. V \in SUBSET S /\ V \in SUBSET T
    BY <2>1
  <2>3. CASE V = {}
    BY <2>1, <2>2, <2>3 DEF Unfolds
  <2>4. CASE V # {}
    <3> DEFINE U == V \ {Some(V)}
    <3>1. U \subseteq V /\ U # V
      BY <2>4, SomeRemoved
    <3>2. f[U] = g[U]
      BY <2>1, <2>2, <3>1
    <3>3. f[V] = Times2(rows[Some(V)].mul, f[U]) /\ g[V] = Times2(rows[Some(V)].mul, g[U])
      BY <2>2, <2>4 DEF Unfolds
    <3>4. QED
      BY <2>1, <3>2, <3>3
  <2>5. QED
    BY <2>3, <2>4
<1>2. QED
  BY <1>1

\* A finite set has a product.
LEMMA UnfoldsExists ==
  ASSUME NEW rows, NEW S, IsFiniteSet(S)
  PROVE  \E f : Unfolds(f, rows, S)
<1> DEFINE Bad == {T \in SUBSET S : ~ \E f : Unfolds(f, rows, T)}
<1>1. ASSUME Bad # {} PROVE FALSE
  <2>1. PICK T \in Bad : \A U \in Bad : U \subseteq T => U = T
    <3>1. Bad \in SUBSET (SUBSET S)
      OBVIOUS
    <3> HIDE DEF Bad
    <3>2. QED
      BY <1>1, <3>1, SmallestSubset
  <2> DEFINE F(U) == (CHOOSE f : Unfolds(f, rows, U))
             g == [s \in SUBSET T |-> IF s = {} THEN One
                     ELSE Times2(rows[Some(s)].mul, F(s \ {Some(s)})[s \ {Some(s)}])]
  <2>2. \A U \in SUBSET T : U # T => Unfolds(F(U), rows, U) /\ IsFiniteSet(U)
    <3>1. T \in SUBSET S
      BY <2>1
    <3>2. SUFFICES ASSUME NEW U \in SUBSET T, U # T
                   PROVE  Unfolds(F(U), rows, U) /\ IsFiniteSet(U)
      OBVIOUS
    <3>3. \E f : Unfolds(f, rows, U)
      BY <2>1, <3>1, <3>2
    <3>4. QED
      BY <3>1, <3>3, FS_Subset
  <2>3. \A s \in SUBSET T : g[s] = IF s = {} THEN One
          ELSE Times2(rows[Some(s)].mul, F(s \ {Some(s)})[s \ {Some(s)}])
    OBVIOUS
  <2> HIDE DEF F
  <2>4. ASSUME NEW U \in SUBSET T, U # T PROVE g[U] = F(U)[U]
    <3>1. F(U)[U] = IF U = {} THEN One
                    ELSE Times2(rows[Some(U)].mul, F(U)[U \ {Some(U)}])
      BY <2>2, <2>4 DEF Unfolds
    <3>2. ASSUME U # {} PROVE F(U)[U \ {Some(U)}] = F(U \ {Some(U)})[U \ {Some(U)}]
      <4> DEFINE W == U \ {Some(U)}
      <4>1. W \in SUBSET T /\ W # T /\ W \in SUBSET (U \cap W)
        BY <2>4, <3>2, SomeRemoved
      <4>2. Unfolds(F(U), rows, U) /\ Unfolds(F(W), rows, W) /\ IsFiniteSet(U)
        BY <2>2, <2>4, <4>1
      <4> HIDE DEF W
      <4>3. F(U)[W] = F(W)[W]
        BY <4>1, <4>2, UnfoldsAgree
      <4>4. QED
        BY <4>3 DEF W
    <3>3. QED
      BY <2>3, <3>1, <3>2
  <2>5. ASSUME NEW s \in SUBSET T
        PROVE  g[s] = IF s = {} THEN One ELSE Times2(rows[Some(s)].mul, g[s \ {Some(s)}])
    <3>1. CASE s = {}
      BY <2>3, <3>1
    <3>2. CASE s # {}
      <4>1. s \ {Some(s)} \in SUBSET T /\ s \ {Some(s)} # T
        BY <3>2, SomeRemoved
      <4>2. QED
        BY <2>3, <2>4, <3>2, <4>1
    <3>3. QED
      BY <3>1, <3>2
  <2>6. g = [s \in SUBSET T |-> g[s]]
    OBVIOUS
  <2> HIDE DEF g
  <2>7. Unfolds(g, rows, T)
    BY <2>5, <2>6 DEF Unfolds
  <2>8. QED
    BY <2>1, <2>7
<1>2. S \notin Bad
  BY <1>1
<1>3. QED
  BY <1>2

\* The equation of the product.
LEMMA ProductEquation ==
  ASSUME NEW rows, NEW S, IsFiniteSet(S)
  PROVE  Product(rows, S) =
           IF S = {} THEN One
           ELSE Times2(rows[Some(S)].mul, Product(rows, S \ {Some(S)}))
<1> DEFINE F(T) == CHOOSE f : Unfolds(f, rows, T)
<1>1. ASSUME NEW T, IsFiniteSet(T) PROVE Unfolds(F(T), rows, T) /\ Product(rows, T) = F(T)[T]
  <2>1. Unfolds(F(T), rows, T)
    BY <1>1, UnfoldsExists
  <2>2. Product(rows, T) = F(T)[T]
    BY DEF Product, FoldSet, MapThenFoldSet, Unfolds, Some
  <2>3. QED
    BY <2>1, <2>2
<1> HIDE DEF F
<1>2. CASE S = {}
  BY <1>1, <1>2 DEF Unfolds
<1>3. CASE S # {}
  <2> DEFINE T == S \ {Some(S)}
  <2>1. IsFiniteSet(T) /\ T \in SUBSET S /\ T \in SUBSET (S \cap T)
    BY <1>3, SomeRemoved, FS_Subset
  <2>2. F(S)[S] = Times2(rows[Some(S)].mul, F(S)[T])
    BY <1>1, <1>3 DEF Unfolds
  <2> HIDE DEF T
  <2>3. Unfolds(F(S), rows, S) /\ Unfolds(F(T), rows, T)
    BY <1>1, <2>1
  <2>4. F(S)[T] = F(T)[T]
    BY <2>1, <2>3, UnfoldsAgree
  <2>5. QED
    BY <1>1, <1>3, <2>1, <2>2, <2>4 DEF T
<1>4. QED
  BY <1>2, <1>3

\* The product is one of the multipliers and of nothing else.
LEMMA SameProduct ==
  ASSUME NEW rows, NEW scs, NEW S, IsFiniteSet(S), \A i \in S : rows[i].mul = scs[i].mul
  PROVE  Product(rows, S) = Product(scs, S)
<1> DEFINE Bad == {T \in SUBSET S : Product(rows, T) # Product(scs, T)}
<1>1. ASSUME Bad # {} PROVE FALSE
  <2>1. PICK T \in Bad : \A U \in Bad : U \subseteq T => U = T
    <3>1. Bad \in SUBSET (SUBSET S)
      OBVIOUS
    <3> HIDE DEF Bad
    <3>2. QED
      BY <1>1, <3>1, SmallestSubset
  <2>2. T \in SUBSET S /\ IsFiniteSet(T)
    BY <2>1, FS_Subset
  <2>3. CASE T = {}
    BY <2>1, <2>2, <2>3, ProductEquation
  <2>4. CASE T # {}
    <3> DEFINE U == T \ {Some(T)}
    <3>1. U \subseteq T /\ U # T /\ Some(T) \in S
      BY <2>2, <2>4, SomeRemoved
    <3>2. Product(rows, U) = Product(scs, U)
      BY <2>1, <2>2, <3>1
    <3>3. /\ Product(rows, T) = Times2(rows[Some(T)].mul, Product(rows, U))
          /\ Product(scs, T) = Times2(scs[Some(T)].mul, Product(scs, U))
      BY <2>2, <2>4, ProductEquation
    <3>4. QED
      BY <2>1, <3>1, <3>2, <3>3
  <2>5. QED
    BY <2>3, <2>4
<1>2. QED
  BY <1>1

\* Positive fractions have a positive product.
Positive(m) == m.num \in Nat \ {0} /\ m.den \in Nat \ {0}

\* Larger factors have the larger product.
LEMMA FactorsBound ==
  ASSUME NEW a \in Nat \ {0}, NEW b \in Nat \ {0}, NEW c \in Nat \ {0}, NEW d \in Nat \ {0}
  PROVE  a * b \in Nat \ {0} /\ (a <= c /\ b <= d => a * b <= c * d)
<1>1. a * b \in Nat \ {0}
  OBVIOUS
<1>2. ASSUME a <= c, b <= d PROVE a * b <= c * d
  <2>1. a * b <= c * b
    BY <1>2
  <2>2. c * b <= c * d
    BY <1>2
  <2>3. a * b \in Nat /\ c * b \in Nat /\ c * d \in Nat
    OBVIOUS
  <2>4. QED
    BY <2>1, <2>2, <2>3
<1>3. QED
  BY <1>1, <1>2

\* A product of positive fractions is one, and a product of fractions that are at
\* most one is at most one.
LEMMA ProductBounds ==
  ASSUME NEW scs, NEW S, IsFiniteSet(S), \A i \in S : Positive(scs[i].mul)
  PROVE  /\ Positive(Product(scs, S))
         /\ (\A i \in S : scs[i].mul.num <= scs[i].mul.den)
              => Product(scs, S).num <= Product(scs, S).den
<1> DEFINE Small == \A i \in S : scs[i].mul.num <= scs[i].mul.den
           Good(m) == Positive(m) /\ (Small => m.num <= m.den)
           Bad == {T \in SUBSET S : ~Good(Product(scs, T))}
<1>1. Good(One)
  BY DEF One, Positive
<1>2. ASSUME NEW i \in S, NEW m, Good(m) PROVE Good(Times2(scs[i].mul, m))
  <2> DEFINE x == scs[i].mul
             y == Times2(x, m)
  <2>1. y.num = x.num * m.num /\ y.den = x.den * m.den
    BY DEF Times2
  <2>2. Positive(x) /\ (Small => x.num <= x.den)
    OBVIOUS
  <2> HIDE DEF x, y, Small
  <2>3. /\ x.num * m.num \in Nat \ {0} /\ x.den * m.den \in Nat \ {0}
        /\ Small => x.num * m.num <= x.den * m.den
    BY <1>2, <2>2, FactorsBound DEF Positive
  <2>4. Good(y)
    BY <2>1, <2>3 DEF Positive
  <2>5. QED
    BY <2>4 DEF x, y
<1> HIDE DEF Good
<1>3. ASSUME Bad # {} PROVE FALSE
  <2>1. PICK T \in Bad : \A U \in Bad : U \subseteq T => U = T
    <3>1. Bad \in SUBSET (SUBSET S)
      OBVIOUS
    <3> HIDE DEF Bad
    <3>2. QED
      BY <1>3, <3>1, SmallestSubset
  <2>2. T \in SUBSET S /\ IsFiniteSet(T)
    BY <2>1, FS_Subset
  <2>3. CASE T = {}
    BY <1>1, <2>1, <2>2, <2>3, ProductEquation
  <2>4. CASE T # {}
    <3> DEFINE U == T \ {Some(T)}
    <3>1. U \subseteq T /\ U # T /\ Some(T) \in S
      BY <2>2, <2>4, SomeRemoved
    <3>2. Good(Product(scs, U))
      BY <2>1, <2>2, <3>1
    <3>3. Product(scs, T) = Times2(scs[Some(T)].mul, Product(scs, U))
      BY <2>2, <2>4, ProductEquation
    <3>4. QED
      BY <1>2, <2>1, <3>1, <3>2, <3>3
  <2>5. QED
    BY <2>3, <2>4
<1>4. Good(Product(scs, S))
  BY <1>3
<1>5. QED
  BY <1>4 DEF Good

-----------------------------------------------------------------------------
(* The invariant holds at first and is kept by every action.               *)

\* What the handlers write is a row the table may hold.
LEMMA WrittenSound ==
  ASSUME NEW q \in Requests
  PROVE  RowSound(Normalised(q)) /\ RowSound(Created(q))
<1>1. /\ q.mul.num \in Int /\ q.mul.den \in Nat \ {0} /\ q.enabled \in BOOLEAN
      /\ q.start \in Texts /\ q.end \in Texts
  BY ThrottleAssumption DEF Texts
<1>2. <<48, 48, 58, 48, 48>> \in Texts /\ <<50, 51, 58, 53, 57>> \in Texts
  BY DEF Texts
<1>3. RowSound(Normalised(q))
  BY <1>1, <1>2 DEF Normalised, RowSound, One
<1> DEFINE n == Normalised(q)
<1>4. /\ Created(q).start = n.start /\ Created(q).end = n.end /\ Created(q).mul = n.mul
      /\ Created(q).enabled = TRUE
  BY DEF Created, Normalised
<1>5. QED
  BY <1>3, <1>4 DEF RowSound

\* An admin write keeps the invariant, if it leaves sound rows in the table.
LEMMA AdminInv ==
  ASSUME ThrottleInv, NEW rows, DOMAIN rows = Ids,
         \A i \in Ids : rows[i] # NoRow => RowSound(rows[i]), Admin(rows)
  PROVE  ThrottleInv'
<1>1. DOMAIN table' = Ids /\ \A i \in Ids : table'[i] # NoRow => RowSound(table'[i])
  BY DEF Admin
<1>2. clock' \in Times
  BY DEF Admin, ThrottleInv
<1>3. /\ DOMAIN published' \subseteq Ids /\ \A i \in DOMAIN published' : RowSound(published'[i])
      /\ snapshot' = [i \in DOMAIN published' |-> Parsed(published'[i])]
  <2>1. CASE UNCHANGED <<published, snapshot>>
    BY <2>1 DEF ThrottleInv
  <2>2. CASE /\ published' = [i \in Live(rows) |-> rows[i]]
             /\ snapshot' = [i \in Live(rows) |-> Parsed(rows[i])]
    BY <2>2 DEF Live
  <2>3. QED
    BY <2>1, <2>2 DEF Admin, Reload
<1>4. QED
  BY <1>1, <1>2, <1>3 DEF ThrottleInv

\* The invariant holds of an empty table.
LEMMA InitInv == Init => ThrottleInv
  BY DEF Init, ThrottleInv

\* The invariant is kept by every step.
LEMMA NextInv == ThrottleInv /\ [Next]_vars => ThrottleInv'
<1> SUFFICES ASSUME ThrottleInv, [Next]_vars PROVE ThrottleInv'
  OBVIOUS
<1>1. ASSUME NEW i \in Ids, NEW q \in Requests, CreateSchedule(i, q) PROVE ThrottleInv'
  <2> DEFINE rows == [table EXCEPT ![i] = Created(q)]
  <2>1. DOMAIN rows = Ids /\ \A j \in Ids : rows[j] # NoRow => RowSound(rows[j])
    BY WrittenSound DEF ThrottleInv
  <2>2. Admin(rows)
    BY <1>1 DEF CreateSchedule
  <2> HIDE DEF rows
  <2>3. QED
    BY <2>1, <2>2, AdminInv
<1>2. ASSUME NEW i \in Ids, NEW q \in Requests, UpdateSchedule(i, q) PROVE ThrottleInv'
  <2> DEFINE rows == IF table[i] = NoRow THEN table ELSE [table EXCEPT ![i] = Normalised(q)]
  <2>1. DOMAIN rows = Ids /\ \A j \in Ids : rows[j] # NoRow => RowSound(rows[j])
    BY WrittenSound DEF ThrottleInv
  <2>2. Admin(rows)
    BY <1>2 DEF UpdateSchedule
  <2> HIDE DEF rows
  <2>3. QED
    BY <2>1, <2>2, AdminInv
<1>3. ASSUME NEW i \in Ids, DeleteSchedule(i) PROVE ThrottleInv'
  <2> DEFINE rows == [table EXCEPT ![i] = NoRow]
  <2>1. DOMAIN rows = Ids /\ \A j \in Ids : rows[j] # NoRow => RowSound(rows[j])
    BY DEF ThrottleInv
  <2>2. Admin(rows)
    BY <1>3 DEF DeleteSchedule
  <2> HIDE DEF rows
  <2>3. QED
    BY <2>1, <2>2, AdminInv
<1>4. ASSUME NEW is \in SUBSET Ids, NEW f \in [is -> Requests], Import(f) PROVE ThrottleInv'
  <2> DEFINE rows == [i \in Ids |-> IF i \in DOMAIN f THEN Created(f[i]) ELSE NoRow]
  <2>1. DOMAIN rows = Ids /\ \A j \in Ids : rows[j] # NoRow => RowSound(rows[j])
    BY WrittenSound
  <2>2. Admin(rows)
    BY <1>4 DEF Import
  <2> HIDE DEF rows
  <2>3. QED
    BY <2>1, <2>2, AdminInv
<1>5. CASE Clock
  BY <1>5 DEF Clock, ThrottleInv
<1>6. CASE UNCHANGED vars
  BY <1>6 DEF vars, ThrottleInv
<1>7. QED
  BY <1>1, <1>2, <1>3, <1>4, <1>5, <1>6 DEF Next

\* The snapshot is what the rows it was made of say, and they are rows a handler
\* wrote.
THEOREM InductiveInvariant == Spec => []ThrottleInv
  BY InitInv, NextInv, PTL DEF Spec

-----------------------------------------------------------------------------
(* The limit.                                                               *)

\* A share of at most one of a limit is at most the limit, and it is nothing only
\* if it is less than one whole.
LEMMA ShareOfLimit ==
  ASSUME NEW max \in Nat \ {0}, NEW num \in Nat \ {0}, NEW den \in Nat \ {0}, num <= den
  PROVE  /\ (max * num) \div den <= max
         /\ (max * num) \div den = 0 => max * num < den
<1> DEFINE x == max * num
           q == x \div den
<1>1. x \in Nat /\ x <= max * den
  <2>1. x \in Nat /\ max * den \in Nat
    OBVIOUS
  <2>2. max * num <= max * den
    OBVIOUS
  <2>3. QED
    BY <2>1, <2>2
<1> HIDE DEF x
<1>2. q \in Nat /\ q * den <= x /\ x < (q + 1) * den
  BY <1>1
<1> HIDE DEF q
<1>3. ASSUME q > max PROVE FALSE
  <2>1. (max + 1) * den <= q * den
    BY <1>2, <1>3
  <2>2. (max + 1) * den = max * den + den
    OBVIOUS
  <2>3. max * den \in Nat /\ q * den \in Nat
    BY <1>2
  <2>4. QED
    BY <1>1, <1>2, <2>1, <2>2, <2>3
<1>4. q = 0 => x < den
  BY <1>2
<1>5. q <= max
  BY <1>2, <1>3
<1>6. QED
  BY <1>4, <1>5 DEF q, x

\* What a reload made of a row.
LEMMA SnapshotSound ==
  ASSUME ThrottleInv
  PROVE  /\ DOMAIN snapshot = DOMAIN published /\ DOMAIN snapshot \subseteq Ids
         /\ \A i \in DOMAIN snapshot :
              /\ RowSound(published[i]) /\ snapshot[i] = Parsed(published[i])
              /\ snapshot[i].mul = published[i].mul /\ Positive(snapshot[i].mul)
  BY DEF ThrottleInv, Parsed, RowSound, Positive

-----------------------------------------------------------------------------
(* The theorems.                                                           *)

\* TypeOK: whatever the texts hold, a snapshot has minutes of the day, weekdays and
\* positive multipliers.
THEOREM TypeCorrect == Spec => []TypeOK
<1>1. ThrottleInv => TypeOK
  <2> SUFFICES ASSUME ThrottleInv, NEW i \in DOMAIN snapshot
               PROVE  /\ snapshot[i].start \in 0 .. 1439 /\ snapshot[i].end \in 0 .. 1439
                      /\ snapshot[i].days \subseteq 1 .. 7 /\ snapshot[i].mul.num > 0
    BY SnapshotSound DEF TypeOK
  <2>1. snapshot[i] = Parsed(published[i]) /\ RowSound(published[i])
    BY SnapshotSound
  <2>2. ParseHHMM(published[i].start) \in 0 .. 1439 /\ ParseHHMM(published[i].end) \in 0 .. 1439
    BY <2>1, ParsedIsMinute DEF RowSound
  <2>3. QED
    BY <2>1, <2>2 DEF Parsed, RowSound
<1>2. QED
  BY <1>1, InductiveInvariant, PTL

\* MultiplierAsWritten: the multiplier in force is the product over exactly the rows
\* between whose two texts the clock stands.
THEOREM MultiplierAsWrittenHolds == Spec => []MultiplierAsWritten
<1>1. ThrottleInv => MultiplierAsWritten
  <2> DEFINE text == TextOf(clock.minute)
             on == {i \in DOMAIN published :
                      /\ published[i].enabled /\ clock.day \in published[i].mask
                      /\ NotAfter(published[i].start, text) /\ NotAfter(text, published[i].end)}
             active == {i \in DOMAIN snapshot : Active(snapshot[i], clock)}
  <2> SUFFICES ASSUME ThrottleInv,
                      \A i \in DOMAIN published :
                        WellFormed(published[i].start) /\ WellFormed(published[i].end)
               PROVE  Product(snapshot, active) = Product(published, on)
    BY DEF MultiplierAsWritten, ScheduleMultiplier
  <2>1. clock.day \in 1 .. 7 /\ clock.minute \in 0 .. 1439
    BY ThrottleAssumption DEF ThrottleInv
  <2>2. text \in Texts /\ WellFormed(text) /\ ParseHHMM(text) = clock.minute
    <3>1. clock \in Times
      BY DEF ThrottleInv
    <3>2. QED
      BY <3>1, TextIsParsed
  <2> HIDE DEF text
  <2>3. ASSUME NEW i \in DOMAIN published
        PROVE  Active(snapshot[i], clock)
                 <=> /\ published[i].enabled /\ clock.day \in published[i].mask
                     /\ NotAfter(published[i].start, text) /\ NotAfter(text, published[i].end)
    <3> DEFINE row == published[i]
    <3>1. /\ snapshot[i] = Parsed(row) /\ RowSound(row)
          /\ WellFormed(row.start) /\ WellFormed(row.end)
      BY <2>3, SnapshotSound
    <3> HIDE DEF row
    <3>2. /\ NotAfter(row.start, text) <=> ParseHHMM(row.start) <= clock.minute
          /\ NotAfter(text, row.end) <=> clock.minute <= ParseHHMM(row.end)
      BY <2>2, <3>1, OrderIsAlphabetical DEF RowSound
    <3>3. ParseHHMM(row.start) \in 0 .. 1439 /\ ParseHHMM(row.end) \in 0 .. 1439
      BY <3>1, ParsedIsMinute DEF RowSound
    <3>4. Active(Parsed(row), clock)
            <=> /\ row.enabled /\ clock.day \in row.mask
                /\ ParseHHMM(row.start) <= clock.minute /\ clock.minute <= ParseHHMM(row.end)
      <4>1. Active(Parsed(row), clock)
              <=> /\ row.enabled /\ clock.day \in row.mask \cap (1 .. 7)
                  /\ clock.minute >= ParseHHMM(row.start) /\ clock.minute <= ParseHHMM(row.end)
        BY DEF Active, Parsed
      <4>2. QED
        BY <2>1, <3>3, <4>1
    <3>5. QED
      BY <3>1, <3>2, <3>4 DEF row
  <2>4. active = on
    BY <2>3, SnapshotSound
  <2>5. IsFiniteSet(on) /\ \A i \in on : snapshot[i].mul = published[i].mul
    <3>1. on \in SUBSET Ids
      BY SnapshotSound
    <3>2. \A i \in on : snapshot[i].mul = published[i].mul
      BY SnapshotSound
    <3> HIDE DEF on
    <3>3. QED
      BY <3>1, <3>2, ThrottleAssumption, FS_Subset
  <2> HIDE DEF on, active
  <2>6. QED
    BY <2>4, <2>5, SameProduct
<1>2. QED
  BY <1>1, InductiveInvariant, PTL

\* ThrottledWithinLimit: schedules that only throttle never raise a limit, and take
\* it away only if less than one request or token of it is left.
THEOREM ThrottledWithinLimitHolds == Spec => []ThrottledWithinLimit
<1>1. ThrottleInv => ThrottledWithinLimit
  <2> DEFINE active == {i \in DOMAIN snapshot : Active(snapshot[i], clock)}
             mul == Product(snapshot, active)
  <2> SUFFICES ASSUME ThrottleInv, Throttling, NEW max \in Limits, max > 0
               PROVE  /\ Effective(max, mul) <= max
                      /\ Effective(max, mul) = 0 => max * mul.num < mul.den
    BY DEF ThrottledWithinLimit, ScheduleMultiplier
  <2>1. IsFiniteSet(active)
    <3>1. active \in SUBSET Ids
      BY SnapshotSound
    <3> HIDE DEF active
    <3>2. QED
      BY <3>1, ThrottleAssumption, FS_Subset
  <2>2. \A i \in active : /\ Positive(snapshot[i].mul)
                          /\ snapshot[i].mul.num <= snapshot[i].mul.den
    BY SnapshotSound DEF Throttling
  <2> HIDE DEF active
  <2>3. Positive(mul) /\ mul.num <= mul.den
    BY <2>1, <2>2, ProductBounds
  <2> HIDE DEF mul
  <2>4. max \in Nat \ {0}
    BY ThrottleAssumption
  <2>5. Effective(max, mul) = (max * mul.num) \div mul.den
    BY <2>4 DEF Effective
  <2>6. QED
    BY <2>3, <2>4, <2>5, ShareOfLimit DEF Positive
<1>2. QED
  BY <1>1, InductiveInvariant, PTL
===============================================================================
