---------------------------- MODULE Lexer_proofs ----------------------------
(***************************************************************************)
(* The tokens and the places of the lexer, for every text.                 *)
(*                                                                         *)
(* The counters are tied to the newlines before the cursor, and the loops  *)
(* of the lexer to the modes of the reference: the cursor is outside       *)
(* comments in one loop and inside a block comment in the other.           *)
(***************************************************************************)
EXTENDS Lexer, NaturalsInduction, WellFoundedInduction, FiniteSetTheorems,
        SequenceTheorems, TLAPS

\* ---- natural numbers ----

\* Every nonempty set of natural numbers has a least element.
LEMMA Least ==
    ASSUME NEW T, T \subseteq Nat, T # {}
    PROVE  \E m \in T : \A k \in T : m <= k
<1> DEFINE R == OpToRel(<, Nat)
<1>1. IsWellFoundedOn(R, Nat)
  BY NatLessThanWellFounded
<1>2. \A a, b \in Nat : a < b => <<a, b>> \in R
  BY DEF OpToRel
<1> HIDE DEF R
<1>3. PICK m \in T : \A y \in T : ~(<<y, m>> \in R)
  BY <1>1, WFMin
<1>4. \A k \in T : k \in Nat /\ m \in Nat /\ ~(k < m)
  BY <1>2, <1>3, Zenon
<1>5. \A k \in T : m <= k
  BY <1>4
<1> QED BY <1>5

\* The induction theorems of the library take a predicate; Induction takes a set,
\* which the provers can instantiate: the set of the numbers with the property.

\* A set with 0 and the successors of its members has every natural number.
LEMMA Induction ==
    ASSUME NEW T, 0 \in T, \A n \in Nat : n \in T => n + 1 \in T
    PROVE  Nat \subseteq T
<1> SUFFICES ASSUME Nat \ T # {} PROVE FALSE
  OBVIOUS
<1>1. PICK m \in Nat \ T : \A k \in Nat \ T : m <= k
  BY Least
<1>2. m # 0
  OBVIOUS
<1>3. m - 1 \in Nat /\ ~(m <= m - 1)
  BY <1>2
<1>4. m - 1 \in T
  BY <1>1, <1>3
<1> QED BY <1>3, <1>4

\* ---- places ----

\* The newlines of the text t before position p.
Before(t, p) == {i \in 1 .. p - 1 : t[i] = NL}

\* The counters of l, in the text t, are those of its position: the column counts from the last
\* newline, if there is one.
OnColumn(t, l) ==
    \/ Before(t, l.curr) = {} /\ l.column = l.curr
    \/ \E m \in Before(t, l.curr) :
          (\A i \in Before(t, l.curr) : i <= m) /\ l.column = l.curr - m + 1

Placed(t, l) ==
    /\ l \in [curr : 1 .. Len(t) + 1, line : Nat, column : Int]
    /\ l.line = 1 + Cardinality(Before(t, l.curr))
    /\ OnColumn(t, l)

\* The least element of a set of numbers.
LEMMA MinOf ==
    ASSUME NEW S, S \subseteq Nat, S # {}
    PROVE  Min(S) \in S /\ \A y \in S : Min(S) <= y
<1>1. \E x \in S : \A y \in S : x <= y
  BY Least
<1> QED BY <1>1 DEF Min

\* Where a loop over the characters of a class stops.
LEMMA RunEndOf ==
    ASSUME Len(text) \in Nat, NEW p \in 1 .. End, NEW Class
    PROVE  LET q == RunEnd(p, Class) IN
           /\ q \in p .. End /\ q \in Nat
           /\ \A i \in p .. q - 1 : text[i] \in Class
           /\ q < End => text[q] \notin Class
<1> DEFINE S == {q \in p .. End : q = End \/ text[q] \notin Class}
           q == RunEnd(p, Class)
<1>1. End \in Nat
  BY DEF End
<1>2. S \subseteq Nat /\ End \in S
  BY <1>1
<1>3. q \in S /\ \A y \in S : q <= y
  <2> HIDE DEF S
  <2>1. Min(S) \in S /\ \A y \in S : Min(S) <= y
    BY <1>2, MinOf
  <2> QED BY <2>1 DEF RunEnd, S
<1> HIDE DEF q
<1>4. q \in p .. End /\ q \in Nat /\ (q = End \/ text[q] \notin Class)
  BY <1>1, <1>3
<1>5. ASSUME NEW i \in p .. q - 1 PROVE text[i] \in Class
  <2>1. i \in p .. End /\ ~(q <= i)
    BY <1>1, <1>4
  <2>2. i \notin S
    BY <1>3, <2>1
  <2> QED BY <2>1, <2>2
<1>6. q < End => q # End
  BY <1>1, <1>4
<1> QED BY <1>4, <1>5, <1>6 DEF q

\* Where a comment up to the end of its line stops.
LEMMA LineEndOf ==
    ASSUME Len(text) \in Nat, NEW p \in 1 .. End
    PROVE  LET q == Min({i \in p .. End : i = End \/ text[i] = NL}) IN
           /\ q \in p .. End /\ q \in Nat
           /\ \A i \in p .. q - 1 : text[i] # NL
           /\ q = End \/ text[q] = NL
<1> DEFINE S == {i \in p .. End : i = End \/ text[i] = NL}
           q == Min(S)
<1>1. End \in Nat
  BY DEF End
<1>2. S \subseteq Nat /\ End \in S
  BY <1>1
<1>3. q \in S /\ \A y \in S : q <= y
  <2> HIDE DEF S
  <2> QED BY <1>2, MinOf
<1> HIDE DEF q
<1>4. q \in p .. End /\ q \in Nat /\ (q = End \/ text[q] = NL)
  BY <1>1, <1>3
<1>5. ASSUME NEW i \in p .. q - 1 PROVE text[i] # NL
  <2>1. i \in p .. End /\ ~(q <= i)
    BY <1>1, <1>4
  <2>2. i \notin S
    BY <1>3, <2>1
  <2> QED BY <2>1, <2>2
<1> QED BY <1>4, <1>5 DEF q

\* There are finitely many newlines.
LEMMA BeforeFinite ==
    ASSUME NEW p \in Nat
    PROVE  IsFiniteSet(Before(text, p)) /\ Cardinality(Before(text, p)) \in Nat
<1>1. IsFiniteSet(1 .. p - 1)
  BY FS_Interval
<1>2. Before(text, p) \subseteq 1 .. p - 1
  BY DEF Before
<1> HIDE DEF Before
<1> QED BY <1>1, <1>2, FS_Subset, FS_CardinalityType

\* The counters stay right over characters that are no newlines.
LEMMA PlacedPlain ==
    ASSUME Len(text) \in Nat, NEW l, Placed(text, l), NEW q \in l.curr .. End,
           \A i \in l.curr .. q - 1 : text[i] # NL
    PROVE  Placed(text, AdvanceTo(l, q))
<1> DEFINE n == AdvanceTo(l, q)
           p == l.curr
<1>1. l \in [curr : 1 .. End, line : Nat, column : Int] /\ End \in Nat
  BY DEF Placed, End
<1>2. /\ n \in [curr : 1 .. End, line : Nat, column : Int]
      /\ n.curr = q /\ n.line = l.line /\ n.column = l.column + (q - p)
  <2>1. n = [l EXCEPT !.curr = q, !.column = l.column + (q - l.curr)]
    BY <1>1 DEF AdvanceTo
  <2>2. q \in 1 .. End /\ l.column + (q - l.curr) \in Int
    BY <1>1
  <2> HIDE DEF n
  <2> QED BY <1>1, <2>1, <2>2
<1>3. p \in Nat /\ q \in Nat /\ p <= q /\ l.column \in Int
  BY <1>1
<1> HIDE DEF n
<1>4. Before(text, q) = Before(text, p)
  BY <1>3 DEF Before
<1>5. n.line = 1 + Cardinality(Before(text, q))
  BY <1>2, <1>4 DEF Placed
<1>6. OnColumn(text, n)
  <2>1. CASE Before(text, p) = {} /\ l.column = p
    BY <1>2, <1>3, <1>4, <2>1 DEF OnColumn
  <2>2. ASSUME NEW m \in Before(text, p), \A i \in Before(text, p) : i <= m, l.column = p - m + 1
        PROVE  OnColumn(text, n)
    <3>1. m \in Int
      BY <1>3 DEF Before
    <3>2. n.column = q - m + 1
      BY <1>2, <1>3, <2>2, <3>1
    <3> QED BY <1>2, <1>4, <2>2, <3>2 DEF OnColumn
  <2> QED BY <2>1, <2>2 DEF Placed, OnColumn
<1> QED BY <1>2, <1>5, <1>6 DEF Placed, End, n

\* One character that is no newline.
LEMMA PlacedAdvance ==
    ASSUME Len(text) \in Nat, NEW l, Placed(text, l), l.curr < End, text[l.curr] # NL
    PROVE  Placed(text, lexer_advance(l)) /\ lexer_advance(l).curr = l.curr + 1
<1>1. l \in [curr : 1 .. End, line : Nat, column : Int] /\ End \in Nat
  BY DEF Placed, End
<1> DEFINE q == l.curr + 1
<1>2. l.curr \in Nat /\ q \in l.curr .. End /\ \A i \in l.curr .. q - 1 : i = l.curr
  BY <1>1
<1>3. Placed(text, AdvanceTo(l, q))
  <2> HIDE DEF q
  <2> QED BY <1>2, PlacedPlain
<1>4. AdvanceTo(l, q) = lexer_advance(l) /\ lexer_advance(l).curr = q
  <2>1. (l.curr + 1) - l.curr = 1
    BY <1>1
  <2>2. AdvanceTo(l, q) = [l EXCEPT !.curr = l.curr + 1, !.column = l.column + 1]
    BY <1>1, <2>1 DEF AdvanceTo
  <2>3. lexer_advance(l) = [l EXCEPT !.curr = l.curr + 1, !.column = l.column + 1]
    BY <1>1 DEF lexer_advance
  <2> QED BY <1>1, <2>2, <2>3
<1> QED BY <1>3, <1>4

\* A newline: one line more, and the column starts again.
LEMMA PlacedNewline ==
    ASSUME Len(text) \in Nat, NEW l, Placed(text, l), l.curr < End, text[l.curr] = NL
    PROVE  /\ Placed(text, lexer_advance(CountLine(l)))
           /\ lexer_advance(CountLine(l)).curr = l.curr + 1
<1> DEFINE n == lexer_advance(CountLine(l))
           p == l.curr
<1>1. l \in [curr : 1 .. End, line : Nat, column : Int] /\ End \in Nat
  BY DEF Placed, End
<1>2. /\ n \in [curr : 1 .. End, line : Nat, column : Int]
      /\ n.curr = p + 1 /\ n.line = l.line + 1 /\ n.column = 2
  <2> DEFINE k == [l EXCEPT !.line = l.line + 1, !.column = 1]
  <2>1. k = CountLine(l) /\ l.line + 1 \in Nat
    BY <1>1 DEF CountLine
  <2>2. k = [curr |-> p, line |-> l.line + 1, column |-> 1]
    BY <1>1, <2>1
  <2> HIDE DEF k
  <2>3. n = [curr |-> p + 1, line |-> l.line + 1, column |-> 2]
    <3>1. n = [k EXCEPT !.curr = k.curr + 1, !.column = k.column + 1]
      BY <2>1 DEF lexer_advance
    <3>2. k.curr = p /\ k.column = 1 /\ 1 + 1 = 2
      BY <2>2
    <3> HIDE DEF n
    <3> QED BY <2>2, <3>1, <3>2
  <2>4. p + 1 \in 1 .. End
    BY <1>1
  <2> HIDE DEF n
  <2> QED BY <2>1, <2>3, <2>4
<1> HIDE DEF n
<1>3. p \in Nat /\ p >= 1 /\ l.line \in Nat
  BY <1>1
<1>4. Before(text, p + 1) = Before(text, p) \cup {p} /\ p \notin Before(text, p)
  BY <1>3 DEF Before
<1>5. Cardinality(Before(text, p + 1)) = Cardinality(Before(text, p)) + 1 /\ Cardinality(Before(text, p)) \in Nat
  BY <1>3, <1>4, BeforeFinite, FS_AddElement
<1>6. n.line = 1 + Cardinality(Before(text, n.curr))
  BY <1>2, <1>3, <1>5 DEF Placed
<1>7. OnColumn(text, n)
  <2>1. p \in Before(text, p + 1) /\ \A i \in Before(text, p + 1) : i <= p
    BY <1>3, <1>4 DEF Before
  <2>2. n.column = (p + 1) - p + 1
    BY <1>2, <1>3
  <2> QED BY <1>2, <2>1, <2>2 DEF OnColumn
<1> QED BY <1>2, <1>6, <1>7 DEF Placed, End, n

\* What the counters say of a token that ends at the cursor.
LEMMA PlaceOf ==
    ASSUME Len(text) \in Nat, NEW l, Placed(text, l)
    PROVE  /\ l.line = 1 + Cardinality(Before(text, l.curr))
           /\ l.column = IF Before(text, l.curr) = {} THEN l.curr ELSE l.curr - Max(Before(text, l.curr)) + 1
<1> DEFINE S == Before(text, l.curr)
<1>1. l.curr \in Nat
  BY DEF Placed, End
<1>2. CASE S = {} /\ l.column = l.curr
  BY <1>2 DEF Placed
<1>3. ASSUME NEW m \in S, \A i \in S : i <= m, l.column = l.curr - m + 1
      PROVE  S # {} /\ l.column = l.curr - Max(S) + 1
  <2>1. S \subseteq Int
    BY <1>1 DEF Before
  <2>2. m >= m /\ \A i \in S : m >= i
    BY <1>3, <2>1
  <2>3. \A x \in S : (\A y \in S : x >= y) => x = m
    BY <1>3, <2>1
  <2> HIDE DEF S
  <2>4. Max(S) = m
    <3>1. Max(S) \in S /\ \A y \in S : Max(S) >= y
      BY <2>2 DEF Max
    <3> QED BY <2>3, <3>1
  <2> QED BY <1>3, <2>4
<1> QED BY <1>2, <1>3 DEF Placed, OnColumn

\* ---- modes ----

\* The character behind position i, as the reference sees it.
Behind(i) == IF i = Len(text) THEN NUL ELSE text[i + 1]

\* The function that Modes defines by recursion exists.
LEMMA ModesExist ==
    ASSUME NEW n \in Nat
    PROVE  \E f : f = [i \in 0 .. n |-> IF i = 0 THEN "code" ELSE NextMode(f[i - 1], text[i], Behind(i))]
<1> DEFINE J(x, i) == NextMode(x, text[i], Behind(i))
           T == {m \in Nat : \E f : f = [i \in 0 .. m |-> IF i = 0 THEN "code" ELSE J(f[i - 1], i)]}
<1> HIDE DEF J
<1>1. 0 \in T
  <2> DEFINE f == [i \in 0 .. 0 |-> "code"]
  <2>1. f = [i \in 0 .. 0 |-> IF i = 0 THEN "code" ELSE J(f[i - 1], i)]
    OBVIOUS
  <2> HIDE DEF f
  <2> QED BY <2>1
<1>2. ASSUME NEW m \in Nat, m \in T PROVE m + 1 \in T
  <2>1. PICK f : f = [i \in 0 .. m |-> IF i = 0 THEN "code" ELSE J(f[i - 1], i)]
    BY <1>2
  <2> DEFINE g == [i \in 0 .. m + 1 |-> IF i <= m THEN f[i] ELSE J(f[m], i)]
  <2>2. \A i \in 0 .. m + 1 : g[i] = IF i = 0 THEN "code" ELSE J(g[i - 1], i)
    BY <2>1
  <2>3. g = [i \in 0 .. m + 1 |-> g[i]]
    OBVIOUS
  <2> HIDE DEF g
  <2>4. g = [i \in 0 .. m + 1 |-> IF i = 0 THEN "code" ELSE J(g[i - 1], i)]
    BY <2>2, <2>3
  <2> QED BY <2>4
<1> HIDE DEF T
<1>3. n \in T
  BY <1>1, <1>2, Induction
<1> QED BY <1>3 DEF T, J

\* The modes, one after the other.
LEMMA ModesOf ==
    ASSUME Len(text) \in Nat
    PROVE  /\ Modes(text)[0] = "code"
           /\ \A i \in 1 .. Len(text) : Modes(text)[i] = NextMode(Modes(text)[i - 1], text[i], Behind(i))
<1> DEFINE n == Len(text)
           mode == CHOOSE f : f = [i \in 0 .. n |-> IF i = 0 THEN "code" ELSE NextMode(f[i - 1], text[i], Behind(i))]
<1>1. Modes(text) = mode
  BY DEF Modes, Behind
<1>2. mode = [i \in 0 .. n |-> IF i = 0 THEN "code" ELSE NextMode(mode[i - 1], text[i], Behind(i))]
  BY ModesExist
<1> HIDE DEF mode
<1>3. mode[0] = "code"
  BY <1>2
<1>4. ASSUME NEW i \in 1 .. n PROVE mode[i] = NextMode(mode[i - 1], text[i], Behind(i))
  <2>1. i \in 0 .. n /\ i # 0
    OBVIOUS
  <2> QED BY <1>2, <2>1, Zenon
<1> QED BY <1>1, <1>3, <1>4

\* Outside comments: code goes on.
LEMMA CodeChar ==
    ASSUME Len(text) \in Nat, NEW p \in 1 .. Len(text), Modes(text)[p - 1] \in {"code", "closed"},
           text[p] # "#", text[p] = "/" => Behind(p) \notin {"/", "*"}
    PROVE  Modes(text)[p] = "code"
<1>1. Modes(text)[p] = NextMode(Modes(text)[p - 1], text[p], Behind(p))
  BY ModesOf
<1> QED BY <1>1 DEF NextMode

\* Characters without a hash or a slash are code.
LEMMA CodeRun ==
    ASSUME Len(text) \in Nat, NEW p \in 1 .. End, NEW q \in p .. End, Modes(text)[p - 1] \in {"code", "closed"},
           \A i \in p .. q - 1 : text[i] \notin {"#", "/"}
    PROVE  /\ \A i \in p .. q - 1 : Modes(text)[i] = "code"
           /\ Modes(text)[q - 1] \in {"code", "closed"}
<1>1. End \in Nat /\ p \in Nat /\ q \in Nat /\ p >= 1 /\ End = Len(text) + 1
  BY DEF End
<1> DEFINE T == {k \in p .. q - 1 : Modes(text)[k] # "code"}
<1>2. T = {}
  <2> SUFFICES ASSUME T # {} PROVE FALSE
    OBVIOUS
  <2>1. T \subseteq Nat
    BY <1>1
  <2>2. PICK k \in T : \A j \in T : k <= j
    BY <2>1, Least
  <2>3. k \in p .. q - 1 /\ k \in 1 .. Len(text) /\ k \in Nat
    BY <1>1
  <2>4. Modes(text)[k - 1] \in {"code", "closed"}
    <3>1. CASE k = p
      BY <3>1
    <3>2. CASE k # p
      <4>1. k - 1 \in p .. q - 1 /\ ~(k <= k - 1)
        BY <1>1, <2>3, <3>2
      <4> QED BY <2>2, <4>1
    <3> QED BY <3>1, <3>2
  <2>5. Modes(text)[k] = "code"
    BY <2>3, <2>4, CodeChar
  <2> QED BY <2>5
<1>3. \A i \in p .. q - 1 : Modes(text)[i] = "code"
  BY <1>2
<1>4. q = p \/ q - 1 \in p .. q - 1
  BY <1>1
<1> QED BY <1>3, <1>4

\* A comment up to the end of its line.
LEMMA LineRun ==
    ASSUME Len(text) \in Nat, NEW p \in 1 .. Len(text), NEW q \in p + 1 .. End, Modes(text)[p] = "line",
           \A i \in p .. q - 1 : text[i] # NL
    PROVE  /\ \A i \in p .. q - 1 : Modes(text)[i] = "line"
           /\ Modes(text)[q - 1] = "line"
<1>1. End \in Nat /\ p \in Nat /\ q \in Nat /\ p >= 1 /\ End = Len(text) + 1
  BY DEF End
<1> DEFINE T == {k \in p .. q - 1 : Modes(text)[k] # "line"}
<1>2. T = {}
  <2> SUFFICES ASSUME T # {} PROVE FALSE
    OBVIOUS
  <2>1. T \subseteq Nat
    BY <1>1
  <2>2. PICK k \in T : \A j \in T : k <= j
    BY <2>1, Least
  <2>3. k \in p .. q - 1 /\ k \in 1 .. Len(text) /\ k \in Nat /\ k # p
    BY <1>1
  <2>4. Modes(text)[k - 1] = "line"
    <3>1. k - 1 \in p .. q - 1 /\ ~(k <= k - 1)
      BY <1>1, <2>3
    <3> QED BY <2>2, <3>1
  <2>5. Modes(text)[k] = NextMode(Modes(text)[k - 1], text[k], Behind(k))
    BY <2>3, ModesOf
  <2>6. Modes(text)[k] = "line"
    BY <2>3, <2>4, <2>5 DEF NextMode
  <2> QED BY <2>6
<1>3. \A i \in p .. q - 1 : Modes(text)[i] = "line"
  BY <1>2
<1>4. q - 1 \in p .. q - 1
  BY <1>1
<1> QED BY <1>3, <1>4

\* ---- the search ----

\* The cursor p is outside comments, or at the newline that ends one.
Outside(t, p) ==
    \/ p = Len(t) + 1
    \/ Modes(t)[p - 1] \in {"code", "closed"}
    \/ Modes(t)[p - 1] = "line" /\ t[p] = NL

\* There is no code from position p up to q.
NoCode(t, p, q) == \A i \in p .. q - 1 : i \notin Code(t)

\* Where the cursor is, in each of the loops, and what it has passed.
Cursor(t, l, where) ==
    /\ Placed(t, l)
    /\ where \in {"returned", "blanks", "comment"}
    /\ where # "comment" => Outside(t, l.curr)
    /\ where = "comment" => l.curr >= 2 /\ Modes(t)[l.curr - 1] = "block"

SearchInv ==
    /\ text \in Texts
    /\ Cursor(text, lexer, at)
    /\ gap \in 1 .. lexer.curr
    /\ at # "returned" => NoCode(text, gap, lexer.curr)

\* The numbers and characters the steps are about.
LEMMA SearchTypes ==
    ASSUME SearchInv
    PROVE  /\ text \in Seq(STRING) /\ Len(text) \in Nat /\ End \in Nat /\ End = Len(text) + 1
           /\ lexer.curr \in 1 .. End /\ lexer.curr \in Nat /\ gap \in Nat /\ gap >= 1 /\ gap <= lexer.curr
           /\ lexer_peek(lexer) = IF lexer.curr < End THEN text[lexer.curr] ELSE NUL
           /\ lexer.curr < End => lexer_peek_next(lexer) = Behind(lexer.curr)
<1>1. text \in Seq(STRING) /\ Len(text) \in Nat /\ End \in Nat /\ End = Len(text) + 1
  BY TextsAssumption DEF SearchInv, End
<1>2. lexer.curr \in 1 .. End /\ gap \in 1 .. lexer.curr
  BY <1>1 DEF SearchInv, Cursor, Placed
<1>3. /\ lexer_peek(lexer) = IF lexer.curr < End THEN text[lexer.curr] ELSE NUL
      /\ lexer.curr < End => lexer_peek_next(lexer) = Behind(lexer.curr)
  BY <1>1, <1>2 DEF lexer_peek, lexer_peek_next, Behind
<1> QED BY <1>1, <1>2, <1>3

\* A position that is no code.
LEMMA NotCode ==
    ASSUME Len(text) \in Nat, NEW i, i \in 1 .. Len(text) => Modes(text)[i] # "code" \/ text[i] \in Blanks \cup {NL}
    PROVE  i \notin Code(text)
BY DEF Code

\* The search goes on from position n.curr.
LEMMA Passed ==
    ASSUME SearchInv, at # "returned", NEW n, NEW where, where # "returned", Move(n, where), UNCHANGED <<text, gap>>,
           Cursor(text, n, where), n.curr \in Nat, n.curr >= lexer.curr,
           \A i \in lexer.curr .. n.curr - 1 : i \notin Code(text)
    PROVE  SearchInv'
<1>1. lexer' = n /\ at' = where /\ text' = text /\ gap' = gap
  BY DEF Move
<1>2. lexer.curr \in Nat /\ gap \in Nat /\ gap >= 1 /\ gap <= lexer.curr
  BY SearchTypes
<1>3. gap \in 1 .. n.curr
  BY <1>2
<1>4. NoCode(text, gap, n.curr)
  <2>1. NoCode(text, gap, lexer.curr)
    BY DEF SearchInv
  <2> QED BY <1>2, <2>1 DEF NoCode
<1>5. text \in Texts
  BY DEF SearchInv
<1> QED BY <1>1, <1>3, <1>4, <1>5 DEF SearchInv

\* A comment up to the end of its line, from the cursor.
LEMMA LinePassed ==
    ASSUME SearchInv, at = "blanks", lexer.curr < End, Modes(text)[lexer.curr] = "line", text[lexer.curr] # NL,
           Move(ToLineEnd(lexer), "blanks"), UNCHANGED <<text, gap>>
    PROVE  SearchInv'
<1> DEFINE p == lexer.curr
           q == Min({i \in p .. End : i = End \/ text[i] = NL})
           n == AdvanceTo(lexer, q)
<1>1. Len(text) \in Nat /\ p \in 1 .. End /\ p \in Nat /\ End = Len(text) + 1 /\ End \in Nat
  BY SearchTypes
<1>2. /\ q \in p .. End /\ q \in Nat
      /\ \A i \in p .. q - 1 : text[i] # NL
      /\ q = End \/ text[q] = NL
  BY <1>1, LineEndOf
<1>3. Move(n, "blanks")
  BY DEF ToLineEnd
<1> HIDE DEF q
<1>4. Placed(text, n)
  BY <1>1, <1>2, PlacedPlain DEF SearchInv, Cursor
<1>5. n.curr = q
  <2>1. lexer \in [curr : 1 .. End, line : Nat, column : Int]
    BY <1>1 DEF SearchInv, Cursor, Placed
  <2> QED BY <2>1 DEF AdvanceTo
<1> HIDE DEF n
<1>6. p \in 1 .. Len(text) /\ q \in p + 1 .. End
  BY <1>1, <1>2
<1>7. (\A i \in p .. q - 1 : Modes(text)[i] = "line") /\ Modes(text)[q - 1] = "line"
  BY <1>1, <1>2, <1>6, LineRun
<1>8. \A i \in p .. q - 1 : i \notin Code(text)
  BY <1>1, <1>7, NotCode
<1>9. Cursor(text, n, "blanks")
  BY <1>1, <1>2, <1>4, <1>5, <1>7 DEF Cursor, Outside
<1>10. q >= p
  BY <1>1, <1>2
<1> QED BY <1>2, <1>3, <1>5, <1>8, <1>9, <1>10, Passed

\* Two characters, neither of them a newline.
LEMMA PlacedTwice ==
    ASSUME Len(text) \in Nat, NEW l, Placed(text, l), l.curr + 1 < End, text[l.curr] # NL, text[l.curr + 1] # NL
    PROVE  /\ Placed(text, lexer_advance(lexer_advance(l)))
           /\ lexer_advance(lexer_advance(l)).curr = l.curr + 2
<1> DEFINE k == lexer_advance(l)
<1>1. l.curr \in Nat /\ l.curr < End
  BY DEF Placed, End
<1>2. Placed(text, k) /\ k.curr = l.curr + 1
  BY <1>1, PlacedAdvance
<1> HIDE DEF k
<1>3. Placed(text, lexer_advance(k)) /\ lexer_advance(k).curr = k.curr + 1
  BY <1>2, PlacedAdvance
<1> QED BY <1>1, <1>2, <1>3 DEF k

\* lexer_skip_whitespace, one round of its loop.
LEMMA BlanksSkipped ==
    ASSUME SearchInv, at = "blanks", lexer_skip_whitespace
    PROVE  SearchInv'
<1> DEFINE p == lexer.curr
           c == text[p]
<1>1. /\ Len(text) \in Nat /\ p \in 1 .. End /\ p \in Nat /\ End = Len(text) + 1 /\ End \in Nat
      /\ p < End => lexer_peek(lexer) = c /\ lexer_peek_next(lexer) = Behind(p)
  BY SearchTypes
<1>2. /\ p < End /\ UNCHANGED <<text, gap>>
      /\ \/ c \in Blanks /\ Move(lexer_advance(lexer), "blanks")
         \/ c = NL /\ Move(lexer_advance(CountLine(lexer)), "blanks")
         \/ c = "/" /\ is_comment
         \/ c = "#" /\ Move(ToLineEnd(lexer), "blanks")
  BY <1>1, Zenon DEF lexer_skip_whitespace
<1>3. p \in 1 .. Len(text) /\ p # Len(text) + 1
  BY <1>1, <1>2
<1>4. Placed(text, lexer) /\ Outside(text, p)
  BY DEF SearchInv, Cursor
<1>5. Modes(text)[p] = NextMode(Modes(text)[p - 1], c, Behind(p))
  BY <1>1, <1>3, ModesOf
<1>6. Modes(text)[p - 1] \in {"code", "closed"} \/ (Modes(text)[p - 1] = "line" /\ c = NL)
  BY <1>3, <1>4 DEF Outside
\* One blank character.
<1>7. ASSUME NEW n, Placed(text, n), n.curr = p + 1, Move(n, "blanks"), c \in Blanks \cup {NL}
      PROVE  SearchInv'
  <2>1. Modes(text)[p] = "code"
    BY <1>5, <1>6, <1>7 DEF NextMode, Blanks, NL
  <2>2. (p + 1) - 1 = p /\ p + 1 \in Nat /\ p + 1 >= p /\ \A i \in p .. (p + 1) - 1 : i = p
    BY <1>1
  <2>3. Cursor(text, n, "blanks")
    <3>1. Outside(text, n.curr)
      BY <1>7, <2>1, <2>2 DEF Outside
    <3> QED BY <1>7, <3>1 DEF Cursor
  <2>4. p \notin Code(text)
    BY <1>1, <1>7, NotCode
  <2>5. n.curr \in Nat /\ n.curr >= lexer.curr /\ \A i \in lexer.curr .. n.curr - 1 : i \notin Code(text)
    BY <1>7, <2>2, <2>4
  <2> HIDE DEF p, c
  <2> QED BY <1>2, <1>7, <2>3, <2>5, Passed
<1>8. CASE c \in Blanks /\ Move(lexer_advance(lexer), "blanks")
  <2>1. c # NL
    BY <1>8 DEF Blanks, NL
  <2>2. Placed(text, lexer_advance(lexer)) /\ lexer_advance(lexer).curr = p + 1
    BY <1>1, <1>2, <1>4, <2>1, PlacedAdvance
  <2> QED BY <1>7, <1>8, <2>2
<1>9. CASE c = NL /\ Move(lexer_advance(CountLine(lexer)), "blanks")
  <2>2. Placed(text, lexer_advance(CountLine(lexer))) /\ lexer_advance(CountLine(lexer)).curr = p + 1
    BY <1>1, <1>2, <1>4, <1>9, PlacedNewline
  <2> QED BY <1>7, <1>9, <2>2
<1>10. CASE c = "#" /\ Move(ToLineEnd(lexer), "blanks")
  <2>1. Modes(text)[p] = "line" /\ c # NL
    BY <1>5, <1>6, <1>10 DEF NextMode, NL
  <2> QED BY <1>2, <1>10, <2>1, LinePassed
<1>11. CASE c = "/" /\ is_comment
  <2>1. c # NL /\ Modes(text)[p - 1] \in {"code", "closed"}
    BY <1>6, <1>11 DEF NL
  <2>2. CASE Behind(p) = "/" /\ Move(ToLineEnd(lexer), "blanks")
    <3>1. Modes(text)[p] = "line"
      BY <1>5, <1>11, <2>1, <2>2 DEF NextMode
    <3> QED BY <1>2, <2>1, <2>2, <3>1, LinePassed
  <2>3. CASE Behind(p) = "*" /\ Move(lexer_advance(lexer_advance(lexer)), "comment")
    <3> DEFINE n == lexer_advance(lexer_advance(lexer))
    <3>1. p + 1 \in 1 .. Len(text) /\ text[p + 1] = "*" /\ p + 1 < End /\ (p + 1) - 1 = p
      BY <1>1, <1>3, <2>3 DEF Behind, NUL
    <3>2. Modes(text)[p] = "opening"
      BY <1>5, <1>11, <2>1, <2>3 DEF NextMode
    <3>3. Modes(text)[p + 1] = NextMode(Modes(text)[p], text[p + 1], Behind(p + 1))
      BY <1>1, <3>1, ModesOf
    <3>4. Modes(text)[p + 1] = "block"
      BY <3>2, <3>3 DEF NextMode
    <3>5. Placed(text, n) /\ n.curr = p + 2
      <4>1. text[p + 1] # NL
        BY <3>1 DEF NL
      <4> QED BY <1>1, <1>4, <2>1, <3>1, <4>1, PlacedTwice
    <3> HIDE DEF n
    <3>6. (p + 2) - 1 = p + 1 /\ p + 2 >= 2 /\ p + 2 \in Nat /\ p + 2 >= p
          /\ \A i \in p .. (p + 2) - 1 : i = p \/ i = p + 1
      BY <1>1
    <3>7. Cursor(text, n, "comment")
      BY <3>4, <3>5, <3>6 DEF Cursor
    <3>8. p \notin Code(text) /\ p + 1 \notin Code(text)
      BY <1>1, <3>2, <3>4, NotCode
    <3>9. n.curr \in Nat /\ n.curr >= lexer.curr /\ \A i \in lexer.curr .. n.curr - 1 : i \notin Code(text)
      BY <3>5, <3>6, <3>8
    <3>10. Move(n, "comment")
      BY <2>3 DEF n
    <3> HIDE DEF p, c
    <3> QED BY <1>2, <3>7, <3>9, <3>10, Passed
  <2> QED BY <1>1, <1>2, <1>11, <2>2, <2>3 DEF is_comment
<1> QED BY <1>2, <1>8, <1>9, <1>10, <1>11

\* is_comment, one round of its loop.
LEMMA CommentSkipped ==
    ASSUME SearchInv, at = "comment", lexer_skip_whitespace
    PROVE  SearchInv'
<1> DEFINE p == lexer.curr
           c == text[p]
<1>1. /\ Len(text) \in Nat /\ p \in 1 .. End /\ p \in Nat /\ End = Len(text) + 1 /\ End \in Nat
      /\ p < End => lexer_peek(lexer) = c /\ lexer_peek_next(lexer) = Behind(p)
  BY SearchTypes
<1>2. BlockComment /\ UNCHANGED <<text, gap>>
  BY Zenon DEF lexer_skip_whitespace
<1>3. Placed(text, lexer) /\ p >= 2 /\ Modes(text)[p - 1] = "block"
  BY DEF SearchInv, Cursor
<1>4. CASE p >= End
  <2>1. Move(lexer, "blanks") /\ p = End
    BY <1>1, <1>2, <1>4 DEF BlockComment
  <2>2. Cursor(text, lexer, "blanks")
    BY <1>1, <1>3, <2>1 DEF Cursor, Outside
  <2>3. p >= p /\ p .. p - 1 = {}
    BY <1>1
  <2> QED BY <1>1, <1>2, <2>1, <2>2, <2>3, Passed
<1>5. CASE p < End
  <2>1. p \in 1 .. Len(text)
    BY <1>1, <1>5
  <2>2. Modes(text)[p] = NextMode("block", c, Behind(p))
    BY <1>1, <1>3, <2>1, ModesOf
  <2>3. CASE Closes
    <3> DEFINE n == lexer_advance(lexer_advance(lexer))
    <3>1. c = "*" /\ Behind(p) = "/" /\ Move(n, "blanks")
      BY <1>1, <1>2, <1>5, <2>3 DEF BlockComment, Closes
    <3>2. p + 1 \in 1 .. Len(text) /\ text[p + 1] = "/" /\ p + 1 < End /\ (p + 1) - 1 = p
      BY <1>1, <2>1, <3>1 DEF Behind, NUL
    <3>3. Modes(text)[p] = "closing"
      BY <2>2, <3>1 DEF NextMode
    <3>4. Modes(text)[p + 1] = NextMode(Modes(text)[p], text[p + 1], Behind(p + 1))
      BY <1>1, <3>2, ModesOf
    <3>5. Modes(text)[p + 1] = "closed"
      BY <3>3, <3>4 DEF NextMode
    <3>6. Placed(text, n) /\ n.curr = p + 2
      <4>1. text[p + 1] # NL /\ c # NL
        BY <3>1, <3>2 DEF NL
      <4> QED BY <1>1, <1>3, <3>2, <4>1, PlacedTwice
    <3> HIDE DEF n
    <3>7. (p + 2) - 1 = p + 1 /\ p + 2 \in Nat /\ p + 2 >= p
          /\ \A i \in p .. (p + 2) - 1 : i = p \/ i = p + 1
      BY <1>1
    <3>8. Cursor(text, n, "blanks")
      BY <3>5, <3>6, <3>7 DEF Cursor, Outside
    <3>9. p \notin Code(text) /\ p + 1 \notin Code(text)
      BY <1>1, <3>3, <3>5, NotCode
    <3>10. n.curr \in Nat /\ n.curr >= lexer.curr /\ \A i \in lexer.curr .. n.curr - 1 : i \notin Code(text)
      BY <3>6, <3>7, <3>9
    <3> HIDE DEF p, c
    <3> QED BY <1>2, <3>1, <3>8, <3>10, Passed
  <2>4. CASE ~Closes
    <3> DEFINE n == lexer_advance(Counted)
    <3>1. ~(c = "*" /\ Behind(p) = "/") /\ Move(n, "comment")
      BY <1>1, <1>2, <1>5, <2>4 DEF BlockComment, Closes
    <3>2. Modes(text)[p] = "block"
      BY <2>2, <3>1 DEF NextMode
    <3>3. Placed(text, n) /\ n.curr = p + 1
      <4>1. CASE c = NL
        <5>1. Counted = CountLine(lexer)
          BY <1>1, <1>5, <4>1 DEF Counted
        <5> QED BY <1>1, <1>3, <1>5, <4>1, <5>1, PlacedNewline
      <4>2. CASE c # NL
        <5>1. Counted = lexer
          BY <1>1, <1>5, <4>2 DEF Counted
        <5> QED BY <1>1, <1>3, <1>5, <4>2, <5>1, PlacedAdvance
      <4> QED BY <4>1, <4>2
    <3> HIDE DEF n
    <3>4. (p + 1) - 1 = p /\ p + 1 \in Nat /\ p + 1 >= p /\ p + 1 >= 2 /\ \A i \in p .. (p + 1) - 1 : i = p
      BY <1>1
    <3>5. Cursor(text, n, "comment")
      BY <3>2, <3>3, <3>4 DEF Cursor
    <3>6. p \notin Code(text)
      BY <1>1, <3>2, NotCode
    <3>7. n.curr \in Nat /\ n.curr >= lexer.curr /\ \A i \in lexer.curr .. n.curr - 1 : i \notin Code(text)
      BY <3>3, <3>4, <3>6
    <3> HIDE DEF p, c
    <3> QED BY <1>2, <3>1, <3>5, <3>7, Passed
  <2> QED BY <2>3, <2>4
<1> QED BY <1>1, <1>4, <1>5

\* ---- spelling ----

\* The tokens with a spelling.
LEMMA Spellings ==
    DOMAIN SPELLING =
        {"PLUS", "MINUS", "STAR", "SLASH", "BANG", "LSHIFT", "RSHIFT", "BIT_AND", "BIT_XOR", "BIT_OR", "BIT_NOT",
         "EQUAL_EQUAL", "BANG_EQUAL", "LESS", "LESS_EQUAL", "GREATER", "GREATER_EQUAL", "EQUAL", "LPAREN",
         "RPAREN", "SEMICOLON", "LBRACE", "RBRACE", "COMMA"}
BY DEF SPELLING

\* The symbols.
LEMMA Symbols ==
    ASSUME NEW s, IsSymbol(s)
    PROVE  \/ \E c \in Marks : s = <<c>> /\ Alone(c) # "ERROR"
           \/ \E c \in Marks, n \in Marks : s = <<c, n>> /\ Pair(c, n) # "NONE"
<1>1. /\ SPELLING["PLUS"] = <<"+">> /\ SPELLING["MINUS"] = <<"-">> /\ SPELLING["STAR"] = <<"*">>
      /\ SPELLING["SLASH"] = <<"/">> /\ SPELLING["BANG"] = <<"!">> /\ SPELLING["LSHIFT"] = <<"<", "<">>
      /\ SPELLING["RSHIFT"] = <<">", ">">> /\ SPELLING["BIT_AND"] = <<"&">> /\ SPELLING["BIT_XOR"] = <<"^">>
      /\ SPELLING["BIT_OR"] = <<"|">> /\ SPELLING["BIT_NOT"] = <<"~">> /\ SPELLING["EQUAL_EQUAL"] = <<"=", "=">>
      /\ SPELLING["BANG_EQUAL"] = <<"!", "=">> /\ SPELLING["LESS"] = <<"<">>
      /\ SPELLING["LESS_EQUAL"] = <<"<", "=">> /\ SPELLING["GREATER"] = <<">">>
      /\ SPELLING["GREATER_EQUAL"] = <<">", "=">> /\ SPELLING["EQUAL"] = <<"=">> /\ SPELLING["LPAREN"] = <<"(">>
      /\ SPELLING["RPAREN"] = <<")">> /\ SPELLING["SEMICOLON"] = <<";">> /\ SPELLING["LBRACE"] = <<"{">>
      /\ SPELLING["RBRACE"] = <<"}">> /\ SPELLING["COMMA"] = <<",">>
  BY DEF SPELLING
<1>2. PICK t \in DOMAIN SPELLING : SPELLING[t] = s
  BY DEF IsSymbol
<1>3. CASE t \in {"LSHIFT", "RSHIFT", "EQUAL_EQUAL", "BANG_EQUAL", "LESS_EQUAL", "GREATER_EQUAL"}
  <2>1. \/ s = <<"<", "<">> \/ s = <<">", ">">> \/ s = <<"=", "=">>
        \/ s = <<"!", "=">> \/ s = <<"<", "=">> \/ s = <<">", "=">>
    BY <1>1, <1>2, <1>3
  <2>2. /\ Pair("<", "<") # "NONE" /\ Pair(">", ">") # "NONE" /\ Pair("=", "=") # "NONE"
        /\ Pair("!", "=") # "NONE" /\ Pair("<", "=") # "NONE" /\ Pair(">", "=") # "NONE"
    BY DEF Pair
  <2>3. "<" \in Marks /\ ">" \in Marks /\ "=" \in Marks /\ "!" \in Marks
    BY DEF Marks
  <2> QED BY <2>1, <2>2, <2>3, Zenon
<1>4. CASE t \notin {"LSHIFT", "RSHIFT", "EQUAL_EQUAL", "BANG_EQUAL", "LESS_EQUAL", "GREATER_EQUAL"}
  <2> DEFINE C == {"+", "-", "*", "/", "!", "&", "^", "|", "~", "<", ">", "=", "(", ")", ";", "{", "}", ","}
  <2>1. t \in {"PLUS", "MINUS", "STAR", "SLASH", "BANG", "BIT_AND", "BIT_XOR", "BIT_OR", "BIT_NOT", "LESS",
               "GREATER", "EQUAL", "LPAREN", "RPAREN", "SEMICOLON", "LBRACE", "RBRACE", "COMMA"}
    BY <1>2, <1>4, Spellings
  <2>2. \E c \in C : s = <<c>>
    BY <1>1, <1>2, <2>1
  <2>3. \A c \in C : c \in Marks
    BY DEF Marks
  <2>4. \A c \in C : Alone(c) # "ERROR"
    BY DEF Alone
  <2> HIDE DEF C
  <2> QED BY <2>2, <2>3, <2>4
<1> QED BY <1>3, <1>4

\* The symbols of one character.
LEMMA SingleSymbol ==
    ASSUME NEW c
    PROVE  /\ Alone(c) # "ERROR" => Alone(c) \in DOMAIN SPELLING /\ SPELLING[Alone(c)] = <<c>>
           /\ Alone(c) = "ERROR" => ~IsSymbol(<<c>>)
           /\ Alone(c) \notin {"NONE", "EOF", "NUMBER", "IDENTIFIER"}
<1>1. Alone(c) \notin {"NONE", "EOF", "NUMBER", "IDENTIFIER"}
  BY DEF Alone
<1>2. Alone(c) # "ERROR" => Alone(c) \in DOMAIN SPELLING
  BY Spellings DEF Alone
<1>3. Alone(c) # "ERROR" => SPELLING[Alone(c)] = <<c>>
  BY DEF Alone, SPELLING
<1>4. Alone(c) = "ERROR" => ~IsSymbol(<<c>>)
  <2> SUFFICES ASSUME Alone(c) = "ERROR", IsSymbol(<<c>>) PROVE FALSE
    OBVIOUS
  <2> QED BY Symbols
<1> QED BY <1>1, <1>2, <1>3, <1>4

\* The symbols of two characters.
LEMMA DoubleSymbol ==
    ASSUME NEW c, NEW n
    PROVE  /\ Pair(c, n) # "NONE" => Pair(c, n) \in DOMAIN SPELLING /\ SPELLING[Pair(c, n)] = <<c, n>>
           /\ Pair(c, n) # "NONE" => n \in {"=", ">", "<"} /\ c \in {"!", "=", ">", "<"}
           /\ Pair(c, n) = "NONE" => ~IsSymbol(<<c, n>>)
           /\ Pair(c, n) \notin {"EOF", "NUMBER", "IDENTIFIER", "ERROR"}
<1>1. /\ Pair(c, n) \notin {"EOF", "NUMBER", "IDENTIFIER", "ERROR"}
      /\ Pair(c, n) # "NONE" => n \in {"=", ">", "<"} /\ c \in {"!", "=", ">", "<"}
  BY DEF Pair
<1>2. Pair(c, n) # "NONE" => Pair(c, n) \in DOMAIN SPELLING
  BY Spellings DEF Pair
<1>3. Pair(c, n) # "NONE" => SPELLING[Pair(c, n)] = <<c, n>>
  BY DEF Pair, SPELLING
<1>4. Pair(c, n) = "NONE" => ~IsSymbol(<<c, n>>)
  <2> SUFFICES ASSUME Pair(c, n) = "NONE", IsSymbol(<<c, n>>) PROVE FALSE
    OBVIOUS
  <2> QED BY Symbols
<1> QED BY <1>1, <1>2, <1>3, <1>4

\* No symbol has three characters.
LEMMA NoTriple ==
    ASSUME NEW c, NEW n, NEW m
    PROVE  ~IsSymbol(<<c, n, m>>)
BY Symbols

\* A symbol starts with a mark.
LEMMA SymbolMark ==
    ASSUME NEW s, IsSymbol(s)
    PROVE  s[1] \in Marks
BY Symbols

\* ---- tokens ----

\* The characters of the text from p to before q.
LEMMA Piece ==
    ASSUME text \in Seq(STRING), NEW p \in 1 .. End, NEW q \in p .. End
    PROVE  LET s == SubSeq(text, p, q - 1) IN
           /\ s \in Seq(STRING) /\ Len(s) = q - p /\ DOMAIN s = 1 .. q - p
           /\ \A i \in 1 .. q - p : s[i] = text[(p + i) - 1]
<1>1. Len(text) \in Nat /\ End = Len(text) + 1 /\ p \in Nat /\ q \in Nat /\ p <= q
  BY DEF End
<1> DEFINE s == SubSeq(text, p, q - 1)
<1>2. p \in 1 .. Len(text) + 1 /\ q - 1 \in p - 1 .. Len(text)
  BY <1>1
<1>3. /\ s \in Seq(STRING)
      /\ Len(s) = IF p <= q - 1 THEN (q - 1) - p + 1 ELSE 0
      /\ \A i \in 1 .. (q - 1) - p + 1 : s[i] = text[p + i - 1]
  BY <1>1, <1>2, SubSeqProperties
<1> HIDE DEF s
<1>4. Len(s) = q - p /\ (q - 1) - p + 1 = q - p
  BY <1>1, <1>3
<1>5. \A i \in 1 .. q - p : s[i] = text[(p + i) - 1]
  BY <1>1, <1>3, <1>4
<1> QED BY <1>3, <1>4, <1>5 DEF s

\* One character more.
LEMMA PieceMore ==
    ASSUME NEW S, NEW s \in Seq(S), NEW c \in S
    PROVE  /\ DOMAIN Append(s, c) = 1 .. Len(s) + 1
           /\ Append(s, c)[Len(s) + 1] = c
           /\ \A i \in 1 .. Len(s) : Append(s, c)[i] = s[i]
<1> DEFINE e == Append(s, c)
<1>1. e \in Seq(S) /\ Len(e) = Len(s) + 1
  BY AppendProperties
<1>2. (\A i \in 1 .. Len(s) : e[i] = s[i]) /\ e[Len(s) + 1] = c
  <2>1. ASSUME NEW i \in 1 .. Len(s) PROVE e[i] = s[i]
    BY AppendProperties
  <2>2. e[Len(s) + 1] = c
    BY AppendProperties, Zenon
  <2> QED BY <2>1, <2>2
<1> HIDE DEF e
<1>3. DOMAIN e = 1 .. Len(s) + 1
  BY <1>1
<1> QED BY <1>2, <1>3 DEF e

\* One character more, written out.
LEMMA Longer ==
    ASSUME NEW S, NEW c \in S, NEW d \in S, NEW m \in S
    PROVE  Append(<<c>>, m) = <<c, m>> /\ Append(<<c, d>>, m) = <<c, d, m>>
<1>1. Append(<<c>>, m) = <<c, m>>
  <2> DEFINE s == <<c>>
             e == Append(s, m)
  <2>1. s \in Seq(S) /\ Len(s) = 1 /\ s[1] = c
    OBVIOUS
  <2> HIDE DEF s
  <2>2. e \in Seq(S) /\ Len(e) = 2
    <3>1. s \in Seq(S) /\ m \in S
      BY <2>1
    <3>2. e \in Seq(S) /\ Len(e) = Len(s) + 1
      BY <3>1, AppendProperties, Zenon
    <3> QED BY <2>1, <3>2
  <2>3. (\A i \in 1 .. Len(s) : e[i] = s[i]) /\ e[Len(s) + 1] = m
    <3>1. s \in Seq(S) /\ m \in S
      BY <2>1
    <3>2. e[Len(s) + 1] = m
      BY <3>1, AppendProperties, Zenon
    <3>3. ASSUME NEW i \in 1 .. Len(s) PROVE e[i] = s[i]
      BY <3>1, AppendProperties
    <3> QED BY <3>2, <3>3
  <2> HIDE DEF e
  <2>4. e[1] = c /\ e[2] = m
    BY <2>1, <2>3
  <2>5. e = <<c, m>>
    BY <2>2, <2>4
  <2> QED BY <2>5 DEF e, s
<1>2. Append(<<c, d>>, m) = <<c, d, m>>
  <2> DEFINE s == <<c, d>>
             e == Append(s, m)
  <2>1. s \in Seq(S) /\ Len(s) = 2 /\ s[1] = c /\ s[2] = d
    OBVIOUS
  <2> HIDE DEF s
  <2>2. e \in Seq(S) /\ Len(e) = 3
    <3>1. s \in Seq(S) /\ m \in S
      BY <2>1
    <3>2. e \in Seq(S) /\ Len(e) = Len(s) + 1
      BY <3>1, AppendProperties, Zenon
    <3> QED BY <2>1, <3>2
  <2>3. (\A i \in 1 .. Len(s) : e[i] = s[i]) /\ e[Len(s) + 1] = m
    <3>1. s \in Seq(S) /\ m \in S
      BY <2>1
    <3>2. e[Len(s) + 1] = m
      BY <3>1, AppendProperties, Zenon
    <3>3. ASSUME NEW i \in 1 .. Len(s) PROVE e[i] = s[i]
      BY <3>1, AppendProperties
    <3> QED BY <3>2, <3>3
  <2> HIDE DEF e
  <2>4. e[1] = c /\ e[2] = d /\ e[3] = m
    BY <2>1, <2>3
  <2>5. e = <<c, d, m>>
    BY <2>2, <2>4
  <2> QED BY <2>5 DEF e, s
<1> QED BY <1>1, <1>2

\* What LongestMatch says of the token k of the text t.
Matched(t, k) ==
    k.type \notin {"NONE", "EOF"} =>
        LET s == SubSeq(t, k.from, k.to - 1)
        IN /\ SpellsType(s, k.type)
           /\ k.to < Len(t) + 1 => ~Spells(Append(s, t[k.to]))
           /\ IsNumber(s) \/ IsWord(s) => k.view # NoView

\* The result r of TokenAt, for a token that starts at position p.
Cut(t, r, p) ==
    /\ Cursor(t, r.lexer, "returned")
    /\ r.token.from = p /\ r.token.to = r.lexer.curr /\ r.lexer.curr >= p
    /\ r.token.line = r.lexer.line /\ r.token.column = r.lexer.column
    /\ \A i \in p .. r.lexer.curr - 1 : i \in Code(t)
    /\ r.token.type = "EOF" => r.lexer.curr = Len(t) + 1
    /\ r.token.type # "NONE"
    /\ Matched(t, r.token)

\* A string that starts with a letter or a digit is no symbol, and one that
\* starts with another character is only that.
LEMMA FirstChar ==
    ASSUME NEW s, 1 \in DOMAIN s
    PROVE  /\ s[1] \in Letters \cup Digits => ~IsSymbol(s)
           /\ s[1] \in Digits => ~IsWord(s)
           /\ s[1] \in Letters => ~IsNumber(s)
           /\ s[1] \notin Letters \cup Digits => ~IsNumber(s) /\ ~IsWord(s)
<1>1. s[1] \in Letters \cup Digits => ~IsSymbol(s)
  BY SymbolMark, LettersAssumption
<1>2. s[1] \in Digits => ~IsWord(s)
  BY LettersAssumption DEF IsWord
<1>3. s[1] \notin Digits => ~IsNumber(s)
  BY DEF IsNumber
<1>4. s[1] \notin Letters => ~IsWord(s)
  BY DEF IsWord
<1> QED BY <1>1, <1>2, <1>3, <1>4, LettersAssumption

\* Letters and digits are no marks.
LEMMA PlainChar ==
    ASSUME NEW c \in Letters \cup Digits
    PROVE  c \notin Blanks \cup {NL} /\ c \notin {"#", "/"} /\ c # NL
BY LettersAssumption DEF Marks

\* The characters of a token that holds neither a hash, a slash nor a blank.
LEMMA CodeOf ==
    ASSUME Len(text) \in Nat, NEW p \in 1 .. End, NEW q \in p .. End, Modes(text)[p - 1] \in {"code", "closed"},
           \A i \in p .. q - 1 : text[i] \notin {"#", "/"} /\ text[i] \notin Blanks \cup {NL}
    PROVE  (\A i \in p .. q - 1 : i \in Code(text)) /\ Outside(text, q)
<1>1. (\A i \in p .. q - 1 : Modes(text)[i] = "code") /\ Modes(text)[q - 1] \in {"code", "closed"}
  BY CodeRun
<1>2. \A i \in p .. q - 1 : i \in 1 .. Len(text)
  BY DEF End
<1>3. \A i \in p .. q - 1 : i \in Code(text)
  BY <1>1, <1>2 DEF Code
<1> QED BY <1>1, <1>3 DEF Outside

\* Where a token can start: at the end of the text or at a character outside
\* comments that is neither blank nor starts a comment.
LEMMA Start ==
    ASSUME SearchInv, at = "blanks", IsCode(lexer), lexer.curr < End
    PROVE  LET p == lexer.curr IN
           /\ Modes(text)[p - 1] \in {"code", "closed"}
           /\ text[p] \notin Blanks \cup {NL} /\ text[p] # "#" /\ text[p] # NL
           /\ text[p] = "/" => Behind(p) \notin {"/", "*"}
<1>1. lexer_peek(lexer) = text[lexer.curr] /\ lexer_peek_next(lexer) = Behind(lexer.curr)
  BY SearchTypes
<1>2. /\ text[lexer.curr] \notin Blanks \cup {NL, "#"}
      /\ ~(text[lexer.curr] = "/" /\ Behind(lexer.curr) \in {"/", "*"})
  BY <1>1, Zenon DEF IsCode, IsComment
<1>3. lexer.curr # Len(text) + 1
  BY SearchTypes
<1>4. Modes(text)[lexer.curr - 1] \in {"code", "closed"}
  BY <1>2, <1>3 DEF SearchInv, Cursor, Outside
<1> QED BY <1>2, <1>4

\* A run of letters and digits from the cursor: where it ends, and what it is.
LEMMA RunCut ==
    ASSUME SearchInv, at = "blanks", IsCode(lexer), lexer.curr < End,
           NEW Class, Class \subseteq Letters \cup Digits, text[lexer.curr] \in Class
    PROVE  LET p == lexer.curr
               q == RunEnd(p, Class)
               n == AdvanceTo(lexer, q)
               s == SubSeq(text, p, q - 1)
           IN /\ q \in Nat /\ q > p /\ q <= End
              /\ Cursor(text, n, "returned") /\ n.curr = q
              /\ \A i \in p .. q - 1 : i \in Code(text)
              /\ s \in Seq(STRING) /\ 1 \in DOMAIN s /\ s[1] = text[p]
              /\ \A i \in DOMAIN s : s[i] \in Class
              /\ q < End => LET e == Append(s, text[q]) IN
                               /\ text[q] \notin Class /\ 1 \in DOMAIN e /\ e[1] = text[p]
                               /\ \E i \in DOMAIN e : e[i] = text[q]
<1> DEFINE p == lexer.curr
           q == RunEnd(p, Class)
           n == AdvanceTo(lexer, q)
           s == SubSeq(text, p, q - 1)
           e == Append(s, text[q])
<1>1. text \in Seq(STRING) /\ Len(text) \in Nat /\ p \in 1 .. End /\ p \in Nat /\ End = Len(text) + 1 /\ End \in Nat
  BY SearchTypes
<1>2. /\ q \in p .. End /\ q \in Nat
      /\ \A i \in p .. q - 1 : text[i] \in Class
      /\ q < End => text[q] \notin Class
  BY <1>1, RunEndOf
<1> HIDE DEF q
<1>3. q > p /\ q <= End
  <2>1. q # p
    BY <1>2
  <2> QED BY <1>1, <1>2, <2>1
<1>4. Placed(text, lexer) /\ Modes(text)[p - 1] \in {"code", "closed"}
  BY Start DEF SearchInv, Cursor
<1>5. \A i \in p .. q - 1 : /\ text[i] \notin {"#", "/"} /\ text[i] \notin Blanks \cup {NL}
                            /\ text[i] # NL
  BY <1>2, PlainChar
<1>6. (\A i \in p .. q - 1 : i \in Code(text)) /\ Outside(text, q)
  BY <1>1, <1>2, <1>4, <1>5, CodeOf
<1>7. Placed(text, n)
  BY <1>1, <1>2, <1>4, <1>5, PlacedPlain
<1>8. n.curr = q
  <2>1. lexer \in [curr : 1 .. End, line : Nat, column : Int]
    BY <1>1, <1>4 DEF Placed
  <2> QED BY <2>1 DEF AdvanceTo
<1> HIDE DEF n
<1>9. Cursor(text, n, "returned")
  BY <1>6, <1>7, <1>8 DEF Cursor
<1>10. /\ s \in Seq(STRING) /\ Len(s) = q - p /\ DOMAIN s = 1 .. q - p
       /\ \A i \in 1 .. q - p : s[i] = text[(p + i) - 1]
  BY <1>1, <1>2, Piece
<1> HIDE DEF s
<1>11. 1 \in DOMAIN s /\ s[1] = text[p]
  <2>1. 1 \in 1 .. q - p /\ (p + 1) - 1 = p
    BY <1>1, <1>2, <1>3
  <2> QED BY <1>10, <2>1
<1>12. ASSUME NEW i \in DOMAIN s PROVE s[i] \in Class
  <2>1. i \in 1 .. q - p /\ (p + i) - 1 \in p .. q - 1
    BY <1>1, <1>2, <1>10
  <2> QED BY <1>2, <1>10, <2>1
<1>13. ASSUME q < End PROVE 1 \in DOMAIN e /\ e[1] = text[p] /\ \E i \in DOMAIN e : e[i] = text[q]
  <2>1. q \in 1 .. Len(text)
    BY <1>1, <1>2, <1>13
  <2>2. text[q] \in STRING
    BY <1>1, <2>1, ElementOfSeq
  <2>3. DOMAIN e = 1 .. Len(s) + 1 /\ e[Len(s) + 1] = text[q] /\ \A i \in 1 .. Len(s) : e[i] = s[i]
    BY <1>10, <2>2, PieceMore
  <2> HIDE DEF e
  <2>4. Len(s) + 1 \in 1 .. Len(s) + 1 /\ 1 \in 1 .. Len(s) + 1 /\ 1 \in 1 .. Len(s)
    BY <1>1, <1>2, <1>3, <1>10
  <2> QED BY <1>11, <2>3, <2>4
<1> QED BY <1>2, <1>3, <1>6, <1>8, <1>9, <1>10, <1>11, <1>12, <1>13 DEF q, n, s

\* A number.
LEMMA NumberCut ==
    ASSUME SearchInv, at = "blanks", IsCode(lexer), lexer.curr < End, text[lexer.curr] \in Digits
    PROVE  Cut(text, Number(lexer), lexer.curr)
<1> DEFINE p == lexer.curr
           q == RunEnd(p, Digits)
           n == AdvanceTo(lexer, q)
           s == SubSeq(text, p, q - 1)
           e == Append(s, text[q])
           k == [type |-> "NUMBER", view |-> <<p, n.curr - p>>, line |-> n.line, column |-> n.column,
                 from |-> p, to |-> n.curr]
<1>0. p \in Nat /\ p >= 1 /\ End = Len(text) + 1
  BY SearchTypes
<1>1. /\ q \in Nat /\ q > p /\ q <= End
      /\ Cursor(text, n, "returned") /\ n.curr = q
      /\ \A i \in p .. q - 1 : i \in Code(text)
      /\ s \in Seq(STRING) /\ 1 \in DOMAIN s /\ s[1] = text[p]
      /\ \A i \in DOMAIN s : s[i] \in Digits
      /\ q < End => /\ text[q] \notin Digits /\ 1 \in DOMAIN e /\ e[1] = text[p]
                    /\ \E i \in DOMAIN e : e[i] = text[q]
  BY RunCut
<1>2. Number(lexer) = [lexer |-> n, token |-> k]
  BY DEF Number, lexer_make_token, Token
<1> HIDE DEF q, n, s, e
<1>3. q < End => ~Spells(e)
  <2> SUFFICES ASSUME q < End PROVE ~Spells(e)
    OBVIOUS
  <2>1. ~IsNumber(e)
    BY <1>1 DEF IsNumber
  <2>2. ~IsWord(e) /\ ~IsSymbol(e)
    BY <1>1, FirstChar
  <2> QED BY <2>1, <2>2 DEF Spells
<1>4. SpellsType(s, "NUMBER")
  BY <1>1, Spellings DEF SpellsType, IsNumber
<1>5. k.view # NoView
  BY <1>0 DEF NoView
<1>6. k.type = "NUMBER" /\ k.from = p /\ k.to = q /\ k.line = n.line /\ k.column = n.column
  BY <1>1
<1> HIDE DEF k
<1>7. Matched(text, k)
  BY <1>0, <1>3, <1>4, <1>5, <1>6 DEF Matched, s, e
<1>8. q >= p
  BY <1>0, <1>1
<1>10. Number(lexer).lexer = n /\ Number(lexer).token = k
  BY <1>2
<1> QED BY <1>1, <1>6, <1>7, <1>8, <1>10 DEF Cut

\* A name or a keyword.
LEMMA WordCut ==
    ASSUME SearchInv, at = "blanks", IsCode(lexer), lexer.curr < End, text[lexer.curr] \in Letters
    PROVE  Cut(text, Word(lexer), lexer.curr)
<1> DEFINE p == lexer.curr
           Class == Letters \cup Digits
           q == RunEnd(p, Class)
           n == AdvanceTo(lexer, q)
           s == SubSeq(text, p, q - 1)
           e == Append(s, text[q])
           type == check_keyword(s)
           k == [type |-> type, view |-> <<p, n.curr - p>>, line |-> n.line, column |-> n.column,
                 from |-> p, to |-> n.curr]
<1>0. p \in Nat /\ p >= 1 /\ End = Len(text) + 1
  BY SearchTypes
<1>1. /\ q \in Nat /\ q > p /\ q <= End
      /\ Cursor(text, n, "returned") /\ n.curr = q
      /\ \A i \in p .. q - 1 : i \in Code(text)
      /\ s \in Seq(STRING) /\ 1 \in DOMAIN s /\ s[1] = text[p]
      /\ \A i \in DOMAIN s : s[i] \in Class
      /\ q < End => /\ text[q] \notin Class /\ 1 \in DOMAIN e /\ e[1] = text[p]
                    /\ \E i \in DOMAIN e : e[i] = text[q]
  <2>1. Class \subseteq Letters \cup Digits /\ text[p] \in Class
    OBVIOUS
  <2> HIDE DEF Class
  <2> QED BY <2>1, RunCut
<1>2. Word(lexer) = [lexer |-> n, token |-> k]
  BY DEF Word, lexer_make_token, Token
<1> HIDE DEF q, n, s, e, type
<1>3. q < End => ~Spells(e)
  <2> SUFFICES ASSUME q < End PROVE ~Spells(e)
    OBVIOUS
  <2>1. ~IsWord(e)
    BY <1>1 DEF IsWord
  <2>2. ~IsNumber(e) /\ ~IsSymbol(e)
    BY <1>1, FirstChar
  <2> QED BY <2>1, <2>2 DEF Spells
<1>4. IsWord(s)
  BY <1>1 DEF IsWord
<1>5. SpellsType(s, type) /\ type \notin {"NONE", "EOF"}
  <2>1. CASE s \in DOMAIN Keywords
    <3>1. type = Keywords[s]
      BY <2>1 DEF type, check_keyword
    <3>2. type \notin DOMAIN SPELLING \cup {"NONE", "EOF", "ERROR", "NUMBER", "IDENTIFIER"}
      BY <2>1, <3>1, KeywordsAssumption
    <3> QED BY <2>1, <3>1, <3>2 DEF SpellsType
  <2>2. CASE s \notin DOMAIN Keywords
    <3>1. type = "IDENTIFIER"
      BY <2>2 DEF type, check_keyword
    <3> QED BY <1>4, <2>2, <3>1, Spellings DEF SpellsType
  <2> QED BY <2>1, <2>2
<1>6. k.view # NoView
  BY <1>0 DEF NoView
<1>7. k.type = type /\ k.from = p /\ k.to = q /\ k.line = n.line /\ k.column = n.column
  BY <1>1
<1> HIDE DEF k
<1>8. Matched(text, k)
  BY <1>0, <1>3, <1>5, <1>6, <1>7 DEF Matched, s, e
<1>9. q >= p
  BY <1>0, <1>1
<1>10. Word(lexer).lexer = n /\ Word(lexer).token = k
  BY <1>2
<1> QED BY <1>1, <1>5, <1>7, <1>8, <1>9, <1>10 DEF Cut

\* A token of one character, at the cursor.
LEMMA OneChar ==
    ASSUME SearchInv, at = "blanks", IsCode(lexer), lexer.curr < End
    PROVE  LET p == lexer.curr
               n == lexer_advance(lexer)
           IN /\ Cursor(text, n, "returned") /\ n.curr = p + 1
              /\ p \in Code(text) /\ Modes(text)[p] = "code"
              /\ lexer_peek(n) = IF p + 1 < End THEN text[p + 1] ELSE NUL
              /\ SubSeq(text, p, (p + 1) - 1) = <<text[p]>>
<1> DEFINE p == lexer.curr
           n == lexer_advance(lexer)
<1>1. text \in Seq(STRING) /\ Len(text) \in Nat /\ p \in 1 .. End /\ p \in Nat /\ End = Len(text) + 1 /\ End \in Nat
  BY SearchTypes
<1>2. /\ Modes(text)[p - 1] \in {"code", "closed"} /\ text[p] \notin Blanks \cup {NL}
      /\ text[p] # "#" /\ text[p] # NL /\ (text[p] = "/" => Behind(p) \notin {"/", "*"})
  BY Start
<1>3. p \in 1 .. Len(text) /\ (p + 1) - 1 = p
  BY <1>1
<1>4. Modes(text)[p] = "code"
  BY <1>1, <1>2, <1>3, CodeChar
<1>5. p \in Code(text)
  BY <1>2, <1>3, <1>4 DEF Code
<1>6. Placed(text, n) /\ n.curr = p + 1
  BY <1>1, <1>2, PlacedAdvance DEF SearchInv, Cursor
<1> HIDE DEF n
<1>7. Cursor(text, n, "returned")
  BY <1>3, <1>4, <1>6 DEF Cursor, Outside
<1>8. lexer_peek(n) = IF p + 1 < End THEN text[p + 1] ELSE NUL
  BY <1>1, <1>6 DEF lexer_peek
<1>9. SubSeq(text, p, (p + 1) - 1) = <<text[p]>>
  <2> DEFINE s == SubSeq(text, p, (p + 1) - 1)
             q == p + 1
  <2>1. q \in p .. End /\ q - p = 1 /\ (p + 1) - 1 = p /\ 1 \in 1 .. 1
    BY <1>1
  <2>2. s \in Seq(STRING) /\ Len(s) = q - p /\ \A i \in 1 .. q - p : s[i] = text[(p + i) - 1]
    <3> HIDE DEF q, s
    <3>1. s = SubSeq(text, p, q - 1)
      BY DEF q, s
    <3> QED BY <1>1, <2>1, <3>1, Piece
  <2> HIDE DEF s, q
  <2>3. Len(s) = 1 /\ s[1] = text[p]
    BY <2>1, <2>2
  <2>4. s = <<text[p]>>
    BY <2>2, <2>3
  <2> QED BY <2>4 DEF s
<1> QED BY <1>4, <1>5, <1>6, <1>7, <1>8, <1>9 DEF n

\* A symbol of one character, or a character that starts no token.
LEMMA AloneCut ==
    ASSUME SearchInv, at = "blanks", IsCode(lexer), lexer.curr < End, text[lexer.curr] \notin Letters \cup Digits,
           Pair(text[lexer.curr], lexer_peek(lexer_advance(lexer))) = "NONE",
           NEW view
    PROVE  Cut(text, Token(lexer_advance(lexer), Alone(text[lexer.curr]), view, lexer.curr), lexer.curr)
<1> DEFINE p == lexer.curr
           c == text[p]
           n == lexer_advance(lexer)
           s == SubSeq(text, p, n.curr - 1)
           k == [type |-> Alone(c), view |-> view, line |-> n.line, column |-> n.column,
                 from |-> p, to |-> n.curr]
           r == Token(n, Alone(c), view, p)
<1>1. text \in Seq(STRING) /\ Len(text) \in Nat /\ p \in 1 .. End /\ p \in Nat /\ End = Len(text) + 1
  BY SearchTypes
<1>2. /\ Cursor(text, n, "returned") /\ n.curr = p + 1
      /\ p \in Code(text)
      /\ lexer_peek(n) = IF p + 1 < End THEN text[p + 1] ELSE NUL
      /\ SubSeq(text, p, (p + 1) - 1) = <<c>>
  BY OneChar
<1>3. r.lexer = n /\ r.token = k
  BY DEF Token
<1>4. Pair(c, lexer_peek(n)) = "NONE"
  OBVIOUS
<1>5. s = <<c>>
  BY <1>2
<1>6. ~IsNumber(s) /\ ~IsWord(s)
  <2>1. 1 \in DOMAIN <<c>> /\ <<c>>[1] = c
    OBVIOUS
  <2> QED BY <1>5, <2>1, FirstChar
<1>7. k.type = Alone(c) /\ k.from = p /\ k.to = n.curr /\ k.line = n.line /\ k.column = n.column
  OBVIOUS
<1> HIDE DEF n, s, k, r
<1>8. SpellsType(s, Alone(c))
  <2>1. CASE Alone(c) = "ERROR"
    <3>1. ~Spells(s) /\ Len(s) = 1
      BY <1>5, <1>6, <2>1, SingleSymbol DEF Spells
    <3> QED BY <2>1, <3>1, Spellings DEF SpellsType
  <2>2. CASE Alone(c) # "ERROR"
    <3>1. Alone(c) \in DOMAIN SPELLING /\ SPELLING[Alone(c)] = s /\ Alone(c) \notin {"NUMBER", "IDENTIFIER"}
      BY <1>5, <2>2, SingleSymbol
    <3> QED BY <2>2, <3>1 DEF SpellsType
  <2> QED BY <2>1, <2>2
<1>9. ASSUME n.curr < End PROVE ~Spells(Append(s, text[n.curr]))
  <2> DEFINE m == text[n.curr]
             e == <<c, m>>
  <2>1. Append(s, m) = e /\ 1 \in DOMAIN e /\ e[1] = c
    <3>1. c \in STRING /\ m \in STRING
      <4>1. p \in 1 .. Len(text) /\ n.curr \in 1 .. Len(text)
        BY <1>1, <1>2, <1>9
      <4> QED BY <1>1, <4>1, ElementOfSeq
    <3>2. 1 \in DOMAIN <<c, m>> /\ <<c, m>>[1] = c
      OBVIOUS
    <3>3. Append(<<c>>, m) = <<c, m>>
      BY <3>1, Longer
    <3> QED BY <1>5, <3>2, <3>3
  <2>2. lexer_peek(n) = m
    BY <1>2, <1>9
  <2>3. ~IsSymbol(e)
    BY <1>4, <2>2, DoubleSymbol
  <2> HIDE DEF e
  <2>4. ~IsNumber(e) /\ ~IsWord(e)
    BY <2>1, FirstChar
  <2> QED BY <2>1, <2>3, <2>4 DEF Spells
<1>10. Matched(text, k)
  BY <1>1, <1>6, <1>7, <1>8, <1>9 DEF Matched, s
<1>11. p + 1 >= p /\ \A i \in p .. (p + 1) - 1 : i = p
  BY <1>1
<1>12. Alone(c) \notin {"NONE", "EOF"}
  BY SingleSymbol
<1>13. Cut(text, r, p)
  BY <1>2, <1>3, <1>7, <1>10, <1>11, <1>12 DEF Cut
<1> QED BY <1>13 DEF r, n

\* A symbol of two characters.
LEMMA PairCut ==
    ASSUME SearchInv, at = "blanks", IsCode(lexer), lexer.curr < End, text[lexer.curr] \notin Letters \cup Digits,
           Pair(text[lexer.curr], lexer_peek(lexer_advance(lexer))) # "NONE"
    PROVE  Cut(text, Token(lexer_advance(lexer_advance(lexer)),
                           Pair(text[lexer.curr], lexer_peek(lexer_advance(lexer))), NoView, lexer.curr), lexer.curr)
<1> DEFINE p == lexer.curr
           c == text[p]
           a == lexer_advance(lexer)
           n == lexer_advance(a)
           d == lexer_peek(a)
           s == SubSeq(text, p, n.curr - 1)
           k == [type |-> Pair(c, d), view |-> NoView, line |-> n.line, column |-> n.column,
                 from |-> p, to |-> n.curr]
           r == Token(n, Pair(c, d), NoView, p)
<1>1. text \in Seq(STRING) /\ Len(text) \in Nat /\ p \in 1 .. End /\ p \in Nat /\ End = Len(text) + 1 /\ End \in Nat
  BY SearchTypes
<1>2. /\ Cursor(text, a, "returned") /\ a.curr = p + 1
      /\ p \in Code(text) /\ Modes(text)[p] = "code"
      /\ d = IF p + 1 < End THEN text[p + 1] ELSE NUL
  BY OneChar
<1>3. r.lexer = n /\ r.token = k
  BY DEF Token
<1>4. Pair(c, d) # "NONE" /\ Placed(text, lexer)
  BY DEF SearchInv, Cursor
<1>5. /\ Pair(c, d) \in DOMAIN SPELLING /\ SPELLING[Pair(c, d)] = <<c, d>>
      /\ Pair(c, d) \notin {"NONE", "EOF", "NUMBER", "IDENTIFIER", "ERROR"}
      /\ d \in {"=", ">", "<"} /\ c \in {"!", "=", ">", "<"}
  BY <1>4, DoubleSymbol
<1>6. k.type = Pair(c, d) /\ k.from = p /\ k.to = n.curr /\ k.line = n.line /\ k.column = n.column
  OBVIOUS
<1> HIDE DEF d, k, r, s
<1>7. p + 1 < End /\ d = text[p + 1]
  BY <1>2, <1>5 DEF NUL
<1>8. \A x \in {"!", "=", ">", "<"} : x # NL /\ x \notin {"#", "/"} /\ x \notin Blanks \cup {NL}
  BY DEF NL, Blanks
<1>9. Placed(text, n) /\ n.curr = p + 2
  <2>1. text[p] # NL /\ text[p + 1] # NL
    BY <1>5, <1>7, <1>8
  <2> QED BY <1>1, <1>4, <1>7, <2>1, PlacedTwice
<1> HIDE DEF n, a
<1>10. p + 1 \in 1 .. End /\ p + 2 \in p + 1 .. End /\ (p + 1) - 1 = p
       /\ (\A i \in p + 1 .. (p + 2) - 1 : i = p + 1) /\ p + 2 >= p
       /\ (\A i \in p .. (p + 2) - 1 : i = p \/ i = p + 1) /\ p + 1 \in p + 1 .. (p + 2) - 1
  <2>1. p + 1 \in 1 .. End /\ p + 2 \in p + 1 .. End /\ (p + 1) - 1 = p /\ p + 2 >= p
    BY <1>1, <1>7
  <2>2. \A i \in p + 1 .. (p + 2) - 1 : i = p + 1
    BY <1>1
  <2>3. \A i \in p .. (p + 2) - 1 : i = p \/ i = p + 1
    BY <1>1
  <2>4. p + 1 \in p + 1 .. (p + 2) - 1
    BY <1>1
  <2> QED BY <2>1, <2>2, <2>3, <2>4
<1>11. (\A i \in p + 1 .. (p + 2) - 1 : i \in Code(text)) /\ Outside(text, p + 2)
  <2> DEFINE u == p + 1
             v == p + 2
  <2>1. \A i \in u .. v - 1 : text[i] \notin {"#", "/"} /\ text[i] \notin Blanks \cup {NL}
    BY <1>5, <1>7, <1>8, <1>10
  <2>2. Modes(text)[u - 1] \in {"code", "closed"} /\ u \in 1 .. End /\ v \in u .. End
    BY <1>2, <1>10
  <2> HIDE DEF u, v
  <2>3. (\A i \in u .. v - 1 : i \in Code(text)) /\ Outside(text, v)
    BY <1>1, <2>1, <2>2, CodeOf
  <2> QED BY <2>3 DEF u, v
<1>12. \A i \in p .. n.curr - 1 : i \in Code(text)
  BY <1>2, <1>9, <1>10, <1>11
<1>13. Cursor(text, n, "returned")
  BY <1>9, <1>11 DEF Cursor
<1>14. s = <<c, d>>
  <2> DEFINE q == p + 2
  <2>1. q \in p .. End /\ q - p = 2 /\ (p + 1) - 1 = p /\ (p + 2) - 1 = p + 1 /\ 1 \in 1 .. 2 /\ 2 \in 1 .. 2
    BY <1>1, <1>7
  <2>2. s \in Seq(STRING) /\ Len(s) = q - p /\ \A i \in 1 .. q - p : s[i] = text[(p + i) - 1]
    <3> HIDE DEF q
    <3>1. s = SubSeq(text, p, q - 1)
      BY <1>9 DEF q, s
    <3> QED BY <1>1, <2>1, <3>1, Piece
  <2> HIDE DEF q
  <2>3. Len(s) = 2 /\ s[1] = c /\ s[2] = d
    BY <1>7, <2>1, <2>2
  <2> QED BY <2>2, <2>3
<1>15. ~IsNumber(s) /\ ~IsWord(s)
  <2>1. 1 \in DOMAIN <<c, d>> /\ <<c, d>>[1] = c
    OBVIOUS
  <2> QED BY <1>14, <2>1, FirstChar
<1>16. SpellsType(s, Pair(c, d))
  BY <1>5, <1>14 DEF SpellsType
<1>17. ASSUME n.curr < End PROVE ~Spells(Append(s, text[n.curr]))
  <2> DEFINE m == text[n.curr]
             e == <<c, d, m>>
  <2>1. Append(s, m) = e /\ 1 \in DOMAIN e /\ e[1] = c
    <3>1. c \in STRING /\ m \in STRING
      <4>1. p \in 1 .. Len(text) /\ n.curr \in 1 .. Len(text)
        BY <1>1, <1>9, <1>17
      <4> QED BY <1>1, <4>1, ElementOfSeq
    <3>2. 1 \in DOMAIN <<c, d, m>> /\ <<c, d, m>>[1] = c
      OBVIOUS
    <3>3. Append(<<c, d>>, m) = <<c, d, m>>
      <4>1. d \in STRING
        <5>1. p + 1 \in 1 .. Len(text)
          BY <1>1, <1>7
        <5> QED BY <1>1, <1>7, <5>1, ElementOfSeq
      <4> QED BY <3>1, <4>1, Longer
    <3> QED BY <1>14, <3>2, <3>3
  <2>2. ~IsSymbol(e)
    BY NoTriple
  <2> HIDE DEF e
  <2>3. ~IsNumber(e) /\ ~IsWord(e)
    BY <2>1, FirstChar
  <2> QED BY <2>1, <2>2, <2>3 DEF Spells
<1>18. Matched(text, k)
  BY <1>1, <1>6, <1>15, <1>16, <1>17 DEF Matched, s
<1>19. Cut(text, r, p)
  BY <1>3, <1>5, <1>6, <1>9, <1>10, <1>12, <1>13, <1>18 DEF Cut
<1> QED BY <1>19 DEF r, n, a, d

\* The end of the file.
LEMMA EndCut ==
    ASSUME SearchInv, at = "blanks", lexer.curr >= End
    PROVE  Cut(text, lexer_make_token_no_sv(lexer, "EOF", lexer.curr), lexer.curr)
<1> DEFINE p == lexer.curr
           r == lexer_make_token_no_sv(lexer, "EOF", p)
           k == [type |-> "EOF", view |-> NoView, line |-> lexer.line, column |-> lexer.column,
                 from |-> p, to |-> p]
<1>1. p \in Nat /\ p = Len(text) + 1
  BY SearchTypes
<1>2. p >= p /\ p .. p - 1 = {}
  BY <1>1
<1>3. r.lexer = lexer /\ r.token = k
  BY DEF lexer_make_token_no_sv, Token
<1>4. k.type = "EOF" /\ k.from = p /\ k.to = p /\ k.line = lexer.line /\ k.column = lexer.column
  OBVIOUS
<1> HIDE DEF k, r
<1>5. Matched(text, k)
  BY <1>4 DEF Matched
<1>6. Cursor(text, lexer, "returned")
  BY DEF SearchInv, Cursor
<1>7. Cut(text, r, p)
  BY <1>1, <1>2, <1>3, <1>4, <1>5, <1>6 DEF Cut
<1> QED BY <1>7 DEF r

\* The token at the cursor, whatever is there.
LEMMA TokenCut ==
    ASSUME SearchInv, at = "blanks", IsCode(lexer)
    PROVE  Cut(text, TokenAt(lexer), lexer.curr)
<1> DEFINE p == lexer.curr
           c == text[p]
           a == lexer_advance(lexer)
<1>1. p \in Nat /\ End \in Nat /\ (p < End => lexer_peek(lexer) = c)
  BY SearchTypes
<1>2. CASE p >= End
  <2>1. TokenAt(lexer) = lexer_make_token_no_sv(lexer, "EOF", p)
    <3>1. lexer_peek(lexer) = NUL
      BY <1>2 DEF lexer_peek
    <3> QED BY <1>2, <3>1, LettersAssumption DEF TokenAt
  <2> QED BY <1>2, <2>1, EndCut
<1>3. CASE p < End /\ c \in Digits
  <2>1. TokenAt(lexer) = Number(lexer)
    BY <1>1, <1>3, LettersAssumption DEF TokenAt
  <2> QED BY <1>3, <2>1, NumberCut
<1>4. CASE p < End /\ c \in Letters
  <2>1. TokenAt(lexer) = Word(lexer)
    BY <1>1, <1>4, LettersAssumption DEF TokenAt
  <2> QED BY <1>4, <2>1, WordCut
<1>5. CASE p < End /\ c \notin Letters \cup Digits
  <2>1. TokenAt(lexer) = Symbol(lexer)
    BY <1>1, <1>5 DEF TokenAt
  <2>2. lexer_peek(lexer) = c
    BY <1>1, <1>5
  <2>3. CASE Pair(c, lexer_peek(a)) # "NONE"
    <3>1. Symbol(lexer) = Token(lexer_advance(a), Pair(c, lexer_peek(a)), NoView, p)
      BY <2>2, <2>3 DEF Symbol, lexer_make_token_no_sv
    <3> QED BY <1>5, <2>1, <2>3, <3>1, PairCut
  <2>4. CASE Pair(c, lexer_peek(a)) = "NONE"
    <3>1. Symbol(lexer) = IF Alone(c) \in Unviewed THEN lexer_make_token_no_sv(a, Alone(c), p)
                          ELSE lexer_make_token(a, Alone(c), p)
      BY <2>2, <2>4 DEF Symbol
    <3>2. \E view : Symbol(lexer) = Token(a, Alone(c), view, p)
      BY <3>1, Zenon DEF lexer_make_token_no_sv, lexer_make_token
    <3> QED BY <1>5, <2>1, <2>4, <3>2, AloneCut
  <2> QED BY <2>3, <2>4
<1> QED BY <1>1, <1>2, <1>3, <1>4, <1>5

\* ---- the theorems ----

\* The inductive invariant.
Inv == SearchInv /\ TokensExact /\ PlacesExact

\* The first token has not been asked for.
LEMMA InvInit == Init => Inv
<1> SUFFICES ASSUME Init PROVE Inv
  OBVIOUS
<1>1. text \in Texts /\ lexer = [curr |-> 1, line |-> 1, column |-> 1] /\ at = "returned" /\ gap = 1
      /\ token.type = "NONE" /\ token.from = 1 /\ token.to = 1
  BY DEF Init, lexer_init, NoToken
<1>2. Len(text) \in Nat /\ 1 - 1 = 0 /\ 1 .. 0 = {} /\ End = Len(text) + 1
  BY <1>1, TextsAssumption DEF End
<1>3. Before(text, 1) = {} /\ Cardinality(Before(text, 1)) = 0
  BY FS_EmptySet DEF Before
<1>4. Placed(text, lexer)
  BY <1>1, <1>2, <1>3 DEF Placed, OnColumn
<1>5. Outside(text, 1)
  BY <1>2, ModesOf DEF Outside
<1>6. SearchInv
  BY <1>1, <1>4, <1>5 DEF SearchInv, Cursor
<1>7. TokensExact
  BY <1>1, <1>2 DEF TokensExact, TokensCover, LongestMatch
<1>8. PlacesExact
  BY <1>1 DEF PlacesExact
<1> QED BY <1>6, <1>7, <1>8 DEF Inv

\* The token is the one before.
LEMMA TokenKept ==
    ASSUME Inv, UNCHANGED <<text, token>>, at' # "returned"
    PROVE  TokensExact' /\ PlacesExact'
<1>1. text' = text /\ token' = token
  OBVIOUS
<1>2. LongestMatch'
  <2>1. LongestMatch
    BY DEF Inv, TokensExact
  <2> QED BY <1>1, <2>1 DEF LongestMatch, End
<1>3. PlacesExact'
  <2>1. PlacesExact
    BY DEF Inv
  <2> QED BY <1>1, <2>1 DEF PlacesExact, Newlines
<1> QED BY <1>2, <1>3 DEF TokensExact, TokensCover

\* A step that makes a token.
LEMMA TokenMade ==
    ASSUME Inv, lexer_next
    PROVE  Inv'
<1> DEFINE r == TokenAt(lexer)
           p == lexer.curr
<1>1. /\ at = "blanks" /\ IsCode(lexer) /\ lexer' = r.lexer /\ token' = r.token
      /\ at' = "returned" /\ text' = text /\ gap' = gap
  BY DEF lexer_next
<1>2. SearchInv
  BY DEF Inv
<1>3. Cut(text, r, p)
  BY <1>1, <1>2, TokenCut
<1>4. /\ Len(text) \in Nat /\ p \in Nat /\ gap \in Nat /\ gap >= 1 /\ gap <= p
      /\ NoCode(text, gap, p) /\ text \in Texts /\ End = Len(text) + 1
  BY <1>1, <1>2, SearchTypes DEF SearchInv
<1> HIDE DEF r
<1> DEFINE n == r.lexer
           k == r.token
<1>5. /\ Cursor(text, n, "returned")
      /\ k.from = p /\ k.to = n.curr /\ n.curr >= p
      /\ k.line = n.line /\ k.column = n.column
      /\ \A i \in p .. n.curr - 1 : i \in Code(text)
      /\ k.type = "EOF" => n.curr = Len(text) + 1
      /\ k.type # "NONE"
      /\ Matched(text, k)
  BY <1>3 DEF Cut
<1>6. lexer' = n /\ token' = k
  BY <1>1
<1> HIDE DEF n, k
<1>7. Placed(text, n) /\ n.curr \in Nat /\ n.curr <= Len(text) + 1
  BY <1>4, <1>5 DEF Cursor, Placed
<1>8. SearchInv'
  <2>1. gap \in 1 .. n.curr
    BY <1>4, <1>5, <1>7
  <2> QED BY <1>1, <1>4, <1>5, <1>6, <2>1 DEF SearchInv
<1>9. TokensCover'
  <2>1. \A i \in gap .. p - 1 : i \notin Code(text)
    BY <1>4 DEF NoCode
  <2> QED BY <1>1, <1>4, <1>5, <1>6, <1>7, <2>1 DEF TokensCover, End
<1>10. LongestMatch'
  BY <1>1, <1>5, <1>6 DEF LongestMatch, Matched, End
<1>11. PlacesExact'
  <2> DEFINE S == Before(text, n.curr)
  <2>1. n.line = 1 + Cardinality(S) /\ n.column = IF S = {} THEN n.curr ELSE n.curr - Max(S) + 1
    BY <1>4, <1>7, PlaceOf
  <2>2. Newlines' = S
    BY <1>1, <1>5, <1>6 DEF Newlines, Before
  <2> HIDE DEF S
  <2> QED BY <1>1, <1>5, <1>6, <2>1, <2>2 DEF PlacesExact
<1> QED BY <1>8, <1>9, <1>10, <1>11 DEF Inv, TokensExact

\* Every step keeps the invariant.
LEMMA InvStep == Inv /\ [Next]_vars => Inv'
<1> SUFFICES ASSUME Inv, [Next]_vars PROVE Inv'
  OBVIOUS
<1>1. CASE parser_advance
  <2>1. /\ at = "returned" /\ at' = "blanks" /\ gap' = lexer.curr
        /\ text' = text /\ lexer' = lexer /\ token' = token
    BY <1>1 DEF parser_advance
  <2>2. SearchInv
    BY DEF Inv
  <2>3. lexer.curr \in Nat /\ lexer.curr >= 1
    BY <2>2, SearchTypes
  <2>4. lexer.curr \in 1 .. lexer.curr /\ NoCode(text, lexer.curr, lexer.curr)
    BY <2>3 DEF NoCode
  <2>5. Cursor(text, lexer, "blanks")
    BY <2>1, <2>2 DEF SearchInv, Cursor
  <2>6. SearchInv'
    BY <2>1, <2>2, <2>4, <2>5 DEF SearchInv
  <2>7. TokensExact' /\ PlacesExact'
    BY <2>1, TokenKept
  <2> QED BY <2>6, <2>7 DEF Inv
<1>2. CASE lexer_skip_whitespace
  <2>1. SearchInv
    BY DEF Inv
  <2>2. UNCHANGED <<text, token>> /\ (at = "blanks" \/ at = "comment")
    BY <1>2, Zenon DEF lexer_skip_whitespace
  <2>3. SearchInv'
    BY <1>2, <2>1, <2>2, BlanksSkipped, CommentSkipped
  <2>4. at' # "returned"
    BY <1>2, Zenon DEF lexer_skip_whitespace, is_comment, BlockComment, Move
  <2> QED BY <2>2, <2>3, <2>4, TokenKept DEF Inv
<1>3. CASE lexer_next
  BY <1>3, TokenMade
<1>4. CASE UNCHANGED vars
  <2>1. text' = text /\ lexer' = lexer /\ at' = at /\ token' = token /\ gap' = gap
    BY <1>4 DEF vars
  <2>2. SearchInv'
    BY <2>1 DEF Inv, SearchInv
  <2>3. LongestMatch'
    BY <2>1 DEF Inv, TokensExact, LongestMatch, End
  <2>4. TokensCover'
    BY <2>1 DEF Inv, TokensExact, TokensCover, End
  <2>5. PlacesExact'
    BY <2>1 DEF Inv, PlacesExact, Newlines
  <2> QED BY <2>2, <2>3, <2>4, <2>5 DEF Inv, TokensExact
<1> QED BY <1>1, <1>2, <1>3, <1>4 DEF Next

\* The invariant holds in every run.
LEMMA InvAlways == Spec => []Inv
BY InvInit, InvStep, PTL DEF Spec

\* The tokens lexer_next returns are those of the language, whatever the file:
\* together they take all of its code and nothing of its blanks and comments,
\* and each is spelled as its type says and is the longest that starts there.
THEOREM TokensAlwaysExact == Spec => []TokensExact
<1>1. Inv => TokensExact
  BY DEF Inv
<1> QED BY <1>1, InvAlways, PTL

\* The line and the column that lexer_make_token stores in a token are those of
\* its end, for every file: one line for each newline before it, in a comment
\* or not, and the column counted from the last of them.
THEOREM PlacesAlwaysExact == Spec => []PlacesExact
<1>1. Inv => PlacesExact
  BY DEF Inv
<1> QED BY <1>1, InvAlways, PTL
=============================================================================
