---------------------------- MODULE Parser_proofs ----------------------------
(***************************************************************************)
(* The parser keeps its limits, starts every statement recovered, reports  *)
(* every hole it leaves in the tree and builds the tree that the operators *)
(* ask for, for every text.                                                *)
(*                                                                         *)
(* The heart is an invariant of the call stack todo: how high vals will    *)
(* stand and how deep in expressions the parser will be before each of the *)
(* steps still to take.  For precedence the steps form a chain as well:    *)
(* each one hands a value, known by its place in vals and by the token it  *)
(* starts at, to the step after it.                                        *)
(***************************************************************************)
EXTENDS Parser, Integers, SequenceTheorems, TLAPS

\* ---- the call stack ----

\* The names of tokens and nodes: strings, among them the ones the parser asks for.
Names == STRING \cup {"IDENTIFIER", "LPAREN", "RPAREN", "LBRACE", "RBRACE", "SEMICOLON", "IF", "WHILE",
                     "RETURN", "EOF", "UNARY", "GROUP", "ASSIGNMENT"}

\* The steps, with the limits of their counters.
Steps ==
         [op : {"synchronize", "statement", "var_decl", "initializer", "else", "return_value", "block",
                "end_block", "function", "parameters", "if", "while", "return", "decl"}]
    \cup [op : {"consume"}, token : Names]
    \cup [op : {"expression", "infix"}, prec : Nat]
    \cup [op : {"build"}, type : Names, at : Nat]
    \cup [op : {"arguments"}, at : Nat]
    \cup [op : {"argument", "call"}, at : Nat, n : 0 .. MAX_PARAMS_PER_FUNCTION]
    \cup [op : {"argument_done"}, at : Nat, n : 0 .. MAX_PARAMS_PER_FUNCTION - 1]
    \cup [op : {"statements"}, n : 0 .. MAX_BLOCK_STATEMENTS]
    \cup [op : {"statement_done"}, n : 0 .. MAX_BLOCK_STATEMENTS - 1]
    \cup [op : {"parameter", "parameter_done", "body"}, n : Nat]
    \cup [op : {"unit", "declared"}, n : 0 .. MAX_FUNCTION_COUNT]

\* The steps that leave one value more, until the function they belong to ends.
Makers == {"expression", "statement", "var_decl", "initializer", "else", "return_value", "block",
           "statements", "end_block", "function", "parameters", "parameter", "parameter_done", "body"}

\* How many values a step adds to vals, what it calls included.
Delta(x) ==
    CASE x.op \in Makers -> 1
      [] x.op = "build" -> IF x.type \in {"UNARY", "GROUP"} THEN 0 ELSE -1
      [] x.op \in {"argument", "call"} -> -x.n
      [] x.op = "argument_done" -> -(x.n + 1)
      [] x.op = "if" -> -2
      [] x.op \in {"while", "declared"} -> -1
      [] OTHER -> 0

\* Whether the step leaves an expression.
Deeper(x) == IF x.op = "infix" THEN 1 ELSE 0

\* The steps inside an expression, those panic mode may last to, and the ones at
\* the bottom of the stack.
Inner == {"expression", "infix", "build", "arguments", "argument", "argument_done", "call"}
Recovering == Inner \cup {"consume", "synchronize"}
Bottom == {"unit", "declared"}

\* Step x may be followed by one with op after, with h values and k expressions
\* entered after it.
Fits(x, after, h, k) ==
    /\ x.op \in Inner \cup {"initializer", "return_value"} => after \in Recovering
    /\ x.op \notin Bottom => after # "end"
    /\ x.op \notin Recovering => k = 0
    /\ x.op \notin Bottom \cup {"consume", "synchronize"} => h >= 1
    /\ x.op \in Bottom => h = 0

OpAt(s, i) == IF i <= Len(s) THEN s[i].op ELSE "end"

\* The steps s start with h values and k expressions entered: before step i there
\* are d[i] and e[i], after the last one none.
Stacked(s, h, k) ==
    \E d, e \in [1 .. Len(s) + 1 -> Nat] :
        /\ d[1] = h /\ e[1] = k
        /\ d[Len(s) + 1] = 0 /\ e[Len(s) + 1] = 0
        /\ \A i \in 1 .. Len(s) :
              /\ d[i + 1] = d[i] + Delta(s[i])
              /\ e[i] = e[i + 1] + Deeper(s[i])
              /\ Fits(s[i], OpAt(s, i + 1), d[i + 1], e[i + 1])

\* Stacked, for a stack of well-formed steps.
Stack(s, h, k) == s \in Seq(Steps) /\ h \in Nat /\ k \in Nat /\ Stacked(s, h, k)

Put(x, s) == <<x>> \o s

\* The fields of the steps.
LEMMA Fields ==
    ASSUME NEW x \in Steps
    PROVE  /\ x.op \in {"expression", "infix"} => x.prec \in Nat
           /\ x.op = "build" => x.type \in Names /\ x.at \in Nat
           /\ x.op = "arguments" => x.at \in Nat
           /\ x.op \in {"argument", "call"} => x.at \in Nat /\ x.n \in 0 .. MAX_PARAMS_PER_FUNCTION
           /\ x.op = "argument_done" => x.at \in Nat /\ x.n \in 0 .. MAX_PARAMS_PER_FUNCTION - 1
           /\ x.op = "statements" => x.n \in 0 .. MAX_BLOCK_STATEMENTS
           /\ x.op = "statement_done" => x.n \in 0 .. MAX_BLOCK_STATEMENTS - 1
           /\ x.op \in {"parameter", "parameter_done", "body"} => x.n \in Nat
           /\ x.op \in Bottom => x.n \in 0 .. MAX_FUNCTION_COUNT
           /\ x.op # "end"
<1>1. /\ x.op \in {"expression", "infix"} => x.prec \in Nat
      /\ x.op = "build" => x.type \in Names /\ x.at \in Nat
      /\ x.op = "arguments" => x.at \in Nat
      /\ x.op # "end"
  BY DEF Steps
<1>2. x.op \in {"argument", "call"} => x.at \in Nat /\ x.n \in 0 .. MAX_PARAMS_PER_FUNCTION
  BY DEF Steps
<1>3. x.op = "argument_done" => x.at \in Nat /\ x.n \in 0 .. MAX_PARAMS_PER_FUNCTION - 1
  BY DEF Steps
<1>4. x.op = "statements" => x.n \in 0 .. MAX_BLOCK_STATEMENTS
  BY DEF Steps
<1>5. x.op = "statement_done" => x.n \in 0 .. MAX_BLOCK_STATEMENTS - 1
  BY DEF Steps
<1>6. x.op \in {"parameter", "parameter_done", "body"} => x.n \in Nat
  BY DEF Steps
<1>7. x.op \in Bottom => x.n \in 0 .. MAX_FUNCTION_COUNT
  BY DEF Steps, Bottom
<1> QED BY <1>1, <1>2, <1>3, <1>4, <1>5, <1>6, <1>7

\* What each kind of step adds to vals.
LEMMA DeltaOf ==
    ASSUME NEW x \in Steps
    PROVE  /\ x.op \in Makers => Delta(x) = 1
           /\ x.op \in {"consume", "synchronize", "infix", "arguments", "return", "decl", "statement_done",
                       "unit"} => Delta(x) = 0
           /\ x.op = "build" /\ x.type \in {"UNARY", "GROUP"} => Delta(x) = 0
           /\ x.op = "build" /\ x.type \notin {"UNARY", "GROUP"} => Delta(x) = -1
           /\ x.op \in {"argument", "call"} => Delta(x) = -x.n
           /\ x.op = "argument_done" => Delta(x) = -(x.n + 1)
           /\ x.op = "if" => Delta(x) = -2
           /\ x.op \in {"while", "declared"} => Delta(x) = -1
BY DEF Delta, Makers

\* The counters of calls are numbers.
LEMMA Counts ==
    ASSUME NEW x \in Steps, x.op \in {"argument", "call", "argument_done"}
    PROVE  x.n \in Nat
<1>1. x.op \in {"argument", "call"} => x.n \in 0 .. MAX_PARAMS_PER_FUNCTION
  BY Fields, Zenon
<1>2. x.op = "argument_done" => x.n \in 0 .. MAX_PARAMS_PER_FUNCTION - 1
  BY Fields, Zenon
<1>3. \A n \in 0 .. MAX_PARAMS_PER_FUNCTION : n \in Nat
  BY LimitsAssumption
<1>4. \A n \in 0 .. MAX_PARAMS_PER_FUNCTION - 1 : n \in Nat
  BY LimitsAssumption
<1> QED BY <1>1, <1>2, <1>3, <1>4, Zenon

\* What a step adds to vals is an integer.
LEMMA DeltaType ==
    ASSUME NEW x \in Steps
    PROVE  Delta(x) \in Int
<1>1. CASE x.op \in {"argument", "call", "argument_done"}
  <2>1. x.n \in Nat
    BY <1>1, Counts
  <2> QED BY <1>1, <2>1 DEF Delta, Makers
<1>2. CASE x.op \notin {"argument", "call", "argument_done"}
  BY <1>2 DEF Delta
<1> QED BY <1>1, <1>2

\* Taking the first step off the stack.
LEMMA TakeOff ==
    ASSUME NEW s, NEW h, NEW k, Stack(s, h, k), s # <<>>
    PROVE  /\ s[1] \in Steps
           /\ Stack(Tail(s), h + Delta(s[1]), k - Deeper(s[1]))
           /\ Fits(s[1], OpAt(Tail(s), 1), h + Delta(s[1]), k - Deeper(s[1]))
           /\ k >= Deeper(s[1])
<1> DEFINE t == Tail(s)
           x == s[1]
<1>1. /\ s \in Seq(Steps) /\ h \in Nat /\ k \in Nat
      /\ x \in Steps /\ t \in Seq(Steps)
      /\ Len(s) = Len(t) + 1 /\ Len(t) \in Nat
      /\ \A i \in 1 .. Len(t) : t[i] = s[i + 1]
  BY DEF Stack
<1>2. PICK d \in [1 .. Len(s) + 1 -> Nat], e \in [1 .. Len(s) + 1 -> Nat] :
        /\ d[1] = h /\ e[1] = k
        /\ d[Len(s) + 1] = 0 /\ e[Len(s) + 1] = 0
        /\ \A i \in 1 .. Len(s) :
              /\ d[i + 1] = d[i] + Delta(s[i])
              /\ e[i] = e[i + 1] + Deeper(s[i])
              /\ Fits(s[i], OpAt(s, i + 1), d[i + 1], e[i + 1])
  BY DEF Stack, Stacked
<1> DEFINE D == [i \in 1 .. Len(t) + 1 |-> d[i + 1]]
           E == [i \in 1 .. Len(t) + 1 |-> e[i + 1]]
<1>3. \A i \in 0 .. Len(t) : OpAt(s, i + 1 + 1) = OpAt(t, i + 1)
  BY <1>1 DEF OpAt
<1>4. /\ d[2] = h + Delta(x) /\ k = e[2] + Deeper(x)
      /\ Fits(x, OpAt(t, 1), d[2], e[2])
  <2>1. 1 \in 1 .. Len(s)
    BY <1>1
  <2>2. OpAt(s, 1 + 1) = OpAt(t, 1)
    BY <1>1 DEF OpAt
  <2> QED BY <1>2, <2>1, <2>2
<1>5. d[2] \in Nat /\ e[2] \in Nat
  BY <1>1
<1>6. Deeper(x) \in Nat
  BY DEF Deeper
<1>7. e[2] = k - Deeper(x) /\ k >= Deeper(x)
  BY <1>1, <1>4, <1>5, <1>6
<1>8. D \in [1 .. Len(t) + 1 -> Nat] /\ E \in [1 .. Len(t) + 1 -> Nat]
  BY <1>1
<1>9. /\ D[1] = d[2] /\ E[1] = e[2]
      /\ D[Len(t) + 1] = 0 /\ E[Len(t) + 1] = 0
  BY <1>1, <1>2
<1>10. ASSUME NEW i \in 1 .. Len(t)
       PROVE  /\ D[i + 1] = D[i] + Delta(t[i])
              /\ E[i] = E[i + 1] + Deeper(t[i])
              /\ Fits(t[i], OpAt(t, i + 1), D[i + 1], E[i + 1])
  <2>1. i + 1 \in 1 .. Len(s) /\ i \in 1 .. Len(t) + 1 /\ i + 1 \in 1 .. Len(t) + 1
    BY <1>1
  <2>2. D[i] = d[i + 1] /\ D[i + 1] = d[i + 1 + 1] /\ E[i] = e[i + 1] /\ E[i + 1] = e[i + 1 + 1]
    BY <2>1
  <2>3. t[i] = s[i + 1] /\ OpAt(s, i + 1 + 1) = OpAt(t, i + 1)
    BY <1>1, <1>3
  <2> HIDE DEF D, E, t
  <2> QED BY <1>2, <2>1, <2>2, <2>3
<1>11. Stacked(t, d[2], e[2])
  <2> HIDE DEF D, E, t
  <2> QED BY <1>8, <1>9, <1>10 DEF Stacked
<1> QED BY <1>1, <1>4, <1>5, <1>7, <1>11 DEF Stack

\* Putting a step on the stack.
LEMMA PutOn ==
    ASSUME NEW s, NEW h, NEW k, Stack(s, h, k), NEW x \in Steps,
           Fits(x, OpAt(s, 1), h, k), h - Delta(x) \in Nat
    PROVE  /\ Stack(Put(x, s), h - Delta(x), k + Deeper(x))
           /\ Put(x, s) # <<>> /\ Put(x, s)[1] = x /\ OpAt(Put(x, s), 1) = x.op
<1> DEFINE t == Put(x, s)
<1>1. /\ s \in Seq(Steps) /\ h \in Nat /\ k \in Nat
      /\ t \in Seq(Steps)
      /\ Len(t) = Len(s) + 1 /\ Len(s) \in Nat
      /\ t[1] = x
      /\ \A i \in 1 .. Len(s) : t[i + 1] = s[i]
  BY DEF Stack, Put
<1>2. PICK d \in [1 .. Len(s) + 1 -> Nat], e \in [1 .. Len(s) + 1 -> Nat] :
        /\ d[1] = h /\ e[1] = k
        /\ d[Len(s) + 1] = 0 /\ e[Len(s) + 1] = 0
        /\ \A i \in 1 .. Len(s) :
              /\ d[i + 1] = d[i] + Delta(s[i])
              /\ e[i] = e[i + 1] + Deeper(s[i])
              /\ Fits(s[i], OpAt(s, i + 1), d[i + 1], e[i + 1])
  BY DEF Stack, Stacked
<1>3. Deeper(x) \in Nat /\ Delta(x) \in Int
  BY DeltaType DEF Deeper
<1> HIDE DEF t
<1> DEFINE D == [i \in 1 .. Len(t) + 1 |-> IF i = 1 THEN h - Delta(x) ELSE d[i - 1]]
           E == [i \in 1 .. Len(t) + 1 |-> IF i = 1 THEN k + Deeper(x) ELSE e[i - 1]]
<1>4. D \in [1 .. Len(t) + 1 -> Nat] /\ E \in [1 .. Len(t) + 1 -> Nat]
  <2>1. ASSUME NEW i \in 1 .. Len(t) + 1
        PROVE  /\ (IF i = 1 THEN h - Delta(x) ELSE d[i - 1]) \in Nat
               /\ (IF i = 1 THEN k + Deeper(x) ELSE e[i - 1]) \in Nat
    <3>1. i # 1 => i - 1 \in 1 .. Len(s) + 1
      BY <1>1
    <3>2. k + Deeper(x) \in Nat
      BY <1>1, <1>3
    <3> QED BY <3>1, <3>2
  <2> QED BY <2>1
<1>5. /\ D[1] = h - Delta(x) /\ E[1] = k + Deeper(x)
      /\ D[Len(t) + 1] = 0 /\ E[Len(t) + 1] = 0
  BY <1>1, <1>2
<1>6. ASSUME NEW i \in 1 .. Len(t)
      PROVE  /\ D[i + 1] = D[i] + Delta(t[i])
             /\ E[i] = E[i + 1] + Deeper(t[i])
             /\ Fits(t[i], OpAt(t, i + 1), D[i + 1], E[i + 1])
  <2>1. D[i + 1] = d[i] /\ E[i + 1] = e[i]
    BY <1>1
  <2>4. OpAt(t, i + 1) = OpAt(s, i)
    <3>1. CASE i = Len(t)
      <4>1. ~(i + 1 <= Len(t)) /\ ~(i <= Len(s))
        BY <1>1, <3>1
      <4> QED BY <4>1 DEF OpAt
    <3>2. CASE i # Len(t)
      <4>1. i + 1 <= Len(t) /\ i <= Len(s) /\ t[i + 1] = s[i]
        BY <1>1, <3>2
      <4> QED BY <4>1 DEF OpAt
    <3> QED BY <3>1, <3>2
  <2>2. CASE i = 1
    <3>1. D[i] = h - Delta(x) /\ E[i] = k + Deeper(x) /\ t[i] = x
      BY <1>1, <2>2
    <3>2. d[i] = h /\ e[i] = k
      BY <1>2, <2>2
    <3> HIDE DEF D, E
    <3> QED BY <1>1, <1>3, <2>1, <2>2, <2>4, <3>1, <3>2
  <2>3. CASE i # 1
    <3> DEFINE j == i - 1
    <3>1. j \in 1 .. Len(s) /\ i = j + 1
      BY <1>1, <2>3
    <3>2. D[i] = d[j] /\ E[i] = e[j] /\ t[i] = s[j]
      BY <1>1, <2>3, <3>1
    <3> HIDE DEF D, E, j
    <3> QED BY <1>2, <2>1, <2>4, <3>1, <3>2
  <2> QED BY <2>2, <2>3
<1>7. Stacked(t, h - Delta(x), k + Deeper(x))
  <2> HIDE DEF D, E
  <2> QED BY <1>4, <1>5, <1>6 DEF Stacked
<1>8. Stack(t, h - Delta(x), k + Deeper(x))
  BY <1>1, <1>3, <1>7 DEF Stack
<1>9. t # <<>> /\ t[1] = x /\ OpAt(t, 1) = x.op
  BY <1>1 DEF OpAt
<1> QED BY <1>8, <1>9 DEF t

\* parser_consume.
LEMMA PutConsume ==
    ASSUME NEW s, NEW h \in Nat, NEW k, Stack(s, h, k), OpAt(s, 1) # "end", NEW t \in Names
    PROVE  /\ Consume(t) \in Steps
           /\ Stack(Put(Consume(t), s), h, k)
           /\ Put(Consume(t), s) # <<>>
           /\ OpAt(Put(Consume(t), s), 1) # "end"
           /\ OpAt(Put(Consume(t), s), 1) \in Recovering
<1> DEFINE x == Consume(t)
<1>1. h \in Nat /\ k \in Nat
  BY DEF Stack
<1>2. x \in Steps /\ x.op = "consume"
  BY LimitsAssumption DEF Steps, Consume
<1>3. Delta(x) = 0 /\ Deeper(x) = 0
  BY <1>1 DEF Delta, Deeper, Makers, Consume
<1>4. Fits(x, OpAt(s, 1), h, k)
  BY <1>1 DEF Fits, Inner, Recovering, Bottom, Consume
<1> HIDE DEF x
<1>5. (h) - Delta(x) = h /\ h \in Nat /\ k + Deeper(x) = k
  BY ONLY <1>1, <1>3, h \in Nat
<1>6. Stack(Put(x, s), h, k) /\ Put(x, s) # <<>> /\ OpAt(Put(x, s), 1) = x.op
  BY <1>2, <1>4, <1>5, PutOn
<1>7. x.op # "end" /\ x.op \in Recovering
  BY <1>2 DEF Inner, Recovering
<1> QED BY <1>2, <1>6, <1>7 DEF x

\* parser_synchronize.
LEMMA PutSynchronize ==
    ASSUME NEW s, NEW h \in Nat, NEW k, Stack(s, h, k), OpAt(s, 1) # "end"
    PROVE  /\ Do("synchronize") \in Steps
           /\ Stack(Put(Do("synchronize"), s), h, k)
           /\ Put(Do("synchronize"), s) # <<>>
           /\ OpAt(Put(Do("synchronize"), s), 1) # "end"
           /\ OpAt(Put(Do("synchronize"), s), 1) \in Recovering
<1> DEFINE x == Do("synchronize")
<1>1. h \in Nat /\ k \in Nat
  BY DEF Stack
<1>2. x \in Steps /\ x.op = "synchronize"
  BY LimitsAssumption DEF Steps, Do
<1>3. Delta(x) = 0 /\ Deeper(x) = 0
  BY <1>1 DEF Delta, Deeper, Makers, Do
<1>4. Fits(x, OpAt(s, 1), h, k)
  BY <1>1 DEF Fits, Inner, Recovering, Bottom, Do
<1> HIDE DEF x
<1>5. (h) - Delta(x) = h /\ h \in Nat /\ k + Deeper(x) = k
  BY ONLY <1>1, <1>3, h \in Nat
<1>6. Stack(Put(x, s), h, k) /\ Put(x, s) # <<>> /\ OpAt(Put(x, s), 1) = x.op
  BY <1>2, <1>4, <1>5, PutOn
<1>7. x.op # "end" /\ x.op \in Recovering
  BY <1>2 DEF Inner, Recovering
<1> QED BY <1>2, <1>6, <1>7 DEF x

\* A function that makes a value, outside expressions.
LEMMA PutCall ==
    ASSUME NEW s, NEW h \in Nat, NEW k, Stack(s, h + 1, 0), OpAt(s, 1) # "end",
           NEW op, op \in {"statement", "var_decl", "else", "block", "end_block", "function", "parameters"}
    PROVE  /\ Do(op) \in Steps
           /\ Stack(Put(Do(op), s), h, 0)
           /\ Put(Do(op), s) # <<>> /\ OpAt(Put(Do(op), s), 1) # "end"
<1> DEFINE x == Do(op)
<1>1. h + 1 \in Nat /\ 0 \in Nat
  BY DEF Stack
<1>2. x \in Steps /\ x.op = op
  BY LimitsAssumption DEF Steps, Do
<1>3. Delta(x) = 1 /\ Deeper(x) = 0
  BY <1>1 DEF Delta, Deeper, Makers, Do
<1>4. Fits(x, OpAt(s, 1), h + 1, 0)
  BY <1>1 DEF Fits, Inner, Recovering, Bottom, Do
<1> HIDE DEF x
<1>5. (h + 1) - Delta(x) = h /\ h \in Nat /\ 0 + Deeper(x) = 0
  BY ONLY <1>1, <1>3, h \in Nat
<1>6. Stack(Put(x, s), h, 0) /\ Put(x, s) # <<>> /\ OpAt(Put(x, s), 1) = x.op
  BY <1>2, <1>4, <1>5, PutOn
<1>7. x.op # "end"
  BY <1>2 DEF Inner, Recovering
<1> QED BY <1>2, <1>6, <1>7 DEF x

\* An optional part that is an expression.
LEMMA PutPart ==
    ASSUME NEW s, NEW h \in Nat, NEW k, Stack(s, h + 1, 0), OpAt(s, 1) # "end", OpAt(s, 1) \in Recovering,
           NEW op, op \in {"initializer", "return_value"}
    PROVE  /\ Do(op) \in Steps
           /\ Stack(Put(Do(op), s), h, 0)
           /\ Put(Do(op), s) # <<>> /\ OpAt(Put(Do(op), s), 1) # "end"
<1> DEFINE x == Do(op)
<1>1. h + 1 \in Nat /\ 0 \in Nat
  BY DEF Stack
<1>2. x \in Steps /\ x.op = op
  BY LimitsAssumption DEF Steps, Do
<1>3. Delta(x) = 1 /\ Deeper(x) = 0
  BY <1>1 DEF Delta, Deeper, Makers, Do
<1>4. Fits(x, OpAt(s, 1), h + 1, 0)
  BY <1>1 DEF Fits, Inner, Recovering, Bottom, Do
<1> HIDE DEF x
<1>5. (h + 1) - Delta(x) = h /\ h \in Nat /\ 0 + Deeper(x) = 0
  BY ONLY <1>1, <1>3, h \in Nat
<1>6. Stack(Put(x, s), h, 0) /\ Put(x, s) # <<>> /\ OpAt(Put(x, s), 1) = x.op
  BY <1>2, <1>4, <1>5, PutOn
<1>7. x.op # "end"
  BY <1>2 DEF Inner, Recovering
<1> QED BY <1>2, <1>6, <1>7 DEF x

\* parse_block with n statements.
LEMMA PutStatements ==
    ASSUME NEW s, NEW h \in Nat, NEW k, Stack(s, h + 1, 0), OpAt(s, 1) # "end",
           NEW n \in 0 .. MAX_BLOCK_STATEMENTS
    PROVE  /\ Counted("statements", n) \in Steps
           /\ Stack(Put(Counted("statements", n), s), h, 0)
           /\ Put(Counted("statements", n), s) # <<>> /\ OpAt(Put(Counted("statements", n), s), 1) # "end"
<1> DEFINE x == Counted("statements", n)
<1>1. h + 1 \in Nat /\ 0 \in Nat
  BY DEF Stack
<1>2. x \in Steps /\ x.op = "statements"
  BY LimitsAssumption DEF Steps, Counted
<1>3. Delta(x) = 1 /\ Deeper(x) = 0
  BY <1>1 DEF Delta, Deeper, Makers, Counted
<1>4. Fits(x, OpAt(s, 1), h + 1, 0)
  BY <1>1 DEF Fits, Inner, Recovering, Bottom, Counted
<1> HIDE DEF x
<1>5. (h + 1) - Delta(x) = h /\ h \in Nat /\ 0 + Deeper(x) = 0
  BY ONLY <1>1, <1>3, h \in Nat
<1>6. Stack(Put(x, s), h, 0) /\ Put(x, s) # <<>> /\ OpAt(Put(x, s), 1) = x.op
  BY <1>2, <1>4, <1>5, PutOn
<1>7. x.op # "end"
  BY <1>2 DEF Inner, Recovering
<1> QED BY <1>2, <1>6, <1>7 DEF x

\* parse_block after a statement.
LEMMA PutStatementDone ==
    ASSUME NEW s, NEW h \in Nat, NEW k, Stack(s, h + 1, 0), OpAt(s, 1) # "end",
           NEW n \in 0 .. MAX_BLOCK_STATEMENTS - 1
    PROVE  /\ Counted("statement_done", n) \in Steps
           /\ Stack(Put(Counted("statement_done", n), s), h + 1, 0)
           /\ Put(Counted("statement_done", n), s) # <<>>
           /\ OpAt(Put(Counted("statement_done", n), s), 1) # "end"
<1> DEFINE x == Counted("statement_done", n)
<1>1. h + 1 \in Nat /\ 0 \in Nat
  BY DEF Stack
<1>2. x \in Steps /\ x.op = "statement_done"
  BY LimitsAssumption DEF Steps, Counted
<1>3. Delta(x) = 0 /\ Deeper(x) = 0
  BY <1>1 DEF Delta, Deeper, Makers, Counted
<1>4. Fits(x, OpAt(s, 1), h + 1, 0)
  BY <1>1 DEF Fits, Inner, Recovering, Bottom, Counted
<1> HIDE DEF x
<1>5. (h + 1) - Delta(x) = h + 1 /\ h + 1 \in Nat /\ 0 + Deeper(x) = 0
  BY ONLY <1>1, <1>3, h \in Nat
<1>6. Stack(Put(x, s), h + 1, 0) /\ Put(x, s) # <<>> /\ OpAt(Put(x, s), 1) = x.op
  BY <1>2, <1>4, <1>5, PutOn
<1>7. x.op # "end"
  BY <1>2 DEF Inner, Recovering
<1> QED BY <1>2, <1>6, <1>7 DEF x

\* parse_function with n parameters.
LEMMA PutParameter ==
    ASSUME NEW s, NEW h \in Nat, NEW k, Stack(s, h + 1, 0), OpAt(s, 1) # "end",
           NEW n \in Nat, NEW op, op \in {"parameter", "parameter_done", "body"}
    PROVE  /\ Counted(op, n) \in Steps
           /\ Stack(Put(Counted(op, n), s), h, 0)
           /\ Put(Counted(op, n), s) # <<>> /\ OpAt(Put(Counted(op, n), s), 1) # "end"
<1> DEFINE x == Counted(op, n)
<1>1. h + 1 \in Nat /\ 0 \in Nat
  BY DEF Stack
<1>2. x \in Steps /\ x.op = op
  BY LimitsAssumption DEF Steps, Counted
<1>3. Delta(x) = 1 /\ Deeper(x) = 0
  BY <1>1 DEF Delta, Deeper, Makers, Counted
<1>4. Fits(x, OpAt(s, 1), h + 1, 0)
  BY <1>1 DEF Fits, Inner, Recovering, Bottom, Counted
<1> HIDE DEF x
<1>5. (h + 1) - Delta(x) = h /\ h \in Nat /\ 0 + Deeper(x) = 0
  BY ONLY <1>1, <1>3, h \in Nat
<1>6. Stack(Put(x, s), h, 0) /\ Put(x, s) # <<>> /\ OpAt(Put(x, s), 1) = x.op
  BY <1>2, <1>4, <1>5, PutOn
<1>7. x.op # "end"
  BY <1>2 DEF Inner, Recovering
<1> QED BY <1>2, <1>6, <1>7 DEF x

\* The ends of return statements and declarations.
LEMMA PutEnd ==
    ASSUME NEW s, NEW h \in Nat, NEW k, Stack(s, h + 1, 0), OpAt(s, 1) # "end",
           NEW op, op \in {"return", "decl"}
    PROVE  /\ Do(op) \in Steps
           /\ Stack(Put(Do(op), s), h + 1, 0)
           /\ Put(Do(op), s) # <<>> /\ OpAt(Put(Do(op), s), 1) # "end"
<1> DEFINE x == Do(op)
<1>1. h + 1 \in Nat /\ 0 \in Nat
  BY DEF Stack
<1>2. x \in Steps /\ x.op = op
  BY LimitsAssumption DEF Steps, Do
<1>3. Delta(x) = 0 /\ Deeper(x) = 0
  BY <1>1 DEF Delta, Deeper, Makers, Do
<1>4. Fits(x, OpAt(s, 1), h + 1, 0)
  BY <1>1 DEF Fits, Inner, Recovering, Bottom, Do
<1> HIDE DEF x
<1>5. (h + 1) - Delta(x) = h + 1 /\ h + 1 \in Nat /\ 0 + Deeper(x) = 0
  BY ONLY <1>1, <1>3, h \in Nat
<1>6. Stack(Put(x, s), h + 1, 0) /\ Put(x, s) # <<>> /\ OpAt(Put(x, s), 1) = x.op
  BY <1>2, <1>4, <1>5, PutOn
<1>7. x.op # "end"
  BY <1>2 DEF Inner, Recovering
<1> QED BY <1>2, <1>6, <1>7 DEF x

\* The end of an if statement.
LEMMA PutIf ==
    ASSUME NEW s, NEW h \in Nat, NEW k, Stack(s, h + 1, 0), OpAt(s, 1) # "end"
    PROVE  /\ Do("if") \in Steps
           /\ Stack(Put(Do("if"), s), h + 3, 0)
           /\ Put(Do("if"), s) # <<>> /\ OpAt(Put(Do("if"), s), 1) # "end"
<1> DEFINE x == Do("if")
<1>1. h + 1 \in Nat /\ 0 \in Nat
  BY DEF Stack
<1>2. x \in Steps /\ x.op = "if"
  BY LimitsAssumption DEF Steps, Do
<1>3. Delta(x) = -2 /\ Deeper(x) = 0
  BY <1>1 DEF Delta, Deeper, Makers, Do
<1>4. Fits(x, OpAt(s, 1), h + 1, 0)
  BY <1>1 DEF Fits, Inner, Recovering, Bottom, Do
<1> HIDE DEF x
<1>5. (h + 1) - Delta(x) = h + 3 /\ h + 3 \in Nat /\ 0 + Deeper(x) = 0
  BY ONLY <1>1, <1>3, h \in Nat
<1>6. Stack(Put(x, s), h + 3, 0) /\ Put(x, s) # <<>> /\ OpAt(Put(x, s), 1) = x.op
  BY <1>2, <1>4, <1>5, PutOn
<1>7. x.op # "end"
  BY <1>2 DEF Inner, Recovering
<1> QED BY <1>2, <1>6, <1>7 DEF x

\* The end of a while statement.
LEMMA PutWhile ==
    ASSUME NEW s, NEW h \in Nat, NEW k, Stack(s, h + 1, 0), OpAt(s, 1) # "end"
    PROVE  /\ Do("while") \in Steps
           /\ Stack(Put(Do("while"), s), h + 2, 0)
           /\ Put(Do("while"), s) # <<>> /\ OpAt(Put(Do("while"), s), 1) # "end"
<1> DEFINE x == Do("while")
<1>1. h + 1 \in Nat /\ 0 \in Nat
  BY DEF Stack
<1>2. x \in Steps /\ x.op = "while"
  BY LimitsAssumption DEF Steps, Do
<1>3. Delta(x) = -1 /\ Deeper(x) = 0
  BY <1>1 DEF Delta, Deeper, Makers, Do
<1>4. Fits(x, OpAt(s, 1), h + 1, 0)
  BY <1>1 DEF Fits, Inner, Recovering, Bottom, Do
<1> HIDE DEF x
<1>5. (h + 1) - Delta(x) = h + 2 /\ h + 2 \in Nat /\ 0 + Deeper(x) = 0
  BY ONLY <1>1, <1>3, h \in Nat
<1>6. Stack(Put(x, s), h + 2, 0) /\ Put(x, s) # <<>> /\ OpAt(Put(x, s), 1) = x.op
  BY <1>2, <1>4, <1>5, PutOn
<1>7. x.op # "end"
  BY <1>2 DEF Inner, Recovering
<1> QED BY <1>2, <1>6, <1>7 DEF x

\* parse_expression.
LEMMA PutExpression ==
    ASSUME NEW s, NEW h \in Nat, NEW k, Stack(s, h + 1, k), OpAt(s, 1) \in Recovering, NEW p \in Nat
    PROVE  /\ Expression(p) \in Steps
           /\ Stack(Put(Expression(p), s), h, k)
           /\ Put(Expression(p), s) # <<>>
           /\ OpAt(Put(Expression(p), s), 1) # "end"
           /\ OpAt(Put(Expression(p), s), 1) \in Recovering
<1> DEFINE x == Expression(p)
<1>1. h + 1 \in Nat /\ k \in Nat
  BY DEF Stack
<1>2. x \in Steps /\ x.op = "expression"
  BY LimitsAssumption DEF Steps, Expression
<1>3. Delta(x) = 1 /\ Deeper(x) = 0
  BY <1>1 DEF Delta, Deeper, Makers, Expression
<1>4. Fits(x, OpAt(s, 1), h + 1, k)
  BY <1>1 DEF Fits, Inner, Recovering, Bottom, Expression
<1> HIDE DEF x
<1>5. (h + 1) - Delta(x) = h /\ h \in Nat /\ k + Deeper(x) = k
  BY ONLY <1>1, <1>3, h \in Nat
<1>6. Stack(Put(x, s), h, k) /\ Put(x, s) # <<>> /\ OpAt(Put(x, s), 1) = x.op
  BY <1>2, <1>4, <1>5, PutOn
<1>7. x.op # "end" /\ x.op \in Recovering
  BY <1>2 DEF Inner, Recovering
<1> QED BY <1>2, <1>6, <1>7 DEF x

\* Its loop.
LEMMA PutInfix ==
    ASSUME NEW s, NEW h \in Nat, NEW k, Stack(s, h + 1, k), OpAt(s, 1) \in Recovering, NEW p \in Nat
    PROVE  /\ Infix(p) \in Steps
           /\ Stack(Put(Infix(p), s), h + 1, k + 1)
           /\ Put(Infix(p), s) # <<>>
           /\ OpAt(Put(Infix(p), s), 1) # "end"
           /\ OpAt(Put(Infix(p), s), 1) \in Recovering
<1> DEFINE x == Infix(p)
<1>1. h + 1 \in Nat /\ k \in Nat
  BY DEF Stack
<1>2. x \in Steps /\ x.op = "infix"
  BY LimitsAssumption DEF Steps, Infix
<1>3. Delta(x) = 0 /\ Deeper(x) = 1
  BY <1>1 DEF Delta, Deeper, Makers, Infix
<1>4. Fits(x, OpAt(s, 1), h + 1, k)
  BY <1>1 DEF Fits, Inner, Recovering, Bottom, Infix
<1> HIDE DEF x
<1>5. (h + 1) - Delta(x) = h + 1 /\ h + 1 \in Nat /\ k + Deeper(x) = k + 1
  BY ONLY <1>1, <1>3, h \in Nat
<1>6. Stack(Put(x, s), h + 1, k + 1) /\ Put(x, s) # <<>> /\ OpAt(Put(x, s), 1) = x.op
  BY <1>2, <1>4, <1>5, PutOn
<1>7. x.op # "end" /\ x.op \in Recovering
  BY <1>2 DEF Inner, Recovering
<1> QED BY <1>2, <1>6, <1>7 DEF x

\* A node with one operand.
LEMMA PutUnary ==
    ASSUME NEW s, NEW h \in Nat, NEW k, Stack(s, h + 1, k), OpAt(s, 1) \in Recovering,
           NEW type \in Names, type \in {"UNARY", "GROUP"}, NEW at \in Nat
    PROVE  /\ Build(type, at) \in Steps
           /\ Stack(Put(Build(type, at), s), h + 1, k)
           /\ Put(Build(type, at), s) # <<>>
           /\ OpAt(Put(Build(type, at), s), 1) # "end"
           /\ OpAt(Put(Build(type, at), s), 1) \in Recovering
<1> DEFINE x == Build(type, at)
<1>1. h + 1 \in Nat /\ k \in Nat
  BY DEF Stack
<1>2. x \in Steps /\ x.op = "build"
  BY LimitsAssumption DEF Steps, Build
<1>3. Delta(x) = 0 /\ Deeper(x) = 0
  BY <1>1 DEF Delta, Deeper, Makers, Build
<1>4. Fits(x, OpAt(s, 1), h + 1, k)
  BY <1>1 DEF Fits, Inner, Recovering, Bottom, Build
<1> HIDE DEF x
<1>5. (h + 1) - Delta(x) = h + 1 /\ h + 1 \in Nat /\ k + Deeper(x) = k
  BY ONLY <1>1, <1>3, h \in Nat
<1>6. Stack(Put(x, s), h + 1, k) /\ Put(x, s) # <<>> /\ OpAt(Put(x, s), 1) = x.op
  BY <1>2, <1>4, <1>5, PutOn
<1>7. x.op # "end" /\ x.op \in Recovering
  BY <1>2 DEF Inner, Recovering
<1> QED BY <1>2, <1>6, <1>7 DEF x

\* A node with two operands.
LEMMA PutBinary ==
    ASSUME NEW s, NEW h \in Nat, NEW k, Stack(s, h + 1, k), OpAt(s, 1) \in Recovering,
           NEW type \in Names, type \notin {"UNARY", "GROUP"}, NEW at \in Nat
    PROVE  /\ Build(type, at) \in Steps
           /\ Stack(Put(Build(type, at), s), h + 2, k)
           /\ Put(Build(type, at), s) # <<>>
           /\ OpAt(Put(Build(type, at), s), 1) # "end"
           /\ OpAt(Put(Build(type, at), s), 1) \in Recovering
<1> DEFINE x == Build(type, at)
<1>1. h + 1 \in Nat /\ k \in Nat
  BY DEF Stack
<1>2. x \in Steps /\ x.op = "build"
  BY LimitsAssumption DEF Steps, Build
<1>3. Delta(x) = -1 /\ Deeper(x) = 0
  BY <1>1 DEF Delta, Deeper, Makers, Build
<1>4. Fits(x, OpAt(s, 1), h + 1, k)
  BY <1>1 DEF Fits, Inner, Recovering, Bottom, Build
<1> HIDE DEF x
<1>5. (h + 1) - Delta(x) = h + 2 /\ h + 2 \in Nat /\ k + Deeper(x) = k
  BY ONLY <1>1, <1>3, h \in Nat
<1>6. Stack(Put(x, s), h + 2, k) /\ Put(x, s) # <<>> /\ OpAt(Put(x, s), 1) = x.op
  BY <1>2, <1>4, <1>5, PutOn
<1>7. x.op # "end" /\ x.op \in Recovering
  BY <1>2 DEF Inner, Recovering
<1> QED BY <1>2, <1>6, <1>7 DEF x

\* parse_call after its parenthesis.
LEMMA PutArguments ==
    ASSUME NEW s, NEW h \in Nat, NEW k, Stack(s, h + 1, k), OpAt(s, 1) \in Recovering, NEW at \in Nat
    PROVE  /\ [op |-> "arguments", at |-> at] \in Steps
           /\ Stack(Put([op |-> "arguments", at |-> at], s), h + 1, k)
           /\ Put([op |-> "arguments", at |-> at], s) # <<>>
           /\ OpAt(Put([op |-> "arguments", at |-> at], s), 1) # "end"
           /\ OpAt(Put([op |-> "arguments", at |-> at], s), 1) \in Recovering
<1> DEFINE x == [op |-> "arguments", at |-> at]
<1>1. h + 1 \in Nat /\ k \in Nat
  BY DEF Stack
<1>2. x \in Steps /\ x.op = "arguments"
  BY LimitsAssumption DEF Steps
<1>3. Delta(x) = 0 /\ Deeper(x) = 0
  BY <1>1 DEF Delta, Deeper, Makers
<1>4. Fits(x, OpAt(s, 1), h + 1, k)
  BY <1>1 DEF Fits, Inner, Recovering, Bottom
<1> HIDE DEF x
<1>5. (h + 1) - Delta(x) = h + 1 /\ h + 1 \in Nat /\ k + Deeper(x) = k
  BY ONLY <1>1, <1>3, h \in Nat
<1>6. Stack(Put(x, s), h + 1, k) /\ Put(x, s) # <<>> /\ OpAt(Put(x, s), 1) = x.op
  BY <1>2, <1>4, <1>5, PutOn
<1>7. x.op # "end" /\ x.op \in Recovering
  BY <1>2 DEF Inner, Recovering
<1> QED BY <1>2, <1>6, <1>7 DEF x

\* parse_call before an argument.
LEMMA PutArgument ==
    ASSUME NEW s, NEW h \in Nat, NEW k, Stack(s, h + 1, k), OpAt(s, 1) \in Recovering, NEW at \in Nat,
           NEW n \in 0 .. MAX_PARAMS_PER_FUNCTION, n \in Nat
    PROVE  /\ Argument(at, n) \in Steps
           /\ Stack(Put(Argument(at, n), s), h + 1 + n, k)
           /\ Put(Argument(at, n), s) # <<>>
           /\ OpAt(Put(Argument(at, n), s), 1) # "end"
           /\ OpAt(Put(Argument(at, n), s), 1) \in Recovering
<1> DEFINE x == Argument(at, n)
<1>1. h + 1 \in Nat /\ k \in Nat /\ n \in Nat
  BY DEF Stack
<1>2. x \in Steps /\ x.op = "argument"
  BY LimitsAssumption DEF Steps, Argument
<1>3. Delta(x) = -n /\ Deeper(x) = 0
  BY <1>1 DEF Delta, Deeper, Makers, Argument
<1>4. Fits(x, OpAt(s, 1), h + 1, k)
  BY <1>1 DEF Fits, Inner, Recovering, Bottom, Argument
<1> HIDE DEF x
<1>5. (h + 1) - Delta(x) = h + 1 + n /\ h + 1 + n \in Nat /\ k + Deeper(x) = k
  BY ONLY <1>1, <1>3, h \in Nat
<1>6. Stack(Put(x, s), h + 1 + n, k) /\ Put(x, s) # <<>> /\ OpAt(Put(x, s), 1) = x.op
  BY <1>2, <1>4, <1>5, PutOn
<1>7. x.op # "end" /\ x.op \in Recovering
  BY <1>2 DEF Inner, Recovering
<1> QED BY <1>2, <1>6, <1>7 DEF x

\* parse_call after an argument.
LEMMA PutArgumentDone ==
    ASSUME NEW s, NEW h \in Nat, NEW k, Stack(s, h + 1, k), OpAt(s, 1) \in Recovering, NEW at \in Nat,
           NEW n \in 0 .. MAX_PARAMS_PER_FUNCTION - 1, n \in Nat
    PROVE  /\ [op |-> "argument_done", at |-> at, n |-> n] \in Steps
           /\ Stack(Put([op |-> "argument_done", at |-> at, n |-> n], s), h + 2 + n, k)
           /\ Put([op |-> "argument_done", at |-> at, n |-> n], s) # <<>>
           /\ OpAt(Put([op |-> "argument_done", at |-> at, n |-> n], s), 1) # "end"
           /\ OpAt(Put([op |-> "argument_done", at |-> at, n |-> n], s), 1) \in Recovering
<1> DEFINE x == [op |-> "argument_done", at |-> at, n |-> n]
<1>1. h + 1 \in Nat /\ k \in Nat /\ n \in Nat
  BY DEF Stack
<1>2. x \in Steps /\ x.op = "argument_done"
  BY LimitsAssumption DEF Steps
<1>3. Delta(x) = -(n + 1) /\ Deeper(x) = 0
  BY <1>1 DEF Delta, Deeper, Makers
<1>4. Fits(x, OpAt(s, 1), h + 1, k)
  BY <1>1 DEF Fits, Inner, Recovering, Bottom
<1> HIDE DEF x
<1>5. (h + 1) - Delta(x) = h + 2 + n /\ h + 2 + n \in Nat /\ k + Deeper(x) = k
  BY ONLY <1>1, <1>3, h \in Nat
<1>6. Stack(Put(x, s), h + 2 + n, k) /\ Put(x, s) # <<>> /\ OpAt(Put(x, s), 1) = x.op
  BY <1>2, <1>4, <1>5, PutOn
<1>7. x.op # "end" /\ x.op \in Recovering
  BY <1>2 DEF Inner, Recovering
<1> QED BY <1>2, <1>6, <1>7 DEF x

\* parse_call at its end.
LEMMA PutCallEnd ==
    ASSUME NEW s, NEW h \in Nat, NEW k, Stack(s, h + 1, k), OpAt(s, 1) \in Recovering, NEW at \in Nat,
           NEW n \in 0 .. MAX_PARAMS_PER_FUNCTION, n \in Nat
    PROVE  /\ [op |-> "call", at |-> at, n |-> n] \in Steps
           /\ Stack(Put([op |-> "call", at |-> at, n |-> n], s), h + 1 + n, k)
           /\ Put([op |-> "call", at |-> at, n |-> n], s) # <<>>
           /\ OpAt(Put([op |-> "call", at |-> at, n |-> n], s), 1) # "end"
           /\ OpAt(Put([op |-> "call", at |-> at, n |-> n], s), 1) \in Recovering
<1> DEFINE x == [op |-> "call", at |-> at, n |-> n]
<1>1. h + 1 \in Nat /\ k \in Nat /\ n \in Nat
  BY DEF Stack
<1>2. x \in Steps /\ x.op = "call"
  BY LimitsAssumption DEF Steps
<1>3. Delta(x) = -n /\ Deeper(x) = 0
  BY <1>1 DEF Delta, Deeper, Makers
<1>4. Fits(x, OpAt(s, 1), h + 1, k)
  BY <1>1 DEF Fits, Inner, Recovering, Bottom
<1> HIDE DEF x
<1>5. (h + 1) - Delta(x) = h + 1 + n /\ h + 1 + n \in Nat /\ k + Deeper(x) = k
  BY ONLY <1>1, <1>3, h \in Nat
<1>6. Stack(Put(x, s), h + 1 + n, k) /\ Put(x, s) # <<>> /\ OpAt(Put(x, s), 1) = x.op
  BY <1>2, <1>4, <1>5, PutOn
<1>7. x.op # "end" /\ x.op \in Recovering
  BY <1>2 DEF Inner, Recovering
<1> QED BY <1>2, <1>6, <1>7 DEF x

\* Concatenation of steps is associative.
LEMMA StepsAssociative ==
    ASSUME NEW s \in Seq(Steps), NEW t \in Seq(Steps), NEW u \in Seq(Steps)
    PROVE  (s \o t) \o u = s \o (t \o u)
BY ConcatAssociative

\* Several steps put in front are put one by one.
LEMMA PutSeveral ==
    ASSUME NEW s \in Seq(Steps), NEW a \in Steps, NEW u \in Seq(Steps)
    PROVE  (<<a>> \o u) \o s = Put(a, u \o s) /\ u \o s \in Seq(Steps)
<1>1. <<a>> \in Seq(Steps)
  OBVIOUS
<1> QED BY <1>1, ConcatAssociative, ConcatProperties DEF Put

\* Steps put on the stack together are put there one by one, the last one first.
LEMMA Put1 ==
    ASSUME NEW s \in Seq(Steps), NEW a \in Steps
    PROVE  <<a>> \o s = Put(a, s)
BY DEF Put

\* The same for two steps.
LEMMA Put2 ==
    ASSUME NEW s \in Seq(Steps), NEW a \in Steps, NEW b \in Steps
    PROVE  <<a, b>> \o s = Put(a, Put(b, s))
<1>1. <<a>> \in Seq(Steps) /\ <<b>> \in Seq(Steps) /\ <<a, b>> \in Seq(Steps)
  OBVIOUS
<1> DEFINE u == <<a>> \o <<b>>
<1>2. u \in Seq(Steps) /\ Len(u) = 2 /\ u[1] = a /\ u[2] = b
  BY <1>1
<1> HIDE DEF u
<1>3. <<a, b>> = u
  BY <1>1, <1>2, SeqEqual
<1>4. u \o s = Put(a, <<b>> \o s)
  BY <1>1, PutSeveral DEF u
<1> QED BY <1>3, <1>4, Put1, Zenon

\* The same for three steps.
LEMMA Put3 ==
    ASSUME NEW s \in Seq(Steps), NEW a \in Steps, NEW b \in Steps, NEW c \in Steps
    PROVE  <<a, b, c>> \o s = Put(a, Put(b, Put(c, s)))
<1> DEFINE u == <<b, c>>
<1>1. u \in Seq(Steps)
  OBVIOUS
<1>2. <<a, b, c>> = <<a>> \o u
  OBVIOUS
<1>3. u \o s = Put(b, Put(c, s))
  BY Put2
<1>4. (<<a>> \o u) \o s = Put(a, u \o s)
  BY <1>1, PutSeveral
<1> HIDE DEF u
<1> QED BY <1>2, <1>3, <1>4, Zenon

\* The same for four steps.
LEMMA Put4 ==
    ASSUME NEW s \in Seq(Steps), NEW a \in Steps, NEW b \in Steps, NEW c \in Steps, NEW d \in Steps
    PROVE  <<a, b, c, d>> \o s = Put(a, Put(b, Put(c, Put(d, s))))
<1> DEFINE u == <<b, c, d>>
<1>1. u \in Seq(Steps)
  OBVIOUS
<1>2. <<a, b, c, d>> = <<a>> \o u
  OBVIOUS
<1>3. u \o s = Put(b, Put(c, Put(d, s)))
  BY Put3
<1>4. (<<a>> \o u) \o s = Put(a, u \o s)
  BY <1>1, PutSeveral
<1> HIDE DEF u
<1> QED BY <1>2, <1>3, <1>4, Zenon

\* ---- the invariant ----

IsSeq(s) == \E S : s \in Seq(S)

\* The stack fits the values and the depth, and the tokens are tokens.
StackInv ==
    /\ text \in Texts
    /\ pos \in Nat \ {0}
    /\ next \in Names
    /\ expr_depth \in 0 .. MAX_EXPRESSION_DEPTH
    /\ IsSeq(vals)
    /\ todo # <<>>
    /\ Stack(todo, Len(vals), expr_depth)
    /\ outcome = "unit" => expr_depth = 0 /\ vals = <<>>

\* What a step of the parser gives back.
StackKept ==
    /\ Stack(todo', Len(vals'), expr_depth')
    /\ todo' # <<>>
    /\ IsSeq(vals')
    /\ expr_depth' \in 0 .. MAX_EXPRESSION_DEPTH
    /\ parser_advance \/ UNCHANGED tokens

\* The lengths of the stack of values.
LEMMA Lengths ==
    ASSUME NEW s, IsSeq(s), NEW n \in Nat, n <= Len(s)
    PROVE  /\ Len(s) \in Nat
           /\ IsSeq(SubSeq(s, 1, Len(s) - n))
           /\ Len(SubSeq(s, 1, Len(s) - n)) = Len(s) - n
           /\ \A i \in 1 .. Len(s) - n : SubSeq(s, 1, Len(s) - n)[i] = s[i]
<1>1. PICK S : s \in Seq(S)
  BY DEF IsSeq
<1>2. SubSeq(s, 1, Len(s) - n) \in Seq(S)
  BY <1>1
<1>3. IsSeq(SubSeq(s, 1, Len(s) - n))
  BY <1>2 DEF IsSeq
<1>4. /\ Len(s) \in Nat
      /\ Len(SubSeq(s, 1, Len(s) - n)) = Len(s) - n
      /\ \A i \in 1 .. Len(s) - n : SubSeq(s, 1, Len(s) - n)[i] = s[i]
  BY <1>1
<1> QED BY <1>3, <1>4

\* A value pushed.
LEMMA Appended ==
    ASSUME NEW s, IsSeq(s), NEW e
    PROVE  /\ IsSeq(Append(s, e))
           /\ Len(s) \in Nat
           /\ Len(Append(s, e)) = Len(s) + 1
           /\ Append(s, e)[Len(s) + 1] = e
           /\ \A i \in 1 .. Len(s) : Append(s, e)[i] = s[i]
<1>1. PICK S : s \in Seq(S)
  BY DEF IsSeq
<1>2. s \in Seq(S \cup {e})
  BY <1>1
<1>3. Append(s, e) \in Seq(S \cup {e})
  BY <1>2
<1>4. IsSeq(Append(s, e))
  BY <1>3 DEF IsSeq
<1> QED BY <1>2, <1>4

\* Push makes vals one longer.
LEMMA Pushed ==
    ASSUME StackInv, NEW e, Push(e)
    PROVE  IsSeq(vals') /\ Len(vals') = Len(vals) + 1
BY Appended DEF StackInv, Push

\* Taking n values off and pushing one.
LEMMA Replaced ==
    ASSUME StackInv, NEW n \in Nat, n <= Len(vals), NEW e, vals' = Append(Popped(n), e)
    PROVE  IsSeq(vals') /\ Len(vals') = Len(vals) - n + 1
<1>1. IsSeq(Popped(n)) /\ Len(Popped(n)) = Len(vals) - n
  BY Lengths DEF StackInv, Popped
<1> QED BY <1>1, Appended

\* Taking n values off.
LEMMA Dropped ==
    ASSUME StackInv, NEW n \in Nat, n <= Len(vals), vals' = Popped(n)
    PROVE  IsSeq(vals') /\ Len(vals') = Len(vals) - n
BY Lengths DEF StackInv, Popped

\* What is under the first step, by its kind.
LEMMA Under ==
    ASSUME StackInv
    PROVE  /\ todo[1] \in Steps
           /\ Len(vals) \in Nat
           /\ todo[1].op \in {"consume", "synchronize"} =>
                 Stack(Tail(todo), Len(vals), expr_depth) /\ OpAt(Tail(todo), 1) # "end"
           /\ todo[1].op \in Makers \ {"expression"} =>
                 Stack(Tail(todo), Len(vals) + 1, 0) /\ OpAt(Tail(todo), 1) # "end" /\ expr_depth = 0
           /\ todo[1].op \in Inner => OpAt(Tail(todo), 1) \in Recovering /\ OpAt(Tail(todo), 1) # "end"
           /\ todo[1].op \in {"initializer", "return_value"} => OpAt(Tail(todo), 1) \in Recovering
           /\ todo[1].op = "expression" => Stack(Tail(todo), Len(vals) + 1, expr_depth)
           /\ todo[1].op = "infix" =>
                 Stack(Tail(todo), Len(vals), expr_depth - 1) /\ Len(vals) >= 1 /\ expr_depth >= 1
           /\ todo[1].op = "build" /\ todo[1].type \in {"UNARY", "GROUP"} =>
                 Stack(Tail(todo), Len(vals), expr_depth) /\ Len(vals) >= 1
           /\ todo[1].op = "build" /\ todo[1].type \notin {"UNARY", "GROUP"} =>
                 Stack(Tail(todo), Len(vals) - 1, expr_depth) /\ Len(vals) >= 2
           /\ todo[1].op = "arguments" => Stack(Tail(todo), Len(vals), expr_depth) /\ Len(vals) >= 1
           /\ todo[1].op \in {"argument", "call"} =>
                 Stack(Tail(todo), Len(vals) - todo[1].n, expr_depth) /\ Len(vals) >= todo[1].n + 1
           /\ todo[1].op = "argument_done" =>
                 Stack(Tail(todo), Len(vals) - todo[1].n - 1, expr_depth) /\ Len(vals) >= todo[1].n + 2
           /\ todo[1].op \in {"return", "decl", "if", "while", "statement_done"} =>
                 OpAt(Tail(todo), 1) # "end" /\ expr_depth = 0
           /\ todo[1].op \in {"return", "decl", "statement_done"} =>
                 Stack(Tail(todo), Len(vals), 0) /\ Len(vals) >= 1
           /\ todo[1].op = "if" => Stack(Tail(todo), Len(vals) - 2, 0) /\ Len(vals) >= 3
           /\ todo[1].op = "while" => Stack(Tail(todo), Len(vals) - 1, 0) /\ Len(vals) >= 2
           /\ todo[1].op = "unit" => Stack(Tail(todo), 0, 0) /\ Len(vals) = 0 /\ expr_depth = 0
           /\ todo[1].op = "declared" => Stack(Tail(todo), 0, 0) /\ Len(vals) = 1 /\ expr_depth = 0
<1> DEFINE x == todo[1]
           s == Tail(todo)
           h == Len(vals)
<1>1. /\ x \in Steps
      /\ Stack(s, h + Delta(x), expr_depth - Deeper(x))
      /\ Fits(x, OpAt(s, 1), h + Delta(x), expr_depth - Deeper(x))
      /\ expr_depth >= Deeper(x)
  BY TakeOff DEF StackInv
<1>2. h \in Nat /\ expr_depth \in Nat /\ h + Delta(x) \in Nat
  BY <1>1 DEF StackInv, Stack
<1> HIDE DEF x, s, h
<1>3. x.op # "infix" => expr_depth - Deeper(x) = expr_depth
  BY <1>2 DEF Deeper
<1>4. x.op = "infix" => expr_depth - Deeper(x) = expr_depth - 1 /\ expr_depth >= 1
  BY <1>1, <1>2 DEF Deeper
<1>5. x.op \in {"argument", "call", "argument_done"} => x.n \in Nat
  BY <1>1, Counts
<1>6. /\ x.op \in Makers => Delta(x) = 1
      /\ x.op \in {"consume", "synchronize", "infix", "arguments", "return", "decl", "statement_done",
                  "unit"} => Delta(x) = 0
      /\ x.op = "build" /\ x.type \in {"UNARY", "GROUP"} => Delta(x) = 0
      /\ x.op = "build" /\ x.type \notin {"UNARY", "GROUP"} => Delta(x) = -1
      /\ x.op \in {"argument", "call"} => Delta(x) = -x.n
      /\ x.op = "argument_done" => Delta(x) = -(x.n + 1)
      /\ x.op = "if" => Delta(x) = -2
      /\ x.op \in {"while", "declared"} => Delta(x) = -1
  BY <1>1, DeltaOf
<1> DEFINE H == h + Delta(x)
           K == expr_depth - Deeper(x)
<1>11. /\ x.op \in Inner \cup {"initializer", "return_value"} => OpAt(s, 1) \in Recovering
       /\ x.op \notin Bottom => OpAt(s, 1) # "end"
       /\ x.op \notin Recovering => K = 0
       /\ x.op \notin Bottom \cup {"consume", "synchronize"} => H >= 1
       /\ x.op \in Bottom => H = 0
  BY <1>1, Zenon DEF Fits
<1>12. Stack(s, H, K)
  BY <1>1
<1> HIDE DEF H, K
<1>13. /\ x.op # "infix" => K = expr_depth
       /\ x.op = "infix" => K = expr_depth - 1 /\ expr_depth >= 1
  BY <1>3, <1>4 DEF K
<1>22. /\ x.op \in Makers => H = h + 1
       /\ x.op \in {"consume", "synchronize", "infix", "arguments", "return", "decl", "statement_done",
                   "unit"} => H = h
       /\ x.op = "build" /\ x.type \in {"UNARY", "GROUP"} => H = h
       /\ x.op = "build" /\ x.type \notin {"UNARY", "GROUP"} => H = h - 1
       /\ x.op = "if" => H = h - 2
       /\ x.op \in {"while", "declared"} => H = h - 1
  BY <1>2, <1>6 DEF H
<1>23. /\ x.op \in {"argument", "call"} => H = h - x.n
       /\ x.op = "argument_done" => H = h - x.n - 1
  BY <1>2, <1>5, <1>6 DEF H
<1>14. H \in Nat
  BY <1>2 DEF H
<1>15. /\ x.op \in {"consume", "synchronize"} => Stack(s, h, expr_depth) /\ OpAt(s, 1) # "end"
       /\ x.op \in Makers \ {"expression"} => Stack(s, h + 1, 0) /\ OpAt(s, 1) # "end" /\ expr_depth = 0
       /\ x.op \in Inner => OpAt(s, 1) \in Recovering /\ OpAt(s, 1) # "end"
       /\ x.op \in {"initializer", "return_value"} => OpAt(s, 1) \in Recovering
       /\ x.op = "expression" => Stack(s, h + 1, expr_depth)
  BY <1>11, <1>12, <1>13, <1>22 DEF Makers, Inner, Recovering, Bottom
<1>16. /\ x.op = "infix" => Stack(s, h, expr_depth - 1) /\ h >= 1 /\ expr_depth >= 1
       /\ x.op = "build" /\ x.type \in {"UNARY", "GROUP"} => Stack(s, h, expr_depth) /\ h >= 1
       /\ x.op = "arguments" => Stack(s, h, expr_depth) /\ h >= 1
  BY <1>11, <1>12, <1>13, <1>22 DEF Bottom
<1>17. x.op = "build" /\ x.type \notin {"UNARY", "GROUP"} => Stack(s, h - 1, expr_depth) /\ h >= 2
  BY <1>2, <1>11, <1>12, <1>13, <1>22 DEF Bottom
<1>18. /\ x.op \in {"argument", "call"} => Stack(s, h - x.n, expr_depth) /\ h >= x.n + 1
       /\ x.op = "argument_done" => Stack(s, h - x.n - 1, expr_depth) /\ h >= x.n + 2
  BY <1>2, <1>5, <1>11, <1>12, <1>13, <1>23 DEF Bottom
<1>19. /\ x.op \in {"return", "decl", "if", "while", "statement_done"} => OpAt(s, 1) # "end" /\ expr_depth = 0
       /\ x.op \in {"return", "decl", "statement_done"} => Stack(s, h, 0) /\ h >= 1
  BY <1>11, <1>12, <1>13, <1>22 DEF Inner, Recovering, Bottom
<1>20. /\ x.op = "if" => Stack(s, h - 2, 0) /\ h >= 3
       /\ x.op = "while" => Stack(s, h - 1, 0) /\ h >= 2
  BY <1>2, <1>11, <1>12, <1>13, <1>22 DEF Inner, Recovering, Bottom
<1>21. /\ x.op = "unit" => Stack(s, 0, 0) /\ h = 0 /\ expr_depth = 0
       /\ x.op = "declared" => Stack(s, 0, 0) /\ h = 1 /\ expr_depth = 0
  BY <1>2, <1>11, <1>12, <1>13, <1>22 DEF Inner, Recovering, Bottom
<1> QED BY <1>1, <1>2, <1>15, <1>16, <1>17, <1>18, <1>19, <1>20, <1>21 DEF x, s, h

\* Where the first step is not the last, what is under it is a stack to go on with.
LEMMA NotEmpty ==
    ASSUME NEW s \in Seq(Steps), OpAt(s, 1) # "end"
    PROVE  s # <<>> /\ Len(s) >= 1 /\ s[1].op = OpAt(s, 1) /\ <<>> \o s = s
BY DEF OpAt

\* A function that returns leaves what is under it.
LEMMA Returned ==
    ASSUME NEW h, NEW k, Stack(Tail(todo), h, k), OpAt(Tail(todo), 1) # "end", Continue(<<>>)
    PROVE  todo' = Tail(todo) /\ todo' # <<>> /\ Stack(todo', h, k)
<1>1. Tail(todo) \in Seq(Steps)
  BY DEF Stack
<1>2. todo' = Tail(todo) /\ todo' # <<>>
  BY <1>1, NotEmpty DEF Continue
<1> QED BY <1>2

\* parser_consume keeps the stack: it returns, or goes on to parser_synchronize.
LEMMA ConsumeKept == StackInv /\ parser_consume => StackKept
<1> SUFFICES ASSUME StackInv, parser_consume PROVE StackKept
  OBVIOUS
<1> DEFINE s == Tail(todo)
<1>1. todo[1].op = "consume" /\ expr_depth' = expr_depth /\ vals' = vals
  BY DEF parser_consume, At
<1>2. Stack(s, Len(vals), expr_depth) /\ OpAt(s, 1) # "end"
  BY <1>1, Under
<1>3. CASE Is(next, todo[1].token)
  <2>1. Continue(<<>>) /\ parser_advance
    BY <1>3 DEF parser_consume
  <2> QED BY <1>1, <1>2, <2>1, Returned DEF StackKept, StackInv
<1>4. CASE ~Is(next, todo[1].token)
  <2>1. todo' = <<Do("synchronize")>> \o s /\ UNCHANGED tokens
    BY <1>4 DEF parser_consume, Continue
  <2>2. todo' = Put(Do("synchronize"), s)
    BY <2>1 DEF Put
  <2>3. Stack(todo', Len(vals), expr_depth) /\ todo' # <<>>
    BY <1>2, <2>2, PutSynchronize
  <2> QED BY <1>1, <2>1, <2>3 DEF StackKept, StackInv
<1> QED BY <1>3, <1>4

\* parser_synchronize stays, or returns.
LEMMA SynchronizeKept == StackInv /\ parser_synchronize => StackKept
<1> SUFFICES ASSUME StackInv, parser_synchronize PROVE StackKept
  OBVIOUS
<1> DEFINE s == Tail(todo)
<1>1. todo[1].op = "synchronize" /\ expr_depth' = expr_depth /\ vals' = vals
  BY DEF parser_synchronize, At
<1>2. Stack(s, Len(vals), expr_depth) /\ OpAt(s, 1) # "end"
  BY <1>1, Under
<1>3. CASE Synchronized
  <2>1. Continue(<<>>) /\ UNCHANGED tokens
    BY <1>3 DEF parser_synchronize
  <2> QED BY <1>1, <1>2, <2>1, Returned DEF StackKept, StackInv
<1>4. CASE ~Synchronized
  <2>1. todo' = todo /\ parser_advance
    BY <1>4 DEF parser_synchronize
  <2> QED BY <1>1, <2>1 DEF StackKept, StackInv
<1> QED BY <1>3, <1>4

\* parse_expression up to its loop: a value, or the steps that make one, and the loop.
LEMMA ExpressionKept == StackInv /\ parse_expression => StackKept
<1> SUFFICES ASSUME StackInv, parse_expression PROVE StackKept
  OBVIOUS
<1> DEFINE s == Tail(todo)
           p == todo[1].prec
           h == Len(vals)
           k == expr_depth
<1>1. todo[1].op = "expression"
  BY DEF parse_expression, At
<1>2. /\ Stack(s, h + 1, k) /\ OpAt(s, 1) \in Recovering /\ OpAt(s, 1) # "end"
      /\ p \in Nat /\ h \in Nat /\ k \in 0 .. MAX_EXPRESSION_DEPTH /\ k \in Nat
      /\ pos \in Nat
      /\ s \in Seq(Steps)
  <2>1. /\ todo[1] \in Steps /\ Stack(s, h + 1, k) /\ h \in Nat
        /\ OpAt(s, 1) \in Recovering /\ OpAt(s, 1) # "end"
    BY <1>1, Under DEF Inner
  <2>2. p \in Nat
    BY <1>1, <2>1, Fields
  <2> QED BY <2>1, <2>2, LimitsAssumption DEF StackInv, Stack
<1> HIDE DEF s, p, h, k
\* No expression: TooDeep, or a token that starts none.
<1>3. ASSUME NEW e, Push(e), Continue(<<>>), expr_depth' = expr_depth,
             parser_advance \/ UNCHANGED tokens
      PROVE  StackKept
  <2>1. IsSeq(vals') /\ Len(vals') = h + 1
    BY <1>3, Pushed DEF h
  <2>2. todo' # <<>> /\ Stack(todo', h + 1, k)
    BY <1>2, <1>3, Returned DEF s
  <2> QED BY <1>2, <1>3, <2>1, <2>2 DEF StackKept, k
<1>4. ASSUME ~TooDeep PROVE k + 1 \in 0 .. MAX_EXPRESSION_DEPTH
  BY <1>2, <1>4, LimitsAssumption DEF TooDeep, k
<1>5. /\ Infix(p) \in Steps
      /\ Stack(Put(Infix(p), s), h + 1, k + 1)
      /\ OpAt(Put(Infix(p), s), 1) \in Recovering /\ Put(Infix(p), s) # <<>>
  BY <1>2, PutInfix
<1>6. ASSUME ~TooDeep, parser_advance, expr_depth' = expr_depth + 1, NEW e, Push(e),
             Continue(<<Infix(p)>>)
      PROVE  StackKept
  <2>1. IsSeq(vals') /\ Len(vals') = h + 1
    BY <1>6, Pushed DEF h
  <2>2. todo' = Put(Infix(p), s)
    BY <1>6 DEF Continue, Put, s
  <2> QED BY <1>4, <1>5, <1>6, <2>1, <2>2 DEF StackKept, k
<1> DEFINE q == Put(Infix(p), s)
<1>7. Stack(q, h + 1, k + 1) /\ OpAt(q, 1) \in Recovering
  BY <1>5
<1> HIDE DEF q
\* An expression inside, then the node.
<1>8. ASSUME ~TooDeep, parser_advance, expr_depth' = expr_depth + 1, vals' = vals,
             Continue(<<Expression(UNARY), Build("UNARY", pos), Infix(p)>>)
      PROVE  StackKept
  <2> DEFINE x == Build("UNARY", pos)
             t == Put(x, q)
  <2>0. "UNARY" \in Names /\ "UNARY" \in {"UNARY", "GROUP"}
    BY DEF Names
  <2>1. x \in Steps /\ Stack(t, h + 1, k + 1) /\ OpAt(t, 1) \in Recovering
    BY <1>2, <1>7, <2>0, PutUnary
  <2> HIDE DEF x, t
  <2> DEFINE y == Expression(UNARY)
  <2>2. y \in Steps /\ Stack(Put(y, t), h, k + 1) /\ Put(y, t) # <<>>
    BY <1>2, <2>1, PutExpression DEF UNARY
  <2> HIDE DEF y
  <2>3. todo' = Put(y, t)
    <3>1. <<y, x, Infix(p)>> \o s = Put(y, Put(x, Put(Infix(p), s)))
      BY <1>2, <1>5, <2>1, <2>2, Put3
    <3> QED BY <1>8, <3>1, Zenon DEF Continue, s, t, x, y, q
  <2> QED BY <1>4, <1>8, <2>2, <2>3 DEF StackKept, StackInv, k, h
<1>9. ASSUME ~TooDeep, parser_advance, expr_depth' = expr_depth + 1, vals' = vals,
             Continue(<<Expression(NONE), Consume("RPAREN"), Build("GROUP", pos), Infix(p)>>)
      PROVE  StackKept
  <2> DEFINE x == Build("GROUP", pos)
             t == Put(x, q)
  <2>0. "GROUP" \in Names /\ "GROUP" \in {"UNARY", "GROUP"}
    BY DEF Names
  <2>1. x \in Steps /\ Stack(t, h + 1, k + 1) /\ OpAt(t, 1) # "end"
    BY <1>2, <1>7, <2>0, PutUnary
  <2> HIDE DEF x, t
  <2> DEFINE z == Consume("RPAREN")
             u == Put(z, t)
  <2>2. z \in Steps /\ Stack(u, h + 1, k + 1) /\ OpAt(u, 1) \in Recovering
    <3>1. h + 1 \in Nat /\ "RPAREN" \in Names
      BY <1>2 DEF Names
    <3> QED BY <2>1, <3>1, PutConsume
  <2> HIDE DEF z, u
  <2> DEFINE y == Expression(NONE)
  <2>3. y \in Steps /\ Stack(Put(y, u), h, k + 1) /\ Put(y, u) # <<>>
    BY <1>2, <2>2, PutExpression DEF NONE
  <2> HIDE DEF y
  <2>4. todo' = Put(y, u)
    <3>1. <<y, z, x, Infix(p)>> \o s = Put(y, Put(z, Put(x, Put(Infix(p), s))))
      BY <1>2, <1>5, <2>1, <2>2, <2>3, Put4
    <3> QED BY <1>9, <3>1, Zenon DEF Continue, s, t, u, x, y, z, q
  <2> QED BY <1>4, <1>9, <2>3, <2>4 DEF StackKept, StackInv, k, h
<1> QED BY <1>3, <1>6, <1>8, <1>9 DEF parse_expression, NoPrefix, p

\* Precedences are numbers, and only operators have one.
LEMMA Precedences ==
    ASSUME NEW t
    PROVE  /\ get_token_precedence(t) \in Nat
           /\ t \in {"UNARY", "GROUP"} => get_token_precedence(t) = 0
BY DEF get_token_precedence, NONE, ASSIGNMENT, BIT_OR, BIT_XOR, BIT_AND, EQUALITY, COMPARISON, SHIFT,
       TERM, FACTOR, CALL

\* The loop of parse_expression: the expression ends, or an operator adds its steps.
LEMMA InfixKept == StackInv /\ ParseInfix => StackKept
<1> SUFFICES ASSUME StackInv, ParseInfix PROVE StackKept
  OBVIOUS
<1> DEFINE s == Tail(todo)
           p == todo[1].prec
           g == Len(vals) - 1
           k == expr_depth - 1
<1>1. todo[1].op = "infix"
  BY DEF ParseInfix, At
<1>2. /\ Stack(s, g + 1, k) /\ OpAt(s, 1) \in Recovering /\ OpAt(s, 1) # "end"
      /\ p \in Nat /\ g \in Nat /\ k \in Nat /\ k \in 0 .. MAX_EXPRESSION_DEPTH
      /\ pos \in Nat /\ next \in Names
      /\ s \in Seq(Steps)
      /\ Len(vals) = g + 1 /\ expr_depth = k + 1
  <2>1. /\ todo[1] \in Steps /\ Stack(s, Len(vals), expr_depth - 1) /\ OpAt(s, 1) \in Recovering
        /\ OpAt(s, 1) # "end" /\ Len(vals) \in Nat /\ Len(vals) >= 1 /\ expr_depth >= 1
    BY <1>1, Under DEF Inner
  <2>2. p \in Nat
    BY <1>1, <2>1, Fields
  <2>3. expr_depth \in 0 .. MAX_EXPRESSION_DEPTH /\ pos \in Nat /\ next \in Names /\ s \in Seq(Steps)
    BY <2>1 DEF StackInv, Stack
  <2>4. g \in Nat /\ Len(vals) = g + 1 /\ k \in Nat /\ k \in 0 .. MAX_EXPRESSION_DEPTH /\ expr_depth = k + 1
    BY <2>1, <2>3, LimitsAssumption
  <2> QED BY <2>1, <2>2, <2>3, <2>4
<1>3. IsSeq(vals) /\ todo # <<>> /\ Stack(todo, g + 1, k + 1) /\ k + 1 \in 0 .. MAX_EXPRESSION_DEPTH
  BY <1>2 DEF StackInv
<1> HIDE DEF s, p, g, k
<1> DEFINE q == Put(Infix(p), s)
<1>4. Infix(p) \in Steps /\ Stack(q, g + 1, k + 1) /\ OpAt(q, 1) \in Recovering
  BY <1>2, PutInfix
<1> HIDE DEF q
\* The expression ends.
<1>5. ASSUME expr_depth' = expr_depth - 1, Continue(<<>>), UNCHANGED <<tokens, vals>>
      PROVE  StackKept
  <2>1. todo' # <<>> /\ Stack(todo', g + 1, k)
    BY <1>2, <1>5, Returned DEF s
  <2>2. vals' = vals /\ expr_depth' = k /\ UNCHANGED tokens
    BY <1>5 DEF k
  <2> QED BY <1>2, <1>3, <2>1, <2>2 DEF StackKept
\* An operator and its right operand.
<1>6. ASSUME NEW m \in Nat, NEW type \in Names, type \notin {"UNARY", "GROUP"},
             Continue(<<Expression(m), Build(type, pos), Infix(p)>>),
             parser_advance, UNCHANGED <<expr_depth, vals>>
      PROVE  StackKept
  <2> DEFINE x == Build(type, pos)
             t == Put(x, q)
  <2>1. x \in Steps /\ Stack(t, g + 2, k + 1) /\ OpAt(t, 1) \in Recovering
    BY <1>2, <1>4, <1>6, PutBinary
  <2> HIDE DEF x, t
  <2> DEFINE y == Expression(m)
  <2>2. y \in Steps /\ Stack(Put(y, t), g + 1, k + 1) /\ Put(y, t) # <<>>
    <3>1. g + 2 = (g + 1) + 1 /\ g + 1 \in Nat
      BY <1>2
    <3>2. Stack(t, (g + 1) + 1, k + 1)
      BY <2>1, <3>1
    <3> QED BY <1>6, <2>1, <3>1, <3>2, PutExpression
  <2> HIDE DEF y
  <2>3. todo' = Put(y, t)
    <3>1. <<y, x, Infix(p)>> \o s = Put(y, Put(x, Put(Infix(p), s)))
      BY <1>2, <1>4, <2>1, <2>2, Put3
    <3> QED BY <1>6, <3>1, Zenon DEF Continue, s, t, x, y, q
  <2>4. vals' = vals /\ expr_depth' = expr_depth
    BY <1>6
  <2> QED BY <1>2, <1>3, <1>6, <2>2, <2>3, <2>4 DEF StackKept
\* A call.
<1>7. ASSUME Continue(<<[op |-> "arguments", at |-> pos], Infix(p)>>),
             parser_advance, UNCHANGED <<expr_depth, vals>>
      PROVE  StackKept
  <2> DEFINE x == [op |-> "arguments", at |-> pos]
             t == Put(x, q)
  <2>1. x \in Steps /\ Stack(t, g + 1, k + 1) /\ t # <<>>
    BY <1>2, <1>4, PutArguments
  <2> HIDE DEF x, t
  <2>2. todo' = t
    <3>1. <<x, Infix(p)>> \o s = Put(x, Put(Infix(p), s))
      BY <1>2, <1>4, <2>1, Put2
    <3> QED BY <1>7, <3>1, Zenon DEF Continue, s, t, x, q
  <2>3. vals' = vals /\ expr_depth' = expr_depth
    BY <1>7
  <2> QED BY <1>2, <1>3, <1>7, <2>1, <2>2, <2>3 DEF StackKept
\* Nothing to call or to assign to.
<1>8. ASSUME vals' = Append(Popped(1), NULL), parser_advance, UNCHANGED <<expr_depth, todo>>
      PROVE  StackKept
  <2>1. IsSeq(vals') /\ Len(vals') = Len(vals) - 1 + 1
    <3>1. 1 \in Nat /\ 1 <= Len(vals)
      BY <1>2
    <3> QED BY <1>8, <3>1, Replaced
  <2>2. Len(vals') = g + 1
    BY <1>2, <2>1
  <2>3. todo' = todo /\ expr_depth' = expr_depth
    BY <1>8
  <2> QED BY <1>2, <1>3, <1>8, <2>1, <2>2, <2>3 DEF StackKept
<1>9. ASSUME UNCHANGED <<tokens, expr_depth, todo, vals>> PROVE StackKept
  <2>1. vals' = vals /\ todo' = todo /\ expr_depth' = expr_depth /\ UNCHANGED tokens
    BY <1>9
  <2> QED BY <1>2, <1>3, <2>1 DEF StackKept
<1>10. RightOperand(next) \in Nat /\ ASSIGNMENT \in Nat
  BY Precedences DEF RightOperand, ASSIGNMENT
<1>11. p < get_token_precedence(next) => next \notin {"UNARY", "GROUP"}
  BY <1>2, Precedences
<1>12. "ASSIGNMENT" \in Names /\ "ASSIGNMENT" \notin {"UNARY", "GROUP"}
  BY DEF Names
<1>13. \/ expr_depth' = expr_depth - 1 /\ Continue(<<>>) /\ UNCHANGED <<tokens, vals>>
       \/ /\ p < get_token_precedence(next)
          /\ Continue(<<Expression(RightOperand(next)), Build(next, pos), Infix(p)>>)
          /\ parser_advance /\ UNCHANGED <<expr_depth, vals>>
       \/ UNCHANGED <<tokens, expr_depth, todo, vals>>
       \/ vals' = Append(Popped(1), NULL) /\ parser_advance /\ UNCHANGED <<expr_depth, todo>>
       \/ /\ Continue(<<Expression(ASSIGNMENT), Build("ASSIGNMENT", pos), Infix(p)>>)
          /\ parser_advance /\ UNCHANGED <<expr_depth, vals>>
       \/ /\ Continue(<<[op |-> "arguments", at |-> pos], Infix(p)>>)
          /\ parser_advance /\ UNCHANGED <<expr_depth, vals>>
  BY DEF ParseInfix, p
<1> QED BY <1>2, <1>5, <1>6, <1>7, <1>8, <1>9, <1>10, <1>11, <1>12, <1>13

\* BuildNode puts one node in place of one value or two.
LEMMA BuildKept == StackInv /\ BuildNode => StackKept
<1> SUFFICES ASSUME StackInv, BuildNode PROVE StackKept
  OBVIOUS
<1> DEFINE s == Tail(todo)
           h == Len(vals)
<1>1. todo[1].op = "build" /\ Continue(<<>>) /\ expr_depth' = expr_depth /\ UNCHANGED tokens
  BY DEF BuildNode, At
<1>2. expr_depth \in 0 .. MAX_EXPRESSION_DEPTH /\ IsSeq(vals)
  BY DEF StackInv
<1>3. OpAt(s, 1) # "end" /\ h \in Nat
  BY <1>1, Under DEF Inner
<1>4. CASE todo[1].type \in {"UNARY", "GROUP"}
  <2>1. Stack(s, h, expr_depth) /\ h >= 1
    BY <1>1, <1>4, Under
  <2>2. vals' = vals \/ \E e : vals' = Append(Popped(1), e)
    BY <1>4 DEF BuildNode
  <2>3. IsSeq(vals') /\ Len(vals') = h
    <3>1. CASE vals' = vals
      BY <1>2, <3>1
    <3>2. CASE \E e : vals' = Append(Popped(1), e)
      <4>1. 1 \in Nat /\ 1 <= Len(vals)
        BY <1>3, <2>1
      <4>2. IsSeq(vals') /\ Len(vals') = Len(vals) - 1 + 1
        BY <3>2, <4>1, Replaced
      <4> QED BY <1>3, <4>2
    <3> QED BY <2>2, <3>1, <3>2
  <2>4. todo' # <<>> /\ Stack(todo', h, expr_depth)
    BY <1>1, <1>3, <2>1, Returned
  <2> QED BY <1>1, <1>2, <2>3, <2>4 DEF StackKept
<1>5. CASE todo[1].type \notin {"UNARY", "GROUP"}
  <2>1. Stack(s, h - 1, expr_depth) /\ h >= 2
    BY <1>1, <1>5, Under
  <2>2. \E e : vals' = Append(Popped(2), e)
    BY <1>5 DEF BuildNode
  <2>3. IsSeq(vals') /\ Len(vals') = h - 1
    <3>1. 2 \in Nat /\ 2 <= Len(vals)
      BY <1>3, <2>1
    <3>2. IsSeq(vals') /\ Len(vals') = Len(vals) - 2 + 1
      BY <2>2, <3>1, Replaced
    <3> QED BY <1>3, <3>2
  <2>4. todo' # <<>> /\ Stack(todo', h - 1, expr_depth)
    BY <1>1, <1>3, <2>1, Returned
  <2> QED BY <1>1, <1>2, <2>3, <2>4 DEF StackKept
<1> QED BY <1>4, <1>5

\* The end of a call with n arguments, put on the stack.
LEMMA PutEndCall ==
    ASSUME NEW s, NEW h \in Nat, NEW k, Stack(s, h + 1, k), OpAt(s, 1) \in Recovering,
           NEW at \in Nat, NEW n \in 0 .. MAX_PARAMS_PER_FUNCTION, n \in Nat
    PROVE  /\ Stack(EndCall(at, n) \o s, h + 1 + n, k)
           /\ EndCall(at, n) \o s # <<>>
           /\ Stack((<<Do("synchronize")>> \o EndCall(at, n)) \o s, h + 1 + n, k)
           /\ (<<Do("synchronize")>> \o EndCall(at, n)) \o s # <<>>
<1> DEFINE x == [op |-> "call", at |-> at, n |-> n]
           y == Consume("RPAREN")
           z == Do("synchronize")
           t == Put(x, s)
           u == Put(y, t)
<1>1. s \in Seq(Steps)
  BY DEF Stack
<1>2. x \in Steps /\ Stack(t, h + 1 + n, k) /\ OpAt(t, 1) # "end"
  BY PutCallEnd
<1>3. h + 1 + n \in Nat /\ "RPAREN" \in Names
  BY DEF Names
<1> HIDE DEF x, t
<1>4. y \in Steps /\ Stack(u, h + 1 + n, k) /\ u # <<>> /\ OpAt(u, 1) # "end"
  BY <1>2, <1>3, PutConsume
<1> HIDE DEF y, u
<1>5. z \in Steps /\ Stack(Put(z, u), h + 1 + n, k) /\ Put(z, u) # <<>>
  BY <1>3, <1>4, PutSynchronize
<1> HIDE DEF z
<1>6. <<y, x>> \o s = u
  BY <1>1, <1>2, <1>4, Put2 DEF t, u
<1>7. <<y, x>> \in Seq(Steps)
  BY <1>2, <1>4
<1>8. (<<z>> \o <<y, x>>) \o s = Put(z, u)
  BY <1>1, <1>5, <1>6, <1>7, PutSeveral
<1>9. EndCall(at, n) = <<y, x>>
  BY DEF EndCall, x, y
<1> QED BY <1>4, <1>5, <1>6, <1>8, <1>9, Zenon DEF z

\* parse_call: the arguments stay on vals until the node takes their place.
LEMMA CallKept == StackInv /\ parse_call => StackKept
<1> SUFFICES ASSUME StackInv, parse_call PROVE StackKept
  OBVIOUS
<1> DEFINE s == Tail(todo)
           h == Len(vals)
           k == expr_depth
           at == todo[1].at
           n == todo[1].n
<1>1. k' = k
  BY DEF parse_call
<1>2. /\ k \in Nat /\ k \in 0 .. MAX_EXPRESSION_DEPTH /\ IsSeq(vals) /\ h \in Nat
      /\ todo[1] \in Steps
  BY Under, LimitsAssumption DEF StackInv
<1>3. ASSUME todo[1].op \in Inner
      PROVE  OpAt(s, 1) \in Recovering /\ OpAt(s, 1) # "end"
  BY <1>3, Under
<1>4. CASE At("arguments")
  <2>1. todo[1].op = "arguments" /\ todo[1].op \in Inner
    BY <1>4 DEF At, Inner
  <2> DEFINE g == h - 1
  <2>2. Stack(s, h, k) /\ h >= 1
    BY <2>1, Under
  <2>3. g \in Nat /\ h = g + 1 /\ at \in Nat
    BY <1>2, <2>1, <2>2, Fields
  <2>4. 0 \in 0 .. MAX_PARAMS_PER_FUNCTION /\ 0 \in Nat /\ g + 1 + 0 = h
    BY <2>3, LimitsAssumption
  <2>5. OpAt(s, 1) \in Recovering /\ Stack(s, g + 1, k) /\ s \in Seq(Steps)
    BY <1>3, <2>1, <2>2, <2>3 DEF Stack
  <2>6. vals' = vals /\ UNCHANGED tokens
        /\ todo' = (IF next = "RPAREN" THEN EndCall(at, 0) ELSE <<Argument(at, 0)>>) \o s
    BY <2>1 DEF parse_call, At, Continue
  <2> HIDE DEF s, h, g, at
  <2>7. Stack(EndCall(at, 0) \o s, g + 1 + 0, k) /\ EndCall(at, 0) \o s # <<>>
    BY <2>3, <2>4, <2>5, PutEndCall
  <2>8. Stack(Put(Argument(at, 0), s), g + 1 + 0, k) /\ Put(Argument(at, 0), s) # <<>>
    BY <2>3, <2>4, <2>5, PutArgument
  <2>9. todo' # <<>> /\ Stack(todo', h, k)
    BY <2>4, <2>6, <2>7, <2>8 DEF Put
  <2> QED BY <1>1, <1>2, <2>6, <2>9 DEF StackKept, h
<1>5. CASE At("argument")
  <2>1. todo[1].op = "argument" /\ todo[1].op \in Inner
    BY <1>5 DEF At, Inner
  <2>2. /\ Stack(s, h - n, k) /\ h >= n + 1
        /\ at \in Nat /\ n \in 0 .. MAX_PARAMS_PER_FUNCTION /\ n \in Nat
    BY <1>2, <2>1, Under, Fields, Counts
  <2> DEFINE g == h - n - 1
  <2>3. g \in Nat /\ h - n = g + 1 /\ g + 1 + n = h
    <3>1. \A a, b \in Nat : a >= b + 1 => /\ a - b - 1 \in Nat /\ a - b = a - b - 1 + 1
                                          /\ a - b - 1 + 1 + b = a
      OBVIOUS
    <3> QED BY <1>2, <2>2, <3>1, Zenon
  <2>4. OpAt(s, 1) \in Recovering /\ Stack(s, g + 1, k) /\ s \in Seq(Steps)
    BY <1>3, <2>1, <2>2, <2>3 DEF Stack
  <2>5. vals' = vals /\ UNCHANGED tokens
    BY <2>1 DEF parse_call, At
  <2>6. CASE n >= MAX_PARAMS_PER_FUNCTION
    <3>1. todo' = (<<Do("synchronize")>> \o EndCall(at, n)) \o s
      BY <2>1, <2>6 DEF parse_call, At, Continue
    <3> HIDE DEF s, h, g, at, n
    <3>2. todo' # <<>> /\ Stack(todo', g + 1 + n, k)
      BY <2>2, <2>3, <2>4, <3>1, PutEndCall
    <3> QED BY <1>1, <1>2, <2>3, <2>5, <3>2 DEF StackKept, h
  <2>7. CASE ~(n >= MAX_PARAMS_PER_FUNCTION)
    <3> DEFINE x == [op |-> "argument_done", at |-> at, n |-> n]
               y == Expression(ASSIGNMENT)
    <3>1. [todo[1] EXCEPT !.op = "argument_done"] = x
      BY <1>2, <2>1 DEF Steps
    <3>2. todo' = <<y, x>> \o s
      BY <2>1, <2>7, <3>1 DEF parse_call, At, Continue
    <3>3. n \in 0 .. MAX_PARAMS_PER_FUNCTION - 1
      BY <2>2, <2>7, LimitsAssumption
    <3> HIDE DEF s, h, g, at, n
    <3>4. x \in Steps /\ Stack(Put(x, s), g + 2 + n, k) /\ OpAt(Put(x, s), 1) \in Recovering
      BY <2>2, <2>3, <2>4, <3>3, PutArgumentDone
    <3> HIDE DEF x
    <3>5. y \in Steps /\ Stack(Put(y, Put(x, s)), h, k) /\ Put(y, Put(x, s)) # <<>>
      <4>1. g + 2 + n = h + 1 /\ h \in Nat /\ ASSIGNMENT \in Nat
        BY <1>2, <2>2, <2>3 DEF h, ASSIGNMENT
      <4>2. Stack(Put(x, s), h + 1, k)
        BY <3>4, <4>1
      <4> QED BY <3>4, <4>1, <4>2, PutExpression
    <3>6. todo' = Put(y, Put(x, s))
      BY <2>4, <3>2, <3>4, <3>5, Put2
    <3> QED BY <1>1, <1>2, <2>5, <3>5, <3>6 DEF StackKept, h
  <2> QED BY <2>6, <2>7
<1>6. CASE At("argument_done")
  <2>1. todo[1].op = "argument_done" /\ todo[1].op \in Inner
    BY <1>6 DEF At, Inner
  <2>2. /\ Stack(s, h - n - 1, k) /\ h >= n + 2
        /\ at \in Nat /\ n \in 0 .. MAX_PARAMS_PER_FUNCTION - 1 /\ n \in Nat
    BY <1>2, <2>1, Under, Fields, Counts
  <2> DEFINE g == h - n - 2
  <2>3. g \in Nat /\ h - n - 1 = g + 1 /\ g + 1 + n = h - 1 /\ g + 1 + (n + 1) = h
    <3>1. h \in Nat /\ n \in Nat /\ h >= n + 2
      BY <1>2, <2>2
    <3> HIDE DEF h, n
    <3> QED BY ONLY <3>1
  <2>4. OpAt(s, 1) \in Recovering /\ Stack(s, g + 1, k) /\ s \in Seq(Steps)
    BY <1>3, <2>1, <2>2, <2>3 DEF Stack
  <2>5. /\ n \in 0 .. MAX_PARAMS_PER_FUNCTION
        /\ n + 1 \in 0 .. MAX_PARAMS_PER_FUNCTION /\ n + 1 \in Nat
    <3>1. \A m \in Nat : \A i \in 0 .. m - 1 : i \in 0 .. m /\ i + 1 \in 0 .. m /\ i + 1 \in Nat
      OBVIOUS
    <3> QED BY <2>2, <3>1, LimitsAssumption, Zenon
  <2>6. CASE Top = NULL
    <3>1. vals' = Popped(1) /\ todo' = (<<Do("synchronize")>> \o EndCall(at, n)) \o s /\ UNCHANGED tokens
      BY <2>1, <2>6 DEF parse_call, At, Continue
    <3>2. IsSeq(vals') /\ Len(vals') = h - 1
      <4>1. 1 \in Nat /\ 1 <= Len(vals)
        BY <1>2, <2>2
      <4> QED BY <3>1, <4>1, Dropped
    <3> HIDE DEF s, h, g, at, n
    <3>3. todo' # <<>> /\ Stack(todo', g + 1 + n, k)
      BY <2>2, <2>3, <2>4, <2>5, <3>1, PutEndCall
    <3> QED BY <1>1, <1>2, <2>3, <3>1, <3>2, <3>3 DEF StackKept
  <2>7. CASE Top # NULL /\ next = "COMMA"
    <3>1. vals' = vals /\ parser_advance /\ todo' = <<Argument(at, n + 1)>> \o s
      BY <2>1, <2>7 DEF parse_call, At, Continue
    <3> HIDE DEF s, h, g, at, n
    <3> DEFINE m == n + 1
    <3>2. m \in Nat /\ m \in 0 .. MAX_PARAMS_PER_FUNCTION
      BY <2>5
    <3> HIDE DEF m
    <3>3. Put(Argument(at, m), s) # <<>> /\ Stack(Put(Argument(at, m), s), g + 1 + m, k)
      BY <2>2, <2>3, <2>4, <3>2, PutArgument
    <3>4. todo' = Put(Argument(at, m), s) /\ g + 1 + m = h
      BY <2>3, <3>1 DEF Put, m
    <3> QED BY <1>1, <1>2, <3>1, <3>3, <3>4 DEF StackKept, h
  <2>8. CASE Top # NULL /\ next # "COMMA"
    <3>1. vals' = vals /\ UNCHANGED tokens /\ todo' = EndCall(at, n + 1) \o s
      BY <2>1, <2>8 DEF parse_call, At, Continue
    <3> HIDE DEF s, h, g, at, n
    <3> DEFINE m == n + 1
    <3>2. m \in Nat /\ m \in 0 .. MAX_PARAMS_PER_FUNCTION
      BY <2>5
    <3> HIDE DEF m
    <3>3. EndCall(at, m) \o s # <<>> /\ Stack(EndCall(at, m) \o s, g + 1 + m, k)
      BY <2>2, <2>3, <2>4, <3>2, PutEndCall
    <3>4. todo' = EndCall(at, m) \o s /\ g + 1 + m = h
      BY <2>3, <3>1 DEF m
    <3> QED BY <1>1, <1>2, <3>1, <3>3, <3>4 DEF StackKept, h
  <2> QED BY <2>6, <2>7, <2>8
<1>7. CASE At("call")
  <2>1. todo[1].op = "call" /\ todo[1].op \in Inner
    BY <1>7 DEF At, Inner
  <2>2. Stack(s, h - n, k) /\ h >= n + 1 /\ n \in Nat
    BY <1>2, <2>1, Under, Counts
  <2>3. (\E e : vals' = Append(Popped(n + 1), e)) /\ Continue(<<>>) /\ UNCHANGED tokens
    BY <2>1 DEF parse_call, At
  <2>4. IsSeq(vals') /\ Len(vals') = h - n
    <3>1. n + 1 \in Nat /\ n + 1 <= Len(vals)
      BY <1>2, <2>2
    <3>2. IsSeq(vals') /\ Len(vals') = Len(vals) - (n + 1) + 1
      BY <2>3, <3>1, Replaced
    <3> QED BY <1>2, <2>2, <3>2
  <2>5. todo' # <<>> /\ Stack(todo', h - n, k)
    BY <1>3, <2>1, <2>2, <2>3, Returned
  <2> QED BY <1>1, <1>2, <2>3, <2>4, <2>5 DEF StackKept
<1> QED BY <1>4, <1>5, <1>6, <1>7 DEF parse_call

\* A condition in parentheses.
LEMMA PutCondition ==
    ASSUME NEW s, NEW h \in Nat, Stack(s, h + 1, 0), OpAt(s, 1) # "end"
    PROVE  LET t == Put(Consume("RPAREN"), s)
               u == Put(Expression(NONE), t)
               w == Put(Consume("LPAREN"), u)
           IN  /\ Consume("RPAREN") \in Steps /\ Expression(NONE) \in Steps /\ Consume("LPAREN") \in Steps
               /\ Stack(w, h, 0) /\ OpAt(w, 1) # "end"
<1> DEFINE t == Put(Consume("RPAREN"), s)
           u == Put(Expression(NONE), t)
           w == Put(Consume("LPAREN"), u)
<1>1. "RPAREN" \in Names /\ "LPAREN" \in Names /\ NONE \in Nat /\ h + 1 \in Nat
  BY DEF Names, NONE
<1>2. Consume("RPAREN") \in Steps /\ Stack(t, h + 1, 0) /\ OpAt(t, 1) \in Recovering
  BY <1>1, PutConsume
<1> HIDE DEF t
<1>3. Expression(NONE) \in Steps /\ Stack(u, h, 0) /\ OpAt(u, 1) # "end"
  BY <1>1, <1>2, PutExpression
<1> HIDE DEF u
<1>4. Consume("LPAREN") \in Steps /\ Stack(w, h, 0) /\ OpAt(w, 1) # "end"
  BY <1>1, <1>3, PutConsume
<1> QED BY <1>2, <1>3, <1>4 DEF t, u, w

\* A step that consumes a token and goes on.
LEMMA StatementKept == StackInv /\ parse_statement => StackKept
<1> SUFFICES ASSUME StackInv, parse_statement PROVE StackKept
  OBVIOUS
<1> DEFINE s == Tail(todo)
           h == Len(vals)
<1>1. todo[1].op = "statement" /\ expr_depth' = expr_depth /\ vals' = vals /\ UNCHANGED tokens
  BY DEF parse_statement, At
<1>2. todo[1].op \in Makers \ {"expression"}
  BY <1>1 DEF Makers
<1>3. /\ Stack(s, h + 1, 0) /\ OpAt(s, 1) # "end" /\ expr_depth = 0 /\ h \in Nat /\ s \in Seq(Steps)
      /\ IsSeq(vals) /\ 0 \in 0 .. MAX_EXPRESSION_DEPTH
  BY <1>2, Under DEF StackInv, Stack
<1> SUFFICES todo' # <<>> /\ Stack(todo', h, 0)
  BY <1>1, <1>3 DEF StackKept
<1> HIDE DEF s, h
<1>4. ASSUME todo' = <<Do("var_decl")>> \o s \/ todo' = <<Do("block")>> \o s
      PROVE  todo' # <<>> /\ Stack(todo', h, 0)
  <2>1. PICK op \in {"var_decl", "block"} : todo' = Put(Do(op), s)
    BY <1>4 DEF Put
  <2>2. Put(Do(op), s) # <<>> /\ Stack(Put(Do(op), s), h, 0)
    <3>1. op \in {"statement", "var_decl", "else", "block", "end_block", "function", "parameters"}
      OBVIOUS
    <3> QED BY <1>3, <3>1, PutCall
  <2> QED BY <2>1, <2>2
<1>5. ASSUME todo' = <<Consume("IF"), Consume("LPAREN"), Expression(NONE), Consume("RPAREN"),
                       Do("statement"), Do("else"), Do("if")>> \o s
      PROVE  todo' # <<>> /\ Stack(todo', h, 0)
  <2> DEFINE a == Put(Do("if"), s)
             b == Put(Do("else"), a)
             c == Put(Do("statement"), b)
             d == Put(Consume("LPAREN"), Put(Expression(NONE), Put(Consume("RPAREN"), c)))
             e == Put(Consume("IF"), d)
  <2>1. Do("if") \in Steps /\ Stack(a, h + 3, 0) /\ OpAt(a, 1) # "end"
    BY <1>3, PutIf
  <2> HIDE DEF a
  <2>2. Do("else") \in Steps /\ Stack(b, h + 2, 0) /\ OpAt(b, 1) # "end"
    <3>1. h + 3 = (h + 2) + 1 /\ h + 2 \in Nat
      BY <1>3
    <3>2. Stack(a, (h + 2) + 1, 0)
      BY <2>1, <3>1
    <3> QED BY <2>1, <3>1, <3>2, PutCall
  <2> HIDE DEF b
  <2>3. Do("statement") \in Steps /\ Stack(c, h + 1, 0) /\ OpAt(c, 1) # "end"
    <3>1. h + 2 = (h + 1) + 1 /\ h + 1 \in Nat
      BY <1>3
    <3>2. Stack(b, (h + 1) + 1, 0)
      BY <2>2, <3>1
    <3> QED BY <2>2, <3>1, <3>2, PutCall
  <2> HIDE DEF c
  <2>4. /\ Consume("RPAREN") \in Steps /\ Expression(NONE) \in Steps /\ Consume("LPAREN") \in Steps
        /\ Stack(d, h, 0) /\ OpAt(d, 1) # "end"
    BY <1>3, <2>3, PutCondition
  <2> HIDE DEF d
  <2>5. Consume("IF") \in Steps /\ Stack(e, h, 0) /\ e # <<>>
    <3>1. "IF" \in Names
      BY DEF Names
    <3> QED BY <1>3, <2>4, <3>1, PutConsume
  <2>6. todo' = e
    <3> DEFINE u == <<Consume("IF"), Consume("LPAREN"), Expression(NONE), Consume("RPAREN")>>
               w == <<Do("statement"), Do("else"), Do("if")>>
    <3>1. u \in Seq(Steps) /\ w \in Seq(Steps)
      BY <2>1, <2>2, <2>3, <2>4, <2>5
    <3>2. todo' = (u \o w) \o s
      BY <1>5
    <3>3. w \o s = c
      BY <1>3, <2>1, <2>2, <2>3, Put3 DEF a, b, c
    <3>4. c \in Seq(Steps)
      BY <2>3 DEF Stack
    <3>5. u \o c = e
      BY <2>4, <2>5, <3>4, Put4 DEF d
    <3> HIDE DEF u, w, e
    <3>6. s \in Seq(Steps)
      BY <1>3
    <3>7. (u \o w) \o s = u \o (w \o s)
      BY ONLY <3>1, <3>6, StepsAssociative
    <3> QED BY <3>2, <3>3, <3>5, <3>7, Zenon
  <2> QED BY <2>5, <2>6
<1>6. ASSUME todo' = <<Consume("WHILE"), Consume("LPAREN"), Expression(NONE), Consume("RPAREN"),
                       Do("statement"), Do("while")>> \o s
      PROVE  todo' # <<>> /\ Stack(todo', h, 0)
  <2> DEFINE b == Put(Do("while"), s)
             c == Put(Do("statement"), b)
             d == Put(Consume("LPAREN"), Put(Expression(NONE), Put(Consume("RPAREN"), c)))
             e == Put(Consume("WHILE"), d)
  <2>2. Do("while") \in Steps /\ Stack(b, h + 2, 0) /\ OpAt(b, 1) # "end"
    BY <1>3, PutWhile
  <2> HIDE DEF b
  <2>3. Do("statement") \in Steps /\ Stack(c, h + 1, 0) /\ OpAt(c, 1) # "end"
    <3>1. h + 2 = (h + 1) + 1 /\ h + 1 \in Nat
      BY <1>3
    <3>2. Stack(b, (h + 1) + 1, 0)
      BY <2>2, <3>1
    <3> QED BY <2>2, <3>1, <3>2, PutCall
  <2> HIDE DEF c
  <2>4. /\ Consume("RPAREN") \in Steps /\ Expression(NONE) \in Steps /\ Consume("LPAREN") \in Steps
        /\ Stack(d, h, 0) /\ OpAt(d, 1) # "end"
    BY <1>3, <2>3, PutCondition
  <2> HIDE DEF d
  <2>5. Consume("WHILE") \in Steps /\ Stack(e, h, 0) /\ e # <<>>
    <3>1. "WHILE" \in Names
      BY DEF Names
    <3> QED BY <1>3, <2>4, <3>1, PutConsume
  <2>6. todo' = e
    <3> DEFINE u == <<Consume("WHILE"), Consume("LPAREN"), Expression(NONE), Consume("RPAREN")>>
               w == <<Do("statement"), Do("while")>>
    <3>1. u \in Seq(Steps) /\ w \in Seq(Steps)
      BY <2>2, <2>3, <2>4, <2>5
    <3>2. todo' = (u \o w) \o s
      BY <1>6
    <3>3. w \o s = c
      BY <1>3, <2>2, <2>3, Put2 DEF b, c
    <3>4. c \in Seq(Steps)
      BY <2>3 DEF Stack
    <3>5. u \o c = e
      BY <2>4, <2>5, <3>4, Put4 DEF d
    <3> HIDE DEF u, w, e
    <3>6. s \in Seq(Steps)
      BY <1>3
    <3>7. (u \o w) \o s = u \o (w \o s)
      BY ONLY <3>1, <3>6, StepsAssociative
    <3> QED BY <3>2, <3>3, <3>5, <3>7, Zenon
  <2> QED BY <2>5, <2>6
<1>7. "RETURN" \in Names /\ "SEMICOLON" \in Names /\ h + 1 \in Nat
  BY <1>3 DEF Names
<1>8. ASSUME todo' = <<Consume("RETURN"), Do("return_value"), Consume("SEMICOLON"), Do("return")>> \o s
      PROVE  todo' # <<>> /\ Stack(todo', h, 0)
  <2> DEFINE a == Put(Do("return"), s)
             b == Put(Consume("SEMICOLON"), a)
             c == Put(Do("return_value"), b)
             d == Put(Consume("RETURN"), c)
  <2>1. Do("return") \in Steps /\ Stack(a, h + 1, 0) /\ OpAt(a, 1) # "end"
    BY <1>3, PutEnd
  <2> HIDE DEF a
  <2>2. /\ Consume("SEMICOLON") \in Steps /\ Stack(b, h + 1, 0)
        /\ OpAt(b, 1) # "end" /\ OpAt(b, 1) \in Recovering
    BY <1>7, <2>1, PutConsume
  <2> HIDE DEF b
  <2>3. Do("return_value") \in Steps /\ Stack(c, h, 0) /\ OpAt(c, 1) # "end"
    BY <1>3, <2>2, PutPart
  <2> HIDE DEF c
  <2>4. Consume("RETURN") \in Steps /\ Stack(d, h, 0) /\ d # <<>>
    BY <1>3, <1>7, <2>3, PutConsume
  <2>5. todo' = d
    <3>1. /\ Consume("RETURN") \in Steps /\ Do("return_value") \in Steps
          /\ Consume("SEMICOLON") \in Steps /\ Do("return") \in Steps
      BY <2>1, <2>2, <2>3, <2>4
    <3>2. s \in Seq(Steps)
      BY <1>3
    <3>3. <<Consume("RETURN"), Do("return_value"), Consume("SEMICOLON"), Do("return")>> \o s =
             Put(Consume("RETURN"), Put(Do("return_value"), Put(Consume("SEMICOLON"), Put(Do("return"), s))))
      BY ONLY <3>1, <3>2, Put4
    <3> QED BY <1>8, <3>3, Zenon DEF a, b, c
  <2> QED BY <2>4, <2>5
<1>9. ASSUME todo' = <<Expression(NONE), Consume("SEMICOLON")>> \o s
      PROVE  todo' # <<>> /\ Stack(todo', h, 0)
  <2> DEFINE b == Put(Consume("SEMICOLON"), s)
             c == Put(Expression(NONE), b)
  <2>1. Consume("SEMICOLON") \in Steps /\ Stack(b, h + 1, 0) /\ OpAt(b, 1) \in Recovering
    BY <1>3, <1>7, PutConsume
  <2> HIDE DEF b
  <2>2. Expression(NONE) \in Steps /\ Stack(c, h, 0) /\ c # <<>>
    <3>1. NONE \in Nat
      BY DEF NONE
    <3> QED BY <1>3, <2>1, <3>1, PutExpression
  <2>3. todo' = c
    BY <1>3, <1>9, <2>1, <2>2, Put2 DEF b
  <2> QED BY <2>2, <2>3
<1>10. \/ todo' = <<Do("var_decl")>> \o s
       \/ todo' = <<Consume("IF"), Consume("LPAREN"), Expression(NONE), Consume("RPAREN"),
                    Do("statement"), Do("else"), Do("if")>> \o s
       \/ todo' = <<Consume("WHILE"), Consume("LPAREN"), Expression(NONE), Consume("RPAREN"),
                    Do("statement"), Do("while")>> \o s
       \/ todo' = <<Consume("RETURN"), Do("return_value"), Consume("SEMICOLON"), Do("return")>> \o s
       \/ todo' = <<Do("block")>> \o s
       \/ todo' = <<Expression(NONE), Consume("SEMICOLON")>> \o s
  BY DEF parse_statement, Continue, s
<1> QED BY <1>4, <1>5, <1>6, <1>8, <1>9, <1>10

\* A part that may be missing leaves a value all the same.
LEMMA OptionalKept == StackInv /\ OptionalPart => StackKept
<1> SUFFICES ASSUME StackInv, OptionalPart PROVE StackKept
  OBVIOUS
<1> DEFINE s == Tail(todo)
           h == Len(vals)
<1>1. todo[1].op \in {"initializer", "else", "return_value"} /\ expr_depth' = expr_depth
  BY DEF OptionalPart, At
<1>2. todo[1].op \in Makers \ {"expression"}
  BY <1>1 DEF Makers
<1>3. /\ Stack(s, h + 1, 0) /\ OpAt(s, 1) # "end" /\ expr_depth = 0 /\ h \in Nat /\ s \in Seq(Steps)
      /\ IsSeq(vals) /\ 0 \in 0 .. MAX_EXPRESSION_DEPTH
  BY <1>2, Under DEF StackInv, Stack
<1>4. ASSUME Push(Absent), Continue(<<>>), UNCHANGED tokens
      PROVE  StackKept
  <2>1. IsSeq(vals') /\ Len(vals') = h + 1
    BY <1>4, Pushed
  <2>2. todo' # <<>> /\ Stack(todo', h + 1, 0)
    BY <1>3, <1>4, Returned
  <2> QED BY <1>1, <1>3, <1>4, <2>1, <2>2 DEF StackKept
<1>5. ASSUME NEW x, x = Do("statement") \/ x = Expression(NONE), Continue(<<x>>), vals' = vals,
             parser_advance \/ UNCHANGED tokens, x = Expression(NONE) => OpAt(s, 1) \in Recovering
      PROVE  StackKept
  <2>1. todo' = Put(x, s)
    BY <1>5 DEF Continue, Put
  <2> HIDE DEF s, h
  <2>2. Put(x, s) # <<>> /\ Stack(Put(x, s), h, 0)
    <3>1. CASE x = Do("statement")
      BY <1>3, <3>1, PutCall
    <3>2. CASE x = Expression(NONE)
      <4>1. NONE \in Nat
        BY DEF NONE
      <4> QED BY <1>3, <1>5, <3>2, <4>1, PutExpression
    <3> QED BY <1>5, <3>1, <3>2
  <2> QED BY <1>1, <1>3, <1>5, <2>1, <2>2 DEF StackKept, h
<1>6. todo[1].op # "else" => OpAt(s, 1) \in Recovering
  BY <1>1, Under
<1> HIDE DEF s
<1>7. \/ Push(Absent) /\ Continue(<<>>) /\ UNCHANGED tokens
      \/ Continue(<<Do("statement")>>) /\ parser_advance /\ vals' = vals
      \/ /\ Continue(<<Expression(NONE)>>) /\ vals' = vals /\ (parser_advance \/ UNCHANGED tokens)
         /\ todo[1].op # "else"
  BY DEF OptionalPart, At
<1>8. Do("statement") = Expression(NONE) => FALSE
  BY DEF Do, Expression
<1> QED BY <1>4, <1>5, <1>6, <1>7, <1>8

\* The node of a statement takes the place of its parts.
LEMMA EndKept == StackInv /\ EndStatement => StackKept
<1> SUFFICES ASSUME StackInv, EndStatement PROVE StackKept
  OBVIOUS
<1> DEFINE s == Tail(todo)
           h == Len(vals)
<1>1. Continue(<<>>) /\ expr_depth' = expr_depth /\ UNCHANGED tokens
  BY DEF EndStatement
<1>2. h \in Nat /\ expr_depth \in 0 .. MAX_EXPRESSION_DEPTH
  BY Under DEF StackInv
<1>3. ASSUME todo[1].op \in {"return", "decl", "if", "while"},
             NEW m \in 1 .. 3, NEW e, vals' = Append(Popped(m), e), h >= m, Stack(s, h - m + 1, 0)
      PROVE  StackKept
  <2>1. OpAt(s, 1) # "end" /\ expr_depth = 0
    BY <1>3, Under
  <2>2. m \in Nat /\ m <= Len(vals)
    BY <1>2, <1>3
  <2>3. IsSeq(vals') /\ Len(vals') = h - m + 1
    BY <1>3, <2>2, Replaced
  <2>4. todo' # <<>> /\ Stack(todo', h - m + 1, 0)
    BY <1>1, <1>3, <2>1, Returned
  <2> QED BY <1>1, <1>2, <2>1, <2>3, <2>4 DEF StackKept
<1>4. CASE At("if")
  <2>1. todo[1].op = "if" /\ \E e : vals' = Append(Popped(3), e)
    BY <1>4 DEF At, EndStatement
  <2>2. Stack(s, h - 2, 0) /\ h >= 3
    BY <2>1, Under
  <2>3. h - 2 = h - 3 + 1 /\ 3 \in 1 .. 3
    BY <1>2
  <2> QED BY <1>3, <2>1, <2>2, <2>3
<1>5. CASE At("while")
  <2>1. todo[1].op = "while" /\ \E e : vals' = Append(Popped(2), e)
    BY <1>5 DEF At, EndStatement
  <2>2. Stack(s, h - 1, 0) /\ h >= 2
    BY <2>1, Under
  <2>3. h - 1 = h - 2 + 1 /\ 2 \in 1 .. 3
    BY <1>2
  <2> QED BY <1>3, <2>1, <2>2, <2>3
<1>6. CASE At("return") \/ At("decl")
  <2>1. todo[1].op \in {"return", "decl"} /\ \E e : vals' = Append(Popped(1), e)
    BY <1>6 DEF At, EndStatement
  <2>2. Stack(s, h, 0) /\ h >= 1
    BY <2>1, Under
  <2>3. h = h - 1 + 1 /\ 1 \in 1 .. 3
    BY <1>2
  <2> QED BY <1>3, <2>1, <2>2, <2>3
<1> QED BY <1>4, <1>5, <1>6 DEF EndStatement

\* parse_var_decl and parse_function after the type.
LEMMA TypedKept == StackInv /\ Typed => StackKept
<1> SUFFICES ASSUME StackInv, Typed PROVE StackKept
  OBVIOUS
<1> DEFINE s == Tail(todo)
           h == Len(vals)
<1>1. todo[1].op \in {"var_decl", "function"} /\ expr_depth' = expr_depth /\ parser_advance
  BY DEF Typed, At
<1>2. todo[1].op \in Makers \ {"expression"}
  BY <1>1 DEF Makers
<1>3. /\ Stack(s, h + 1, 0) /\ OpAt(s, 1) # "end" /\ expr_depth = 0 /\ h \in Nat /\ s \in Seq(Steps)
      /\ IsSeq(vals) /\ 0 \in 0 .. MAX_EXPRESSION_DEPTH
  BY <1>2, Under DEF StackInv, Stack
<1>4. ASSUME Push(NULL), Continue(<<>>) PROVE StackKept
  <2>1. IsSeq(vals') /\ Len(vals') = h + 1
    BY <1>4, Pushed
  <2>2. todo' # <<>> /\ Stack(todo', h + 1, 0)
    BY <1>3, <1>4, Returned
  <2> QED BY <1>1, <1>3, <1>4, <2>1, <2>2 DEF StackKept
<1>5. "IDENTIFIER" \in Names /\ "SEMICOLON" \in Names /\ "LPAREN" \in Names /\ h + 1 \in Nat
  BY <1>3 DEF Names
<1>6. ASSUME todo' = <<Consume("IDENTIFIER"), Do("initializer"), Consume("SEMICOLON"), Do("decl")>> \o s,
             vals' = vals
      PROVE  StackKept
  <2> HIDE DEF s, h
  <2> DEFINE a == Put(Do("decl"), s)
             b == Put(Consume("SEMICOLON"), a)
             c == Put(Do("initializer"), b)
             d == Put(Consume("IDENTIFIER"), c)
  <2>1. Do("decl") \in Steps /\ Stack(a, h + 1, 0) /\ OpAt(a, 1) # "end"
    BY <1>3, PutEnd
  <2> HIDE DEF a
  <2>2. /\ Consume("SEMICOLON") \in Steps /\ Stack(b, h + 1, 0)
        /\ OpAt(b, 1) # "end" /\ OpAt(b, 1) \in Recovering
    BY <1>5, <2>1, PutConsume
  <2> HIDE DEF b
  <2>3. Do("initializer") \in Steps /\ Stack(c, h, 0) /\ OpAt(c, 1) # "end"
    BY <1>3, <2>2, PutPart
  <2> HIDE DEF c
  <2>4. Consume("IDENTIFIER") \in Steps /\ Stack(d, h, 0) /\ d # <<>>
    BY <1>3, <1>5, <2>3, PutConsume
  <2>5. todo' = d
    <3>1. /\ Consume("IDENTIFIER") \in Steps /\ Do("initializer") \in Steps
          /\ Consume("SEMICOLON") \in Steps /\ Do("decl") \in Steps
      BY <2>1, <2>2, <2>3, <2>4
    <3>2. s \in Seq(Steps)
      BY <1>3
    <3>3. <<Consume("IDENTIFIER"), Do("initializer"), Consume("SEMICOLON"), Do("decl")>> \o s =
             Put(Consume("IDENTIFIER"), Put(Do("initializer"), Put(Consume("SEMICOLON"), Put(Do("decl"), s))))
      BY ONLY <3>1, <3>2, Put4
    <3> QED BY <1>6, <3>3, Zenon DEF a, b, c
  <2> HIDE DEF d
  <2> QED BY <1>1, <1>3, <1>6, <2>4, <2>5 DEF StackKept, h
<1>7. ASSUME todo' = <<Consume("IDENTIFIER"), Consume("LPAREN"), Do("parameters")>> \o s, vals' = vals
      PROVE  StackKept
  <2> HIDE DEF s, h
  <2> DEFINE a == Put(Do("parameters"), s)
             b == Put(Consume("LPAREN"), a)
             c == Put(Consume("IDENTIFIER"), b)
  <2>1. Do("parameters") \in Steps /\ Stack(a, h, 0) /\ OpAt(a, 1) # "end"
    BY <1>3, PutCall
  <2> HIDE DEF a
  <2>2. Consume("LPAREN") \in Steps /\ Stack(b, h, 0) /\ OpAt(b, 1) # "end"
    BY <1>3, <1>5, <2>1, PutConsume
  <2> HIDE DEF b
  <2>3. Consume("IDENTIFIER") \in Steps /\ Stack(c, h, 0) /\ c # <<>>
    BY <1>3, <1>5, <2>2, PutConsume
  <2>4. todo' = c
    BY <1>3, <1>7, <2>1, <2>2, <2>3, Put3 DEF a, b
  <2> HIDE DEF c
  <2> QED BY <1>1, <1>3, <1>7, <2>3, <2>4 DEF StackKept, h
<1> QED BY <1>4, <1>6, <1>7 DEF Typed, Continue

\* parse_block: every statement is taken off vals before the next one starts.
LEMMA BlockKept == StackInv /\ parse_block => StackKept
<1> SUFFICES ASSUME StackInv, parse_block PROVE StackKept
  OBVIOUS
<1> DEFINE s == Tail(todo)
           h == Len(vals)
           n == todo[1].n
<1>1. expr_depth' = expr_depth /\ UNCHANGED tokens
  BY DEF parse_block
<1>2. /\ h \in Nat /\ todo[1] \in Steps /\ IsSeq(vals)
      /\ "LBRACE" \in Names /\ "RBRACE" \in Names /\ h + 1 \in Nat
      /\ expr_depth \in 0 .. MAX_EXPRESSION_DEPTH
  BY Under DEF StackInv, Names
<1>3. ASSUME todo[1].op \in Makers \ {"expression"}
      PROVE  Stack(s, h + 1, 0) /\ OpAt(s, 1) # "end" /\ expr_depth = 0 /\ s \in Seq(Steps)
  BY <1>3, Under DEF Stack
<1>4. CASE At("block")
  <2>1. /\ todo[1].op \in Makers \ {"expression"}
        /\ vals' = vals /\ todo' = <<Consume("LBRACE"), Counted("statements", 0)>> \o s
    BY <1>4 DEF parse_block, At, Continue, Makers
  <2>2. Stack(s, h + 1, 0) /\ OpAt(s, 1) # "end" /\ expr_depth = 0 /\ s \in Seq(Steps)
    BY <1>3, <2>1
  <2>3. 0 \in 0 .. MAX_BLOCK_STATEMENTS
    BY LimitsAssumption
  <2> HIDE DEF s, h
  <2> DEFINE a == Put(Counted("statements", 0), s)
             b == Put(Consume("LBRACE"), a)
  <2>4. Counted("statements", 0) \in Steps /\ Stack(a, h, 0) /\ OpAt(a, 1) # "end"
    BY <1>2, <2>2, <2>3, PutStatements
  <2> HIDE DEF a
  <2>5. Consume("LBRACE") \in Steps /\ Stack(b, h, 0) /\ b # <<>>
    BY <1>2, <2>4, PutConsume
  <2>6. todo' = b
    BY <2>1, <2>2, <2>4, <2>5, Put2 DEF a
  <2> HIDE DEF b
  <2> QED BY <1>1, <1>2, <2>1, <2>2, <2>5, <2>6 DEF StackKept, h
\* The closing brace.
<1>5. ASSUME Stack(s, h + 1, 0), OpAt(s, 1) # "end", s \in Seq(Steps)
      PROVE  LET end == <<Consume("RBRACE"), Do("end_block")>> IN
             /\ Stack(end \o s, h, 0) /\ end \o s # <<>>
             /\ Stack((<<Do("synchronize")>> \o end) \o s, h, 0) /\ (<<Do("synchronize")>> \o end) \o s # <<>>
  <2> DEFINE end == <<Consume("RBRACE"), Do("end_block")>>
             a == Put(Do("end_block"), s)
             b == Put(Consume("RBRACE"), a)
             c == Put(Do("synchronize"), b)
  <2> HIDE DEF s, h
  <2>1. Do("end_block") \in Steps /\ Stack(a, h, 0) /\ OpAt(a, 1) # "end"
    BY <1>2, <1>5, PutCall
  <2> HIDE DEF a
  <2>2. Consume("RBRACE") \in Steps /\ Stack(b, h, 0) /\ b # <<>> /\ OpAt(b, 1) # "end"
    BY <1>2, <2>1, PutConsume
  <2>3. end \o s = b
    BY <1>5, <2>1, <2>2, Put2 DEF a
  <2>4. end \in Seq(Steps)
    BY <2>1, <2>2
  <2> HIDE DEF b, end
  <2>5. Do("synchronize") \in Steps /\ Stack(c, h, 0) /\ c # <<>>
    BY <1>2, <2>2, PutSynchronize
  <2>6. (<<Do("synchronize")>> \o end) \o s = c
    BY <1>5, <2>3, <2>4, <2>5, PutSeveral
  <2> QED BY <2>2, <2>3, <2>5, <2>6, Zenon DEF end
<1>6. CASE At("statements")
  <2>1. todo[1].op = "statements" /\ todo[1].op \in Makers \ {"expression"} /\ vals' = vals
    BY <1>6 DEF parse_block, At, Makers
  <2>2. Stack(s, h + 1, 0) /\ OpAt(s, 1) # "end" /\ expr_depth = 0 /\ s \in Seq(Steps)
    BY <1>3, <2>1
  <2>3. n \in 0 .. MAX_BLOCK_STATEMENTS
    BY <1>2, <2>1, Fields
  <2>4. \/ todo' = <<Consume("RBRACE"), Do("end_block")>> \o s
        \/ todo' = (<<Do("synchronize")>> \o <<Consume("RBRACE"), Do("end_block")>>) \o s
        \/ todo' = <<Do("statement"), Counted("statement_done", n)>> \o s /\ ~BlockFull(n)
    BY <2>1 DEF parse_block, At, Continue
  <2>5. ASSUME todo' = <<Do("statement"), Counted("statement_done", n)>> \o s, ~BlockFull(n)
        PROVE  todo' # <<>> /\ Stack(todo', h, 0)
    <3>1. n \in 0 .. MAX_BLOCK_STATEMENTS - 1
      BY <2>3, <2>5, LimitsAssumption DEF BlockFull
    <3> HIDE DEF s, h, n
    <3> DEFINE a == Put(Counted("statement_done", n), s)
               b == Put(Do("statement"), a)
    <3>2. Counted("statement_done", n) \in Steps /\ Stack(a, h + 1, 0) /\ OpAt(a, 1) # "end"
      BY <1>2, <2>2, <3>1, PutStatementDone
    <3> HIDE DEF a
    <3>3. Do("statement") \in Steps /\ Stack(b, h, 0) /\ b # <<>>
      BY <1>2, <3>2, PutCall
    <3>4. todo' = b
      BY <2>2, <2>5, <3>2, <3>3, Put2 DEF a
    <3> HIDE DEF b
    <3> QED BY <3>3, <3>4
  <2>6. todo' # <<>> /\ Stack(todo', h, 0)
    BY <1>5, <2>2, <2>4, <2>5
  <2> QED BY <1>1, <1>2, <2>1, <2>2, <2>6 DEF StackKept
<1>7. CASE At("statement_done")
  <2>1. /\ todo[1].op = "statement_done" /\ vals' = Popped(1)
        /\ todo' = (IF Top = NULL THEN <<Do("synchronize"), Counted("statements", n)>>
                    ELSE <<Counted("statements", n + 1)>>) \o s
    BY <1>7 DEF parse_block, At, Continue
  <2>2. Stack(s, h, 0) /\ OpAt(s, 1) # "end" /\ expr_depth = 0 /\ h >= 1
    BY <2>1, Under
  <2>3. n \in 0 .. MAX_BLOCK_STATEMENTS - 1
    BY <1>2, <2>1, Fields
  <2>4. n \in 0 .. MAX_BLOCK_STATEMENTS /\ n + 1 \in 0 .. MAX_BLOCK_STATEMENTS
    BY <2>3, LimitsAssumption
  <2> DEFINE g == h - 1
  <2>5. g \in Nat /\ h = g + 1 /\ Stack(s, g + 1, 0) /\ s \in Seq(Steps)
    BY <1>2, <2>2 DEF Stack
  <2>6. IsSeq(vals') /\ Len(vals') = g
    <3>1. 1 \in Nat /\ 1 <= Len(vals)
      BY <1>2, <2>2
    <3> QED BY <2>1, <3>1, Dropped
  <2> HIDE DEF s, h, n, g
  <2>7. /\ Counted("statements", n) \in Steps
        /\ Stack(Put(Counted("statements", n), s), g, 0) /\ OpAt(Put(Counted("statements", n), s), 1) # "end"
    BY <2>2, <2>4, <2>5, PutStatements
  <2>8. Do("synchronize") \in Steps
        /\ Stack(Put(Do("synchronize"), Put(Counted("statements", n), s)), g, 0)
        /\ Put(Do("synchronize"), Put(Counted("statements", n), s)) # <<>>
    BY <2>5, <2>7, PutSynchronize
  <2> DEFINE m == n + 1
  <2>9. m \in 0 .. MAX_BLOCK_STATEMENTS
    BY <2>4
  <2> HIDE DEF m
  <2>10. Stack(Put(Counted("statements", m), s), g, 0) /\ Put(Counted("statements", m), s) # <<>>
    BY <2>2, <2>5, <2>9, PutStatements
  <2>11. \/ todo' = Put(Do("synchronize"), Put(Counted("statements", n), s))
         \/ todo' = Put(Counted("statements", m), s)
    <3>1. <<Do("synchronize"), Counted("statements", n)>> \o s =
             Put(Do("synchronize"), Put(Counted("statements", n), s))
      BY <2>5, <2>7, <2>8, Put2
    <3> QED BY <2>1, <3>1 DEF Put, m
  <2>12. todo' # <<>> /\ Stack(todo', g, 0)
    BY <2>8, <2>10, <2>11
  <2> QED BY <1>1, <1>2, <2>2, <2>6, <2>12 DEF StackKept
<1>8. CASE At("end_block")
  <2>1. todo[1].op \in Makers \ {"expression"} /\ Push(Statement("BLOCK", FALSE)) /\ Continue(<<>>)
    BY <1>8 DEF parse_block, At, Makers
  <2>2. Stack(s, h + 1, 0) /\ OpAt(s, 1) # "end" /\ expr_depth = 0
    BY <1>3, <2>1
  <2>3. IsSeq(vals') /\ Len(vals') = h + 1
    BY <2>1, Pushed
  <2>4. todo' # <<>> /\ Stack(todo', h + 1, 0)
    BY <2>1, <2>2, Returned
  <2> QED BY <1>1, <1>2, <2>2, <2>3, <2>4 DEF StackKept
<1> QED BY <1>4, <1>6, <1>7, <1>8 DEF parse_block

\* parse_function after its opening parenthesis.
LEMMA FunctionKept == StackInv /\ parse_function => StackKept
<1> SUFFICES ASSUME StackInv, parse_function PROVE StackKept
  OBVIOUS
<1> DEFINE s == Tail(todo)
           h == Len(vals)
           n == todo[1].n
<1>1. expr_depth' = expr_depth /\ (parser_advance \/ UNCHANGED tokens)
  BY DEF parse_function
<1>2. todo[1].op \in {"parameters", "parameter", "parameter_done", "body"}
  BY DEF parse_function, At
<1>3. todo[1].op \in Makers \ {"expression"}
  BY <1>2 DEF Makers
<1>4. /\ h \in Nat /\ todo[1] \in Steps /\ IsSeq(vals) /\ h + 1 \in Nat
      /\ Stack(s, h + 1, 0) /\ OpAt(s, 1) # "end" /\ expr_depth = 0 /\ s \in Seq(Steps)
      /\ 0 \in 0 .. MAX_EXPRESSION_DEPTH
  BY <1>3, Under DEF StackInv, Stack
<1>5. "RPAREN" \in Names /\ "IDENTIFIER" \in Names
  BY DEF Names
<1>6. todo[1].op \in {"parameter", "parameter_done", "body"} => n \in Nat
  BY <1>4, Fields
\* One more step of the function, after a token.
<1>7. ASSUME NEW t \in Names, NEW op, op \in {"parameter", "parameter_done", "body"}, NEW m \in Nat,
             todo' = <<Consume(t), Counted(op, m)>> \o s, vals' = vals
      PROVE  StackKept
  <2> HIDE DEF s, h
  <2> DEFINE a == Put(Counted(op, m), s)
             b == Put(Consume(t), a)
  <2>1. Counted(op, m) \in Steps /\ Stack(a, h, 0) /\ OpAt(a, 1) # "end"
    BY <1>4, <1>7, PutParameter
  <2> HIDE DEF a
  <2>2. Consume(t) \in Steps /\ Stack(b, h, 0) /\ b # <<>>
    BY <1>4, <1>7, <2>1, PutConsume
  <2>3. todo' = b
    BY <1>4, <1>7, <2>1, <2>2, Put2 DEF a
  <2> HIDE DEF b
  <2> QED BY <1>1, <1>4, <1>7, <2>2, <2>3 DEF StackKept, h
<1>8. ASSUME NEW m \in Nat, todo' = <<Counted("parameter", m)>> \o s, vals' = vals
      PROVE  StackKept
  <2> HIDE DEF s, h
  <2> DEFINE a == Put(Counted("parameter", m), s)
  <2>1. Stack(a, h, 0) /\ a # <<>>
    BY <1>4, <1>8, PutParameter
  <2>2. todo' = a
    BY <1>8 DEF Put
  <2> HIDE DEF a
  <2> QED BY <1>1, <1>4, <1>8, <2>1, <2>2 DEF StackKept, h
<1>9. CASE At("parameters")
  <2>1. 0 \in Nat /\ vals' = vals
    BY <1>9 DEF parse_function, At
  <2>2. \/ todo' = <<Consume("RPAREN"), Counted("body", 0)>> \o s
        \/ todo' = <<Counted("parameter", 0)>> \o s
    BY <1>9 DEF parse_function, At, Continue
  <2> QED BY <1>5, <1>7, <1>8, <2>1, <2>2
<1>10. CASE At("parameter")
  <2>1. n \in Nat /\ vals' = vals
    BY <1>6, <1>10 DEF parse_function, At
  <2>2. n + 1 \in Nat /\ todo' = <<Consume("IDENTIFIER"), Counted("parameter_done", n + 1)>> \o s
    BY <1>10, <2>1 DEF parse_function, At, Continue
  <2> QED BY <1>5, <1>7, <2>1, <2>2
<1>11. CASE At("parameter_done")
  <2>1. n \in Nat /\ vals' = vals
    BY <1>6, <1>11 DEF parse_function, At
  <2>2. \/ todo' = <<Consume("RPAREN"), Counted("body", n)>> \o s
        \/ todo' = <<Counted("parameter", n)>> \o s
    BY <1>11 DEF parse_function, At, Continue
  <2> QED BY <1>5, <1>7, <1>8, <2>1, <2>2
<1>12. CASE At("body") /\ next = "SEMICOLON"
  <2>1. Push(Statement("PROTOTYPE", FALSE)) /\ Continue(<<>>)
    BY <1>12 DEF parse_function, At
  <2>2. IsSeq(vals') /\ Len(vals') = h + 1
    BY <2>1, Pushed
  <2>3. todo' # <<>> /\ Stack(todo', h + 1, 0)
    BY <1>4, <2>1, Returned
  <2> QED BY <1>1, <1>4, <2>2, <2>3 DEF StackKept
<1>13. CASE At("body") /\ next # "SEMICOLON"
  <2>1. todo' = Put(Do("block"), s) /\ vals' = vals
    BY <1>13 DEF parse_function, At, Continue, Put
  <2>2. Stack(Put(Do("block"), s), h, 0) /\ Put(Do("block"), s) # <<>>
    BY <1>4, PutCall
  <2> QED BY <1>1, <1>4, <2>1, <2>2 DEF StackKept
<1> QED BY <1>9, <1>10, <1>11, <1>12, <1>13 DEF parse_function

\* The bottom of the stack, parser_parse.
LEMMA PutUnit ==
    ASSUME NEW s, Stack(s, 0, 0), NEW n \in 0 .. MAX_FUNCTION_COUNT
    PROVE  /\ Stack(Put(Counted("unit", n), s), 0, 0) /\ Put(Counted("unit", n), s) # <<>>
           /\ Stack(Put(Counted("declared", n), s), 1, 0) /\ Counted("declared", n) \in Steps
           /\ OpAt(Put(Counted("declared", n), s), 1) # "end"
<1> DEFINE x == Counted("unit", n)
           y == Counted("declared", n)
<1>1. x \in Steps /\ y \in Steps /\ x.op = "unit" /\ y.op = "declared"
  BY LimitsAssumption DEF Steps, Counted
<1>2. Delta(x) = 0 /\ Deeper(x) = 0 /\ Delta(y) = -1 /\ Deeper(y) = 0
  BY <1>1, DeltaOf DEF Deeper
<1>3. Fits(x, OpAt(s, 1), 0, 0) /\ Fits(y, OpAt(s, 1), 0, 0)
  BY <1>1 DEF Fits, Inner, Bottom
<1> HIDE DEF x, y
<1>4. 0 - Delta(x) = 0 /\ 0 + Deeper(x) = 0 /\ 0 - Delta(y) = 1 /\ 0 + Deeper(y) = 0 /\ 0 \in Nat /\ 1 \in Nat
  BY ONLY <1>2
<1>5. Stack(Put(x, s), 0, 0) /\ Put(x, s) # <<>>
  BY <1>1, <1>3, <1>4, PutOn
<1>6. Stack(Put(y, s), 1, 0) /\ OpAt(Put(y, s), 1) = "declared"
  BY <1>1, <1>3, <1>4, PutOn
<1> QED BY <1>1, <1>5, <1>6 DEF x, y

\* parser_parse.
LEMMA ParseKept ==
    StackInv /\ parser_parse => StackKept /\ (outcome' = "unit" => expr_depth' = 0 /\ vals' = <<>>)
<1> SUFFICES ASSUME StackInv, parser_parse
             PROVE  StackKept /\ (outcome' = "unit" => expr_depth' = 0 /\ vals' = <<>>)
  OBVIOUS
<1> DEFINE s == Tail(todo)
           n == todo[1].n
<1>1. expr_depth' = expr_depth /\ UNCHANGED tokens
  BY DEF parser_parse
<1>2. CASE At("unit")
  <2>1. /\ Stack(s, 0, 0) /\ Len(vals) = 0 /\ expr_depth = 0 /\ vals' = vals /\ s \in Seq(Steps)
        /\ todo[1] \in Steps /\ IsSeq(vals)
    BY <1>2, Under DEF At, parser_parse, StackInv, Stack
  <2>2. vals = <<>>
    <3>1. PICK S : vals \in Seq(S)
      BY <2>1 DEF IsSeq
    <3> QED BY <2>1, <3>1
  <2>3. n \in 0 .. MAX_FUNCTION_COUNT
    BY <1>2, <2>1, Fields DEF At, Bottom
  <2>4. CASE todo' = todo
    BY <1>1, <2>1, <2>2, <2>4 DEF StackKept, StackInv
  <2>5. CASE todo' # todo
    <3>1. todo' = <<Do("function"), Counted("declared", n + 1)>> \o s /\ n < MAX_FUNCTION_COUNT
      BY <1>2, <2>5 DEF parser_parse, At, Continue
    <3> DEFINE m == n + 1
    <3>2. m \in 0 .. MAX_FUNCTION_COUNT
      BY <2>3, <3>1, LimitsAssumption
    <3>3. todo' = <<Do("function"), Counted("declared", m)>> \o s
      BY <3>1
    <3> HIDE DEF m, s
    <3> DEFINE a == Put(Counted("declared", m), s)
               b == Put(Do("function"), a)
    <3>4. Stack(a, 1, 0) /\ Counted("declared", m) \in Steps /\ OpAt(a, 1) # "end" /\ 1 = 0 + 1 /\ 0 \in Nat
      BY <2>1, <3>2, PutUnit
    <3> HIDE DEF a
    <3>5. Do("function") \in Steps /\ Stack(b, 0, 0) /\ b # <<>>
      BY <3>4, PutCall
    <3>6. todo' = b
      BY <2>1, <3>3, <3>4, <3>5, Put2 DEF a
    <3> HIDE DEF b
    <3> QED BY <1>1, <2>1, <2>2, <3>5, <3>6 DEF StackKept, StackInv
  <2> QED BY <2>4, <2>5
<1>3. CASE At("declared")
  <2>1. /\ Stack(s, 0, 0) /\ Len(vals) = 1 /\ expr_depth = 0 /\ vals' = Popped(1)
        /\ todo[1] \in Steps /\ todo' = Put(Counted("unit", n), s) /\ outcome' = outcome
    BY <1>3, Under DEF At, parser_parse, Continue, Put
  <2>2. n \in 0 .. MAX_FUNCTION_COUNT
    BY <1>3, <2>1, Fields DEF At, Bottom
  <2>3. IsSeq(vals') /\ Len(vals') = 0
    <3>1. 1 \in Nat /\ 1 <= Len(vals)
      BY <2>1
    <3> QED BY <2>1, <3>1, Dropped
  <2>4. Stack(todo', 0, 0) /\ todo' # <<>>
    BY <2>1, <2>2, PutUnit
  <2>5. outcome' # "unit"
    BY <1>3, <2>1 DEF At
  <2> QED BY <1>1, <2>1, <2>3, <2>4, <2>5 DEF StackKept, StackInv
<1> QED BY <1>2, <1>3 DEF parser_parse

\* The tokens read are tokens of the text.
LEMMA TokensKept ==
    ASSUME text \in Texts, pos \in Nat \ {0}, next \in Names, parser_advance
    PROVE  pos' \in Nat \ {0} /\ next' \in Names
<1>1. text.tokens \in Seq(SUBSET STRING)
  BY TextsAssumption
<1>2. pos' = pos + 1 /\ next' \in TokensAt(pos + 1)
  BY DEF parser_advance
<1>3. CASE pos + 1 <= Len(text.tokens)
  <2>1. text.tokens[pos + 1] \in SUBSET STRING
    BY <1>1, <1>3
  <2> QED BY <1>2, <1>3, <2>1 DEF TokensAt, Names
<1>4. CASE ~(pos + 1 <= Len(text.tokens))
  BY <1>2, <1>4 DEF TokensAt, Names
<1> QED BY <1>3, <1>4

\* The first state.
LEMMA StackInit == Init => StackInv
<1> SUFFICES ASSUME Init PROVE StackInv
  OBVIOUS
<1>1. next \in Names
  <2>1. text.tokens \in Seq(SUBSET STRING)
    BY TextsAssumption DEF Init
  <2>2. next \in TokensAt(1)
    BY DEF Init
  <2>3. CASE 1 <= Len(text.tokens)
    <3>1. text.tokens[1] \in SUBSET STRING
      BY <2>1, <2>3
    <3> QED BY <2>2, <2>3, <3>1 DEF TokensAt, Names
  <2>4. CASE ~(1 <= Len(text.tokens))
    BY <2>2, <2>4 DEF TokensAt, Names
  <2> QED BY <2>3, <2>4
<1>2. Stack(<<>>, 0, 0)
  <2> DEFINE d == [i \in 1 .. Len(<<>>) + 1 |-> 0]
  <2>1. Len(<<>>) = 0 /\ d \in [1 .. Len(<<>>) + 1 -> Nat] /\ d[1] = 0 /\ d[Len(<<>>) + 1] = 0
    OBVIOUS
  <2> HIDE DEF d
  <2>2. \A i \in 1 .. Len(<<>>) : FALSE
    BY <2>1
  <2>3. Stacked(<<>>, 0, 0)
    BY <2>1, <2>2 DEF Stacked
  <2> QED BY <2>3 DEF Stack
<1>3. 0 \in 0 .. MAX_FUNCTION_COUNT /\ 0 \in 0 .. MAX_EXPRESSION_DEPTH
  BY LimitsAssumption
<1>4. todo = Put(Counted("unit", 0), <<>>)
  BY DEF Init, Counted, Put
<1>5. Stack(todo, 0, 0) /\ todo # <<>>
  BY <1>2, <1>3, <1>4, PutUnit
<1>6. IsSeq(vals) /\ Len(vals) = 0
  <2>1. vals \in Seq({})
    BY DEF Init
  <2> QED BY <2>1 DEF IsSeq, Init
<1> QED BY <1>1, <1>3, <1>5, <1>6 DEF StackInv, Init

\* Every step of the parser.
LEMMA StackStep == StackInv /\ [Next]_vars => StackInv'
<1> SUFFICES ASSUME StackInv, [Next]_vars PROVE StackInv'
  OBVIOUS
<1>1. CASE UNCHANGED vars
  <2>1. /\ text' = text /\ pos' = pos /\ next' = next /\ expr_depth' = expr_depth /\ vals' = vals
        /\ todo' = todo /\ outcome' = outcome
    BY <1>1 DEF vars, tokens
  <2> QED BY <2>1 DEF StackInv
<1>2. ASSUME StackKept, text' = text, outcome' = "unit" => expr_depth' = 0 /\ vals' = <<>>
      PROVE  StackInv'
  <2>1. pos' \in Nat \ {0} /\ next' \in Names
    <3>1. CASE parser_advance
      BY <3>1, TokensKept DEF StackInv
    <3>2. CASE UNCHANGED tokens
      BY <3>2 DEF StackInv, tokens
    <3> QED BY <1>2, <3>1, <3>2 DEF StackKept
  <2>2. text' \in Texts
    BY <1>2 DEF StackInv
  <2> QED BY <1>2, <2>1, <2>2 DEF StackInv, StackKept
<1>3. CASE /\ \/ parser_consume \/ parser_synchronize \/ parse_expression \/ BuildNode \/ parse_call
              \/ parse_statement \/ OptionalPart \/ EndStatement \/ Typed \/ parse_block \/ parse_function
           /\ UNCHANGED <<text, outcome>>
  <2>1. StackKept
    BY <1>3, ConsumeKept, SynchronizeKept, ExpressionKept, BuildKept, CallKept, StatementKept,
       OptionalKept, EndKept, TypedKept, BlockKept, FunctionKept
  <2>2. outcome = "parsing"
    BY <1>3 DEF parser_consume, parser_synchronize, parse_expression, BuildNode, parse_call,
       parse_statement, OptionalPart, EndStatement, Typed, parse_block, parse_function, At
  <2> QED BY <1>2, <1>3, <2>1, <2>2
<1>4. CASE ParseInfix
  <2>1. StackKept /\ text' = text
    BY <1>4, InfixKept DEF ParseInfix
  <2>2. outcome' # "unit"
    BY <1>4 DEF ParseInfix, At
  <2> QED BY <1>2, <2>1, <2>2
<1>5. CASE parser_parse
  <2>1. text' = text
    BY <1>5 DEF parser_parse
  <2> QED BY <1>2, <1>5, <2>1, ParseKept
<1> QED BY <1>1, <1>3, <1>4, <1>5 DEF Next

\* ---- panic mode ----

\* Panic mode follows a report, and lasts only while the parser recovers or is
\* still inside an expression: it never reaches a statement.
PanicInv ==
    /\ panic_mode => errors
    /\ panic_mode /\ outcome = "parsing" => todo[1].op \in Recovering

\* The next step is the first of those put on the stack.
LEMMA First ==
    ASSUME StackInv, NEW S, NEW u \in Seq(S), u # <<>>, Continue(u)
    PROVE  todo'[1] = u[1]
<1>1. todo \in Seq(Steps) /\ todo # <<>>
  BY DEF StackInv, Stack
<1>2. Tail(todo) \in Seq(Steps)
  BY <1>1
<1>3. u \in Seq(S \cup Steps) /\ Tail(todo) \in Seq(S \cup Steps)
  BY <1>2
<1>4. Len(u) >= 1
  OBVIOUS
<1> QED BY <1>3, <1>4 DEF Continue

\* Nothing is put on the stack: the next step is the one under the first.
LEMMA FirstUnder ==
    ASSUME StackInv, Continue(<<>>), OpAt(Tail(todo), 1) # "end"
    PROVE  todo'[1].op = OpAt(Tail(todo), 1)
<1>1. todo \in Seq(Steps) /\ todo # <<>>
  BY DEF StackInv, Stack
<1>2. Tail(todo) \in Seq(Steps)
  BY <1>1
<1>3. Tail(todo)[1].op = OpAt(Tail(todo), 1) /\ <<>> \o Tail(todo) = Tail(todo)
  BY <1>2, NotEmpty
<1> QED BY <1>3 DEF Continue

\* A report is kept, and panic mode follows one.
LEMMA ErrorsGrow ==
    ASSUME panic_mode => errors,
           \/ NoError
           \/ parser_error
           \/ panic_mode' = FALSE /\ UNCHANGED errors
    PROVE  (errors => errors') /\ (panic_mode' => errors')
<1>1. CASE NoError
  BY <1>1, Zenon DEF NoError
<1>2. CASE parser_error
  BY <1>2, Zenon DEF parser_error
<1>3. CASE panic_mode' = FALSE /\ UNCHANGED errors
  BY <1>3, Zenon
<1> QED BY <1>1, <1>2, <1>3, Zenon

\* Every action reports, recovers or leaves the errors alone.
LEMMA Reports ==
    ASSUME Next
    PROVE  \/ NoError
           \/ parser_error
           \/ panic_mode' = FALSE /\ UNCHANGED errors
<1>1. CASE parser_consume
  BY <1>1, Zenon DEF parser_consume
<1>2. CASE parser_synchronize
  BY <1>2, Zenon DEF parser_synchronize
<1>3. CASE parse_expression
  BY <1>3, Zenon DEF parse_expression, NoPrefix
<1>4. CASE ParseInfix
  BY <1>4, Zenon DEF ParseInfix
<1>5. CASE BuildNode
  BY <1>5, Zenon DEF BuildNode
<1>6. CASE parse_call
  BY <1>6, Zenon DEF parse_call
<1>7. CASE parse_statement \/ OptionalPart \/ EndStatement \/ Typed
  BY <1>7, Zenon DEF parse_statement, OptionalPart, EndStatement, Typed
<1>8. CASE parse_block
  BY <1>8, Zenon DEF parse_block
<1>9. CASE parse_function
  BY <1>9, Zenon DEF parse_function
<1>10. CASE parser_parse
  BY <1>10, Zenon DEF parser_parse
<1> QED BY <1>1, <1>2, <1>3, <1>4, <1>5, <1>6, <1>7, <1>8, <1>9, <1>10, Zenon DEF Next

\* The same for the tuples the actions put there.
LEMMA FirstOf ==
    ASSUME StackInv, NEW a
    PROVE  /\ Continue(<<a>>) => todo'[1] = a
           /\ \A b : Continue(<<a, b>>) => todo'[1] = a
           /\ \A b, c : Continue(<<a, b, c>>) => todo'[1] = a
           /\ \A b, c, d : Continue(<<a, b, c, d>>) => todo'[1] = a
<1>1. ASSUME Continue(<<a>>) PROVE todo'[1] = a
  <2>1. <<a>> \in Seq({a}) /\ <<a>> # <<>> /\ <<a>>[1] = a
    OBVIOUS
  <2> QED BY <1>1, <2>1, First
<1>2. ASSUME NEW b, Continue(<<a, b>>) PROVE todo'[1] = a
  <2>1. <<a, b>> \in Seq({a, b}) /\ <<a, b>> # <<>> /\ <<a, b>>[1] = a
    OBVIOUS
  <2> QED BY <1>2, <2>1, First
<1>3. ASSUME NEW b, NEW c, Continue(<<a, b, c>>) PROVE todo'[1] = a
  <2>1. <<a, b, c>> \in Seq({a, b, c}) /\ <<a, b, c>> # <<>> /\ <<a, b, c>>[1] = a
    OBVIOUS
  <2> QED BY <1>3, <2>1, First
<1>4. ASSUME NEW b, NEW c, NEW d, Continue(<<a, b, c, d>>) PROVE todo'[1] = a
  <2>1. <<a, b, c, d>> \in Seq({a, b, c, d}) /\ <<a, b, c, d>> # <<>> /\ <<a, b, c, d>>[1] = a
    OBVIOUS
  <2> QED BY <1>4, <2>1, First
<1> QED BY <1>1, <1>2, <1>3, <1>4, Zenon

\* A step and two more, put there as one sequence.
LEMMA FirstOfThree ==
    ASSUME StackInv, NEW a, NEW b, NEW c, Continue(<<a>> \o <<b, c>>)
    PROVE  todo'[1] = a
<1> DEFINE S == {a, b, c}
           u == <<a>> \o <<b, c>>
<1>1. <<a>> \in Seq(S) /\ <<b, c>> \in Seq(S)
  OBVIOUS
<1>2. u \in Seq(S) /\ u # <<>> /\ u[1] = a
  BY <1>1
<1> HIDE DEF u, S
<1> QED BY <1>2, First DEF u

\* Inside an expression the next step is one of a recovering parser.
LEMMA RecoveringInside ==
    ASSUME StackInv, parse_expression \/ ParseInfix \/ BuildNode \/ parse_call
    PROVE  todo'[1].op \in Recovering
<1>1. todo[1].op \in Inner
  BY DEF parse_expression, ParseInfix, BuildNode, parse_call, At, Inner
<1>2. ASSUME Continue(<<>>) PROVE todo'[1].op \in Recovering
  BY <1>1, <1>2, Under, FirstUnder
<1>3. ASSUME NEW x, x.op \in Recovering, todo'[1] = x PROVE todo'[1].op \in Recovering
  BY <1>3
<1>4. /\ \A q : Infix(q).op \in Recovering /\ Expression(q).op \in Recovering
      /\ Consume("RPAREN").op \in Recovering /\ Do("synchronize").op \in Recovering
      /\ \A p, n : Argument(p, n).op \in Recovering
      /\ [op |-> "arguments", at |-> pos].op \in Recovering
  BY DEF Infix, Expression, Consume, Do, Argument, Recovering, Inner
<1>5. CASE parse_expression
  <2> DEFINE p == todo[1].prec
  <2>1. \/ Continue(<<>>)
        \/ Continue(<<Infix(p)>>)
        \/ Continue(<<Expression(UNARY), Build("UNARY", pos), Infix(p)>>)
        \/ Continue(<<Expression(NONE), Consume("RPAREN"), Build("GROUP", pos), Infix(p)>>)
    BY <1>5, Zenon DEF parse_expression
  <2> QED BY <1>2, <1>3, <1>4, <2>1, FirstOf
<1>6. CASE ParseInfix
  <2> DEFINE p == todo[1].prec
  <2>1. \/ Continue(<<>>)
        \/ todo' = todo
        \/ Continue(<<Expression(RightOperand(next)), Build(next, pos), Infix(p)>>)
        \/ Continue(<<Expression(ASSIGNMENT), Build("ASSIGNMENT", pos), Infix(p)>>)
        \/ Continue(<<[op |-> "arguments", at |-> pos], Infix(p)>>)
    BY <1>6, Zenon DEF ParseInfix
  <2>2. todo' = todo => todo'[1].op \in Recovering
    BY <1>1 DEF Recovering
  <2> QED BY <1>2, <1>3, <1>4, <2>1, <2>2, FirstOf
<1>7. CASE BuildNode
  BY <1>2, <1>7 DEF BuildNode
<1>8. CASE parse_call
  <2> DEFINE p == todo[1].at
             n == todo[1].n
             C(m) == [op |-> "call", at |-> p, n |-> m]
  <2>1. \/ Continue(<<>>)
        \/ \E m : Continue(<<Consume("RPAREN"), C(m)>>)
        \/ \E m : Continue(<<Do("synchronize")>> \o <<Consume("RPAREN"), C(m)>>)
        \/ \E m : Continue(<<Argument(p, m)>>)
        \/ \E y : Continue(<<Expression(ASSIGNMENT), y>>)
    <3>1. CASE At("arguments")
      BY <1>8, <3>1 DEF parse_call, EndCall, At
    <3>2. CASE At("argument")
      BY <1>8, <3>2 DEF parse_call, EndCall, At
    <3>3. CASE At("argument_done")
      BY <1>8, <3>3 DEF parse_call, EndCall, At
    <3>4. CASE At("call")
      BY <1>8, <3>4 DEF parse_call, At
    <3> QED BY <1>8, <3>1, <3>2, <3>3, <3>4 DEF parse_call
  <2> HIDE DEF C
  <2> QED BY <1>2, <1>3, <1>4, <2>1, FirstOf, FirstOfThree
<1> QED BY <1>5, <1>6, <1>7, <1>8

\* Every step of the parser.
LEMMA PanicStep == StackInv /\ PanicInv /\ [Next]_vars => PanicInv'
<1> SUFFICES ASSUME StackInv, PanicInv, [Next]_vars PROVE PanicInv'
  OBVIOUS
<1>1. CASE UNCHANGED vars
  <2>1. panic_mode' = panic_mode /\ errors' = errors /\ todo' = todo /\ outcome' = outcome
    BY <1>1 DEF vars
  <2> QED BY <2>1, Zenon DEF PanicInv
<1>2. ASSUME Next, panic_mode', outcome' = "parsing" PROVE todo'[1].op \in Recovering
  <2>1. ASSUME NoError, outcome = "parsing", todo[1].op \notin Recovering PROVE FALSE
    BY <1>2, <2>1, Zenon DEF NoError, PanicInv
  <2>2. Do("synchronize").op \in Recovering /\ Consume("IDENTIFIER").op \in Recovering
    BY DEF Do, Consume, Recovering
  <2>3. CASE parser_consume
    <3>1. Continue(<<Do("synchronize")>>)
      BY <1>2, <2>3, Zenon DEF parser_consume
    <3> QED BY <2>2, <3>1, FirstOf
  <2>4. CASE parser_synchronize
    BY <1>2, <2>4, Zenon DEF parser_synchronize
  <2>5. CASE parse_expression \/ ParseInfix \/ BuildNode \/ parse_call
    BY <2>5, RecoveringInside
  <2>6. CASE parse_statement \/ OptionalPart \/ EndStatement \/ Typed
    <3>1. NoError /\ outcome = "parsing"
      BY <2>6, Zenon DEF parse_statement, OptionalPart, EndStatement, Typed, At
    <3>2. todo[1].op \notin Recovering
      BY <2>6 DEF parse_statement, OptionalPart, EndStatement, Typed, At, Recovering, Inner
    <3> QED BY <2>1, <3>1, <3>2
  <2>7. CASE parse_block
    <3>1. outcome = "parsing" /\ todo[1].op \notin Recovering
      BY <2>7 DEF parse_block, At, Recovering, Inner
    <3>2. NoError \/ Continue(<<Do("synchronize")>> \o <<Consume("RBRACE"), Do("end_block")>>)
      BY <2>7, Zenon DEF parse_block
    <3> QED BY <2>1, <2>2, <3>1, <3>2, FirstOfThree
  <2>8. CASE parse_function
    <3>1. outcome = "parsing" /\ todo[1].op \notin Recovering
      BY <2>8 DEF parse_function, At, Recovering, Inner
    <3>2. NoError \/ \E m : Continue(<<Consume("IDENTIFIER"), Counted("parameter_done", m)>>)
      BY <2>8, Zenon DEF parse_function
    <3> QED BY <2>1, <2>2, <3>1, <3>2, FirstOf
  <2>9. CASE parser_parse
    <3>1. outcome = "parsing" /\ todo[1].op \notin Recovering
      BY <2>9 DEF parser_parse, At, Recovering, Inner
    <3>2. NoError
      <4>1. "parsing" # "NULL"
        OBVIOUS
      <4> QED BY <1>2, <2>9, <4>1, Zenon DEF parser_parse
    <3> QED BY <2>1, <3>1, <3>2
  <2> QED BY <1>2, <2>3, <2>4, <2>5, <2>6, <2>7, <2>8, <2>9, Zenon DEF Next
<1>3. CASE Next
  <2>1. panic_mode' => errors'
    BY <1>3, Reports, ErrorsGrow, Zenon DEF PanicInv
  <2> QED BY <1>2, <1>3, <2>1, Zenon DEF PanicInv
<1> QED BY <1>1, <1>3

\* ---- holes ----

\* Whole(s): no value of s lacks an operand or a condition.
Whole(s) == \A i \in 1 .. Len(s) : ~s[i].hole

HoleInv ==
    /\ errors \/ Whole(vals)
    /\ outcome \in {"NULL", "crashed"} => errors

\* A value without a hole can be pushed.
LEMMA WholePushed ==
    ASSUME NEW s, IsSeq(s), Whole(s), NEW e, ~e.hole
    PROVE  Whole(Append(s, e))
<1>1. /\ Len(s) \in Nat /\ Len(Append(s, e)) = Len(s) + 1 /\ Append(s, e)[Len(s) + 1] = e
      /\ \A i \in 1 .. Len(s) : Append(s, e)[i] = s[i]
  BY Appended
<1>2. ASSUME NEW i \in 1 .. Len(Append(s, e)) PROVE ~Append(s, e)[i].hole
  <2>1. i \in 1 .. Len(s) \/ i = Len(s) + 1
    BY <1>1
  <2>2. CASE i \in 1 .. Len(s)
    BY <1>1, <2>2, Zenon DEF Whole
  <2>3. CASE i = Len(s) + 1
    BY <1>1, <2>3, Zenon
  <2> QED BY <2>1, <2>2, <2>3
<1> QED BY <1>2 DEF Whole

\* Values can be taken off.
LEMMA WholePopped ==
    ASSUME StackInv, Whole(vals), NEW n \in Nat, n <= Len(vals)
    PROVE  Whole(Popped(n)) /\ IsSeq(Popped(n))
<1>1. /\ Len(vals) \in Nat /\ IsSeq(Popped(n)) /\ Len(Popped(n)) = Len(vals) - n
      /\ \A i \in 1 .. Len(vals) - n : Popped(n)[i] = vals[i]
  BY Lengths DEF StackInv, Popped
<1>2. \A i \in 1 .. Len(Popped(n)) : i \in 1 .. Len(vals) /\ Popped(n)[i] = vals[i]
  BY <1>1
<1> QED BY <1>1, <1>2, Zenon DEF Whole

\* The nodes put on the stack.
LEMMA Filled ==
    ASSUME NEW a, NEW b, NEW c, NEW d, NEW e, NEW h, ~h
    PROVE  ~Node(a, b, c, d, e, h).hole
BY Zenon DEF Node

\* Which of the other nodes have a hole.
LEMMA Holes ==
    /\ NULL.hole
    /\ \A a, h : ~h => ~Statement(a, h).hole
    /\ ~Absent.hole
<1>1. NULL.hole
  BY DEF NULL, Node
<1>2. \A a, h : ~h => ~Statement(a, h).hole
  BY Zenon DEF Statement, Node
<1>3. ~Absent.hole
  BY <1>2, Zenon DEF Absent
<1> QED BY <1>1, <1>2, <1>3, Zenon

\* The four things a step without a report does to the values.
LEMMA WholeKept ==
    ASSUME StackInv, Whole(vals),
           \/ vals' = vals
           \/ \E e : Push(e) /\ ~e.hole
           \/ \E n \in Nat : n <= Len(vals) /\ vals' = Popped(n)
           \/ \E n \in Nat : \E e : n <= Len(vals) /\ vals' = Append(Popped(n), e) /\ ~e.hole
    PROVE  Whole(vals')
<1>1. CASE vals' = vals
  BY <1>1, Zenon
<1>2. CASE \E e : Push(e) /\ ~e.hole
  BY <1>2, WholePushed, Zenon DEF Push, StackInv
<1>3. CASE \E n \in Nat : n <= Len(vals) /\ vals' = Popped(n)
  BY <1>3, WholePopped, Zenon
<1>4. CASE \E n \in Nat : \E e : n <= Len(vals) /\ vals' = Append(Popped(n), e) /\ ~e.hole
  BY <1>4, WholePopped, WholePushed, Zenon
<1> QED BY <1>1, <1>2, <1>3, <1>4

\* While nothing is missing, no value is NULL.
LEMMA NoneMissing ==
    ASSUME StackInv, Whole(vals)
    PROVE  \A i \in 1 .. Len(vals) : vals[i] # NULL
BY Holes, Zenon DEF Whole

\* BuildNode.
LEMMA WholeBuild ==
    ASSUME StackInv, Whole(vals), BuildNode
    PROVE  Whole(vals')
<1> DEFINE h == Len(vals)
           ty == todo[1].type
<1>1. todo[1].op = "build" /\ h \in Nat
  BY Under DEF BuildNode, At
<1>2. CASE ty \in {"UNARY", "GROUP"}
  <2>1. h >= 1 /\ 1 \in Nat /\ 1 <= h /\ h \in 1 .. h
    BY <1>1, <1>2, Under
  <2>2. Top # NULL /\ ~Top.hole
    BY <2>1, NoneMissing, Zenon DEF Top, Whole
  <2>3. CASE ty = "UNARY"
    <3>1. PICK a, b, c, d, e : vals' = Append(Popped(1), Node(a, b, c, d, e, Top = NULL))
      BY <2>3 DEF BuildNode
    <3>2. ~Node(a, b, c, d, e, Top = NULL).hole
      BY <2>2, Filled, Zenon
    <3> QED BY <2>1, <3>1, <3>2, WholeKept, Zenon
  <2>4. CASE ty = "GROUP"
    <3>1. PICK a, b, c, d, e : vals' = Append(Popped(1), Node(a, b, c, d, e, Top.hole))
      BY <2>2, <2>4 DEF BuildNode
    <3>2. ~Node(a, b, c, d, e, Top.hole).hole
      BY <2>2, Filled, Zenon
    <3> QED BY <2>1, <3>1, <3>2, WholeKept, Zenon
  <2> QED BY <1>2, <2>3, <2>4
<1>3. CASE ty \notin {"UNARY", "GROUP"}
  <2>1. h >= 2
    BY <1>1, <1>3, Under
  <2>2. 2 \in Nat /\ 2 <= h /\ h \in 1 .. h /\ h - 1 \in 1 .. h
    BY <1>1, <2>1
  <2>3. Top # NULL /\ vals[h - 1] # NULL
    BY <2>2, NoneMissing, Zenon DEF Top
  <2>4. PICK a, b, c, d, e : vals' = Append(Popped(2), Node(a, b, c, d, e, NULL \in {vals[h - 1], Top}))
    BY <1>3 DEF BuildNode
  <2>5. ~Node(a, b, c, d, e, NULL \in {vals[h - 1], Top}).hole
    BY <2>3, Filled, Zenon
  <2> QED BY <2>2, <2>4, <2>5, WholeKept, Zenon
<1> QED BY <1>2, <1>3

\* parse_call.
LEMMA WholeCall ==
    ASSUME StackInv, Whole(vals), parse_call
    PROVE  Whole(vals')
<1> DEFINE h == Len(vals)
           n == todo[1].n
<1>1. h \in Nat /\ todo[1] \in Steps
  BY Under
<1>2. CASE At("arguments") \/ At("argument")
  <2>1. vals' = vals
    BY <1>2 DEF parse_call, At
  <2> QED BY <2>1, WholeKept
<1>3. CASE At("argument_done")
  <2>1. n \in Nat /\ h >= n + 2
    BY <1>1, <1>3, Under, Counts DEF At
  <2>2. 1 \in Nat /\ 1 <= h
    BY <1>1, <2>1
  <2>3. vals' = vals \/ vals' = Popped(1)
    BY <1>3 DEF parse_call, At
  <2> QED BY <2>2, <2>3, WholeKept, Zenon
<1>4. CASE At("call")
  <2>1. n \in Nat /\ h >= n + 1
    BY <1>1, <1>4, Under, Counts DEF At
  <2>2. n + 1 \in Nat /\ n + 1 <= h
    BY <1>1, <2>1
  <2> DEFINE arg == [i \in 1 .. n |-> vals[h - n + i]]
             missing == \E i \in 1 .. n : arg[i].hole
  <2>3. PICK a, b, c, d, e : vals' = Append(Popped(n + 1), Node(a, b, c, d, e, missing))
    BY <1>4 DEF parse_call, At
  <2>4. \A i \in 1 .. n : h - n + i \in 1 .. h
    BY <1>1, <2>1
  <2>5. ~missing
    BY <2>4, Zenon DEF Whole
  <2> HIDE DEF missing
  <2>6. ~Node(a, b, c, d, e, missing).hole
    BY <2>5, Filled, Zenon
  <2> QED BY <2>2, <2>3, <2>6, WholeKept, Zenon
<1> QED BY <1>2, <1>3, <1>4 DEF parse_call

\* The statements.
LEMMA WholeStatement ==
    ASSUME StackInv, Whole(vals), parse_statement \/ OptionalPart \/ EndStatement
    PROVE  Whole(vals')
<1> DEFINE h == Len(vals)
<1>1. h \in Nat
  BY Under
<1>2. CASE parse_statement
  BY <1>2, WholeKept DEF parse_statement
<1>3. CASE OptionalPart
  <2>1. vals' = vals \/ Push(Absent)
    BY <1>3, Zenon DEF OptionalPart
  <2> QED BY <2>1, Holes, WholeKept, Zenon
<1>4. CASE EndStatement
  <2>1. ASSUME NEW m \in 1 .. 3, m <= h, NEW i \in 1 .. h, NEW a,
               vals' = Append(Popped(m), Statement(a, vals[i] = NULL))
        PROVE  Whole(vals')
    <3>1. ~Statement(a, vals[i] = NULL).hole
      BY NoneMissing, Holes, Zenon
    <3>2. m \in Nat
      OBVIOUS
    <3> QED BY <2>1, <3>1, <3>2, WholeKept, Zenon
  <2>2. CASE At("if")
    <3>1. h >= 3
      BY <2>2, Under DEF At
    <3>2. 3 \in 1 .. 3 /\ 3 <= h /\ h - 2 \in 1 .. h
      BY <1>1, <3>1
    <3>3. vals' = Append(Popped(3), Statement("IF", vals[h - 2] = NULL))
      BY <1>4, <2>2 DEF EndStatement, At
    <3> QED BY <2>1, <3>2, <3>3, Zenon
  <2>3. CASE At("while")
    <3>1. h >= 2
      BY <2>3, Under DEF At
    <3>2. 2 \in 1 .. 3 /\ 2 <= h /\ h - 1 \in 1 .. h
      BY <1>1, <3>1
    <3>3. vals' = Append(Popped(2), Statement("WHILE", vals[h - 1] = NULL))
      BY <1>4, <2>3 DEF EndStatement, At
    <3> QED BY <2>1, <3>2, <3>3, Zenon
  <2>4. CASE At("return") \/ At("decl")
    <3>1. h >= 1
      BY <2>4, Under DEF At
    <3>2. 1 \in Nat /\ 1 <= h
      BY <1>1, <3>1
    <3>3. \E a : vals' = Append(Popped(1), Statement(a, FALSE))
      BY <1>4, <2>4 DEF EndStatement, At
    <3> QED BY <3>2, <3>3, Holes, WholeKept, Zenon
  <2> QED BY <1>4, <2>2, <2>3, <2>4 DEF EndStatement
<1> QED BY <1>2, <1>3, <1>4

\* Declarations and the unit.
LEMMA WholeDeclaration ==
    ASSUME StackInv, Whole(vals), parse_block \/ parse_function \/ parser_parse
    PROVE  Whole(vals')
<1> DEFINE h == Len(vals)
<1>1. h \in Nat
  BY Under
<1>2. CASE parse_block
  <2>1. CASE At("statement_done")
    <3>1. h >= 1
      BY <2>1, Under DEF At
    <3>2. 1 \in Nat /\ 1 <= h
      BY <1>1, <3>1
    <3>3. vals' = Popped(1)
      BY <1>2, <2>1 DEF parse_block, At
    <3> QED BY <3>2, <3>3, WholeKept, Zenon
  <2>2. CASE ~At("statement_done")
    <3>1. vals' = vals \/ Push(Statement("BLOCK", FALSE))
      BY <1>2, <2>2, Zenon DEF parse_block
    <3> QED BY <3>1, Holes, WholeKept, Zenon
  <2> QED BY <2>1, <2>2
<1>3. CASE parse_function
  <2>1. vals' = vals \/ Push(Statement("PROTOTYPE", FALSE))
    BY <1>3, Zenon DEF parse_function
  <2> QED BY <2>1, Holes, WholeKept, Zenon
<1>4. CASE parser_parse
  <2>1. CASE At("declared")
    <3>1. h = 1
      BY <2>1, Under DEF At
    <3>2. 1 \in Nat /\ 1 <= h
      BY <3>1
    <3>3. vals' = Popped(1)
      BY <1>4, <2>1 DEF parser_parse, At
    <3> QED BY <3>2, <3>3, WholeKept, Zenon
  <2>2. CASE ~At("declared")
    <3>1. vals' = vals
      BY <1>4, <2>2, Zenon DEF parser_parse
    <3> QED BY <3>1, WholeKept, Zenon
  <2> QED BY <2>1, <2>2
<1> QED BY <1>2, <1>3, <1>4

\* Every step of the parser.
LEMMA HoleStep == StackInv /\ PanicInv /\ HoleInv /\ [Next]_vars => HoleInv'
<1> SUFFICES ASSUME StackInv, PanicInv, HoleInv, [Next]_vars PROVE HoleInv'
  OBVIOUS
<1>1. CASE UNCHANGED vars
  <2>1. errors' = errors /\ vals' = vals /\ outcome' = outcome
    BY <1>1 DEF vars
  <2> QED BY <2>1, Zenon DEF HoleInv
<1>2. CASE Next
  <2>1. (errors => errors') /\ (panic_mode' => errors')
    BY <1>2, Reports, ErrorsGrow, Zenon DEF PanicInv
  <2>2. parser_error => errors'
    BY <2>1, Zenon DEF parser_error
  <2>3. ASSUME ~errors' PROVE Whole(vals') /\ outcome' \notin {"NULL", "crashed"}
    <3>1. ~errors /\ ~panic_mode /\ ~parser_error /\ Whole(vals)
      BY <2>1, <2>2, <2>3, Zenon DEF PanicInv, HoleInv
    <3>2. outcome \notin {"NULL", "crashed"}
      BY <3>1, Zenon DEF HoleInv
    <3>3. ASSUME parser_consume PROVE Whole(vals')
      <4>1. vals' = vals
        BY <3>3 DEF parser_consume
      <4> QED BY <3>1, <4>1, Zenon
    <3>4. ASSUME parser_synchronize PROVE Whole(vals')
      <4>1. vals' = vals
        BY <3>4 DEF parser_synchronize
      <4> QED BY <3>1, <4>1, Zenon
    <3>5. ASSUME parse_expression PROVE Whole(vals')
      <4>1. vals' = vals \/ \E a, b, c, d, e : Push(Node(a, b, c, d, e, FALSE))
        BY <3>1, <3>5, Zenon DEF parse_expression, NoPrefix
      <4> QED BY <3>1, <4>1, Filled, WholeKept, Zenon
    <3>6. ASSUME ParseInfix PROVE Whole(vals') /\ outcome' \notin {"NULL", "crashed"}
      <4>1. Top # NULL
        <5>1. Len(vals) \in Nat /\ Len(vals) >= 1
          BY <3>6, Under DEF ParseInfix, At
        <5>2. Len(vals) \in 1 .. Len(vals)
          BY <5>1
        <5> QED BY <3>1, <5>2, NoneMissing, Zenon DEF Top
      <4>2. vals' = vals /\ outcome' = outcome
        BY <3>1, <3>6, <4>1, Zenon DEF ParseInfix
      <4>3. outcome' \notin {"NULL", "crashed"}
        BY <3>2, <4>2
      <4> QED BY <3>1, <4>2, <4>3, Zenon
    <3>7. ASSUME BuildNode PROVE Whole(vals')
      BY <3>1, <3>7, WholeBuild, Zenon
    <3>8. ASSUME parse_call PROVE Whole(vals')
      BY <3>1, <3>8, WholeCall, Zenon
    <3>9. ASSUME parse_statement \/ OptionalPart \/ EndStatement PROVE Whole(vals')
      BY <3>1, <3>9, WholeStatement, Zenon
    <3>10. ASSUME Typed PROVE Whole(vals')
      <4>1. vals' = vals
        BY <3>1, <3>10, Zenon DEF Typed
      <4> QED BY <3>1, <4>1, Zenon
    <3>11. ASSUME parse_block \/ parse_function \/ parser_parse PROVE Whole(vals')
      BY <3>1, <3>11, WholeDeclaration, Zenon
    <3>12. Whole(vals')
      BY <1>2, <3>3, <3>4, <3>5, <3>6, <3>7, <3>8, <3>9, <3>10, <3>11, Zenon DEF Next
    <3>13. outcome' \notin {"NULL", "crashed"}
      <4>1. CASE UNCHANGED <<text, outcome>>
        BY <3>2, <4>1
      <4>2. CASE ParseInfix
        BY <3>2, <3>6, <4>2, Zenon
      <4>3. CASE parser_parse
        <5>1. outcome' = outcome \/ outcome' = "unit"
          BY <3>1, <4>3, Zenon DEF parser_parse
        <5> QED BY <3>2, <5>1
      <4> QED BY <1>2, <4>1, <4>2, <4>3, Zenon DEF Next
    <3> QED BY <3>12, <3>13
  <2> QED BY <2>3, Zenon DEF HoleInv
<1> QED BY <1>1, <1>2

\* ---- precedence ----

\* Step i of the stack s.
StepAt(s, i) == IF i <= Len(s) THEN s[i] ELSE [op |-> "end"]

\* The precedence of the operator a build step stands for.
PrecOf(t) == IF t = "UNARY" THEN UNARY ELSE IF t = "ASSIGNMENT" THEN ASSIGNMENT ELSE get_token_precedence(t)

\* The least precedence of an expression parsed above prec: operators end with FACTOR.
Above(prec) == IF prec < FACTOR THEN prec + 1 ELSE UNARY

\* A node the tree may contain.
Fine(n) ==
    /\ n.tidy
    /\ n.prec \in Nat /\ n.first \in Nat /\ n.last \in Nat
    /\ n.type = "IDENTIFIER" => n.prec = PRIMARY

Sound(v) == \A i \in 1 .. Len(v) : Fine(v[i])

\* FitsLeft and FitsRight, for nodes that are tidy.
LeftOf(n, at, prec) == n.last + 1 = at /\ n.prec >= prec
RightOf(n, at, prec) == n.first = at + 1 /\ n.prec > prec

\* Of the call with its callee at base and its parenthesis at position at: the
\* token after the first k arguments, and how n of them lie.
EndAt(v, base, k, at) == IF k = 0 THEN at ELSE v[base + k].last + 1
Placed(v, base, n, at) ==
    /\ LeftOf(v[base], at, CALL)
    /\ \A i \in 1 .. n : RightOf(v[base + i], EndAt(v, base, i - 1, at), ASSIGNMENT)

ArgCount(x) == IF x.op = "arguments" THEN 0 ELSE x.n

Calling == {"arguments", "argument", "argument_done", "call"}

\* Outside expressions: step x may come before y and z.  A whole expression ends
\* at the token that is consumed after it.
PlainLink(x, y, z) ==
    /\ x.op \notin Inner \ {"expression"}
    /\ x.op \notin Inner \cup {"consume"} => y.op \notin Inner
    /\ x.op \in {"initializer", "return_value", "expression"} => y.op = "consume"
    /\ x.op = "consume" => y.op \notin Inner \/ (y.op = "expression" /\ z.op = "consume")

\* A stack outside expressions, or about to enter one.
Linked(s) ==
    /\ s \in Seq(Steps)
    /\ \A i \in 1 .. Len(s) : PlainLink(s[i], StepAt(s, i + 1), StepAt(s, i + 2))

Plain(s) == Linked(s) /\ StepAt(s, 1).op \notin Inner

\* What an operand is for: step x makes or completes value number c, which starts at token
\* b; the steps y and z that follow go on with value number d, which starts at e.
\* 0 stands for no value: the rest is outside expressions.
Operand(x, y, z, c, b, d, e) ==
    \/ y.op = "consume" /\ d = 0
    \/ /\ d = c /\ e = b /\ c >= 1
       /\ \/ y.op = "build" /\ y.type # "GROUP" /\ PrecOf(y.type) = x.prec
          \/ y.op = "argument_done" /\ x.prec = ASSIGNMENT
          \/ y.op = "consume" /\ z.op = "build"

\* Step x builds a unary operator or a group: value c becomes a part of the value
\* that starts at the operator or the parenthesis.
Prefixed(x, y, c, b, d, e) ==
    y.op = "infix" /\ b = x.at + 1 /\ c >= 1 /\ d = c /\ e = x.at

\* Step x builds a binary operator or an assignment: its left operand d is ready and
\* fits, and the operator binds more tightly than the expression around it.
Binary(x, y, c, b, d, e, v) ==
    /\ y.op = "infix" /\ b = x.at + 1 /\ c >= 2
    /\ d = c - 1 /\ e = v[d].first
    /\ LeftOf(v[d], x.at, PrecOf(x.type))
    /\ y.prec < PrecOf(x.type) /\ PrecOf(x.type) <= FACTOR

\* Step x is inside a call: callee d and its arguments so far are in place.
Called(x, y, c, b, d, e, v) ==
    /\ y.op = "infix"
    /\ d = c - ArgCount(x) - 1 /\ d >= 1
    /\ Placed(v, d, ArgCount(x), x.at)
    /\ e = v[d].first
    /\ x.op = "argument_done" => b = EndAt(v, d, x.n, x.at) + 1

\* Step x, with y and z after it, takes value c, from token b, to value d, from e.
Link(x, y, z, c, b, d, e, v) ==
    /\ x.op \notin Inner \cup {"consume"} => d = 0 /\ y.op \notin Inner
    /\ x.op \in {"initializer", "return_value"} => y.op = "consume"
    /\ x.op = "consume" =>
          \/ /\ y.op = "call" \/ (y.op = "build" /\ y.type = "GROUP")
             /\ d = c /\ e = b /\ c >= 1
          \/ /\ y.op \notin Inner \/ (y.op = "expression" /\ z.op = "consume")
             /\ d = 0
    /\ x.op \in {"expression", "infix"} => Operand(x, y, z, c, b, d, e)
    /\ x.op = "infix" => c >= 1
    /\ x.op = "build" =>
          IF x.type \in {"UNARY", "GROUP"} THEN Prefixed(x, y, c, b, d, e)
          ELSE Binary(x, y, c, b, d, e, v)
    /\ x.op \in Calling => Called(x, y, c, b, d, e, v)

\* The values c that the steps of s take one to the next, with the tokens b they start
\* at: nothing built later lies above what is built before.
Chained(s, c0, b0, v, c, b) ==
    /\ c[1] = c0 /\ b[1] = b0
    /\ \A i, j \in 1 .. Len(s) + 1 : i <= j => c[j] <= c[i]
    /\ \A i \in 1 .. Len(s) :
          Link(s[i], StepAt(s, i + 1), StepAt(s, i + 2), c[i], b[i], c[i + 1], b[i + 1], v)

Chain(s, c0, b0, v) ==
    /\ s \in Seq(Steps) /\ c0 \in Nat /\ b0 \in Nat
    /\ \E c, b \in [1 .. Len(s) + 1 -> Nat] : Chained(s, c0, b0, v, c, b)

\* The value on top starts at token b, ends l tokens before p, and binds at least
\* as tightly as q.
Covers(v, b, l, p, q) ==
    LET n == v[Len(v)] IN n.first = b /\ n.last = p - l /\ n.prec >= q

\* Where the arguments of the call of step x end.
Ended(x, v, l, p) ==
    IF x.n = 0 THEN x.at = p - l ELSE EndAt(v, Len(v) - x.n, x.n, x.at) = p + 1 - l

\* Before step x, with y after it, at position p with the token t: what there is of value c.
Now(x, y, c, b, v, p, t) ==
    LET h == Len(v) IN
    /\ x.op = "expression" => c = h + 1 /\ b = p
    /\ x.op = "infix" =>
          c = h /\ Covers(v, b, 1, p, Above(x.prec)) /\ Covers(v, b, 1, p, get_token_precedence(t))
    /\ x.op = "build" =>
          /\ c = h
          /\ x.type # "GROUP" =>
                Covers(v, b, 1, p, Above(PrecOf(x.type))) /\ PrecOf(x.type) >= get_token_precedence(t)
          /\ x.type = "GROUP" => Covers(v, b, 2, p, 1)
    /\ x.op = "consume" => /\ y.op = "build" => c = h /\ Covers(v, b, 1, p, 1)
                           /\ y.op = "call" => c = h + 1 /\ Ended(y, v, 1, p)
    /\ x.op = "call" => c = h + 1 /\ Ended(x, v, 2, p)
    /\ x.op = "argument_done" => c = h /\ Covers(v, b, 1, p, 2)
    /\ x.op = "arguments" => c = h + 1 /\ x.at = p - 1
    /\ x.op = "argument" => c = h + 1 /\ EndAt(v, h - x.n, x.n, x.at) = p - 1

Parsed(s, v, p, t) ==
    \E c, b \in Nat : Chain(s, c, b, v) /\ Now(s[1], StepAt(s, 2), c, b, v, p, t)

\* Without an error, the values are sound and the steps go on from them.
PrecInv ==
    ~errors => /\ Sound(vals)
               /\ outcome = "parsing" => Parsed(todo, vals, pos, next)

\* The steps of a stack and of what is under its first step.
LEMMA StepsUnder ==
    ASSUME NEW s \in Seq(Steps), s # <<>>
    PROVE  /\ Tail(s) \in Seq(Steps) /\ Len(s) = Len(Tail(s)) + 1 /\ Len(Tail(s)) \in Nat
           /\ s[1] \in Steps /\ StepAt(s, 1) = s[1]
           /\ \A i \in 1 .. Len(Tail(s)) : Tail(s)[i] = s[i + 1]
           /\ \A i \in Nat \ {0} : StepAt(Tail(s), i) = StepAt(s, i + 1)
<1>1. /\ Tail(s) \in Seq(Steps) /\ Len(s) = Len(Tail(s)) + 1 /\ Len(Tail(s)) \in Nat
      /\ s[1] \in Steps
      /\ \A i \in 1 .. Len(Tail(s)) : Tail(s)[i] = s[i + 1]
  OBVIOUS
<1> DEFINE t == Tail(s)
<1> HIDE DEF t
<1>2. ASSUME NEW i \in Nat \ {0} PROVE StepAt(t, i) = StepAt(s, i + 1)
  <2>1. i <= Len(t) <=> i + 1 <= Len(s)
    BY <1>1 DEF t
  <2>2. i <= Len(t) => t[i] = s[i + 1]
    BY <1>1 DEF t
  <2> QED BY <2>1, <2>2 DEF StepAt
<1>3. StepAt(s, 1) = s[1]
  BY <1>1 DEF StepAt
<1> QED BY <1>1, <1>2, <1>3 DEF t

\* The steps of a stack with one step more.
LEMMA StepsPut ==
    ASSUME NEW s \in Seq(Steps), NEW x \in Steps
    PROVE  /\ Put(x, s) \in Seq(Steps) /\ Put(x, s) # <<>>
           /\ Len(s) \in Nat /\ Len(Put(x, s)) = Len(s) + 1
           /\ Put(x, s)[1] = x /\ StepAt(Put(x, s), 1) = x
           /\ \A i \in 1 .. Len(s) : Put(x, s)[i + 1] = s[i]
           /\ \A i \in Nat \ {0} : StepAt(Put(x, s), i + 1) = StepAt(s, i)
           /\ StepAt(Put(x, s), 2) = StepAt(s, 1) /\ StepAt(Put(x, s), 3) = StepAt(s, 2)
<1> DEFINE t == Put(x, s)
<1>1. /\ t \in Seq(Steps) /\ Len(s) \in Nat /\ Len(t) = Len(s) + 1
      /\ t[1] = x /\ t # <<>>
      /\ \A i \in 1 .. Len(s) : t[i + 1] = s[i]
  BY DEF Put
<1> HIDE DEF t
<1>2. ASSUME NEW i \in Nat \ {0} PROVE StepAt(t, i + 1) = StepAt(s, i)
  <2>1. i <= Len(s) <=> i + 1 <= Len(t)
    BY <1>1
  <2>2. i <= Len(s) => t[i + 1] = s[i]
    BY <1>1
  <2> QED BY <2>1, <2>2 DEF StepAt
<1>3. StepAt(t, 1) = x
  BY <1>1 DEF StepAt
<1>4. StepAt(t, 2) = StepAt(s, 1) /\ StepAt(t, 3) = StepAt(s, 2)
  <2>1. StepAt(t, 1 + 1) = StepAt(s, 1) /\ StepAt(t, 2 + 1) = StepAt(s, 2)
    BY <1>2
  <2> QED BY <2>1
<1> QED BY <1>1, <1>2, <1>3, <1>4 DEF t

\* Outside expressions: what is under the first step.
LEMMA LinkedUnder ==
    ASSUME NEW s, Linked(s), s # <<>>
    PROVE  /\ Linked(Tail(s)) /\ s[1] \in Steps
           /\ PlainLink(s[1], StepAt(Tail(s), 1), StepAt(Tail(s), 2))
<1> DEFINE t == Tail(s)
<1>1. /\ t \in Seq(Steps) /\ Len(s) = Len(t) + 1 /\ Len(t) \in Nat
      /\ s[1] \in Steps
      /\ \A i \in 1 .. Len(t) : t[i] = s[i + 1]
      /\ \A i \in Nat \ {0} : StepAt(t, i) = StepAt(s, i + 1)
  BY StepsUnder DEF Linked
<1>2. \A i \in 1 .. Len(s) : PlainLink(s[i], StepAt(s, i + 1), StepAt(s, i + 2))
  BY DEF Linked
<1> HIDE DEF t
<1>3. ASSUME NEW i \in 1 .. Len(t) PROVE PlainLink(t[i], StepAt(t, i + 1), StepAt(t, i + 2))
  <2>1. i + 1 \in 1 .. Len(s) /\ i + 1 \in Nat \ {0} /\ i + 2 \in Nat \ {0}
    BY <1>1
  <2>2. StepAt(t, i + 1) = StepAt(s, (i + 1) + 1) /\ StepAt(t, i + 2) = StepAt(s, (i + 2) + 1)
    BY <1>1, <2>1
  <2>3. (i + 2) + 1 = (i + 1) + 2
    OBVIOUS
  <2>4. PlainLink(s[i + 1], StepAt(s, (i + 1) + 1), StepAt(s, (i + 1) + 2))
    BY <1>2, <2>1
  <2> QED BY <1>1, <2>2, <2>3, <2>4
<1>4. PlainLink(s[1], StepAt(t, 1), StepAt(t, 2))
  <2>1. PlainLink(s[1], StepAt(s, 1 + 1), StepAt(s, 1 + 2))
    BY <1>1, <1>2
  <2>2. StepAt(t, 1) = StepAt(s, 1 + 1) /\ StepAt(t, 2) = StepAt(s, 2 + 1)
    BY <1>1
  <2> QED BY <2>1, <2>2
<1> QED BY <1>1, <1>3, <1>4 DEF Linked, t

\* Outside expressions: a step put on the stack.
LEMMA LinkedPut ==
    ASSUME NEW s, Linked(s), NEW x \in Steps, PlainLink(x, StepAt(s, 1), StepAt(s, 2))
    PROVE  /\ Linked(Put(x, s)) /\ Put(x, s) # <<>>
           /\ StepAt(Put(x, s), 1) = x /\ StepAt(Put(x, s), 2) = StepAt(s, 1)
<1> DEFINE t == Put(x, s)
<1>1. /\ t \in Seq(Steps) /\ t # <<>> /\ Len(t) = Len(s) + 1 /\ Len(s) \in Nat
      /\ t[1] = x /\ StepAt(t, 1) = x
      /\ \A i \in 1 .. Len(s) : t[i + 1] = s[i]
      /\ \A i \in Nat \ {0} : StepAt(t, i + 1) = StepAt(s, i)
      /\ StepAt(t, 2) = StepAt(s, 1) /\ StepAt(t, 3) = StepAt(s, 2)
  BY StepsPut DEF Linked
<1>0. Len(t) = Len(s) + 1 /\ Len(s) \in Nat
  BY <1>1
<1>2. \A i \in 1 .. Len(s) : PlainLink(s[i], StepAt(s, i + 1), StepAt(s, i + 2))
  BY DEF Linked
<1> HIDE DEF t
<1>3. ASSUME NEW i \in 1 .. Len(t) PROVE PlainLink(t[i], StepAt(t, i + 1), StepAt(t, i + 2))
  <2>1. CASE i = 1
    <3>1. i + 1 = 2 /\ i + 2 = 3
      BY <2>1
    <3> QED BY <1>1, <2>1, <3>1
  <2>2. CASE i # 1
    <3> DEFINE j == i - 1
    <3>1. j \in 1 .. Len(s) /\ i = j + 1 /\ j + 1 \in Nat \ {0} /\ j + 2 \in Nat \ {0}
      BY ONLY <1>0, <2>2
    <3>2. t[j + 1] = s[j] /\ StepAt(t, (j + 1) + 1) = StepAt(s, j + 1)
                          /\ StepAt(t, (j + 2) + 1) = StepAt(s, j + 2)
      BY <1>1, <3>1
    <3>3. i + 1 = (j + 1) + 1 /\ i + 2 = (j + 2) + 1
      BY <3>1
    <3> HIDE DEF j
    <3> QED BY <1>2, <3>1, <3>2, <3>3
  <2> QED BY <2>1, <2>2
<1> QED BY <1>1, <1>3 DEF Linked, t

\* What is under the first step of a chain.
LEMMA ChainUnder ==
    ASSUME NEW s, NEW c0, NEW b0, NEW v, Chain(s, c0, b0, v), s # <<>>
    PROVE  \E d, e \in Nat :
              /\ d <= c0
              /\ Link(s[1], StepAt(Tail(s), 1), StepAt(Tail(s), 2), c0, b0, d, e, v)
              /\ Chain(Tail(s), d, e, v)
<1> DEFINE t == Tail(s)
<1>1. /\ t \in Seq(Steps) /\ Len(s) = Len(t) + 1 /\ Len(t) \in Nat
      /\ s[1] \in Steps
      /\ \A i \in 1 .. Len(t) : t[i] = s[i + 1]
      /\ \A i \in Nat \ {0} : StepAt(t, i) = StepAt(s, i + 1)
  BY StepsUnder DEF Chain
<1>0. Len(s) = Len(t) + 1 /\ Len(t) \in Nat
  BY <1>1
<1>2. PICK c \in [1 .. Len(s) + 1 -> Nat], b \in [1 .. Len(s) + 1 -> Nat] : Chained(s, c0, b0, v, c, b)
  BY DEF Chain
<1> HIDE DEF t
<1> DEFINE C == [i \in 1 .. Len(t) + 1 |-> c[i + 1]]
           B == [i \in 1 .. Len(t) + 1 |-> b[i + 1]]
<1>3. C \in [1 .. Len(t) + 1 -> Nat] /\ B \in [1 .. Len(t) + 1 -> Nat]
  BY <1>0
<1>4. /\ \A i \in 1 .. Len(t) + 1 : C[i] = c[i + 1] /\ B[i] = b[i + 1]
      /\ c[2] \in Nat /\ b[2] \in Nat /\ C[1] = c[2] /\ B[1] = b[2]
  BY <1>0
<1> HIDE DEF C, B
<1>5. c[1] = c0 /\ b[1] = b0 /\ c[2] <= c[1]
  BY <1>0, <1>2 DEF Chained
<1>6. Link(s[1], StepAt(t, 1), StepAt(t, 2), c0, b0, c[2], b[2], v)
  <2>1. 1 \in 1 .. Len(s) /\ 1 + 1 = 2 /\ 1 + 2 = 3
    BY <1>1
  <2>2. Link(s[1], StepAt(s, 1 + 1), StepAt(s, 1 + 2), c[1], b[1], c[1 + 1], b[1 + 1], v)
    BY <1>2, <2>1 DEF Chained
  <2>3. StepAt(t, 1) = StepAt(s, 1 + 1) /\ StepAt(t, 2) = StepAt(s, 2 + 1)
    BY <1>1
  <2>4. 1 + 2 = 2 + 1
    OBVIOUS
  <2> QED BY <1>5, <2>1, <2>2, <2>3, <2>4
<1>7. ASSUME NEW i \in 1 .. Len(t)
      PROVE  Link(t[i], StepAt(t, i + 1), StepAt(t, i + 2), C[i], B[i], C[i + 1], B[i + 1], v)
  <2>1. i + 1 \in 1 .. Len(s) /\ i + 1 \in Nat \ {0} /\ i + 2 \in Nat \ {0} /\ i + 1 \in 1 .. Len(t) + 1
        /\ i \in 1 .. Len(t) + 1
    BY <1>1
  <2>2. StepAt(t, i + 1) = StepAt(s, (i + 1) + 1) /\ StepAt(t, i + 2) = StepAt(s, (i + 2) + 1)
    BY <1>1, <2>1
  <2>3. (i + 2) + 1 = (i + 1) + 2
    OBVIOUS
  <2>4. Link(s[i + 1], StepAt(s, (i + 1) + 1), StepAt(s, (i + 1) + 2),
             c[i + 1], b[i + 1], c[(i + 1) + 1], b[(i + 1) + 1], v)
    BY <1>2, <2>1 DEF Chained
  <2>5. C[i] = c[i + 1] /\ B[i] = b[i + 1] /\ C[i + 1] = c[(i + 1) + 1] /\ B[i + 1] = b[(i + 1) + 1]
    BY <1>4, <2>1
  <2>6. t[i] = s[i + 1]
    BY <1>1
  <2> QED BY <2>2, <2>3, <2>4, <2>5, <2>6
<1>8. ASSUME NEW i \in 1 .. Len(t) + 1, NEW j \in 1 .. Len(t) + 1, i <= j PROVE C[j] <= C[i]
  <2>1. i + 1 \in 1 .. Len(s) + 1 /\ j + 1 \in 1 .. Len(s) + 1 /\ i + 1 <= j + 1
    BY <1>1, <1>8
  <2>2. c[j + 1] <= c[i + 1]
    BY <1>2, <2>1 DEF Chained
  <2> QED BY <1>4, <2>2
<1>9. Chain(t, c[2], b[2], v)
  <2>1. Chained(t, c[2], b[2], v, C, B)
    BY <1>4, <1>7, <1>8 DEF Chained
  <2> QED BY <1>1, <1>3, <1>4, <2>1 DEF Chain
<1> QED BY <1>4, <1>5, <1>6, <1>9 DEF t

\* A step put on a chain.
LEMMA ChainPut ==
    ASSUME NEW s, NEW d, NEW e, NEW v, Chain(s, d, e, v),
           NEW x \in Steps, NEW c0 \in Nat, NEW b0 \in Nat, d <= c0,
           Link(x, StepAt(s, 1), StepAt(s, 2), c0, b0, d, e, v)
    PROVE  /\ Chain(Put(x, s), c0, b0, v) /\ Put(x, s) # <<>> /\ Put(x, s)[1] = x
           /\ StepAt(Put(x, s), 1) = x /\ StepAt(Put(x, s), 2) = StepAt(s, 1)
<1> DEFINE t == Put(x, s)
<1>1. /\ t \in Seq(Steps) /\ t # <<>> /\ Len(t) = Len(s) + 1 /\ Len(s) \in Nat
      /\ t[1] = x /\ StepAt(t, 1) = x
      /\ \A i \in 1 .. Len(s) : t[i + 1] = s[i]
      /\ \A i \in Nat \ {0} : StepAt(t, i + 1) = StepAt(s, i)
      /\ StepAt(t, 2) = StepAt(s, 1) /\ StepAt(t, 3) = StepAt(s, 2)
      /\ d \in Nat /\ e \in Nat
  BY StepsPut DEF Chain
<1>0. Len(t) = Len(s) + 1 /\ Len(s) \in Nat
  BY <1>1
<1>2. PICK c \in [1 .. Len(s) + 1 -> Nat], b \in [1 .. Len(s) + 1 -> Nat] : Chained(s, d, e, v, c, b)
  BY DEF Chain
<1> HIDE DEF t
<1> DEFINE C == [i \in 1 .. Len(t) + 1 |-> IF i = 1 THEN c0 ELSE c[i - 1]]
           B == [i \in 1 .. Len(t) + 1 |-> IF i = 1 THEN b0 ELSE b[i - 1]]
<1>3. C \in [1 .. Len(t) + 1 -> Nat] /\ B \in [1 .. Len(t) + 1 -> Nat]
  <2>1. ASSUME NEW i \in 1 .. Len(t) + 1
        PROVE  (IF i = 1 THEN c0 ELSE c[i - 1]) \in Nat /\ (IF i = 1 THEN b0 ELSE b[i - 1]) \in Nat
    <3>1. i # 1 => i - 1 \in 1 .. Len(s) + 1
      BY <1>1
    <3> QED BY <3>1
  <2> QED BY <2>1
<1>4. /\ C[1] = c0 /\ B[1] = b0
      /\ \A i \in 1 .. Len(s) + 1 : C[i + 1] = c[i] /\ B[i + 1] = b[i]
  <2>1. C[1] = c0 /\ B[1] = b0
    BY <1>1
  <2>2. ASSUME NEW i \in 1 .. Len(s) + 1 PROVE C[i + 1] = c[i] /\ B[i + 1] = b[i]
    <3>1. i + 1 \in 1 .. Len(t) + 1 /\ i + 1 # 1 /\ (i + 1) - 1 = i
      BY <1>1
    <3> QED BY <3>1
  <2> QED BY <2>1, <2>2
<1> HIDE DEF C, B
<1>5. c[1] = d /\ b[1] = e
  BY <1>2 DEF Chained
<1>6. ASSUME NEW i \in 1 .. Len(t)
      PROVE  Link(t[i], StepAt(t, i + 1), StepAt(t, i + 2), C[i], B[i], C[i + 1], B[i + 1], v)
  <2>1. CASE i = 1
    <3>1. i + 1 = 2 /\ i + 2 = 3 /\ 1 \in 1 .. Len(s) + 1 /\ 1 + 1 = 2
      BY <1>1, <2>1
    <3>2. C[2] = d /\ B[2] = e
      BY <1>4, <1>5, <3>1
    <3> QED BY <1>1, <1>4, <2>1, <3>1, <3>2
  <2>2. CASE i # 1
    <3> DEFINE j == i - 1
    <3>1. /\ j \in 1 .. Len(s) /\ i = j + 1 /\ j + 1 \in Nat \ {0} /\ j + 2 \in Nat \ {0}
          /\ j \in 1 .. Len(s) + 1 /\ j + 1 \in 1 .. Len(s) + 1
      BY ONLY <1>0, <2>2
    <3>2. t[j + 1] = s[j] /\ StepAt(t, (j + 1) + 1) = StepAt(s, j + 1)
                          /\ StepAt(t, (j + 2) + 1) = StepAt(s, j + 2)
      BY <1>1, <3>1
    <3>3. i + 1 = (j + 1) + 1 /\ i + 2 = (j + 2) + 1
      BY <3>1
    <3>4. C[j + 1] = c[j] /\ B[j + 1] = b[j] /\ C[(j + 1) + 1] = c[j + 1] /\ B[(j + 1) + 1] = b[j + 1]
      BY <1>4, <3>1
    <3>5. Link(s[j], StepAt(s, j + 1), StepAt(s, j + 2), c[j], b[j], c[j + 1], b[j + 1], v)
      BY <1>2, <3>1 DEF Chained
    <3> HIDE DEF j
    <3> QED BY <3>1, <3>2, <3>3, <3>4, <3>5
  <2> QED BY <2>1, <2>2
<1>7. ASSUME NEW i \in 1 .. Len(t) + 1, NEW j \in 1 .. Len(t) + 1, i <= j PROVE C[j] <= C[i]
  <2>1. ASSUME NEW m \in 1 .. Len(s) + 1 PROVE c[m] <= c[1] /\ c[m] \in Nat
    BY <1>0, <1>2, <2>1 DEF Chained
  <2>2. CASE j = 1
    <3>1. i = 1 /\ C[j] = c0
      BY <1>4, <1>7, <2>2
    <3> QED BY <1>4, <3>1
  <2>3. CASE j # 1 /\ i = 1
    <3>1. j - 1 \in 1 .. Len(s) + 1 /\ (j - 1) + 1 = j
      BY <1>1, <2>3
    <3>2. C[j] = c[j - 1]
      BY <1>4, <3>1
    <3>3. c[j - 1] <= c[1] /\ c[j - 1] \in Nat
      BY <2>1, <3>1
    <3>4. c[1] \in Nat /\ c[1] <= c0
      BY <1>0, <1>5
    <3> QED BY <1>4, <2>3, <3>2, <3>3, <3>4
  <2>4. CASE j # 1 /\ i # 1
    <3>1. /\ j - 1 \in 1 .. Len(s) + 1 /\ (j - 1) + 1 = j
          /\ i - 1 \in 1 .. Len(s) + 1 /\ (i - 1) + 1 = i
          /\ i - 1 <= j - 1
      BY <1>1, <1>7, <2>4
    <3>2. C[j] = c[j - 1] /\ C[i] = c[i - 1]
      BY <1>4, <3>1
    <3>3. c[j - 1] <= c[i - 1]
      BY <1>2, <3>1 DEF Chained
    <3> QED BY <3>2, <3>3
  <2> QED BY <2>2, <2>3, <2>4
<1>8. Chain(t, c0, b0, v)
  <2>1. Chained(t, c0, b0, v, C, B)
    BY <1>4, <1>6, <1>7 DEF Chained
  <2> QED BY <1>1, <1>3, <2>1 DEF Chain
<1> QED BY <1>1, <1>8 DEF t

\* A link looks only at the values below the one it is about.
LEMMA LinkFrame ==
    ASSUME NEW x \in Steps, NEW y, NEW z, NEW c \in Nat, NEW b, NEW d, NEW e, NEW v, NEW w,
           \A i \in 1 .. c - 1 : w[i] = v[i],
           Link(x, y, z, c, b, d, e, v)
    PROVE  Link(x, y, z, c, b, d, e, w)
<1>1. ASSUME x.op = "build", x.type \notin {"UNARY", "GROUP"}
      PROVE  Binary(x, y, c, b, d, e, w)
  <2>1. Binary(x, y, c, b, d, e, v)
    BY <1>1 DEF Link
  <2>2. d \in 1 .. c - 1
    BY <2>1 DEF Binary
  <2>3. w[d] = v[d]
    BY <2>2
  <2> QED BY <2>1, <2>3 DEF Binary
<1>2. ASSUME x.op \in Calling
      PROVE  Called(x, y, c, b, d, e, w)
  <2> DEFINE n == ArgCount(x)
  <2>1. Called(x, y, c, b, d, e, v)
    BY <1>2 DEF Link
  <2>2. n \in Nat
    BY <1>2, Counts DEF ArgCount, Calling
  <2> HIDE DEF n
  <2>3. d = c - n - 1 /\ d >= 1
    BY <2>1 DEF Called, n
  <2>4. d \in 1 .. c - 1 /\ \A i \in 1 .. n : d + i \in 1 .. c - 1
    BY <2>2, <2>3
  <2>5. w[d] = v[d] /\ \A i \in 1 .. n : w[d + i] = v[d + i]
    BY <2>4
  <2>6. \A i \in 0 .. n : EndAt(w, d, i, x.at) = EndAt(v, d, i, x.at)
    BY <2>2, <2>5 DEF EndAt
  <2>7. \A i \in 1 .. n : i - 1 \in 0 .. n
    BY <2>2
  <2>8. Placed(v, d, n, x.at)
    BY <2>1 DEF Called, n
  <2>9. Placed(w, d, n, x.at)
    <3>1. LeftOf(w[d], x.at, CALL)
      BY <2>5, <2>8 DEF Placed
    <3>2. ASSUME NEW i \in 1 .. n PROVE RightOf(w[d + i], EndAt(w, d, i - 1, x.at), ASSIGNMENT)
      <4>1. RightOf(v[d + i], EndAt(v, d, i - 1, x.at), ASSIGNMENT)
        BY <2>8 DEF Placed
      <4> QED BY <2>5, <2>6, <2>7, <4>1
    <3> QED BY <3>1, <3>2 DEF Placed
  <2>10. x.op = "argument_done" => b = EndAt(w, d, x.n, x.at) + 1
    <3>1. SUFFICES ASSUME x.op = "argument_done" PROVE b = EndAt(w, d, x.n, x.at) + 1
      OBVIOUS
    <3>2. n = x.n /\ n \in 0 .. n
      BY <2>2, <3>1 DEF n, ArgCount
    <3>3. b = EndAt(v, d, x.n, x.at) + 1
      BY <2>1, <3>1 DEF Called
    <3> QED BY <2>6, <3>2, <3>3
  <2> QED BY <2>1, <2>5, <2>9, <2>10 DEF Called, n
<1> QED BY <1>1, <1>2 DEF Link

\* Values may change as long as those of the chain stay.
LEMMA ChainFrame ==
    ASSUME NEW s, NEW c0, NEW b0, NEW v, NEW w, Chain(s, c0, b0, v),
           \A i \in 1 .. c0 - 1 : w[i] = v[i]
    PROVE  Chain(s, c0, b0, w)
<1>1. s \in Seq(Steps) /\ c0 \in Nat /\ Len(s) \in Nat
  BY DEF Chain
<1>2. PICK c \in [1 .. Len(s) + 1 -> Nat], b \in [1 .. Len(s) + 1 -> Nat] : Chained(s, c0, b0, v, c, b)
  BY DEF Chain
<1>3. ASSUME NEW i \in 1 .. Len(s)
      PROVE  Link(s[i], StepAt(s, i + 1), StepAt(s, i + 2), c[i], b[i], c[i + 1], b[i + 1], w)
  <2>1. c[i] \in Nat /\ c[i] <= c0 /\ s[i] \in Steps
    <3>1. i \in 1 .. Len(s) + 1 /\ 1 \in 1 .. Len(s) + 1 /\ 1 <= i
      BY <1>1
    <3> QED BY <1>1, <1>2, <3>1 DEF Chained
  <2>2. \A j \in 1 .. c[i] - 1 : w[j] = v[j]
    BY <1>1, <2>1
  <2>3. Link(s[i], StepAt(s, i + 1), StepAt(s, i + 2), c[i], b[i], c[i + 1], b[i + 1], v)
    BY <1>2 DEF Chained
  <2> QED BY <2>1, <2>2, <2>3, LinkFrame
<1>4. Chained(s, c0, b0, w, c, b)
  BY <1>2, <1>3 DEF Chained
<1> QED BY <1>2, <1>4 DEF Chain

\* A chain without a value is outside expressions.
LEMMA ChainLinked ==
    ASSUME NEW s, NEW b0, NEW v, Chain(s, 0, b0, v)
    PROVE  Linked(s)
<1>1. s \in Seq(Steps) /\ Len(s) \in Nat
  BY DEF Chain
<1>2. PICK c \in [1 .. Len(s) + 1 -> Nat], b \in [1 .. Len(s) + 1 -> Nat] : Chained(s, 0, b0, v, c, b)
  BY DEF Chain
<1>3. ASSUME NEW i \in 1 .. Len(s) + 1 PROVE c[i] = 0
  <2>1. c[i] \in Nat /\ 1 \in 1 .. Len(s) + 1 /\ 1 <= i
    BY <1>1
  <2>2. c[i] <= c[1] /\ c[1] = 0
    BY <1>2, <2>1 DEF Chained
  <2> QED BY <2>1, <2>2
<1>4. ASSUME NEW i \in 1 .. Len(s) PROVE PlainLink(s[i], StepAt(s, i + 1), StepAt(s, i + 2))
  <2> DEFINE x == s[i]
             y == StepAt(s, i + 1)
             z == StepAt(s, i + 2)
  <2>1. c[i] = 0 /\ c[i + 1] = 0
    BY <1>1, <1>3
  <2>2. Link(x, y, z, 0, b[i], 0, b[i + 1], v)
    BY <1>2, <2>1 DEF Chained
  <2>3. x \in Steps
    BY <1>1
  <2> HIDE DEF x, y, z
  <2>4. x.op \in Calling => ArgCount(x) \in Nat
    BY <2>3, Counts DEF ArgCount, Calling
  <2>5. x.op \notin Calling
    BY <2>2, <2>4 DEF Link, Called
  <2>6. x.op \notin {"build", "infix"}
    BY <2>2 DEF Link, Prefixed, Binary
  <2>7. x.op = "expression" => y.op = "consume"
    BY <2>2 DEF Link, Operand, Prefixed, Binary
  <2> QED BY <2>2, <2>5, <2>6, <2>7 DEF Link, PlainLink, Inner, Calling, x, y, z
<1> QED BY <1>1, <1>4 DEF Linked

\* Outside expressions the stack is a chain, whatever the values.
LEMMA LinkedChain ==
    ASSUME NEW s, Linked(s), NEW v
    PROVE  Chain(s, 0, 0, v)
<1>1. s \in Seq(Steps) /\ Len(s) \in Nat
  BY DEF Linked
<1> DEFINE c == [i \in 1 .. Len(s) + 1 |-> 0]
<1>2. c \in [1 .. Len(s) + 1 -> Nat] /\ \A i \in 1 .. Len(s) + 1 : c[i] = 0
  OBVIOUS
<1> HIDE DEF c
<1>3. ASSUME NEW i \in 1 .. Len(s)
      PROVE  Link(s[i], StepAt(s, i + 1), StepAt(s, i + 2), c[i], c[i], c[i + 1], c[i + 1], v)
  <2> DEFINE x == s[i]
             y == StepAt(s, i + 1)
             z == StepAt(s, i + 2)
  <2>1. PlainLink(x, y, z)
    BY DEF Linked
  <2>2. c[i] = 0 /\ c[i + 1] = 0
    BY <1>1, <1>2
  <2> HIDE DEF x, y, z
  <2>3. Link(x, y, z, 0, 0, 0, 0, v)
    BY <2>1 DEF PlainLink, Link, Operand, Inner, Calling
  <2> QED BY <2>2, <2>3 DEF x, y, z
<1>4. \A i, j \in 1 .. Len(s) + 1 : i <= j => c[j] <= c[i]
  BY <1>2
<1>5. c[1] = 0
  BY <1>1, <1>2
<1>6. Chained(s, 0, 0, v, c, c)
  BY <1>3, <1>4, <1>5 DEF Chained
<1> QED BY <1>1, <1>2, <1>6 DEF Chain

\* Outside expressions, and before one, nothing is asked of the values.
LEMMA LinkedParsed ==
    ASSUME NEW s, Linked(s), s # <<>>, NEW v, Len(v) \in Nat, NEW p \in Nat, NEW t
    PROVE  Parsed(s, v, p, t)
<1> DEFINE x == s[1]
           y == StepAt(s, 2)
           u == Tail(s)
<1>1. /\ x \in Steps /\ Linked(u) /\ PlainLink(x, StepAt(u, 1), StepAt(u, 2)) /\ s \in Seq(Steps)
      /\ StepAt(u, 1) = y
  <2>1. StepAt(u, 1) = StepAt(s, 1 + 1)
    BY StepsUnder DEF Linked
  <2> QED BY <2>1, LinkedUnder DEF Linked
<1>2. s = Put(x, u)
  BY <1>1 DEF Put
<1> HIDE DEF x, y, u
<1>3. CASE x.op = "expression"
  <2>1. Chain(u, 0, 0, v) /\ Len(v) + 1 \in Nat /\ 0 <= Len(v) + 1
    BY <1>1, LinkedChain
  <2>2. Link(x, StepAt(u, 1), StepAt(u, 2), Len(v) + 1, p, 0, 0, v)
    BY <1>1, <1>3 DEF PlainLink, Link, Operand, Inner, Calling
  <2>3. Chain(s, Len(v) + 1, p, v)
    BY <1>1, <1>2, <2>1, <2>2, ChainPut
  <2>4. Now(x, y, Len(v) + 1, p, v, p, t)
    BY <1>3 DEF Now
  <2> QED BY <2>1, <2>3, <2>4 DEF Parsed, x, y
<1>4. CASE x.op # "expression"
  <2>1. Chain(s, 0, 0, v)
    BY LinkedChain
  <2>2. Now(x, y, 0, 0, v, p, t)
    BY <1>1, <1>4 DEF Now, PlainLink, Inner
  <2> QED BY <2>1, <2>2 DEF Parsed, x, y
<1> QED BY <1>3, <1>4

\* Steps of statements and declarations, put on a stack that goes on with one.
LEMMA PlainPut ==
    ASSUME NEW s, Plain(s), NEW x \in Steps,
           x.op \notin Inner \cup {"consume", "initializer", "return_value"}
    PROVE  Plain(Put(x, s)) /\ Put(x, s) # <<>>
<1>1. PlainLink(x, StepAt(s, 1), StepAt(s, 2))
  BY DEF Plain, PlainLink, Inner
<1>2. Linked(Put(x, s)) /\ Put(x, s) # <<>> /\ StepAt(Put(x, s), 1) = x
  BY <1>1, LinkedPut DEF Plain
<1> QED BY <1>2 DEF Plain

\* A token to consume.
LEMMA PlainConsume ==
    ASSUME NEW s, Plain(s), NEW t \in Names
    PROVE  /\ Plain(Put(Consume(t), s)) /\ Put(Consume(t), s) # <<>>
           /\ Consume(t) \in Steps /\ StepAt(Put(Consume(t), s), 1).op = "consume"
<1> DEFINE x == Consume(t)
<1>1. x \in Steps /\ x.op = "consume"
  BY DEF Steps, Consume
<1> HIDE DEF x
<1>2. PlainLink(x, StepAt(s, 1), StepAt(s, 2))
  BY <1>1 DEF Plain, PlainLink, Inner
<1>3. Linked(Put(x, s)) /\ Put(x, s) # <<>> /\ StepAt(Put(x, s), 1) = x
  BY <1>1, <1>2, LinkedPut DEF Plain
<1> QED BY <1>1, <1>3 DEF Plain, Inner, x

\* A part that is an expression, before the token that ends it.
LEMMA PlainPart ==
    ASSUME NEW s, Plain(s), StepAt(s, 1).op = "consume", NEW op \in {"initializer", "return_value"}
    PROVE  Plain(Put(Do(op), s)) /\ Put(Do(op), s) # <<>> /\ Do(op) \in Steps
<1> DEFINE x == Do(op)
<1>1. x \in Steps /\ x.op = op
  BY DEF Steps, Do
<1> HIDE DEF x
<1>2. PlainLink(x, StepAt(s, 1), StepAt(s, 2))
  BY <1>1 DEF Plain, PlainLink, Inner
<1>3. Linked(Put(x, s)) /\ Put(x, s) # <<>> /\ StepAt(Put(x, s), 1) = x
  BY <1>1, <1>2, LinkedPut DEF Plain
<1> QED BY <1>1, <1>3 DEF Plain, Inner, x

\* An expression, before the token that ends it, and the token before it.
LEMMA PlainExpression ==
    ASSUME NEW s, Plain(s), StepAt(s, 1).op = "consume", NEW t \in Names
    PROVE  /\ Expression(NONE) \in Steps
           /\ Linked(Put(Expression(NONE), s)) /\ Put(Expression(NONE), s) # <<>>
           /\ Plain(Put(Consume(t), Put(Expression(NONE), s)))
           /\ Put(Consume(t), Put(Expression(NONE), s)) # <<>>
           /\ Consume(t) \in Steps
<1> DEFINE x == Expression(NONE)
           y == Consume(t)
           u == Put(x, s)
<1>1. x \in Steps /\ x.op = "expression" /\ y \in Steps /\ y.op = "consume"
  BY DEF Steps, Expression, NONE, Consume
<1> HIDE DEF x, y
<1>2. PlainLink(x, StepAt(s, 1), StepAt(s, 2))
  BY <1>1 DEF Plain, PlainLink, Inner
<1>3. Linked(u) /\ u # <<>> /\ StepAt(u, 1) = x /\ StepAt(u, 2) = StepAt(s, 1)
  BY <1>1, <1>2, LinkedPut DEF Plain
<1> HIDE DEF u
<1>4. PlainLink(y, StepAt(u, 1), StepAt(u, 2))
  BY <1>1, <1>3 DEF PlainLink, Inner
<1>5. Linked(Put(y, u)) /\ Put(y, u) # <<>> /\ StepAt(Put(y, u), 1) = y
  BY <1>1, <1>3, <1>4, LinkedPut
<1> QED BY <1>1, <1>3, <1>5 DEF Plain, Inner, x, y, u

\* The steps put on a stack that stays one are steps.
LEMMA AreSteps ==
    ASSUME NEW s \in Seq(Steps), NEW a, NEW b
    PROVE  /\ <<a>> \o s \in Seq(Steps) => a \in Steps /\ <<a>> \o s = Put(a, s)
           /\ <<a, b>> \o s \in Seq(Steps) => a \in Steps /\ b \in Steps /\ <<a, b>> \o s = Put(a, Put(b, s))
<1> DEFINE S == Steps \cup {a, b}
<1>1. s \in Seq(S) /\ <<a>> \in Seq(S) /\ <<a, b>> \in Seq(S)
  OBVIOUS
<1>2. ASSUME <<a>> \o s \in Seq(Steps) PROVE a \in Steps
  <2>1. (<<a>> \o s)[1] = a /\ Len(<<a>> \o s) >= 1
    BY <1>1
  <2> QED BY <1>2, <2>1
<1>3. ASSUME <<a, b>> \o s \in Seq(Steps) PROVE a \in Steps /\ b \in Steps
  <2>1. (<<a, b>> \o s)[1] = a /\ (<<a, b>> \o s)[2] = b /\ Len(<<a, b>> \o s) >= 2
    BY <1>1
  <2> DEFINE t == <<a, b>> \o s
  <2> HIDE DEF t
  <2>2. t \in Seq(Steps) /\ t[1] = a /\ t[2] = b /\ Len(t) >= 2
    BY <1>3, <2>1 DEF t
  <2> QED BY <2>2
<1> QED BY <1>2, <1>3, Put1, Put2

\* Outside expressions, what is under the next step is outside expressions too.
LEMMA PlainUnder ==
    ASSUME StackInv, Parsed(todo, vals, pos, next), todo[1].op \notin Inner \cup {"consume"}
    PROVE  /\ Plain(Tail(todo))
           /\ todo[1].op \in {"initializer", "return_value"} => StepAt(Tail(todo), 1).op = "consume"
<1>1. PICK c \in Nat, b \in Nat : Chain(todo, c, b, vals)
  BY DEF Parsed
<1>2. todo # <<>>
  BY DEF StackInv
<1>3. PICK d \in Nat, e \in Nat :
         /\ Link(todo[1], StepAt(Tail(todo), 1), StepAt(Tail(todo), 2), c, b, d, e, vals)
         /\ Chain(Tail(todo), d, e, vals)
  BY <1>1, <1>2, ChainUnder
<1>4. /\ d = 0 /\ StepAt(Tail(todo), 1).op \notin Inner
      /\ todo[1].op \in {"initializer", "return_value"} => StepAt(Tail(todo), 1).op = "consume"
  BY <1>3 DEF Link
<1>5. Linked(Tail(todo))
  BY <1>3, <1>4, ChainLinked
<1> QED BY <1>4, <1>5 DEF Plain

\* Steps without arguments.
LEMMA DoSteps ==
    \A op \in {"synchronize", "statement", "var_decl", "initializer", "else", "return_value", "block",
               "end_block", "function", "parameters", "if", "while", "return", "decl"} :
        Do(op) \in Steps /\ Do(op).op = op
BY DEF Do, Steps

\* The tokens the parser asks for.
LEMMA TokenNames ==
    /\ "IDENTIFIER" \in Names /\ "LPAREN" \in Names /\ "RPAREN" \in Names /\ "LBRACE" \in Names
    /\ "RBRACE" \in Names /\ "SEMICOLON" \in Names /\ "IF" \in Names /\ "WHILE" \in Names /\ "RETURN" \in Names
BY DEF Names

\* parse_statement.
LEMMA StatementLinked ==
    ASSUME StackInv, Plain(Tail(todo)), parse_statement
    PROVE  Linked(todo')
<1> DEFINE s == Tail(todo)
<1>1. s \in Seq(Steps)
  BY DEF Plain, Linked
<1> HIDE DEF s
<1>2. /\ Do("if") \in Steps /\ Do("else") \in Steps /\ Do("statement") \in Steps /\ Do("while") \in Steps
      /\ Do("return") \in Steps /\ Do("var_decl") \in Steps /\ Do("block") \in Steps
  BY DoSteps
<1>3. \A op \in {"if", "else", "statement", "while", "return", "var_decl", "block"} :
         Do(op).op \notin Inner \cup {"consume", "initializer", "return_value"}
  BY DEF Do, Inner
<1>4. ASSUME todo' = <<Do("var_decl")>> \o s \/ todo' = <<Do("block")>> \o s
      PROVE  Linked(todo')
  <2>1. PICK op \in {"var_decl", "block"} : todo' = Put(Do(op), s)
    BY <1>4 DEF Put
  <2> QED BY <1>2, <1>3, <2>1, PlainPut DEF Plain, s
<1>5. ASSUME NEW c, Plain(c), NEW t \in Names
      PROVE  LET u == <<Consume(t), Consume("LPAREN"), Expression(NONE), Consume("RPAREN")>>
             IN  Linked(u \o c) /\ u \in Seq(Steps)
  <2> DEFINE a == Put(Consume("RPAREN"), c)
             b == Put(Expression(NONE), a)
             d == Put(Consume("LPAREN"), b)
  <2>1. Plain(a) /\ StepAt(a, 1).op = "consume" /\ Consume("RPAREN") \in Steps
    BY <1>5, TokenNames, PlainConsume
  <2> HIDE DEF a
  <2>2. Plain(d) /\ Expression(NONE) \in Steps /\ Consume("LPAREN") \in Steps
    BY <2>1, TokenNames, PlainExpression
  <2> HIDE DEF b, d
  <2>3. Plain(Put(Consume(t), d)) /\ Consume(t) \in Steps
    BY <1>5, <2>2, PlainConsume
  <2>4. c \in Seq(Steps)
    BY <1>5 DEF Plain, Linked
  <2> DEFINE u == <<Consume(t), Consume("LPAREN"), Expression(NONE), Consume("RPAREN")>>
  <2>5. u \o c = Put(Consume(t), d)
    BY <2>1, <2>2, <2>3, <2>4, Put4 DEF a, b, d
  <2>6. u \in Seq(Steps)
    BY <2>1, <2>2, <2>3
  <2> HIDE DEF u
  <2>7. Linked(u \o c)
    BY <2>3, <2>5 DEF Plain
  <2> QED BY <2>6, <2>7 DEF u
<1>6. ASSUME todo' = <<Consume("IF"), Consume("LPAREN"), Expression(NONE), Consume("RPAREN"),
                       Do("statement"), Do("else"), Do("if")>> \o s
      PROVE  Linked(todo')
  <2> DEFINE a == Put(Do("if"), s)
             b == Put(Do("else"), a)
             c == Put(Do("statement"), b)
             u == <<Consume("IF"), Consume("LPAREN"), Expression(NONE), Consume("RPAREN")>>
             w == <<Do("statement"), Do("else"), Do("if")>>
  <2>1. Plain(a)
    BY <1>2, <1>3, PlainPut DEF s
  <2> HIDE DEF a
  <2>2. Plain(b)
    BY <1>2, <1>3, <2>1, PlainPut
  <2> HIDE DEF b
  <2>3. Plain(c)
    BY <1>2, <1>3, <2>2, PlainPut
  <2>4. w \o s = c
    BY <1>1, <1>2, Put3 DEF a, b
  <2> HIDE DEF c
  <2>5. Linked(u \o c) /\ u \in Seq(Steps)
    BY ONLY <1>5, <2>3, TokenNames, Zenon
  <2>6. w \in Seq(Steps)
    BY <1>2
  <2>7. todo' = (u \o w) \o s
    BY <1>6
  <2> HIDE DEF u, w
  <2>8. (u \o w) \o s = u \o (w \o s)
    BY ONLY <1>1, <2>5, <2>6, StepsAssociative
  <2> QED BY <2>4, <2>5, <2>7, <2>8
<1>7. ASSUME todo' = <<Consume("WHILE"), Consume("LPAREN"), Expression(NONE), Consume("RPAREN"),
                       Do("statement"), Do("while")>> \o s
      PROVE  Linked(todo')
  <2> DEFINE b == Put(Do("while"), s)
             c == Put(Do("statement"), b)
             u == <<Consume("WHILE"), Consume("LPAREN"), Expression(NONE), Consume("RPAREN")>>
             w == <<Do("statement"), Do("while")>>
  <2>2. Plain(b)
    BY <1>2, <1>3, PlainPut DEF s
  <2> HIDE DEF b
  <2>3. Plain(c)
    BY <1>2, <1>3, <2>2, PlainPut
  <2>4. w \o s = c
    BY <1>1, <1>2, Put2 DEF b
  <2> HIDE DEF c
  <2>5. Linked(u \o c) /\ u \in Seq(Steps)
    BY ONLY <1>5, <2>3, TokenNames, Zenon
  <2>6. w \in Seq(Steps)
    BY <1>2
  <2>7. todo' = (u \o w) \o s
    BY <1>7
  <2> HIDE DEF u, w
  <2>8. (u \o w) \o s = u \o (w \o s)
    BY ONLY <1>1, <2>5, <2>6, StepsAssociative
  <2> QED BY <2>4, <2>5, <2>7, <2>8
<1>8. ASSUME todo' = <<Consume("RETURN"), Do("return_value"), Consume("SEMICOLON"), Do("return")>> \o s
      PROVE  Linked(todo')
  <2> DEFINE a == Put(Do("return"), s)
             b == Put(Consume("SEMICOLON"), a)
             c == Put(Do("return_value"), b)
             d == Put(Consume("RETURN"), c)
  <2>1. Plain(a)
    BY <1>2, <1>3, PlainPut DEF s
  <2> HIDE DEF a
  <2>2. Plain(b) /\ StepAt(b, 1).op = "consume" /\ Consume("SEMICOLON") \in Steps
    BY <2>1, TokenNames, PlainConsume
  <2> HIDE DEF b
  <2>3. Plain(c) /\ Do("return_value") \in Steps
    BY <2>2, PlainPart
  <2> HIDE DEF c
  <2>4. Plain(d) /\ Consume("RETURN") \in Steps
    BY <2>3, TokenNames, PlainConsume
  <2>5. todo' = d
    BY <1>1, <1>2, <1>8, <2>2, <2>3, <2>4, Put4 DEF a, b, c
  <2> QED BY <2>4, <2>5 DEF Plain
<1>9. ASSUME todo' = <<Expression(NONE), Consume("SEMICOLON")>> \o s
      PROVE  Linked(todo')
  <2> DEFINE b == Put(Consume("SEMICOLON"), s)
  <2>1. Plain(b) /\ StepAt(b, 1).op = "consume" /\ Consume("SEMICOLON") \in Steps
    BY TokenNames, PlainConsume DEF s
  <2> HIDE DEF b
  <2>2. Linked(Put(Expression(NONE), b)) /\ Expression(NONE) \in Steps
    BY <2>1, TokenNames, PlainExpression
  <2>3. todo' = Put(Expression(NONE), b)
    BY <1>1, <1>9, <2>1, <2>2, Put2 DEF b
  <2> QED BY <2>2, <2>3
<1>10. \/ todo' = <<Do("var_decl")>> \o s
       \/ todo' = <<Consume("IF"), Consume("LPAREN"), Expression(NONE), Consume("RPAREN"),
                    Do("statement"), Do("else"), Do("if")>> \o s
       \/ todo' = <<Consume("WHILE"), Consume("LPAREN"), Expression(NONE), Consume("RPAREN"),
                    Do("statement"), Do("while")>> \o s
       \/ todo' = <<Consume("RETURN"), Do("return_value"), Consume("SEMICOLON"), Do("return")>> \o s
       \/ todo' = <<Do("block")>> \o s
       \/ todo' = <<Expression(NONE), Consume("SEMICOLON")>> \o s
  BY DEF parse_statement, Continue, s
<1> QED BY <1>4, <1>6, <1>7, <1>8, <1>9, <1>10

\* What a step of a statement or declaration leaves on the stack, by its shape.
LEMMA PlainGoesOn ==
    ASSUME StackInv, Plain(Tail(todo)), todo' \in Seq(Steps)
    PROVE  /\ Continue(<<>>) => Linked(todo')
           /\ \A x : Continue(<<x>>) /\ x.op \notin Inner \cup {"consume", "initializer", "return_value"} =>
                 Linked(todo')
           /\ \A x, y : /\ Continue(<<x, y>>)
                        /\ x.op \notin Inner \cup {"consume", "initializer", "return_value"}
                        /\ y.op \notin Inner \cup {"consume", "initializer", "return_value"}
                        => Linked(todo')
           /\ \A t \in Names : \A y : /\ Continue(<<Consume(t), y>>)
                                      /\ y.op \notin Inner \cup {"consume", "initializer", "return_value"}
                                      => Linked(todo')
           /\ Continue(<<Expression(NONE)>>) /\ StepAt(Tail(todo), 1).op = "consume" => Linked(todo')
<1> DEFINE s == Tail(todo)
           Simple(x) == x.op \notin Inner \cup {"consume", "initializer", "return_value"}
<1>1. s \in Seq(Steps) /\ Plain(s) /\ Linked(s)
  BY DEF Plain, Linked
<1>2. \A u : Continue(u) => todo' = u \o s
  BY DEF Continue
<1> HIDE DEF s
<1>3. Continue(<<>>) => Linked(todo')
  BY <1>1, <1>2
<1>4. ASSUME NEW x, Continue(<<x>>), Simple(x) PROVE Linked(todo')
  <2>1. x \in Steps /\ todo' = Put(x, s)
    BY <1>1, <1>2, <1>4, AreSteps
  <2> QED BY <1>1, <1>4, <2>1, PlainPut DEF Plain
<1>5. ASSUME NEW x, NEW y, Continue(<<x, y>>), Simple(x), Simple(y) PROVE Linked(todo')
  <2>1. x \in Steps /\ y \in Steps /\ todo' = Put(x, Put(y, s))
    <3>1. todo' = <<x, y>> \o s /\ <<x, y>> \o s \in Seq(Steps)
      BY <1>2, <1>5
    <3> QED BY ONLY <1>1, <3>1, AreSteps
  <2>2. Plain(Put(y, s))
    BY <1>1, <1>5, <2>1, PlainPut
  <2> QED BY <1>5, <2>1, <2>2, PlainPut DEF Plain
<1>6. ASSUME NEW t \in Names, NEW y, Continue(<<Consume(t), y>>), Simple(y) PROVE Linked(todo')
  <2>1. y \in Steps /\ todo' = Put(Consume(t), Put(y, s))
    <3>1. todo' = <<Consume(t), y>> \o s /\ <<Consume(t), y>> \o s \in Seq(Steps)
      BY <1>2, <1>6
    <3> QED BY ONLY <1>1, <3>1, AreSteps
  <2>2. Plain(Put(y, s))
    BY <1>1, <1>6, <2>1, PlainPut
  <2> QED BY <1>6, <2>1, <2>2, PlainConsume DEF Plain
<1>7. ASSUME Continue(<<Expression(NONE)>>), StepAt(s, 1).op = "consume" PROVE Linked(todo')
  <2>1. todo' = Put(Expression(NONE), s)
    BY <1>1, <1>2, <1>7, AreSteps
  <2> QED BY <1>1, <1>7, <2>1, TokenNames, PlainExpression
<1> QED BY <1>3, <1>4, <1>5, <1>6, <1>7 DEF s

\* parse_var_decl and parse_function after the type.
LEMMA TypedLinked ==
    ASSUME StackInv, Plain(Tail(todo)), Typed, ~panic_mode
    PROVE  Linked(todo')
<1> DEFINE s == Tail(todo)
<1>1. s \in Seq(Steps)
  BY DEF Plain, Linked
<1>2. Do("decl") \in Steps /\ Do("decl").op = "decl" /\ Do("parameters") \in Steps /\ Do("parameters").op = "parameters"
  BY DoSteps
<1>3. CASE At("var_decl")
  <2> DEFINE a == Put(Do("decl"), s)
             b == Put(Consume("SEMICOLON"), a)
             c == Put(Do("initializer"), b)
             d == Put(Consume("IDENTIFIER"), c)
  <2>1. Plain(a)
    BY <1>2, PlainPut DEF Inner
  <2> HIDE DEF a
  <2>2. Plain(b) /\ StepAt(b, 1).op = "consume" /\ Consume("SEMICOLON") \in Steps
    BY <2>1, TokenNames, PlainConsume
  <2> HIDE DEF b
  <2>3. Plain(c) /\ Do("initializer") \in Steps
    BY <2>2, PlainPart
  <2> HIDE DEF c
  <2>4. Plain(d) /\ Consume("IDENTIFIER") \in Steps
    BY <2>3, TokenNames, PlainConsume
  <2>5. todo' = <<Consume("IDENTIFIER"), Do("initializer"), Consume("SEMICOLON"), Do("decl")>> \o s
    BY <1>3 DEF Typed, Continue
  <2> HIDE DEF s
  <2>6. todo' = d
    BY <1>1, <1>2, <2>2, <2>3, <2>4, <2>5, Put4 DEF a, b, c
  <2> QED BY <2>4, <2>6 DEF Plain
<1>4. CASE ~At("var_decl")
  <2> DEFINE a == Put(Do("parameters"), s)
             b == Put(Consume("LPAREN"), a)
             d == Put(Consume("IDENTIFIER"), b)
  <2>1. Plain(a)
    BY <1>2, PlainPut DEF Inner
  <2> HIDE DEF a
  <2>2. Plain(b) /\ Consume("LPAREN") \in Steps
    BY <2>1, TokenNames, PlainConsume
  <2> HIDE DEF b
  <2>4. Plain(d) /\ Consume("IDENTIFIER") \in Steps
    BY <2>2, TokenNames, PlainConsume
  <2>5. todo' = <<Consume("IDENTIFIER"), Consume("LPAREN"), Do("parameters")>> \o s
    BY <1>4, Zenon DEF Typed, Continue
  <2> HIDE DEF s
  <2>6. todo' = d
    BY <1>1, <1>2, <2>2, <2>4, <2>5, Put3 DEF a, b
  <2> QED BY <2>4, <2>6 DEF Plain
<1> QED BY <1>3, <1>4

\* The steps of statements and declarations leave a stack outside expressions.
LEMMA PlainStep ==
    ASSUME StackInv, todo' \in Seq(Steps), Parsed(todo, vals, pos, next),
           ~panic_mode, ~parser_error, outcome' = "parsing",
           Len(vals) >= 1 => Top # NULL,
           \/ parse_statement \/ OptionalPart \/ EndStatement \/ Typed \/ parse_block \/ parse_function
           \/ parser_parse \/ parser_synchronize
    PROVE  Linked(todo')
<1>1. todo[1].op \notin Inner \cup {"consume"}
  BY DEF parse_statement, OptionalPart, EndStatement, Typed, parse_block, parse_function, parser_parse,
         parser_synchronize, At, Inner
<1>2. /\ Plain(Tail(todo))
      /\ todo[1].op \in {"initializer", "return_value"} => StepAt(Tail(todo), 1).op = "consume"
  BY <1>1, PlainUnder
<1> DEFINE Simple(x) == x.op \notin Inner \cup {"consume", "initializer", "return_value"}
<1>3. /\ Continue(<<>>) => Linked(todo')
      /\ \A x : Continue(<<x>>) /\ Simple(x) => Linked(todo')
      /\ \A x, y : Continue(<<x, y>>) /\ Simple(x) /\ Simple(y) => Linked(todo')
      /\ \A t \in Names : \A y : Continue(<<Consume(t), y>>) /\ Simple(y) => Linked(todo')
      /\ Continue(<<Expression(NONE)>>) /\ StepAt(Tail(todo), 1).op = "consume" => Linked(todo')
  BY <1>2, PlainGoesOn
<1>4. /\ Simple(Do("statement")) /\ Simple(Do("block")) /\ Simple(Do("end_block")) /\ Simple(Do("function"))
      /\ \A n : Simple(Counted("statements", n)) /\ Simple(Counted("statement_done", n))
      /\ \A n : Simple(Counted("body", n)) /\ Simple(Counted("parameter", n)) /\ Simple(Counted("parameter_done", n))
      /\ \A n : Simple(Counted("unit", n)) /\ Simple(Counted("declared", n))
  BY DEF Do, Counted, Inner
<1> HIDE DEF Simple
<1>5. CASE parse_statement
  BY <1>2, <1>5, StatementLinked
<1>6. CASE OptionalPart
  <2>1. \/ Continue(<<>>)
        \/ Continue(<<Do("statement")>>)
        \/ Continue(<<Expression(NONE)>>) /\ todo[1].op \in {"initializer", "return_value"}
    BY <1>6 DEF OptionalPart, At
  <2> QED BY <1>2, <1>3, <1>4, <2>1, Zenon
<1>7. CASE EndStatement
  BY <1>3, <1>7, Zenon DEF EndStatement
<1>8. CASE Typed
  BY <1>2, <1>8, TypedLinked
<1>9. CASE parse_block
  <2>1. \/ Continue(<<>>)
        \/ Continue(<<Consume("LBRACE"), Counted("statements", 0)>>)
        \/ Continue(<<Consume("RBRACE"), Do("end_block")>>)
        \/ Continue(<<Do("statement"), Counted("statement_done", todo[1].n)>>)
        \/ Continue(<<Counted("statements", todo[1].n + 1)>>)
    <3>1. At("statement_done") => Top # NULL
      BY Under DEF At
    <3> QED BY <1>9, <3>1, Zenon DEF parse_block
  <2> QED BY <1>3, <1>4, <2>1, TokenNames, Zenon
<1>10. CASE parse_function
  <2>1. \/ Continue(<<>>)
        \/ \E n : Continue(<<Consume("RPAREN"), Counted("body", n)>>)
        \/ \E n : Continue(<<Counted("parameter", n)>>)
        \/ \E n : Continue(<<Consume("IDENTIFIER"), Counted("parameter_done", n)>>)
        \/ Continue(<<Do("block")>>)
    BY <1>10, Zenon DEF parse_function
  <2> QED BY <1>3, <1>4, <2>1, TokenNames, Zenon
<1>11. CASE parser_parse
  <2>1. "parsing" # "unit" /\ "parsing" # "NULL"
    OBVIOUS
  <2>2. \/ Continue(<<Do("function"), Counted("declared", todo[1].n + 1)>>)
        \/ Continue(<<Counted("unit", todo[1].n)>>)
    BY <1>11, <2>1, Zenon DEF parser_parse
  <2> QED BY <1>3, <1>4, <2>2, Zenon
<1>12. CASE parser_synchronize
  <2>1. Continue(<<>>) \/ todo' = todo
    BY <1>12, Zenon DEF parser_synchronize
  <2>2. ASSUME todo' = todo PROVE Linked(todo')
    <3> DEFINE x == todo[1]
               s == Tail(todo)
    <3>1. x \in Steps /\ todo \in Seq(Steps) /\ todo # <<>> /\ x.op = "synchronize"
      BY <1>12, Under DEF StackInv, Stack, parser_synchronize, At
    <3>2. todo = Put(x, s)
      BY <3>1 DEF Put
    <3> HIDE DEF x, s
    <3>3. Plain(Put(x, s))
      BY <1>2, <3>1, PlainPut DEF Inner, s
    <3> QED BY <2>2, <3>2, <3>3 DEF Plain
  <2> QED BY <1>3, <2>1, <2>2, Zenon
<1> QED BY <1>5, <1>6, <1>7, <1>8, <1>9, <1>10, <1>11, <1>12

\* ---- values ----

\* A fine node can be pushed.
LEMMA SoundPushed ==
    ASSUME NEW s, IsSeq(s), Sound(s), NEW e, Fine(e)
    PROVE  Sound(Append(s, e))
<1>1. /\ Len(s) \in Nat /\ Len(Append(s, e)) = Len(s) + 1
      /\ Append(s, e)[Len(s) + 1] = e /\ \A i \in 1 .. Len(s) : Append(s, e)[i] = s[i]
  BY Appended
<1>2. ASSUME NEW i \in 1 .. Len(Append(s, e)) PROVE Fine(Append(s, e)[i])
  <2>1. i \in 1 .. Len(s) \/ i = Len(s) + 1
    BY <1>1
  <2>2. CASE i \in 1 .. Len(s)
    BY <1>1, <2>2, Zenon DEF Sound
  <2>3. CASE i = Len(s) + 1
    BY <1>1, <2>3, Zenon
  <2> QED BY <2>1, <2>2, <2>3
<1> QED BY <1>2 DEF Sound

\* Values can be taken off.
LEMMA SoundPopped ==
    ASSUME StackInv, Sound(vals), NEW n \in Nat, n <= Len(vals)
    PROVE  Sound(Popped(n)) /\ IsSeq(Popped(n))
<1>1. /\ Len(vals) \in Nat /\ IsSeq(Popped(n)) /\ Len(Popped(n)) = Len(vals) - n
      /\ \A i \in 1 .. Len(vals) - n : Popped(n)[i] = vals[i]
  BY Lengths DEF StackInv, Popped
<1>2. \A i \in 1 .. Len(Popped(n)) : i \in 1 .. Len(vals) /\ Popped(n)[i] = vals[i]
  BY <1>1
<1> QED BY <1>1, <1>2, Zenon DEF Sound

\* The things a step without a report does to the values.
LEMMA SoundKept ==
    ASSUME StackInv, Sound(vals),
           \/ vals' = vals
           \/ \E e : Push(e) /\ Fine(e)
           \/ \E n \in Nat : n <= Len(vals) /\ vals' = Popped(n)
           \/ \E n \in Nat : \E e : n <= Len(vals) /\ vals' = Append(Popped(n), e) /\ Fine(e)
    PROVE  Sound(vals')
<1>1. CASE vals' = vals
  BY <1>1, Zenon
<1>2. CASE \E e : Push(e) /\ Fine(e)
  BY <1>2, SoundPushed, Zenon DEF Push, StackInv
<1>3. CASE \E n \in Nat : n <= Len(vals) /\ vals' = Popped(n)
  BY <1>3, SoundPopped, Zenon
<1>4. CASE \E n \in Nat : \E e : n <= Len(vals) /\ vals' = Append(Popped(n), e) /\ Fine(e)
  BY <1>4, SoundPopped, SoundPushed, Zenon
<1> QED BY <1>1, <1>2, <1>3, <1>4

\* Which nodes are fine.
LEMMA FineNode ==
    ASSUME NEW a, NEW b \in Nat, NEW c \in Nat, NEW d \in Nat, NEW t, t, NEW h,
           a = "IDENTIFIER" => b = PRIMARY
    PROVE  /\ Fine(Node(a, b, c, d, t, h))
           /\ Node(a, b, c, d, t, h).prec = b
           /\ Node(a, b, c, d, t, h).first = c
           /\ Node(a, b, c, d, t, h).last = d
<1>1. Node(a, b, c, d, t, h).tidy
  BY Zenon DEF Node
<1>2. /\ Node(a, b, c, d, t, h).prec = b
      /\ Node(a, b, c, d, t, h).first = c
      /\ Node(a, b, c, d, t, h).last = d
      /\ Node(a, b, c, d, t, h).type = a
  BY Zenon DEF Node
<1> QED BY <1>1, <1>2, Zenon DEF Fine

\* The nodes of statements.
LEMMA FineStatement ==
    ASSUME NEW a, NEW h, a # "IDENTIFIER"
    PROVE  Fine(Statement(a, h))
<1>1. NONE \in Nat /\ 0 \in Nat
  BY DEF NONE
<1> QED BY <1>1, FineNode, Zenon DEF Statement

\* NULL is no node.
LEMMA NotNull ==
    ASSUME NEW n, Fine(n)
    PROVE  n # NULL
<1>1. ~NULL.tidy
  BY Zenon DEF NULL, Node
<1>2. n.tidy
  BY Zenon DEF Fine
<1> QED BY <1>1, <1>2, Zenon

\* Statements and declarations.
LEMMA SoundStep ==
    ASSUME StackInv, Sound(vals), ~panic_mode,
           \/ parse_statement \/ OptionalPart \/ EndStatement \/ Typed \/ parse_block \/ parse_function
           \/ parser_parse \/ parser_synchronize
    PROVE  Sound(vals')
<1> DEFINE h == Len(vals)
<1>1. h \in Nat
  BY Under
<1>2. /\ Fine(Absent) /\ Fine(Statement("BLOCK", FALSE)) /\ Fine(Statement("PROTOTYPE", FALSE))
      /\ \A b : Fine(Statement("IF", b)) /\ Fine(Statement("WHILE", b))
      /\ Fine(Statement("RETURN", FALSE)) /\ Fine(Statement("VAR_DECL", FALSE))
  BY FineStatement DEF Absent
<1>3. CASE parse_statement \/ Typed \/ parser_synchronize
  <2>1. vals' = vals
    BY <1>3, Zenon DEF parse_statement, Typed, parser_synchronize
  <2> QED BY <2>1, SoundKept
<1>4. CASE OptionalPart
  <2>1. vals' = vals \/ Push(Absent)
    BY <1>4, Zenon DEF OptionalPart
  <2> QED BY <1>2, <2>1, SoundKept, Zenon
<1>5. CASE EndStatement
  <2>1. CASE At("if")
    <3>1. h >= 3
      BY <2>1, Under DEF At
    <3>2. 3 \in Nat /\ 3 <= h
      BY <1>1, <3>1
    <3>3. vals' = Append(Popped(3), Statement("IF", vals[h - 2] = NULL))
      BY <1>5, <2>1 DEF EndStatement, At
    <3> QED BY <1>2, <3>2, <3>3, SoundKept, Zenon
  <2>2. CASE At("while")
    <3>1. h >= 2
      BY <2>2, Under DEF At
    <3>2. 2 \in Nat /\ 2 <= h
      BY <1>1, <3>1
    <3>3. vals' = Append(Popped(2), Statement("WHILE", vals[h - 1] = NULL))
      BY <1>5, <2>2 DEF EndStatement, At
    <3> QED BY <1>2, <3>2, <3>3, SoundKept, Zenon
  <2>3. CASE At("return") \/ At("decl")
    <3>1. h >= 1
      BY <2>3, Under DEF At
    <3>2. 1 \in Nat /\ 1 <= h
      BY <1>1, <3>1
    <3>3. \/ vals' = Append(Popped(1), Statement("RETURN", FALSE))
          \/ vals' = Append(Popped(1), Statement("VAR_DECL", FALSE))
      BY <1>5, <2>3 DEF EndStatement, At
    <3> QED BY <1>2, <3>2, <3>3, SoundKept, Zenon
  <2> QED BY <1>5, <2>1, <2>2, <2>3 DEF EndStatement
<1>6. CASE parse_block
  <2>1. CASE At("statement_done")
    <3>1. h >= 1
      BY <2>1, Under DEF At
    <3>2. 1 \in Nat /\ 1 <= h
      BY <1>1, <3>1
    <3>3. vals' = Popped(1)
      BY <1>6, <2>1 DEF parse_block, At
    <3> QED BY <3>2, <3>3, SoundKept, Zenon
  <2>2. CASE ~At("statement_done")
    <3>1. vals' = vals \/ Push(Statement("BLOCK", FALSE))
      BY <1>6, <2>2, Zenon DEF parse_block
    <3> QED BY <1>2, <3>1, SoundKept, Zenon
  <2> QED BY <2>1, <2>2
<1>7. CASE parse_function
  <2>1. vals' = vals \/ Push(Statement("PROTOTYPE", FALSE))
    BY <1>7, Zenon DEF parse_function
  <2> QED BY <1>2, <2>1, SoundKept, Zenon
<1>8. CASE parser_parse
  <2>1. CASE At("declared")
    <3>1. h = 1
      BY <2>1, Under DEF At
    <3>2. 1 \in Nat /\ 1 <= h
      BY <3>1
    <3>3. vals' = Popped(1)
      BY <1>8, <2>1 DEF parser_parse, At
    <3> QED BY <3>2, <3>3, SoundKept, Zenon
  <2>2. CASE ~At("declared")
    <3>1. vals' = vals
      BY <1>8, <2>2, Zenon DEF parser_parse
    <3> QED BY <3>1, SoundKept, Zenon
  <2> QED BY <2>1, <2>2
<1> QED BY <1>3, <1>4, <1>5, <1>6, <1>7, <1>8

\* ---- the actions of expressions ----

\* The precedences of tokens.
LEMMA PrecedenceOf ==
    ASSUME NEW t
    PROVE  /\ get_token_precedence(t) \in Nat /\ get_token_precedence(t) <= 13
           /\ t \notin {"EQUAL", "LPAREN"} => get_token_precedence(t) <= 11
           /\ get_token_precedence(t) # 0 => t \notin {"UNARY", "GROUP", "ASSIGNMENT"}
           /\ t = "EQUAL" => get_token_precedence(t) = 1
<1> USE DEF get_token_precedence, NONE, ASSIGNMENT, BIT_OR, BIT_XOR, BIT_AND, EQUALITY, COMPARISON, SHIFT,
            TERM, FACTOR, CALL
<1>1. get_token_precedence(t) \in Nat /\ get_token_precedence(t) <= 13
  OBVIOUS
<1>2. t \notin {"EQUAL", "LPAREN"} => get_token_precedence(t) <= 11
  OBVIOUS
<1>3. t \in {"UNARY", "GROUP", "ASSIGNMENT"} => get_token_precedence(t) = 0
  OBVIOUS
<1>4. t = "EQUAL" => get_token_precedence(t) = 1
  OBVIOUS
<1> HIDE DEF get_token_precedence
<1> QED BY <1>1, <1>2, <1>3, <1>4

\* The least precedence above another.
LEMMA AboveOf ==
    ASSUME NEW p \in Nat
    PROVE  /\ Above(p) \in Nat /\ Above(p) >= 1 /\ Above(p) <= 12
           /\ p < 11 => Above(p) = p + 1
           /\ p >= 11 => Above(p) = 12
BY DEF Above, FACTOR, UNARY

\* Before the next step: the values and the links of the chain.
LEMMA ParsedUnder ==
    ASSUME StackInv, Parsed(todo, vals, pos, next)
    PROVE  \E c, b, d, e \in Nat :
              /\ d <= c
              /\ Link(todo[1], StepAt(Tail(todo), 1), StepAt(Tail(todo), 2), c, b, d, e, vals)
              /\ Chain(Tail(todo), d, e, vals)
              /\ Now(todo[1], StepAt(Tail(todo), 1), c, b, vals, pos, next)
<1>1. PICK c \in Nat, b \in Nat :
         Chain(todo, c, b, vals) /\ Now(todo[1], StepAt(todo, 2), c, b, vals, pos, next)
  BY DEF Parsed
<1>2. todo # <<>> /\ todo \in Seq(Steps)
  BY DEF StackInv, Stack
<1>3. PICK d \in Nat, e \in Nat :
         /\ d <= c
         /\ Link(todo[1], StepAt(Tail(todo), 1), StepAt(Tail(todo), 2), c, b, d, e, vals)
         /\ Chain(Tail(todo), d, e, vals)
  BY <1>1, <1>2, ChainUnder
<1>4. StepAt(Tail(todo), 1) = StepAt(todo, 1 + 1)
  BY <1>2, StepsUnder
<1> QED BY <1>1, <1>3, <1>4

\* The steps of expressions.
LEMMA InnerSteps ==
    ASSUME NEW p \in Nat
    PROVE  /\ Expression(p) \in Steps /\ Expression(p).op = "expression" /\ Expression(p).prec = p
           /\ Infix(p) \in Steps /\ Infix(p).op = "infix" /\ Infix(p).prec = p
BY DEF Steps, Expression, Infix

\* The step that builds a node.
LEMMA BuildSteps ==
    ASSUME NEW at \in Nat, NEW t \in Names
    PROVE  Build(t, at) \in Steps /\ Build(t, at).op = "build" /\ Build(t, at).type = t /\ Build(t, at).at = at
BY DEF Steps, Build

\* The step that consumes a token.
LEMMA ConsumeSteps ==
    ASSUME NEW t \in Names
    PROVE  Consume(t) \in Steps /\ Consume(t).op = "consume"
BY DEF Steps, Consume

\* An operand: its expression and the operator's build step, before the loop of
\* the expression around it.
LEMMA OperandParsed ==
    ASSUME NEW s, NEW c \in Nat, NEW b \in Nat, NEW d \in Nat, NEW v, Len(v) \in Nat,
           NEW p \in Nat, NEW t, NEW q \in Nat, NEW at \in Nat, NEW ty \in Names,
           Chain(s, d, b, v), StepAt(s, 1).op = "infix",
           ty # "GROUP", PrecOf(ty) = q, c = Len(v) + 1, p = at + 1,
           ty = "UNARY" => d = c /\ b = at,
           ty # "UNARY" => Binary(Build(ty, at), StepAt(s, 1), c, p, d, b, v)
    PROVE  Parsed(Put(Expression(q), Put(Build(ty, at), s)), v, p, t)
<1> DEFINE x == Build(ty, at)
           y == Expression(q)
           u == Put(x, s)
<1>1. /\ x \in Steps /\ x.op = "build" /\ x.type = ty /\ x.at = at
      /\ y \in Steps /\ y.op = "expression" /\ y.prec = q
  BY InnerSteps, BuildSteps
<1> HIDE DEF x, y
<1>2. d <= c
  BY DEF Binary
<1>3. Link(x, StepAt(s, 1), StepAt(s, 2), c, p, d, b, v)
  <2>1. CASE ty = "UNARY"
    <3>1. Prefixed(x, StepAt(s, 1), c, p, d, b)
      BY <1>1, <2>1 DEF Prefixed
    <3> QED BY <1>1, <2>1, <3>1 DEF Link, Inner, Calling
  <2>2. CASE ty # "UNARY"
    <3>1. Binary(x, StepAt(s, 1), c, p, d, b, v)
      BY <2>2 DEF x
    <3> QED BY <1>1, <2>2, <3>1 DEF Link, Inner, Calling
  <2> QED BY <2>1, <2>2
<1>4. Chain(u, c, p, v) /\ StepAt(u, 1) = x
  BY <1>1, <1>2, <1>3, ChainPut
<1> HIDE DEF u
<1>5. Link(y, StepAt(u, 1), StepAt(u, 2), c, p, c, p, v)
  BY <1>1, <1>4 DEF Link, Operand, Inner, Calling
<1>6. Chain(Put(y, u), c, p, v) /\ Put(y, u)[1] = y
  BY <1>1, <1>4, <1>5, ChainPut
<1>7. Now(y, StepAt(Put(y, u), 2), c, p, v, p, t)
  BY <1>1 DEF Now
<1> QED BY <1>6, <1>7 DEF Parsed, u, x, y

\* parse_expression up to its loop.
LEMMA ExpressionParsed ==
    ASSUME StackInv, Sound(vals), Parsed(todo, vals, pos, next), parse_expression, ~parser_error
    PROVE  Sound(vals') /\ Parsed(todo', vals', pos', next')
<1> DEFINE x == todo[1]
           s == Tail(todo)
           p == x.prec
           h == Len(vals)
<1>1. x.op = "expression"
  BY DEF parse_expression, At
<1>2. x \in Steps /\ p \in Nat /\ h \in Nat /\ pos \in Nat /\ s \in Seq(Steps) /\ IsSeq(vals)
  <2>1. x \in Steps /\ h \in Nat
    BY Under
  <2>2. p \in Nat
    BY <1>1, <2>1, Fields
  <2> QED BY <2>1, <2>2 DEF StackInv, Stack
<1>3. PICK c \in Nat, b \in Nat, d \in Nat, e \in Nat :
              /\ d <= c
              /\ Link(x, StepAt(s, 1), StepAt(s, 2), c, b, d, e, vals)
              /\ Chain(s, d, e, vals)
              /\ Now(x, StepAt(s, 1), c, b, vals, pos, next)
  BY ParsedUnder
<1>4. c = h + 1 /\ b = pos
  BY <1>1, <1>3 DEF Now
<1>5. Operand(x, StepAt(s, 1), StepAt(s, 2), h + 1, pos, d, e)
  BY <1>1, <1>3, <1>4 DEF Link
<1> DEFINE i == Infix(p)
           w == Put(i, s)
<1>6. i \in Steps /\ i.op = "infix" /\ i.prec = p
  BY <1>2, InnerSteps
<1> HIDE DEF i
<1>7. ASSUME NEW v, \A j \in 1 .. h : v[j] = vals[j]
      PROVE  Chain(w, h + 1, pos, v) /\ w[1] = i /\ StepAt(w, 1) = i /\ w \in Seq(Steps)
  <2>1. \A j \in 1 .. d - 1 : v[j] = vals[j]
    BY <1>2, <1>3, <1>4, <1>7
  <2>2. Chain(s, d, e, v)
    BY <1>3, <2>1, ChainFrame
  <2>3. h + 1 \in Nat /\ d <= h + 1 /\ h + 1 >= 1
    BY <1>2, <1>3, <1>4
  <2>4. Link(i, StepAt(s, 1), StepAt(s, 2), h + 1, pos, d, e, v)
    BY <1>5, <1>6, <2>3 DEF Link, Operand, Inner, Calling, p
  <2>5. Chain(w, h + 1, pos, v) /\ w[1] = i /\ StepAt(w, 1) = i
    BY <1>2, <1>6, <2>2, <2>3, <2>4, ChainPut
  <2> QED BY <2>5 DEF Chain
<1>8. Chain(w, h + 1, pos, vals) /\ StepAt(w, 1) = i /\ w \in Seq(Steps)
  BY <1>7
<1> HIDE DEF w
<1>9. pos + 1 \in Nat /\ h + 1 \in Nat
  BY <1>2
<1>10. ~TooDeep
  BY Zenon DEF parse_expression
\* An identifier or a number.
<1>11. CASE Is(next, "IDENTIFIER") \/ next = "NUMBER"
  <2>1. /\ parser_advance /\ Continue(<<i>>)
        /\ \E a : Push(Node(a, PRIMARY, pos, pos, TRUE, FALSE))
    <3>1. Is(next, "IDENTIFIER") => next \notin UnaryTokens \cup {"LPAREN"}
      BY DEF Is, UnaryTokens
    <3>2. next = "NUMBER" => next \notin UnaryTokens \cup {"LPAREN"}
      BY DEF UnaryTokens
    <3> QED BY <1>10, <1>11, <3>1, <3>2, Zenon DEF parse_expression, i, p, NoPrefix
  <2>2. PICK a : vals' = Append(vals, Node(a, PRIMARY, pos, pos, TRUE, FALSE))
    BY <2>1 DEF Push
  <2> DEFINE n == Node(a, PRIMARY, pos, pos, TRUE, FALSE)
  <2>3. Fine(n) /\ n.prec = PRIMARY /\ n.first = pos /\ n.last = pos
    <3>1. PRIMARY \in Nat
      BY DEF PRIMARY
    <3>2. a = "IDENTIFIER" => PRIMARY = PRIMARY
      OBVIOUS
    <3>3. pos \in Nat
      BY <1>2
    <3>4. Fine(n)
      BY ONLY <3>1, <3>2, <3>3, FineNode, Zenon
    <3> QED BY <3>4 DEF Node
  <2> HIDE DEF n
  <2>4. vals' = Append(vals, n)
    BY <2>2 DEF n
  <2>5. /\ Len(vals') = h + 1 /\ vals'[h + 1] = n
        /\ \A j \in 1 .. h : vals'[j] = vals[j]
    BY <1>2, <2>4, Appended
  <2>6. Sound(vals')
    BY <1>2, <2>3, <2>4, SoundPushed
  <2>7. Chain(w, h + 1, pos, vals') /\ w[1] = i /\ StepAt(w, 1) = i /\ w \in Seq(Steps)
    BY <1>7, <2>5 DEF w
  <2>8. pos' = pos + 1 /\ todo' = w
    BY <1>2, <1>6, <2>1 DEF parser_advance, Continue, Put, w
  <2>9. /\ Above(p) \in Nat /\ Above(p) <= 12
        /\ get_token_precedence(next') \in Nat /\ get_token_precedence(next') <= 13
    BY <1>2, AboveOf, PrecedenceOf
  <2>10. Now(i, StepAt(w, 2), h + 1, pos, vals', pos', next')
    BY <1>2, <1>6, <2>3, <2>5, <2>8, <2>9 DEF Now, Covers, PRIMARY
  <2> QED BY <1>2, <1>9, <2>6, <2>7, <2>8, <2>10 DEF Parsed
\* An operator before its operand.
<1>12. CASE next \in UnaryTokens
  <2>1. /\ parser_advance /\ Continue(<<Expression(UNARY), Build("UNARY", pos), i>>)
        /\ vals' = vals
    <3>1. next \in UnaryTokens => ~Is(next, "IDENTIFIER") /\ next # "NUMBER" /\ next # "LPAREN"
      BY DEF Is, UnaryTokens
    <3> QED BY <1>10, <1>12, <3>1, Zenon DEF parse_expression, i, p, NoPrefix
  <2>2. UNARY \in Nat /\ "UNARY" \in Names /\ PrecOf("UNARY") = UNARY
    BY DEF UNARY, Names, PrecOf
  <2>3. Expression(UNARY) \in Steps /\ Build("UNARY", pos) \in Steps
    BY <1>2, <2>2, InnerSteps, BuildSteps
  <2>4. pos' = pos + 1 /\ todo' = Put(Expression(UNARY), Put(Build("UNARY", pos), w))
    <3>1. todo' = <<Expression(UNARY), Build("UNARY", pos), i>> \o s
      BY <2>1 DEF Continue
    <3> HIDE DEF s
    <3> QED BY <1>2, <1>6, <2>1, <2>3, <3>1, Put3 DEF parser_advance, w
  <2>5. Parsed(Put(Expression(UNARY), Put(Build("UNARY", pos), w)), vals, pos + 1, next')
    BY <1>2, <1>6, <1>8, <1>9, <2>2, OperandParsed
  <2> QED BY <2>1, <2>4, <2>5
\* A parenthesis.
<1>13. CASE next = "LPAREN"
  <2>1. /\ parser_advance /\ Continue(<<Expression(NONE), Consume("RPAREN"), Build("GROUP", pos), i>>)
        /\ vals' = vals
    <3>1. next = "LPAREN" => ~Is(next, "IDENTIFIER") /\ next # "NUMBER" /\ next \notin UnaryTokens
      BY DEF Is, UnaryTokens
    <3> QED BY <1>10, <1>13, <3>1, Zenon DEF parse_expression, i, p, NoPrefix
  <2>2. NONE \in Nat /\ "GROUP" \in Names
    BY DEF NONE, Names
  <2> DEFINE g == Build("GROUP", pos)
             k == Consume("RPAREN")
             y == Expression(NONE)
             u == Put(g, w)
             r == Put(k, u)
  <2>3. /\ g \in Steps /\ g.op = "build" /\ g.type = "GROUP" /\ g.at = pos
        /\ k \in Steps /\ k.op = "consume"
        /\ y \in Steps /\ y.op = "expression"
    BY <1>2, <2>2, TokenNames, InnerSteps, BuildSteps, ConsumeSteps
  <2> HIDE DEF g, k, y
  <2>4. pos' = pos + 1 /\ todo' = Put(y, r)
    <3>1. todo' = <<y, k, g, i>> \o s
      BY <2>1 DEF Continue, g, k, y
    <3> HIDE DEF s
    <3> QED BY <1>2, <1>6, <2>1, <2>3, <3>1, Put4 DEF parser_advance, w
  <2>5. Link(g, StepAt(w, 1), StepAt(w, 2), h + 1, pos + 1, h + 1, pos, vals)
    BY <1>2, <1>6, <1>8, <2>3 DEF Link, Prefixed, Inner, Calling
  <2>6. Chain(u, h + 1, pos + 1, vals) /\ StepAt(u, 1) = g
    BY <1>8, <1>9, <2>3, <2>5, ChainPut
  <2> HIDE DEF u
  <2>7. Link(k, StepAt(u, 1), StepAt(u, 2), h + 1, pos + 1, h + 1, pos + 1, vals)
    BY <1>2, <2>3, <2>6 DEF Link, Inner, Calling
  <2>8. Chain(r, h + 1, pos + 1, vals) /\ StepAt(r, 1) = k /\ StepAt(r, 2) = g
    BY <1>9, <2>3, <2>6, <2>7, ChainPut
  <2> HIDE DEF r
  <2>9. Link(y, StepAt(r, 1), StepAt(r, 2), h + 1, pos + 1, h + 1, pos + 1, vals)
    BY <1>2, <2>3, <2>8 DEF Link, Operand, Inner, Calling
  <2>10. Chain(Put(y, r), h + 1, pos + 1, vals) /\ Put(y, r)[1] = y
    BY <1>9, <2>3, <2>8, <2>9, ChainPut
  <2>11. Now(y, StepAt(Put(y, r), 2), h + 1, pos + 1, vals, pos + 1, next')
    BY <2>3 DEF Now
  <2>12. Parsed(Put(y, r), vals, pos + 1, next')
    BY <1>9, <2>10, <2>11 DEF Parsed
  <2> QED BY <2>1, <2>4, <2>12
<1>14. CASE ~Is(next, "IDENTIFIER") /\ next \notin UnaryTokens \cup {"NUMBER", "LPAREN"}
  BY <1>10, <1>14, Zenon DEF parse_expression, NoPrefix
<1> QED BY <1>11, <1>12, <1>13, <1>14

\* The step after the next one comes first.
LEMMA GoesOn ==
    ASSUME StackInv, Continue(<<>>), OpAt(Tail(todo), 1) # "end"
    PROVE  todo' = Tail(todo) /\ todo' # <<>> /\ todo'[1] = StepAt(Tail(todo), 1)
<1>1. todo \in Seq(Steps) /\ todo # <<>>
  BY DEF StackInv, Stack
<1>2. Tail(todo) \in Seq(Steps)
  BY <1>1
<1>3. Tail(todo) # <<>> /\ Len(Tail(todo)) >= 1 /\ <<>> \o Tail(todo) = Tail(todo)
  BY <1>2, NotEmpty
<1> QED BY <1>3 DEF Continue, StepAt

\* The loop of parse_expression.
LEMMA InfixParsed ==
    ASSUME StackInv, Sound(vals), Parsed(todo, vals, pos, next), ParseInfix, ~parser_error
    PROVE  vals' = vals /\ Parsed(todo', vals', pos', next')
<1> DEFINE x == todo[1]
           s == Tail(todo)
           p == x.prec
           h == Len(vals)
           q == get_token_precedence(next)
<1>1. x.op = "infix"
  BY DEF ParseInfix, At
<1>2. /\ x \in Steps /\ p \in Nat /\ h \in Nat /\ h >= 1 /\ pos \in Nat /\ s \in Seq(Steps) /\ IsSeq(vals)
      /\ next \in Names /\ OpAt(s, 1) # "end"
  <2>1. x \in Steps /\ h \in Nat /\ h >= 1 /\ OpAt(s, 1) # "end"
    BY <1>1, Under DEF Inner
  <2>2. p \in Nat
    BY <1>1, <2>1, Fields
  <2> QED BY <2>1, <2>2 DEF StackInv, Stack
<1>3. PICK c \in Nat, b \in Nat, d \in Nat, e \in Nat :
              /\ d <= c
              /\ Link(x, StepAt(s, 1), StepAt(s, 2), c, b, d, e, vals)
              /\ Chain(s, d, e, vals)
              /\ Now(x, StepAt(s, 1), c, b, vals, pos, next)
  BY ParsedUnder
<1>4. c = h /\ Covers(vals, b, 1, pos, Above(p)) /\ Covers(vals, b, 1, pos, q)
  BY <1>1, <1>3 DEF Now
<1>5. Operand(x, StepAt(s, 1), StepAt(s, 2), h, b, d, e)
  BY <1>1, <1>3, <1>4 DEF Link
<1>6. Fine(Top) /\ Top.prec \in Nat /\ Top.last \in Nat /\ Top.first \in Nat
  <2>1. h \in 1 .. h
    BY <1>2
  <2>2. Fine(Top)
    BY <2>1 DEF Sound, Top
  <2> QED BY <2>2, Zenon DEF Fine
<1>7. Top.first = b /\ Top.last + 1 = pos /\ Top.prec >= Above(p) /\ Top.prec >= q /\ Top = vals[h]
  BY <1>2, <1>4, <1>6 DEF Covers, Top
<1>19. vals[h].first = b /\ vals[h].last + 1 = pos /\ vals[h].prec >= q /\ vals[h].prec = Top.prec
  BY <1>7
<1>8. Top # NULL
  BY <1>6, NotNull
<1>9. /\ q \in Nat /\ q <= 13
      /\ next \notin {"EQUAL", "LPAREN"} => q <= 11
      /\ q # 0 => next \notin {"UNARY", "GROUP", "ASSIGNMENT"}
      /\ next = "EQUAL" => q = 1
  BY PrecedenceOf
<1>10. Above(p) \in Nat /\ Above(p) >= 1 /\ (p = 1 => Above(p) = 2)
  <2>1. /\ Above(p) \in Nat /\ Above(p) >= 1
        /\ p < 11 => Above(p) = p + 1
    BY <1>2, AboveOf
  <2> QED BY <2>1
<1> DEFINE i == Infix(p)
           w == Put(i, s)
<1>11. i \in Steps /\ i.op = "infix" /\ i.prec = p
  BY <1>2, InnerSteps
<1> HIDE DEF i
<1>12. Chain(w, h, b, vals) /\ StepAt(w, 1) = i /\ w \in Seq(Steps)
  <2>1. Link(i, StepAt(s, 1), StepAt(s, 2), h, b, d, e, vals)
    BY <1>2, <1>5, <1>11 DEF Link, Operand, Inner, Calling, p
  <2>2. Chain(w, h, b, vals) /\ StepAt(w, 1) = i
    BY <1>2, <1>3, <1>4, <1>11, <2>1, ChainPut
  <2> QED BY <2>2 DEF Chain
<1>13. pos + 1 \in Nat /\ h + 1 \in Nat
  BY <1>2
\* The expression ends.
<1>14. CASE ~(p < q)
  <2>1. Continue(<<>>) /\ UNCHANGED tokens /\ vals' = vals
    BY <1>14, Zenon DEF ParseInfix
  <2> DEFINE y == StepAt(s, 1)
  <2>2. todo' = s /\ s # <<>> /\ s[1] = y /\ pos' = pos /\ next' = next
    BY <1>2, <2>1, GoesOn DEF tokens
  <2>3. CASE d = 0
    <3>1. Linked(s)
      BY <1>3, <2>3, ChainLinked
    <3>2. Parsed(s, vals, pos, next)
      BY <1>2, <2>2, <3>1, LinkedParsed
    <3> QED BY <2>1, <2>2, <3>2
  <2>4. CASE d # 0
    <3> DEFINE z == StepAt(s, 2)
    <3>1. /\ d = h /\ e = b
          /\ \/ y.op = "build" /\ y.type # "GROUP" /\ PrecOf(y.type) = p
             \/ y.op = "argument_done" /\ p = ASSIGNMENT
             \/ y.op = "consume" /\ z.op = "build"
      BY <1>5, <2>4 DEF Operand
    <3> HIDE DEF y, z, p, q, x, s, h
    <3>2. Covers(vals, b, 1, pos, 1) /\ h = Len(vals)
      BY <1>4, <1>6, <1>7, <1>10 DEF Covers, Top, h
    <3>3. p = ASSIGNMENT => Covers(vals, b, 1, pos, 2)
      BY <1>4, <1>10 DEF ASSIGNMENT
    <3>4. p >= q
      BY <1>2, <1>9, <1>14
    <3>5. Now(y, z, h, b, vals, pos, next)
      <4>1. CASE y.op = "build" /\ y.type # "GROUP" /\ PrecOf(y.type) = p
        BY <1>4, <3>2, <3>4, <4>1 DEF Now, q
      <4>2. CASE y.op = "argument_done" /\ p = ASSIGNMENT
        BY <3>2, <3>3, <4>2 DEF Now
      <4>3. CASE y.op = "consume" /\ z.op = "build"
        BY <3>2, <4>3 DEF Now
      <4> QED BY <3>1, <4>1, <4>2, <4>3
    <3>6. Parsed(s, vals, pos, next)
      BY <1>2, <1>3, <2>2, <3>1, <3>5 DEF Parsed, z
    <3> QED BY <2>1, <2>2, <3>6
  <2> QED BY <2>3, <2>4
\* An operator.
<1>15. ASSUME NEW ty \in Names, ty \notin {"UNARY", "GROUP"}, PrecOf(ty) = q, p < q, q <= 11, vals' = vals,
              parser_advance, Continue(<<Expression(q), Build(ty, pos), i>>)
       PROVE  Parsed(todo', vals', pos', next')
  <2>1. Expression(q) \in Steps /\ Build(ty, pos) \in Steps /\ Build(ty, pos).type = ty /\ Build(ty, pos).at = pos
    BY <1>2, <1>9, <1>15, InnerSteps, BuildSteps
  <2>2. todo' = Put(Expression(q), Put(Build(ty, pos), w))
    <3>1. todo' = <<Expression(q), Build(ty, pos), i>> \o s
      BY <1>15 DEF Continue
    <3> HIDE DEF s, q
    <3> QED BY <1>2, <1>11, <2>1, <3>1, Put3 DEF w
  <2>3. pos' = pos + 1
    BY <1>15 DEF parser_advance
  <2> HIDE DEF w, q, h, p
  <2>4. Binary(Build(ty, pos), StepAt(w, 1), h + 1, pos + 1, h, b, vals)
    <3>1. LeftOf(vals[h], pos, q)
      BY <1>19 DEF LeftOf
    <3>2. h + 1 >= 2 /\ h = h + 1 - 1
      BY <1>2
    <3>3. StepAt(w, 1).op = "infix" /\ StepAt(w, 1).prec = p
      BY <1>11, <1>12
    <3>4. q <= FACTOR
      BY <1>15 DEF FACTOR
    <3> HIDE DEF i
    <3>5. PrecOf(ty) = q /\ p < q
      BY <1>15
    <3> DEFINE r == Build(ty, pos)
               y == StepAt(w, 1)
    <3> HIDE DEF r, y
    <3>6. r.type = ty /\ r.at = pos /\ y.op = "infix" /\ y.prec = p
      BY <2>1, <3>3 DEF r, y
    <3>7. y.prec < PrecOf(r.type) /\ PrecOf(r.type) <= FACTOR
      BY <3>4, <3>5, <3>6
    <3>8. LeftOf(vals[h], r.at, PrecOf(r.type))
      BY <3>1, <3>5, <3>6
    <3>9. pos + 1 = r.at + 1 /\ b = vals[h].first
      BY <1>19, <3>6
    <3>10. Binary(r, y, h + 1, pos + 1, h, b, vals)
      BY ONLY <1>2, <3>2, <3>6, <3>7, <3>8, <3>9 DEF Binary
    <3> QED BY <3>10 DEF r, y
  <2>5. Parsed(Put(Expression(q), Put(Build(ty, pos), w)), vals, pos + 1, next')
    BY <1>2, <1>9, <1>11, <1>12, <1>13, <1>15, <2>4, OperandParsed DEF h
  <2> QED BY <1>15, <2>2, <2>3, <2>5
<1>16. CASE p < q /\ next \notin {"EQUAL", "LPAREN"}
  <2>1. vals' = vals /\ parser_advance /\ Continue(<<Expression(q), Build(next, pos), i>>)
    BY <1>16, Zenon DEF ParseInfix, RightOperand, i, p, q
  <2>2. next \notin {"UNARY", "GROUP", "ASSIGNMENT"} /\ q <= 11
    BY <1>2, <1>9, <1>16
  <2>3. PrecOf(next) = q
    BY <2>2 DEF PrecOf
  <2> QED BY <1>2, <1>15, <1>16, <2>1, <2>2, <2>3
<1>17. CASE p < q /\ next \in {"EQUAL", "LPAREN"}
  <2>1. Top.type = "IDENTIFIER"
    BY <1>8, <1>17, Zenon DEF ParseInfix
  <2>2. Top.prec = 14
    <3>1. Top.prec = PRIMARY
      BY <1>6, <2>1, Zenon DEF Fine
    <3> QED BY <3>1 DEF PRIMARY
  <2>3. CASE next = "EQUAL"
    <3>1. q = ASSIGNMENT /\ PrecOf("ASSIGNMENT") = ASSIGNMENT /\ "ASSIGNMENT" \in Names
      BY <1>9, <2>3 DEF ASSIGNMENT, PrecOf, Names
    <3>2. vals' = vals /\ parser_advance /\ Continue(<<Expression(ASSIGNMENT), Build("ASSIGNMENT", pos), i>>)
      <4>1. next # "LPAREN"
        BY <2>3
      <4> QED BY <1>8, <1>17, <2>1, <2>3, <4>1, Zenon DEF ParseInfix, i, p
    <3>3. ASSIGNMENT <= 11
      BY DEF ASSIGNMENT
    <3> HIDE DEF q
    <3> QED BY <1>15, <1>17, <3>1, <3>2, <3>3
  <2>4. CASE next = "LPAREN"
    <3> DEFINE g == [op |-> "arguments", at |-> pos]
    <3>1. vals' = vals /\ parser_advance /\ Continue(<<g, i>>)
      <4>1. next # "EQUAL"
        BY <2>4
      <4> QED BY <1>8, <1>17, <2>1, <2>4, <4>1, Zenon DEF ParseInfix, i, p
    <3>2. g \in Steps /\ g.op = "arguments" /\ g.at = pos
      BY <1>2 DEF Steps
    <3> HIDE DEF g
    <3>3. todo' = Put(g, w) /\ pos' = pos + 1
      <4>1. todo' = <<g, i>> \o s
        BY <3>1 DEF Continue
      <4> HIDE DEF s
      <4> QED BY <1>2, <1>11, <3>1, <3>2, <4>1, Put2 DEF parser_advance, w
    <3> HIDE DEF w, h
    <3>4. Placed(vals, h, 0, pos)
      BY <1>19, <2>2 DEF Placed, LeftOf, CALL
    <3>5. Link(g, StepAt(w, 1), StepAt(w, 2), h + 1, pos + 1, h, b, vals)
      <4>1. ArgCount(g) = 0
        BY <3>2 DEF ArgCount
      <4>2. h = h + 1 - 0 - 1 /\ h >= 1
        BY <1>2
      <4>3. Called(g, StepAt(w, 1), h + 1, pos + 1, h, b, vals)
        BY <1>2, <1>11, <1>12, <1>19, <3>2, <3>4, <4>1, <4>2 DEF Called
      <4> QED BY <3>2, <4>3 DEF Link, Inner, Calling
    <3>6. Chain(Put(g, w), h + 1, pos + 1, vals) /\ Put(g, w)[1] = g
      BY <1>2, <1>12, <1>13, <3>2, <3>5, ChainPut
    <3>7. Now(g, StepAt(Put(g, w), 2), h + 1, pos + 1, vals, pos + 1, next')
      BY <1>2, <3>2 DEF Now, h
    <3>8. Parsed(Put(g, w), vals, pos + 1, next')
      BY <1>13, <3>6, <3>7 DEF Parsed
    <3> QED BY <3>1, <3>3, <3>8
  <2>5. vals' = vals
    BY <1>8, <1>17, <2>1, Zenon DEF ParseInfix
  <2> QED BY <1>17, <2>3, <2>4, <2>5
<1>18. p < q => vals' = vals
  BY <1>16, <1>17, <1>8, Zenon DEF ParseInfix
<1> QED BY <1>14, <1>16, <1>17, <1>18

\* parser_consume.
LEMMA ConsumeParsed ==
    ASSUME StackInv, Sound(vals), Parsed(todo, vals, pos, next), parser_consume, ~parser_error
    PROVE  vals' = vals /\ Parsed(todo', vals', pos', next')
<1> DEFINE x == todo[1]
           s == Tail(todo)
           y == StepAt(s, 1)
           z == StepAt(s, 2)
           h == Len(vals)
<1>1. x.op = "consume" /\ vals' = vals /\ parser_advance /\ Continue(<<>>)
  BY Zenon DEF parser_consume, At
<1>2. h \in Nat /\ pos \in Nat /\ OpAt(s, 1) # "end"
  BY <1>1, Under DEF StackInv
<1>3. todo' = s /\ s # <<>> /\ s[1] = y /\ pos' = pos + 1
  BY <1>1, <1>2, GoesOn DEF parser_advance
<1>4. PICK c \in Nat, b \in Nat, d \in Nat, e \in Nat :
              /\ d <= c
              /\ Link(x, y, z, c, b, d, e, vals)
              /\ Chain(s, d, e, vals)
              /\ Now(x, y, c, b, vals, pos, next)
  BY ParsedUnder
<1>5. CASE d = 0
  <2>1. Linked(s) /\ pos + 1 \in Nat
    BY <1>2, <1>4, <1>5, ChainLinked
  <2>2. Parsed(s, vals, pos + 1, next')
    BY <1>2, <1>3, <2>1, LinkedParsed
  <2> QED BY <1>1, <1>3, <2>2
<1>6. CASE d # 0
  <2>1. /\ y.op = "call" \/ (y.op = "build" /\ y.type = "GROUP")
        /\ d = c /\ e = b
    BY <1>1, <1>4, <1>6 DEF Link
  <2> HIDE DEF y, z, x, s
  <2>2. CASE y.op = "call"
    <3>1. c = h + 1 /\ Ended(y, vals, 1, pos)
      BY <1>1, <1>4, <2>2 DEF Now
    <3>2. y \in Steps
      <4>1. s \in Seq(Steps)
        BY <1>4 DEF Chain
      <4> QED BY <1>3, <4>1
    <3>3. Ended(y, vals, 2, pos + 1)
      <4>1. pos + 1 - 2 = pos - 1 /\ pos + 1 + 1 - 2 = pos + 1 - 1
        BY <1>2
      <4> QED BY <1>2, <3>1, <4>1 DEF Ended
    <3>4. Now(y, StepAt(s, 2), h + 1, b, vals, pos + 1, next')
      BY <2>2, <3>3 DEF Now
    <3>5. Parsed(s, vals, pos + 1, next')
      BY <1>3, <1>4, <2>1, <3>1, <3>4 DEF Parsed
    <3> QED BY <1>1, <1>3, <3>5
  <2>3. CASE y.op = "build" /\ y.type = "GROUP"
    <3>1. c = h /\ Covers(vals, b, 1, pos, 1)
      BY <1>1, <1>4, <2>3 DEF Now
    <3>2. Covers(vals, b, 2, pos + 1, 1)
      BY <1>2, <3>1 DEF Covers
    <3>4. Now(y, StepAt(s, 2), h, b, vals, pos + 1, next')
      BY <2>3, <3>2 DEF Now
    <3>5. Parsed(s, vals, pos + 1, next')
      BY <1>3, <1>4, <2>1, <3>1, <3>4 DEF Parsed
    <3> QED BY <1>1, <1>3, <3>5
  <2> QED BY <2>1, <2>2, <2>3
<1> QED BY <1>5, <1>6

\* A node takes the place of its n parts: the loop of the expression goes on.
LEMMA NodeBuilt ==
    ASSUME StackInv, Sound(vals), NEW n \in Nat, n >= 1, n <= Len(vals), NEW r, Fine(r),
           vals' = Append(Popped(n), r), Continue(<<>>), UNCHANGED tokens,
           NEW e \in Nat, Chain(Tail(todo), Len(vals) - n + 1, e, vals),
           OpAt(Tail(todo), 1) # "end", StepAt(Tail(todo), 1).op = "infix",
           r.first = e, r.last = pos - 1, r.prec >= Above(StepAt(Tail(todo), 1).prec),
           r.prec >= get_token_precedence(next)
    PROVE  Sound(vals') /\ Parsed(todo', vals', pos', next')
<1> DEFINE s == Tail(todo)
           h == Len(vals)
           m == h - n + 1
<1>1. /\ h \in Nat /\ IsSeq(Popped(n)) /\ Len(Popped(n)) = h - n
      /\ \A i \in 1 .. h - n : Popped(n)[i] = vals[i]
  BY Lengths DEF StackInv, Popped
<1>2. /\ Len(vals') = m /\ vals'[m] = r
      /\ \A i \in 1 .. h - n : vals'[i] = vals[i]
  <2>1. /\ Len(vals') = Len(Popped(n)) + 1 /\ vals'[Len(Popped(n)) + 1] = r
        /\ \A i \in 1 .. Len(Popped(n)) : vals'[i] = Popped(n)[i]
    <3> DEFINE w == Popped(n)
    <3> HIDE DEF w
    <3>1. IsSeq(w) /\ vals' = Append(w, r)
      BY <1>1 DEF w
    <3>2. /\ Len(vals') = Len(w) + 1 /\ vals'[Len(w) + 1] = r
          /\ \A i \in 1 .. Len(w) : vals'[i] = w[i]
      BY <3>1, Appended
    <3> QED BY <3>2 DEF w
  <2> QED BY <1>1, <2>1
<1>3. m \in Nat /\ m - 1 = h - n
  BY <1>1
<1>4. Sound(vals')
  BY SoundKept, Zenon
<1>5. todo' = s /\ s # <<>> /\ s[1] = StepAt(s, 1) /\ pos' = pos /\ next' = next
  BY GoesOn DEF tokens
<1> HIDE DEF s, m, h
<1>6. Chain(s, m, e, vals')
  <2>1. Chain(s, m, e, vals)
    BY DEF s, m, h
  <2>2. \A i \in 1 .. m - 1 : vals'[i] = vals[i]
    BY <1>2, <1>3
  <2> QED BY <2>1, <2>2, ChainFrame
<1>7. Now(s[1], StepAt(s, 2), m, e, vals', pos, next)
  <2>1. s[1].op = "infix" /\ r.prec >= Above(s[1].prec)
    BY <1>5 DEF s
  <2> QED BY <1>2, <2>1 DEF Now, Covers
<1> QED BY <1>3, <1>4, <1>5, <1>6, <1>7 DEF Parsed

\* BuildNode.
LEMMA BuildParsed ==
    ASSUME StackInv, Sound(vals), Parsed(todo, vals, pos, next), BuildNode
    PROVE  Sound(vals') /\ Parsed(todo', vals', pos', next')
<1> DEFINE x == todo[1]
           s == Tail(todo)
           y == StepAt(s, 1)
           h == Len(vals)
           q == get_token_precedence(next)
<1>1. x.op = "build" /\ Continue(<<>>) /\ UNCHANGED tokens
  BY DEF BuildNode, At
<1>2. /\ x \in Steps /\ x.at \in Nat /\ h \in Nat /\ pos \in Nat \ {0} /\ OpAt(s, 1) # "end"
      /\ x.type \in {"UNARY", "GROUP"} => h >= 1
      /\ x.type \notin {"UNARY", "GROUP"} => h >= 2
  <2>1. /\ x \in Steps /\ h \in Nat /\ OpAt(s, 1) # "end"
        /\ x.type \in {"UNARY", "GROUP"} => h >= 1
        /\ x.type \notin {"UNARY", "GROUP"} => h >= 2
    BY <1>1, Under DEF Inner
  <2>2. x.at \in Nat
    BY <1>1, <2>1, Fields
  <2> QED BY <2>1, <2>2 DEF StackInv
<1>3. PICK c \in Nat, b \in Nat, d \in Nat, e \in Nat :
              /\ d <= c
              /\ Link(x, y, StepAt(s, 2), c, b, d, e, vals)
              /\ Chain(s, d, e, vals)
              /\ Now(x, y, c, b, vals, pos, next)
  BY ParsedUnder
<1>4. /\ c = h
      /\ x.type # "GROUP" => Covers(vals, b, 1, pos, Above(PrecOf(x.type))) /\ PrecOf(x.type) >= q
      /\ x.type = "GROUP" => Covers(vals, b, 2, pos, 1)
  BY <1>1, <1>3 DEF Now
<1>5. Fine(Top) /\ Top.prec \in Nat /\ Top.last \in Nat /\ Top.first \in Nat /\ Top = vals[h] /\ Top # NULL
  <2>1. h \in 1 .. h
    BY <1>2
  <2>2. Fine(Top) /\ Top = vals[h]
    BY <2>1 DEF Sound, Top
  <2> QED BY <2>2, NotNull, Zenon DEF Fine
<1>6. q \in Nat /\ q <= 13
  BY PrecedenceOf
<1>7. y.op = "infix"
  BY <1>1, <1>3 DEF Link, Prefixed, Binary
<1>8. y.prec \in Nat /\ Above(y.prec) \in Nat /\ Above(y.prec) <= 12 /\ (y.prec < 11 => Above(y.prec) = y.prec + 1)
  <2>1. y \in Steps
    <3>1. s \in Seq(Steps)
      BY <1>3 DEF Chain
    <3>2. s # <<>> /\ s[1] = StepAt(s, 1)
      BY <1>1, <1>2, GoesOn
    <3> HIDE DEF s
    <3> QED BY <3>1, <3>2
  <2>2. y.prec \in Nat
    BY <1>7, <2>1, Fields
  <2> QED BY <2>2, AboveOf
<1>9. CASE x.type = "UNARY"
  <2>1. b = x.at + 1 /\ d = h /\ e = x.at
    BY <1>1, <1>3, <1>4, <1>9 DEF Link, Prefixed
  <2>2. PrecOf(x.type) = 12 /\ Above(12) = 12
    BY <1>9 DEF PrecOf, UNARY, Above, FACTOR
  <2>3. Top.first = x.at + 1 /\ Top.last = pos - 1 /\ Top.prec >= 12
    BY <1>4, <1>5, <1>9, <2>1, <2>2 DEF Covers
  <2> DEFINE ok == FitsRight(Top, x.at, UNARY - 1)
             no == Top = NULL
             r == Node("UNARY", UNARY, x.at, Top.last, ok, no)
  <2>4. vals' = Append(Popped(1), r)
    BY <1>5, <1>9 DEF BuildNode
  <2>5. ok
    <3>1. Top.first = x.at + 1 /\ Top.prec > UNARY - 1
      BY <1>5, <2>3 DEF UNARY
    <3>2. Top.tidy
      BY <1>5, Zenon DEF Fine
    <3> QED BY <3>1, <3>2, Zenon DEF FitsRight
  <2>6. UNARY \in Nat /\ "UNARY" # "IDENTIFIER" /\ x.at \in Nat /\ Top.last \in Nat
    BY <1>2, <1>5 DEF UNARY
  <2> HIDE DEF ok, no
  <2>7. Fine(r)
    BY ONLY <2>5, <2>6, FineNode, Zenon
  <2>8. r.prec = 12 /\ r.first = x.at /\ r.last = Top.last
    BY DEF Node, UNARY
  <2> HIDE DEF r
  <2>9. r.prec >= Above(y.prec) /\ r.prec >= q /\ r.last = pos - 1 /\ r.first = e
    BY <1>4, <1>6, <1>8, <1>9, <2>1, <2>2, <2>3, <2>8
  <2>10. 1 \in Nat /\ 1 >= 1 /\ 1 <= h /\ h - 1 + 1 = d
    BY <1>2, <1>9, <2>1
  <2> HIDE DEF h
  <2> QED BY <1>1, <1>2, <1>3, <1>7, <2>4, <2>7, <2>9, <2>10, NodeBuilt DEF h
<1>10. CASE x.type = "GROUP"
  <2>1. b = x.at + 1 /\ d = h /\ e = x.at
    BY <1>1, <1>3, <1>4, <1>10 DEF Link, Prefixed
  <2>3. Top.first = x.at + 1 /\ Top.last = pos - 2 /\ Top.prec >= 1
    BY <1>4, <1>5, <1>10, <2>1 DEF Covers
  <2> DEFINE ok == FitsRight(Top, x.at, NONE) /\ Top.last + 2 = pos
             no == Top.hole
             ty == Top.type
             r == Node(ty, PRIMARY, x.at, pos - 1, ok, no)
  <2>4. vals' = Append(Popped(1), r)
    BY <1>5, <1>10 DEF BuildNode
  <2>5. ok
    <3>1. Top.first = x.at + 1 /\ Top.prec > NONE /\ Top.last + 2 = pos
      BY <1>2, <1>5, <2>3 DEF NONE
    <3>2. Top.tidy
      BY <1>5, Zenon DEF Fine
    <3> QED BY <3>1, <3>2, Zenon DEF FitsRight
  <2>6. PRIMARY \in Nat /\ x.at \in Nat /\ pos - 1 \in Nat
    BY <1>2 DEF PRIMARY
  <2> HIDE DEF ok, no, ty
  <2>7. Fine(r)
    BY ONLY <2>5, <2>6, FineNode, Zenon
  <2>8. r.prec = 14 /\ r.first = x.at /\ r.last = pos - 1
    BY DEF Node, PRIMARY
  <2> HIDE DEF r
  <2>9. r.prec >= Above(y.prec) /\ r.prec >= q /\ r.last = pos - 1 /\ r.first = e
    BY <1>6, <1>8, <2>1, <2>8
  <2>10. 1 \in Nat /\ 1 >= 1 /\ 1 <= h /\ h - 1 + 1 = d
    BY <1>2, <1>10, <2>1
  <2> HIDE DEF h
  <2> QED BY <1>1, <1>2, <1>3, <1>7, <2>4, <2>7, <2>9, <2>10, NodeBuilt DEF h
<1>11. CASE x.type \notin {"UNARY", "GROUP"}
  <2> DEFINE k == PrecOf(x.type)
             left == vals[h - 1]
  <2>1. /\ b = x.at + 1 /\ d = h - 1 /\ e = left.first
        /\ LeftOf(left, x.at, k) /\ y.prec < k /\ k <= 11
    BY <1>1, <1>3, <1>4, <1>11 DEF Link, Binary, FACTOR
  <2>2. k = IF x.type = "ASSIGNMENT" THEN ASSIGNMENT ELSE get_token_precedence(x.type)
    BY <1>11 DEF PrecOf
  <2>12. k \in Nat
    BY <2>2, PrecedenceOf DEF ASSIGNMENT
  <2> HIDE DEF k
  <2>3. Top.first = x.at + 1 /\ Top.last = pos - 1 /\ Top.prec > k /\ k >= q
    <3>1. Top.first = x.at + 1 /\ Top.last = pos - 1 /\ Top.prec >= Above(k) /\ k >= q
      BY <1>4, <1>5, <1>11, <2>1 DEF Covers, k
    <3>2. Above(k) \in Nat /\ (k < 11 => Above(k) = k + 1) /\ (k >= 11 => Above(k) = 12)
      BY <2>12, AboveOf
    <3> QED BY <1>5, <2>1, <2>12, <3>1, <3>2
  <2>13. Fine(left) /\ left # NULL /\ left.first \in Nat
    <3>1. h - 1 \in 1 .. h
      BY <1>2, <1>11
    <3>2. Fine(left)
      BY <3>1 DEF Sound
    <3> QED BY <3>2, NotNull, Zenon DEF Fine
  <2> DEFINE ok == FitsLeft(left, x.at, k) /\ FitsRight(Top, x.at, k)
             no == NULL \in {left, Top}
             ty == IF x.type = "ASSIGNMENT" THEN x.type ELSE "BINARY"
             r == Node(ty, k, left.first, Top.last, ok, no)
  <2>4. vals' = Append(Popped(2), r)
    BY <1>5, <1>11, <2>2, <2>13 DEF BuildNode
  <2>5. ok
    <3>1. left.tidy /\ Top.tidy
      BY <1>5, <2>13, Zenon DEF Fine
    <3> QED BY <2>1, <2>3, <3>1, Zenon DEF FitsRight, FitsLeft, LeftOf
  <2>6. ty # "IDENTIFIER" /\ left.first \in Nat /\ Top.last \in Nat
    BY <1>5, <2>13
  <2> HIDE DEF ok, no, ty
  <2>7. Fine(r)
    BY ONLY <2>5, <2>6, <2>12, FineNode, Zenon
  <2>8. r.prec = k /\ r.first = left.first /\ r.last = Top.last
    BY DEF Node
  <2> HIDE DEF r
  <2>9. r.prec >= Above(y.prec) /\ r.prec >= q /\ r.last = pos - 1 /\ r.first = e
    <3>1. y.prec < 11
      BY <1>8, <2>1, <2>12
    <3> QED BY <1>6, <1>8, <2>1, <2>3, <2>8, <2>12, <3>1
  <2>10. 2 \in Nat /\ 2 >= 1 /\ 2 <= h /\ h - 2 + 1 = d
    BY <1>2, <1>11, <2>1
  <2> HIDE DEF h
  <2> QED BY <1>1, <1>2, <1>3, <1>7, <2>4, <2>7, <2>9, <2>10, NodeBuilt DEF h
<1> QED BY <1>9, <1>10, <1>11

\* The end of a call: its parenthesis and the call itself.
LEMMA CallEndParsed ==
    ASSUME NEW s, NEW d \in Nat, NEW e \in Nat, NEW v, Len(v) \in Nat, Chain(s, d, e, v), StepAt(s, 1).op = "infix",
           NEW at \in Nat, NEW n \in 0 .. MAX_PARAMS_PER_FUNCTION, n \in Nat,
           d = Len(v) - n, d >= 1, Placed(v, d, n, at), e = v[d].first, NEW p \in Nat, NEW t,
           n = 0 => at = p - 1, n # 0 => EndAt(v, d, n, at) = p
    PROVE  Parsed(EndCall(at, n) \o s, v, p, t)
<1> DEFINE x == [op |-> "call", at |-> at, n |-> n]
           k == Consume("RPAREN")
           u == Put(x, s)
           c == Len(v) + 1
<1>1. /\ x \in Steps /\ x.op = "call" /\ x.at = at /\ x.n = n
      /\ k \in Steps /\ k.op = "consume"
  BY TokenNames, ConsumeSteps DEF Steps
<1>2. EndCall(at, n) \o s = Put(k, u)
  <2>1. s \in Seq(Steps)
    BY DEF Chain
  <2> QED BY <1>1, <2>1, Put2 DEF EndCall
<1> HIDE DEF x, k
<1>3. c \in Nat /\ d <= c /\ d = c - n - 1 /\ c >= 1
  OBVIOUS
<1> HIDE DEF c
<1>4. Link(x, StepAt(s, 1), StepAt(s, 2), c, 0, d, e, v)
  <2>1. ArgCount(x) = n
    BY <1>1 DEF ArgCount
  <2>2. Called(x, StepAt(s, 1), c, 0, d, e, v)
    BY <1>1, <1>3, <2>1 DEF Called
  <2> QED BY <1>1, <2>2 DEF Link, Inner, Calling
<1>5. Chain(u, c, 0, v) /\ StepAt(u, 1) = x
  BY <1>1, <1>3, <1>4, ChainPut
<1> HIDE DEF u
<1>6. Link(k, StepAt(u, 1), StepAt(u, 2), c, 0, c, 0, v)
  BY <1>1, <1>3, <1>5 DEF Link, Inner, Calling
<1>7. Chain(Put(k, u), c, 0, v) /\ Put(k, u)[1] = k /\ StepAt(Put(k, u), 2) = x
  BY <1>1, <1>3, <1>5, <1>6, ChainPut
<1>8. Ended(x, v, 1, p)
  <2>1. Len(v) - n = d
    OBVIOUS
  <2>2. CASE n = 0
    BY <1>1, <2>2 DEF Ended
  <2>3. CASE n # 0
    <3>1. EndAt(v, Len(v) - n, n, at) = p + 1 - 1
      BY <2>1, <2>3
    <3> QED BY <1>1, <2>3, <3>1 DEF Ended
  <2> QED BY <2>2, <2>3
<1>9. Now(k, x, c, 0, v, p, t)
  BY <1>1, <1>8 DEF Now, c
<1> QED BY <1>2, <1>3, <1>7, <1>9 DEF Parsed

\* parse_call, inside its parentheses.
LEMMA ArgumentsParsed ==
    ASSUME StackInv, Sound(vals), Parsed(todo, vals, pos, next), parse_call, ~parser_error,
           todo[1].op # "call"
    PROVE  Sound(vals') /\ Parsed(todo', vals', pos', next')
<1> DEFINE x == todo[1]
           s == Tail(todo)
           h == Len(vals)
           n == ArgCount(x)
<1>1. x.op \in {"arguments", "argument", "argument_done"}
  BY Zenon DEF parse_call, At
<1>2. /\ x \in Steps /\ x.at \in Nat /\ n \in Nat /\ h \in Nat /\ pos \in Nat \ {0} /\ s \in Seq(Steps)
      /\ x.op # "arguments" => n = x.n
      /\ x.op = "arguments" => n = 0
      /\ x.op = "argument" => n \in 0 .. MAX_PARAMS_PER_FUNCTION
      /\ x.op = "argument_done" => n \in 0 .. MAX_PARAMS_PER_FUNCTION - 1
      /\ MAX_PARAMS_PER_FUNCTION \in Nat
  <2>1. x \in Steps /\ h \in Nat /\ pos \in Nat \ {0} /\ s \in Seq(Steps)
    BY Under DEF StackInv, Stack
  <2>2. /\ x.op # "arguments" => n = x.n
        /\ x.op = "arguments" => n = 0
    BY DEF ArgCount
  <2>3. /\ x.at \in Nat
        /\ x.op = "argument" => x.n \in 0 .. MAX_PARAMS_PER_FUNCTION
        /\ x.op = "argument_done" => x.n \in 0 .. MAX_PARAMS_PER_FUNCTION - 1
    BY <1>1, <2>1, Fields
  <2> HIDE DEF n, x, s, h
  <2> QED BY <1>1, <2>1, <2>2, <2>3, LimitsAssumption
<1>3. PICK c \in Nat, b \in Nat, d \in Nat, e \in Nat :
              /\ d <= c
              /\ Link(x, StepAt(s, 1), StepAt(s, 2), c, b, d, e, vals)
              /\ Chain(s, d, e, vals)
              /\ Now(x, StepAt(s, 1), c, b, vals, pos, next)
  BY ParsedUnder
<1>4. /\ StepAt(s, 1).op = "infix" /\ d = c - n - 1 /\ d >= 1
      /\ Placed(vals, d, n, x.at) /\ e = vals[d].first
      /\ x.op = "argument_done" => b = EndAt(vals, d, n, x.at) + 1
  BY <1>1, <1>2, <1>3 DEF Link, Called, Calling
<1>5. /\ x.op = "arguments" => c = h + 1 /\ x.at = pos - 1
      /\ x.op = "argument" => c = h + 1 /\ EndAt(vals, h - n, n, x.at) = pos - 1
      /\ x.op = "argument_done" => c = h /\ Covers(vals, b, 1, pos, 2)
  BY <1>2, <1>3 DEF Now
<1>6. x.op \in {"arguments", "argument"} => d = h - n
  BY <1>2, <1>4, <1>5
\* The step for one argument more, at position q.
<1>7. ASSUME NEW m \in 0 .. MAX_PARAMS_PER_FUNCTION, NEW q \in Nat, d = h - m, Placed(vals, d, m, x.at),
             EndAt(vals, d, m, x.at) = q - 1, NEW t
      PROVE  Parsed(Put(Argument(x.at, m), s), vals, q, t)
  <2> DEFINE a == Argument(x.at, m)
  <2>1. a \in Steps /\ a.op = "argument" /\ a.at = x.at /\ a.n = m /\ m \in Nat
    BY <1>2 DEF Steps, Argument
  <2> HIDE DEF a, x, s, h
  <2>2. h + 1 \in Nat /\ d <= h + 1 /\ d = (h + 1) - m - 1 /\ h - m = d
    BY <1>2, <1>7, <2>1
  <2>3. Link(a, StepAt(s, 1), StepAt(s, 2), h + 1, 0, d, e, vals)
    <3>1. ArgCount(a) = m
      BY <2>1 DEF ArgCount
    <3>2. /\ StepAt(s, 1).op = "infix" /\ d >= 1 /\ e = vals[d].first
          /\ d = (h + 1) - ArgCount(a) - 1
          /\ Placed(vals, d, ArgCount(a), a.at) /\ a.op # "argument_done"
      BY <1>4, <1>7, <2>1, <2>2, <3>1, Zenon
    <3>3. Called(a, StepAt(s, 1), h + 1, 0, d, e, vals)
      BY <3>2, Zenon DEF Called
    <3> QED BY <2>1, <3>3 DEF Link, Inner, Calling
  <2>4. Chain(Put(a, s), h + 1, 0, vals) /\ Put(a, s)[1] = a
    BY <1>3, <2>1, <2>2, <2>3, ChainPut
  <2>5. Now(a, StepAt(Put(a, s), 2), h + 1, 0, vals, q, t)
    BY <1>7, <2>1, <2>2 DEF Now, h
  <2> QED BY <2>2, <2>4, <2>5 DEF Parsed, a
<1>8. CASE x.op = "arguments"
  <2>1. vals' = vals /\ pos' = pos /\ next' = next
        /\ Continue(IF next = "RPAREN" THEN EndCall(x.at, 0) ELSE <<Argument(x.at, 0)>>)
    BY <1>8 DEF parse_call, At, tokens
  <2>2. n = 0 /\ 0 \in 0 .. MAX_PARAMS_PER_FUNCTION /\ d = h - 0
    BY <1>2, <1>6, <1>8
  <2>3. Placed(vals, d, 0, x.at)
    BY <1>4, <2>2
  <2>4. CASE next = "RPAREN"
    <3>1. todo' = EndCall(x.at, 0) \o s
      BY <2>1, <2>4 DEF Continue
    <3>2. Parsed(EndCall(x.at, 0) \o s, vals, pos, next)
      <4> HIDE DEF x, s, n
      <4> QED BY <1>2, <1>3, <1>4, <1>5, <1>8, <2>2, <2>3, CallEndParsed
    <3> QED BY <2>1, <3>1, <3>2
  <2>5. CASE next # "RPAREN"
    <3>1. todo' = Put(Argument(x.at, 0), s)
      BY <2>1, <2>5 DEF Continue, Put
    <3>2. EndAt(vals, d, 0, x.at) = pos - 1
      BY <1>5, <1>8 DEF EndAt
    <3>3. Parsed(Put(Argument(x.at, 0), s), vals, pos, next)
      <4> HIDE DEF x, s, n, h
      <4> QED BY <1>2, <1>7, <2>2, <2>3, <3>2
    <3> QED BY <2>1, <3>1, <3>3
  <2> QED BY <2>4, <2>5
<1>9. CASE x.op = "argument"
  <2> DEFINE y == [x EXCEPT !.op = "argument_done"]
  <2>1. /\ vals' = vals /\ pos' = pos /\ next' = next
        /\ ~(x.n >= MAX_PARAMS_PER_FUNCTION) /\ Continue(<<Expression(ASSIGNMENT), y>>)
    BY <1>9, Zenon DEF parse_call, At, tokens
  <2>2. /\ y \in Steps /\ y.op = "argument_done" /\ y.at = x.at /\ y.n = n
        /\ Expression(ASSIGNMENT) \in Steps /\ Expression(ASSIGNMENT).op = "expression"
        /\ Expression(ASSIGNMENT).prec = ASSIGNMENT
    <3>1. x \in [op : {"argument"}, at : Nat, n : 0 .. MAX_PARAMS_PER_FUNCTION]
      BY <1>2, <1>9 DEF Steps
    <3>2. x.n \in 0 .. MAX_PARAMS_PER_FUNCTION - 1 /\ x.n = n
      BY <1>2, <1>9, <2>1
    <3>3. /\ y \in [op : {"argument_done"}, at : Nat, n : 0 .. MAX_PARAMS_PER_FUNCTION - 1]
          /\ y.op = "argument_done" /\ y.at = x.at /\ y.n = n
      <4> HIDE DEF x
      <4> QED BY <3>1, <3>2
    <3>4. y \in Steps
      BY <3>3 DEF Steps
    <3> QED BY <3>3, <3>4, InnerSteps DEF ASSIGNMENT
  <2> HIDE DEF y
  <2> DEFINE f == Expression(ASSIGNMENT)
             u == Put(y, s)
  <2>3. todo' = Put(f, u)
    <3>1. todo' = <<f, y>> \o s
      BY <2>1 DEF Continue
    <3> HIDE DEF s, f
    <3> QED BY <1>2, <2>2, <3>1, Put2 DEF f
  <2> HIDE DEF f
  <2>4. f \in Steps /\ f.op = "expression" /\ f.prec = ASSIGNMENT
    BY <2>2 DEF f
  <2> HIDE DEF x, s, h, n
  <2>5. h + 1 \in Nat /\ d <= h + 1 /\ d = (h + 1) - n - 1 /\ h - n = d /\ h + 1 >= 1
    BY <1>2, <1>6, <1>9
  <2>6. EndAt(vals, d, n, x.at) + 1 = pos /\ pos \in Nat
    BY <1>2, <1>5, <1>9, <2>5
  <2>7. Link(y, StepAt(s, 1), StepAt(s, 2), h + 1, pos, d, e, vals)
    <3>1. ArgCount(y) = n
      BY <2>2 DEF ArgCount
    <3>2. /\ StepAt(s, 1).op = "infix" /\ d >= 1 /\ e = vals[d].first
          /\ d = (h + 1) - ArgCount(y) - 1
          /\ Placed(vals, d, ArgCount(y), y.at) /\ pos = EndAt(vals, d, y.n, y.at) + 1
      BY <1>4, <2>2, <2>5, <2>6, <3>1, Zenon
    <3>3. Called(y, StepAt(s, 1), h + 1, pos, d, e, vals)
      BY <3>2, Zenon DEF Called
    <3> QED BY <2>2, <3>3 DEF Link, Inner, Calling
  <2>8. Chain(u, h + 1, pos, vals) /\ StepAt(u, 1) = y
    BY <1>3, <2>2, <2>5, <2>6, <2>7, ChainPut
  <2> HIDE DEF u
  <2>9. Link(f, StepAt(u, 1), StepAt(u, 2), h + 1, pos, h + 1, pos, vals)
    BY <2>2, <2>4, <2>5, <2>8 DEF Link, Operand, Inner, Calling
  <2>10. Chain(Put(f, u), h + 1, pos, vals) /\ Put(f, u)[1] = f
    BY <2>4, <2>5, <2>6, <2>8, <2>9, ChainPut
  <2>11. Now(f, StepAt(Put(f, u), 2), h + 1, pos, vals, pos, next)
    BY <2>4 DEF Now, h
  <2>12. Parsed(Put(f, u), vals, pos, next)
    BY <2>5, <2>6, <2>10, <2>11 DEF Parsed
  <2> QED BY <2>1, <2>3, <2>12
<1>10. CASE x.op = "argument_done"
  <2>1. Fine(Top) /\ Top = vals[h] /\ Top.last \in Nat /\ Top.prec \in Nat /\ Top # NULL
    <3>1. h \in 1 .. h
      BY <1>2, <1>4, <1>5, <1>10
    <3>2. Fine(Top) /\ Top = vals[h]
      BY <3>1 DEF Sound, Top
    <3> QED BY <3>2, NotNull, Zenon DEF Fine
  <2>2. /\ vals' = vals
        /\ next = "COMMA" => parser_advance /\ Continue(<<Argument(x.at, x.n + 1)>>)
        /\ next # "COMMA" => Continue(EndCall(x.at, x.n + 1)) /\ UNCHANGED tokens
    BY <1>10, <2>1, Zenon DEF parse_call, At
  <2>3. /\ n + 1 \in 0 .. MAX_PARAMS_PER_FUNCTION /\ n + 1 \in Nat /\ n + 1 # 0
        /\ d = h - (n + 1) /\ d + (n + 1) = h /\ x.n = n
    <3>1. c = h /\ d = c - n - 1 /\ x.n = n /\ n \in 0 .. MAX_PARAMS_PER_FUNCTION - 1
      BY <1>2, <1>4, <1>5, <1>10
    <3> HIDE DEF n, h, x
    <3> QED BY <1>2, <3>1
  <2>4. Top.first = EndAt(vals, d, n, x.at) + 1 /\ Top.last = pos - 1 /\ Top.prec >= 2
    BY <1>4, <1>5, <1>10, <2>1 DEF Covers
  <2>5. EndAt(vals, d, n + 1, x.at) = pos
    <3>1. EndAt(vals, d, n + 1, x.at) = vals[d + (n + 1)].last + 1
      BY <2>3 DEF EndAt
    <3> HIDE DEF n
    <3> QED BY <1>2, <2>1, <2>3, <2>4, <3>1
  <2> HIDE DEF n, x, s, h
  <2>6. Placed(vals, d, n + 1, x.at)
    <3>1. ASSUME NEW i \in 1 .. n + 1
          PROVE  RightOf(vals[d + i], EndAt(vals, d, i - 1, x.at), ASSIGNMENT)
      <4>1. CASE i = n + 1
        <5>1. i - 1 = n /\ vals[d + i] = Top
          BY <1>2, <2>1, <2>3, <4>1
        <5> QED BY <2>1, <2>4, <5>1 DEF RightOf, ASSIGNMENT
      <4>2. CASE i # n + 1
        <5>1. i \in 1 .. n
          BY <1>2, <4>2
        <5> QED BY <1>4, <5>1, Zenon DEF Placed
      <4> QED BY <4>1, <4>2
    <3> QED BY <1>4, <3>1, Zenon DEF Placed
  <2>7. CASE next = "COMMA"
    <3>1. todo' = Put(Argument(x.at, n + 1), s) /\ pos' = pos + 1
      BY <2>2, <2>3, <2>7 DEF Continue, Put, parser_advance, s
    <3>2. pos + 1 \in Nat /\ EndAt(vals, d, n + 1, x.at) = (pos + 1) - 1
      BY <1>2, <2>5
    <3>3. Parsed(Put(Argument(x.at, n + 1), s), vals, pos + 1, next')
      BY <1>7, <2>3, <2>6, <3>2
    <3> QED BY <2>2, <3>1, <3>3
  <2>8. CASE next # "COMMA"
    <3>1. todo' = EndCall(x.at, n + 1) \o s /\ pos' = pos /\ next' = next
      BY <2>2, <2>3, <2>8 DEF Continue, tokens, s
    <3>2. Parsed(EndCall(x.at, n + 1) \o s, vals, pos, next)
      BY <1>2, <1>3, <1>4, <2>3, <2>5, <2>6, CallEndParsed DEF h
    <3> QED BY <2>2, <3>1, <3>2
  <2> QED BY <2>7, <2>8
<1> QED BY <1>1, <1>8, <1>9, <1>10

\* parse_call, the call itself.
LEMMA CallParsed ==
    ASSUME StackInv, Sound(vals), Parsed(todo, vals, pos, next), parse_call,
           todo[1].op = "call"
    PROVE  Sound(vals') /\ Parsed(todo', vals', pos', next')
<1> DEFINE x == todo[1]
           s == Tail(todo)
           y == StepAt(s, 1)
           h == Len(vals)
           n == x.n
           g == h - n
<1>1. Continue(<<>>) /\ UNCHANGED tokens
  BY DEF parse_call, At
<1>2. /\ x \in Steps /\ x.at \in Nat /\ n \in Nat /\ h \in Nat /\ pos \in Nat \ {0} /\ s \in Seq(Steps)
      /\ OpAt(s, 1) # "end" /\ h >= n + 1
  <2>1. x \in Steps /\ h \in Nat /\ pos \in Nat \ {0} /\ s \in Seq(Steps) /\ OpAt(s, 1) # "end" /\ h >= n + 1
    BY Under DEF StackInv, Stack, Inner
  <2>2. x.at \in Nat /\ x.n \in 0 .. MAX_PARAMS_PER_FUNCTION
    BY <2>1, Fields
  <2> QED BY <2>1, <2>2
<1>3. PICK c \in Nat, b \in Nat, d \in Nat, e \in Nat :
              /\ d <= c
              /\ Link(x, y, StepAt(s, 2), c, b, d, e, vals)
              /\ Chain(s, d, e, vals)
              /\ Now(x, y, c, b, vals, pos, next)
  BY ParsedUnder
<1>4. c = h + 1 /\ Ended(x, vals, 2, pos)
  BY <1>3 DEF Now
<1>5. /\ y.op = "infix" /\ d = c - n - 1 /\ d >= 1
      /\ Placed(vals, d, n, x.at) /\ e = vals[d].first
  <2>1. Called(x, y, c, b, d, e, vals) /\ ArgCount(x) = n
    BY <1>3 DEF Link, Calling, ArgCount
  <2> QED BY <2>1 DEF Called
<1>6. d = g /\ g \in Nat /\ g \in 1 .. h
  BY <1>2, <1>4, <1>5
<1>7. /\ y.prec \in Nat /\ Above(y.prec) \in Nat /\ Above(y.prec) <= 12
      /\ get_token_precedence(next) \in Nat /\ get_token_precedence(next) <= 13
  <2>1. y \in Steps
    <3>2. s # <<>> /\ s[1] = StepAt(s, 1)
      BY <1>1, <1>2, GoesOn
    <3> HIDE DEF s
    <3> QED BY <1>2, <3>2
  <2>2. y.prec \in Nat
    BY <1>5, <2>1, Fields
  <2> QED BY <2>2, AboveOf, PrecedenceOf
<1> DEFINE callee == vals[g]
           arg == [i \in 1 .. n |-> vals[g + i]]
           ends == <<x.at>> \o [i \in 1 .. n |-> arg[i].last + 1]
           ok == /\ FitsLeft(callee, x.at, CALL)
                 /\ \A i \in 1 .. n : FitsRight(arg[i], ends[i], ASSIGNMENT)
                 /\ IF n = 0 THEN x.at = pos - 2 ELSE ends[n + 1] = pos - 1
           no == \E i \in 1 .. n : arg[i].hole
           r == Node("CALL", CALL, callee.first, pos - 1, ok, no)
<1>8. vals' = Append(Popped(n + 1), r)
  BY DEF parse_call, At
<1>9. \A i \in 1 .. n : arg[i] = vals[g + i]
  OBVIOUS
<1>10. \A i \in 0 .. n : ends[i + 1] = EndAt(vals, g, i, x.at)
  <2> DEFINE last == [i \in 1 .. n |-> arg[i].last + 1]
  <2>1. last \in Seq({last[i] : i \in 1 .. n}) /\ Len(last) = n
    <3>1. last = [i \in 1 .. n |-> last[i]]
      OBVIOUS
    <3> HIDE DEF last, n
    <3> DEFINE all == {last[i] : i \in 1 .. n}
    <3>2. last \in [1 .. n -> all]
      BY <3>1
    <3> HIDE DEF all
    <3>3. last \in Seq(all) /\ Len(last) = n
      BY <1>2, <3>2
    <3> QED BY <3>3 DEF all
  <2>2. \A i \in 1 .. n : last[i] = vals[g + i].last + 1
    BY <1>9
  <2> HIDE DEF last
  <2>3. ends = <<x.at>> \o last
    BY DEF last
  <2> HIDE DEF ends, n, x, g
  <2>4. ends[1] = x.at /\ \A i \in 1 .. n : ends[i + 1] = last[i]
    BY <1>2, <2>1, <2>3
  <2> QED BY <1>2, <2>2, <2>4 DEF EndAt
<1> HIDE DEF arg, ends, g, n, x, h
<1>11. ok
  <2>1. Fine(callee) /\ \A i \in 1 .. n : Fine(vals[g + i])
    <3>1. \A i \in 1 .. n : g + i \in 1 .. h
      BY <1>2, <1>6 DEF g
    <3> QED BY <1>6, <3>1 DEF Sound, h
  <2>2. FitsLeft(callee, x.at, CALL)
    BY <1>5, <1>6, <2>1, Zenon DEF Placed, LeftOf, FitsLeft, Fine
  <2>3. ASSUME NEW i \in 1 .. n PROVE FitsRight(arg[i], ends[i], ASSIGNMENT)
    <3>1. i - 1 \in 0 .. n /\ (i - 1) + 1 = i
      BY <1>2
    <3>2. ends[i] = EndAt(vals, g, i - 1, x.at)
      BY <1>10, <3>1
    <3>3. RightOf(vals[g + i], EndAt(vals, g, i - 1, x.at), ASSIGNMENT)
      BY <1>5, <1>6, Zenon DEF Placed
    <3>4. arg[i] = vals[g + i] /\ vals[g + i].tidy
      BY <1>9, <2>1, Zenon DEF Fine
    <3> QED BY <3>2, <3>3, <3>4, Zenon DEF RightOf, FitsRight
  <2>4. n = 0 => x.at = pos - 2
    BY <1>4 DEF Ended, n
  <2>5. n # 0 => ends[n + 1] = pos - 1
    <3>1. n \in 0 .. n
      BY <1>2
    <3>2. n # 0 => EndAt(vals, g, n, x.at) = pos + 1 - 2
      BY <1>4 DEF Ended, n, g, h
    <3> QED BY <1>2, <1>10, <3>1, <3>2
  <2> QED BY <2>2, <2>3, <2>4, <2>5
<1>12. CALL \in Nat /\ callee.first \in Nat /\ pos - 1 \in Nat
  BY <1>2, <1>6 DEF Sound, Fine, CALL, h
<1> HIDE DEF ok, no
<1>13. Fine(r)
  <2> HIDE DEF callee
  <2> QED BY <1>11, <1>12, FineNode
<1>14. r.prec = 13 /\ r.first = callee.first /\ r.last = pos - 1
  BY DEF Node, CALL
<1> HIDE DEF r
<1>15. r.first = e /\ r.prec >= Above(y.prec) /\ r.prec >= get_token_precedence(next)
  BY <1>5, <1>6, <1>7, <1>14
<1>16. n + 1 \in Nat /\ n + 1 >= 1 /\ n + 1 <= h /\ h - (n + 1) + 1 = d
  BY <1>2, <1>6 DEF g
<1> QED BY <1>1, <1>2, <1>3, <1>5, <1>8, <1>13, <1>14, <1>15, <1>16, NodeBuilt DEF h

\* Every step keeps the values sound and the chain linked.
LEMMA PrecStep == StackInv /\ PanicInv /\ PrecInv /\ [Next]_vars => PrecInv'
<1> SUFFICES ASSUME StackInv, PanicInv, PrecInv, [Next]_vars PROVE PrecInv'
  OBVIOUS
<1>1. CASE UNCHANGED vars
  <2>1. /\ errors' = errors /\ vals' = vals /\ outcome' = outcome /\ todo' = todo
        /\ pos' = pos /\ next' = next
    BY <1>1 DEF vars, tokens
  <2> QED BY <2>1, Zenon DEF PrecInv
<1>2. CASE Next
  <2>1. (errors => errors') /\ (panic_mode' => errors')
    BY <1>2, Reports, ErrorsGrow, Zenon DEF PanicInv
  <2>2. parser_error => errors'
    BY <2>1, Zenon DEF parser_error
  <2>3. StackInv'
    BY StackStep
  <2>4. todo' \in Seq(Steps) /\ todo' # <<>> /\ pos' \in Nat /\ Len(vals') \in Nat
    <3>1. todo' \in Seq(Steps) /\ todo' # <<>> /\ pos' \in Nat /\ IsSeq(vals')
      BY <2>3 DEF StackInv, Stack
    <3>2. PICK S : vals' \in Seq(S)
      BY <3>1 DEF IsSeq
    <3> QED BY <3>1, <3>2
  <2>5. ASSUME ~errors' PROVE Sound(vals') /\ (outcome' = "parsing" => Parsed(todo', vals', pos', next'))
    <3>1. ~errors /\ ~panic_mode /\ ~parser_error /\ Sound(vals)
      BY <2>1, <2>2, <2>5, Zenon DEF PanicInv, PrecInv
    <3>2. outcome = "parsing"
      BY <1>2, Zenon DEF Next, At, parser_consume, parser_synchronize, parse_expression, BuildNode, parse_call,
                         parse_statement, OptionalPart, EndStatement, Typed, parse_block, parse_function,
                         ParseInfix, parser_parse
    <3>3. Parsed(todo, vals, pos, next)
      BY <3>1, <3>2, Zenon DEF PrecInv
    <3>4. CASE parser_consume
      BY <3>1, <3>3, <3>4, ConsumeParsed, Zenon
    <3>5. CASE parse_expression
      BY <3>1, <3>3, <3>5, ExpressionParsed, Zenon
    <3>6. CASE ParseInfix
      BY <3>1, <3>3, <3>6, InfixParsed, Zenon
    <3>7. CASE BuildNode
      BY <3>1, <3>3, <3>7, BuildParsed, Zenon
    <3>8. CASE parse_call
      BY <3>1, <3>3, <3>8, ArgumentsParsed, CallParsed, Zenon
    <3>9. CASE \/ parse_statement \/ OptionalPart \/ EndStatement \/ Typed \/ parse_block \/ parse_function
               \/ parser_parse \/ parser_synchronize
      <4>1. Sound(vals')
        BY <3>1, <3>9, SoundStep, Zenon
      <4>2. Len(vals) >= 1 => Top # NULL
        <5> SUFFICES ASSUME Len(vals) >= 1 PROVE Top # NULL
          OBVIOUS
        <5>1. Len(vals) \in 1 .. Len(vals)
          BY Under
        <5>2. Fine(Top)
          BY <3>1, <5>1, Zenon DEF Sound, Top
        <5> QED BY <5>2, NotNull, Zenon
      <4>3. ASSUME outcome' = "parsing" PROVE Parsed(todo', vals', pos', next')
        <5>1. Linked(todo')
          BY <2>4, <3>1, <3>3, <3>9, <4>2, <4>3, PlainStep, Zenon
        <5> QED BY <2>4, <5>1, LinkedParsed, Zenon
      <4> QED BY <4>1, <4>3, Zenon
    <3> QED BY <1>2, <3>4, <3>5, <3>6, <3>7, <3>8, <3>9, Zenon DEF Next
  <2> QED BY <2>5, Zenon DEF PrecInv
<1> QED BY <1>1, <1>2

\* At the start there is nothing but the step of parser_parse.
LEMMA PrecInit == Init => PrecInv
<1> SUFFICES ASSUME Init PROVE PrecInv
  OBVIOUS
<1>1. Len(vals) = 0 /\ pos \in Nat /\ todo = <<[op |-> "unit", n |-> 0]>> /\ todo # <<>>
  BY DEF Init
<1>2. Sound(vals)
  BY <1>1 DEF Sound
<1>3. Linked(todo)
  <2>1. [op |-> "unit", n |-> 0] \in Steps
    BY LimitsAssumption DEF Steps
  <2>2. todo \in Seq(Steps) /\ Len(todo) = 1 /\ todo[1].op = "unit"
    BY <1>1, <2>1
  <2>3. PlainLink(todo[1], StepAt(todo, 1 + 1), StepAt(todo, 1 + 2))
    BY <2>2 DEF PlainLink, StepAt, Inner
  <2> QED BY <2>2, <2>3 DEF Linked
<1>4. Parsed(todo, vals, pos, next)
  BY <1>1, <1>3, LinkedParsed
<1> QED BY <1>2, <1>4 DEF PrecInv

\* ---- theorems ----

\* The inductive invariant.
Inv == StackInv /\ PanicInv /\ HoleInv /\ PrecInv

\* The invariant holds at the start.
LEMMA InvInit == Init => Inv
<1> SUFFICES ASSUME Init PROVE Inv
  OBVIOUS
<1>1. StackInv
  BY StackInit
<1>2. PanicInv
  BY Zenon DEF Init, PanicInv
<1>3. HoleInv
  <2>1. Len(vals) = 0
    BY DEF Init
  <2>2. Whole(vals)
    BY <2>1 DEF Whole
  <2>3. outcome \notin {"NULL", "crashed"}
    BY DEF Init
  <2> QED BY <2>2, <2>3, Zenon DEF HoleInv
<1> QED BY <1>1, <1>2, <1>3, PrecInit DEF Inv

\* Every step preserves it.
LEMMA InvStep == Inv /\ [Next]_vars => Inv'
BY StackStep, PanicStep, HoleStep, PrecStep, Zenon DEF Inv

\* It always holds.
LEMMA InvAlways == Spec => []Inv
BY InvInit, InvStep, PTL DEF Spec

\* Every statement and every declaration starts recovered, whatever the text:
\* outside panic mode and outside expressions.  The loop of parse_block, and
\* parser_error's reports, rest on it.
THEOREM RecoveredBeforeStatements == Spec => []StatementsStartClean
<1>1. Inv => StatementsStartClean
  <2> SUFFICES ASSUME Inv, outcome = "parsing", todo[1].op \in {"statement", "unit", "declared"}
               PROVE  ~panic_mode /\ expr_depth = 0
    BY Zenon DEF StatementsStartClean
  <2>1. todo[1].op \notin Recovering
    BY DEF Recovering, Inner
  <2>2. ~panic_mode
    BY <2>1, Zenon DEF Inv, PanicInv
  <2>3. expr_depth = 0
    BY Under DEF Inv, Makers
  <2> QED BY <2>2, <2>3, Zenon
<1> QED BY <1>1, InvAlways, PTL

\* The depth of expressions and the arrays of statements, arguments and
\* declarations keep their limits, whatever the text and the limits.
THEOREM LimitsHold == Spec => []LimitsKept
<1>1. Inv => LimitsKept
  <2> SUFFICES ASSUME StackInv PROVE LimitsKept
    BY DEF Inv
  <2>1. todo \in Seq(Steps)
    BY DEF StackInv, Stack
  <2>2. ASSUME NEW i \in DOMAIN todo
        PROVE  /\ todo[i].op \in {"statements", "statement_done"} => todo[i].n <= MAX_BLOCK_STATEMENTS
               /\ todo[i].op = "statement_done" => todo[i].n < MAX_BLOCK_STATEMENTS
               /\ todo[i].op \in {"argument", "call"} => todo[i].n <= MAX_PARAMS_PER_FUNCTION
               /\ todo[i].op \in {"unit", "declared"} => todo[i].n <= MAX_FUNCTION_COUNT
    <3>1. todo[i] \in Steps
      BY <2>1
    <3> DEFINE x == todo[i]
    <3>2. /\ x.op \in {"argument", "call"} => x.n \in 0 .. MAX_PARAMS_PER_FUNCTION
          /\ x.op = "statements" => x.n \in 0 .. MAX_BLOCK_STATEMENTS
          /\ x.op = "statement_done" => x.n \in 0 .. MAX_BLOCK_STATEMENTS - 1
          /\ x.op \in {"unit", "declared"} => x.n \in 0 .. MAX_FUNCTION_COUNT
      BY <3>1, Fields DEF Bottom
    <3> HIDE DEF x
    <3>3. /\ x.op \in {"statements", "statement_done"} => x.n <= MAX_BLOCK_STATEMENTS
          /\ x.op = "statement_done" => x.n < MAX_BLOCK_STATEMENTS
          /\ x.op \in {"argument", "call"} => x.n <= MAX_PARAMS_PER_FUNCTION
          /\ x.op \in {"unit", "declared"} => x.n <= MAX_FUNCTION_COUNT
      BY <3>2, LimitsAssumption
    <3> QED BY <3>3 DEF x
  <2>3. expr_depth \in 0 .. MAX_EXPRESSION_DEPTH /\ (outcome = "unit" => expr_depth = 0 /\ vals = <<>>)
    BY DEF StackInv
  <2> QED BY <2>2, <2>3 DEF LimitsKept
<1> QED BY <1>1, InvAlways, PTL

\* A missing operand, condition or tree, and a NULL that is dereferenced, are
\* always preceded by a recorded error.
THEOREM HolesAreReported == Spec => []HolesReported
<1>1. Inv => HolesReported
  <2> SUFFICES ASSUME Inv, ~errors
               PROVE  outcome \notin {"NULL", "crashed"} /\ ~\E i \in DOMAIN vals : vals[i].hole
    BY Zenon DEF HolesReported
  <2>1. Whole(vals) /\ outcome \notin {"NULL", "crashed"}
    BY Zenon DEF Inv, HoleInv
  <2>2. DOMAIN vals = 1 .. Len(vals)
    <3>1. PICK S : vals \in Seq(S)
      BY DEF Inv, StackInv, IsSeq
    <3> QED BY <3>1
  <2> QED BY <2>1, <2>2, Zenon DEF Whole
<1> QED BY <1>1, InvAlways, PTL

\* Whatever the text and the limits, every node of a text without an error is
\* the tree its operators ask for: parse_expression, parse_binary, parse_unary,
\* parse_grouping, parse_assignment and parse_call put their parts together in
\* the order of the text and by the precedences of lexer_tokens.def.
THEOREM PrecedenceHolds == Spec => []PrecedenceRespected
<1>1. Inv => PrecedenceRespected
  <2> SUFFICES ASSUME Inv, ~errors, NEW i \in DOMAIN vals PROVE vals[i].tidy
    BY Zenon DEF PrecedenceRespected
  <2>1. Sound(vals)
    BY Zenon DEF Inv, PrecInv
  <2>2. DOMAIN vals = 1 .. Len(vals)
    <3>1. PICK S : vals \in Seq(S)
      BY DEF Inv, StackInv, IsSeq
    <3> QED BY <3>1
  <2> QED BY <2>1, <2>2, Zenon DEF Sound, Fine
<1> QED BY <1>1, InvAlways, PTL

==============================================================================
