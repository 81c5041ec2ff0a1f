------------------------------- MODULE Semantic -------------------------------
(***************************************************************************)
(* The analysis of one function body (srcs/semantic/semantic.c): names are *)
(* resolved in nested scopes, calls are checked, and every expression node *)
(* gets the type the IR generator will read from it.                       *)
(*                                                                         *)
(* An AST node is a record with its type, its value_type and the sequence  *)
(* kids of its children: operands, arguments, initializer, condition and   *)
(* branches, statements.  A new node has value_type VOID, the zero of the  *)
(* fresh arena.  Widths are scaled down: a char has 2 bits, an int16 3, an *)
(* int 4 and a machine word 6.                                             *)
(***************************************************************************)
EXTENDS Integers, Sequences, FiniteSets, FiniteSetsExt, Bitwise

CONSTANTS SCOPE_HASH_SIZE,   \* variables one scope can hold
          Functions          \* the visible functions: name -> [params, return_type]

ArithOps == {"ADD", "SUB", "MUL", "DIV"}
CmpOps == {"EQUAL", "NOT_EQUAL", "LESS", "LESS_EQUAL", "GREATER_EQUAL"}
BitOps == {"BIT_AND", "BIT_OR", "BIT_XOR", "LSHIFT", "RSHIFT"}
BinaryOps == ArithOps \cup CmpOps \cup BitOps \cup {"GREATER"}
UnaryOps == {"NEGATE", "NOT", "BIT_NOT"}

\* types.def.
type_size(t) == CASE t = "VOID" -> 0
                  [] t \in {"CHAR", "BOOL", "INT8", "UINT8"} -> 1
                  [] t \in {"INT16", "UINT16"} -> 2
                  [] t \in {"INT", "INT32", "UINT32"} -> 4
                  [] t \in {"LONG", "INT64", "UINT64"} -> 8

type_is_unsigned(t) == t \in {"BOOL", "UINT8", "UINT16", "UINT32", "UINT64"}

\* 2^bits of a value of size bytes.
Width(size) == CASE size = 1 -> 4
                 [] size = 2 -> 8
                 [] size = 4 -> 16
                 [] OTHER -> 64

\* What emit_store_sized and emit_load_signext move: the whole word when the
\* size is not 1 or 4.
Modulus(size) == Width(IF size \in {1, 4} THEN size ELSE 8)

\* The low part of v, sign-extended.
SignExtend(v, m) == LET low == v % m IN IF low < m \div 2 THEN low ELSE low - m

\* The ranges of check_type_compatibility, CHAR_MIN .. CHAR_MAX and so on: those
\* of the signed types, for an unsigned type of the size too.
Fits(v, t) == SignExtend(v, Width(type_size(t))) = v

\* The operators on words.  Shift counts are masked, as the processor does.
Apply(op, v) ==
    LET Bool(b) == IF b THEN 1 ELSE 0
        Word(n) == n % Modulus(8)
        Signed(n) == SignExtend(n, Modulus(8))
        Abs(n) == IF n < 0 THEN -n ELSE n
        count == v[2] % 8
    IN
    CASE op = "ADD" -> v[1] + v[2]
      [] op = "SUB" -> v[1] - v[2]
      [] op = "MUL" -> v[1] * v[2]
      [] op = "DIV" -> LET q == Abs(v[1]) \div Abs(v[2]) IN
                       IF (v[1] < 0) = (v[2] < 0) THEN q ELSE -q
      [] op = "LSHIFT" -> v[1] * 2^count
      [] op = "RSHIFT" -> v[1] \div 2^count
      [] op = "URSHIFT" -> Word(v[1]) \div 2^count
      [] op = "BIT_AND" -> Signed(Word(v[1]) & Word(v[2]))
      [] op = "BIT_OR" -> Signed(Word(v[1]) | Word(v[2]))
      [] op = "BIT_XOR" -> Signed(Word(v[1]) ^^ Word(v[2]))
      [] op = "EQUAL" -> Bool(v[1] = v[2])
      [] op = "NOT_EQUAL" -> Bool(v[1] # v[2])
      [] op = "LESS" -> Bool(v[1] < v[2])
      [] op = "LESS_EQUAL" -> Bool(v[1] <= v[2])
      [] op = "GREATER" -> Bool(v[1] > v[2])
      [] op = "GREATER_EQUAL" -> Bool(v[1] >= v[2])
      [] op = "NEGATE" -> -v[1]
      [] op = "NOT" -> Bool(v[1] = 0)
      [] op = "BIT_NOT" -> -v[1] - 1

\* evaluate_const_expression: whether a node is constant, and its value.
RECURSIVE IsConst(_)
RECURSIVE evaluate_const_expression(_)
IsConst(e) ==
    \/ e.type = "NUMBER"
    \/ /\ e.type \in ArithOps \cup BitOps \cup {"NEGATE", "BIT_NOT"}
       /\ \A i \in DOMAIN e.kids : IsConst(e.kids[i])
       /\ e.type = "DIV" => evaluate_const_expression(e.kids[2]) # 0

evaluate_const_expression(e) ==
    IF e.type = "NUMBER" THEN e.value
    ELSE Apply(e.type, [i \in DOMAIN e.kids |-> evaluate_const_expression(e.kids[i])])

\* Wrong: the sizes are compared the other way round.
Warned_Widening(dest, e) ==
    /\ type_size(dest) > type_size(e.value_type)
    /\ ~(IsConst(e) /\ Fits(evaluate_const_expression(e), dest))

\* check_type_compatibility: an error only where VOID is involved, a warning
\* where a value may be cut off.
Warned(dest, e) ==
    /\ type_size(dest) < type_size(e.value_type)
    /\ ~(IsConst(e) /\ Fits(evaluate_const_expression(e), dest))

Compatible(dest, type) == dest = type \/ "VOID" \notin {dest, type}

check_type_compatibility(dest, e) ==
    [ok |-> Compatible(dest, e.value_type),
     warn |-> Compatible(dest, e.value_type) /\ Warned(dest, e)]

\* ---- scopes: sequences of functions from names to types, innermost last ----

\* The type of the innermost declaration, as a set of at most one element.
semantic_scope_lookup(scopes, n) ==
    LET S == {i \in DOMAIN scopes : n \in DOMAIN scopes[i]} IN
    IF S = {} THEN {} ELSE {scopes[Max(S)][n]}

semantic_scope_enter(scopes) == Append(scopes, <<>>)

\* Wrong: the names of an ended block stay known.
semantic_scope_exit_Stays(scopes) == scopes

semantic_scope_exit(scopes) == SubSeq(scopes, 1, Len(scopes) - 1)

CanDeclare(scopes, n) ==
    LET scope == scopes[Len(scopes)] IN
    n \notin DOMAIN scope /\ Cardinality(DOMAIN scope) < SCOPE_HASH_SIZE

semantic_scope_declare(scopes, n, t) ==
    IF CanDeclare(scopes, n)
    THEN [scopes EXCEPT ![Len(scopes)] = [m \in DOMAIN @ \cup {n} |-> IF m = n THEN t ELSE @[m]]]
    ELSE scopes

\* ---- expressions ----

\* The larger of the two operand types of an arithmetic operator.
Wider(kids) ==
    IF type_size(kids[1].value_type) >= type_size(kids[2].value_type)
    THEN kids[1].value_type ELSE kids[2].value_type

Promoted(t) == IF type_size(t) < type_size("INT") THEN "INT" ELSE t

\* analyze_expression: the annotated node, whether no error was recorded, and
\* whether a warning was.  GREATER, and an assignment used as a value, fall to
\* the default case: they are accepted and nothing below them is visited.
RECURSIVE analyze_expression(_, _)
analyze_expression(scopes, e) ==
    LET sub == [i \in DOMAIN e.kids |-> analyze_expression(scopes, e.kids[i])]
        kids == [i \in DOMAIN sub |-> sub[i].node]
        ok == \A i \in DOMAIN sub : sub[i].ok
        warn == \E i \in DOMAIN sub : sub[i].warn
        Typed(t) == [node |-> [e EXCEPT !.kids = kids, !.value_type = t], ok |-> ok, warn |-> warn]
        Same(b) == [node |-> e, ok |-> b, warn |-> FALSE]
    IN
    CASE e.type = "NUMBER" -> Typed(IF Fits(e.value, "INT") THEN "INT" ELSE "INT64")
      [] e.type = "IDENTIFIER" ->
            LET var == semantic_scope_lookup(scopes, e.name) IN
            IF var = {} THEN Same(FALSE) ELSE Typed(CHOOSE t \in var : TRUE)
      [] e.type = "CALL" ->
            IF e.name \notin DOMAIN Functions THEN Same(FALSE)
            ELSE LET func == Functions[e.name] IN
                 IF Len(e.kids) # Len(func.params) THEN Same(FALSE)
                 ELSE LET conv == [i \in DOMAIN kids |->
                                     check_type_compatibility(func.params[i], kids[i])]
                          r == Typed(func.return_type)
                      IN  [r EXCEPT !.ok = @ /\ \A i \in DOMAIN conv : conv[i].ok,
                                    !.warn = @ \/ \E i \in DOMAIN conv : conv[i].warn]
      [] e.type \in ArithOps -> IF ok THEN Typed(Wider(kids)) ELSE Same(FALSE)
      [] e.type \in CmpOps \cup {"NOT"} -> Typed("INT64")
      [] e.type \in {"NEGATE", "BIT_NOT"} -> IF ok THEN Typed(kids[1].value_type) ELSE Same(FALSE)
      [] e.type \in BitOps -> IF ok THEN Typed(Promoted(kids[1].value_type)) ELSE Same(FALSE)
      [] OTHER -> Same(TRUE)

\* ---- statements ----

\* A value of statement s is converted to type t (initializer, assignment,
\* return): its expression is analyzed, then compared with t.
AnalyzeValue(scopes, e, t) ==
    LET Checked(r, conv) == [r EXCEPT !.ok = conv.ok, !.warn = @ \/ conv.warn]
        Compared(r) == IF r.ok THEN Checked(r, check_type_compatibility(t, r.node)) ELSE r
    IN  Compared(analyze_expression(scopes, e))

\* analyze_statement in a function that returns ret: the scopes and the node
\* after it, whether no error was recorded, whether a warning was.
RECURSIVE analyze_statement(_, _, _)

\* One statement after the other, from what start has found.
AnalyzeAll(start, kids, ret) ==
    LET Then(r, s) == [scopes |-> s.scopes, kids |-> Append(r.kids, s.node),
                       ok |-> r.ok /\ s.ok, warn |-> r.warn \/ s.warn]
        after[i \in 0 .. Len(kids)] ==
            IF i = 0 THEN start
            ELSE Then(after[i - 1], analyze_statement(after[i - 1].scopes, kids[i], ret))
    IN  after[Len(kids)]

Nothing(scopes) == [scopes |-> scopes, kids |-> <<>>, ok |-> TRUE, warn |-> FALSE]

\* The condition of IF and WHILE is an expression, also when it is an assignment.
AnalyzeCondition(scopes, e) ==
    LET Found(r) == [scopes |-> scopes, kids |-> <<r.node>>, ok |-> r.ok, warn |-> r.warn]
    IN  Found(analyze_expression(scopes, e))

analyze_statement(scopes, s, ret) ==
    LET Done(env, node, r) == [scopes |-> env, node |-> node, ok |-> r.ok, warn |-> r.warn]
        none == [ok |-> TRUE, warn |-> FALSE]
        error == [ok |-> FALSE, warn |-> FALSE]
        With(r) == IF s.kids = <<>> THEN s ELSE [s EXCEPT !.kids = <<r.node>>]
        Declared(r) == Done(semantic_scope_declare(scopes, s.name, s.var_type), With(r),
                            [r EXCEPT !.ok = @ /\ CanDeclare(scopes, s.name)])
        Valued(t, r) == Done(scopes, [With(r) EXCEPT !.value_type = t], r)
        Assigned(t) == Valued(t, AnalyzeValue(scopes, s.kids[1], t))
        Within(r) == Done(r.scopes, [s EXCEPT !.kids = r.kids], r)
        Left(r) == [r EXCEPT !.scopes = semantic_scope_exit(@)]
        Expression(r) == Done(scopes, r.node, r)
    IN
    CASE s.type = "VAR_DECL" ->
            Declared(IF s.kids = <<>> THEN none ELSE AnalyzeValue(scopes, s.kids[1], s.var_type))
      [] s.type = "ASSIGNMENT" ->
            IF semantic_scope_lookup(scopes, s.name) = {} THEN Done(scopes, s, error)
            ELSE Assigned(CHOOSE t \in semantic_scope_lookup(scopes, s.name) : TRUE)
      [] s.type = "RETURN" ->
            IF s.kids = <<>> \/ ret = "VOID"
            THEN Done(scopes, s, IF s.kids = <<>> /\ ret = "VOID" THEN none ELSE error)
            ELSE Assigned(ret)
      [] s.type \in {"IF", "WHILE"} ->
            Within(AnalyzeAll(AnalyzeCondition(scopes, s.kids[1]), Tail(s.kids), ret))
      [] s.type = "BLOCK" ->
            Left(Within(AnalyzeAll(Nothing(semantic_scope_enter(scopes)), s.kids, ret)))
      [] OTHER -> Expression(analyze_expression(scopes, s))

\* analyze_node: parameters and body share one scope.
analyze_node(params, ret, body) ==
    LET Declare[i \in 0 .. Len(params)] ==
            IF i = 0 THEN [scopes |-> semantic_scope_enter(<<>>), ok |-> TRUE]
            ELSE [scopes |-> semantic_scope_declare(Declare[i - 1].scopes, params[i].name,
                                                    params[i].type),
                  ok |-> Declare[i - 1].ok /\ CanDeclare(Declare[i - 1].scopes, params[i].name)]
        Result(start, r) == [body |-> r.kids, ok |-> start.ok /\ r.ok, warn |-> r.warn]
        Body(start) == Result(start, AnalyzeAll(Nothing(start.scopes), body, ret))
    IN  Body(Declare[Len(params)])
==============================================================================
