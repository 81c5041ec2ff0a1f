-------------------------------- MODULE Parser --------------------------------
(***************************************************************************)
(* The parser (srcs/parser): recursive descent for declarations and state- *)
(* ments, precedence climbing for expressions, recovery from errors by     *)
(* parser_synchronize.                                                     *)
(*                                                                         *)
(* todo is the call stack: the steps the active functions still have to    *)
(* take, the next one first.  Calling a function puts its steps in front;  *)
(* what it returns is left on top of vals.  Nodes are reduced to what the  *)
(* parser looks at (their type) and what the properties need: the tokens   *)
(* they span, how tightly their operator binds, whether their parts fit    *)
(* together (tidy) and whether an operand is missing (hole).               *)
(*                                                                         *)
(* The text is chosen token by token, as parser_advance asks for it.  The  *)
(* loop of parser_advance drops TOKEN_ERROR without a word: the tokens     *)
(* here are those it lets through.                                         *)
(***************************************************************************)
EXTENDS Naturals, Sequences, FiniteSets

CONSTANTS Texts,                   \* the texts considered: records of
                                   \*   tokens: for each position, the choices,
                                   \*   valid: whether all of them are programs
          MAX_EXPRESSION_DEPTH,
          MAX_BLOCK_STATEMENTS,
          MAX_PARAMS_PER_FUNCTION,
          MAX_FUNCTION_COUNT,
          PARAM_SLOTS              \* entries parse_function allocates: 16

ASSUME TextsAssumption == \A t \in Texts : t.tokens \in Seq(SUBSET STRING)
ASSUME LimitsAssumption == /\ MAX_EXPRESSION_DEPTH \in Nat
                           /\ MAX_BLOCK_STATEMENTS \in Nat
                           /\ MAX_PARAMS_PER_FUNCTION \in Nat
                           /\ MAX_FUNCTION_COUNT \in Nat

VARIABLES text,
          pos,                     \* the position of parser->next
          current, next,           \* parser->current, parser->next
          panic_mode,
          expr_depth,
          errors,                  \* an error has been recorded
          todo, vals,
          outcome                  \* "parsing", "unit", "NULL" or "crashed"

tokens == <<pos, current, next>>
vars == <<text, tokens, panic_mode, expr_depth, errors, todo, vals, outcome>>

\* ---- lexer_tokens.def ----

\* enum Precedence
NONE == 0
ASSIGNMENT == 1
BIT_OR == 4
BIT_XOR == 5
BIT_AND == 6
EQUALITY == 7
COMPARISON == 8
SHIFT == 9
TERM == 10
FACTOR == 11
UNARY == 12
CALL == 13
PRIMARY == 14

get_token_precedence(t) ==
    CASE t \in {"PLUS", "MINUS"} -> TERM
      [] t \in {"STAR", "SLASH"} -> FACTOR
      [] t \in {"LSHIFT", "RSHIFT"} -> SHIFT
      [] t = "BIT_AND" -> BIT_AND
      [] t = "BIT_XOR" -> BIT_XOR
      [] t = "BIT_OR" -> BIT_OR
      [] t \in {"EQUAL_EQUAL", "BANG_EQUAL"} -> EQUALITY
      [] t \in {"LESS", "LESS_EQUAL", "GREATER", "GREATER_EQUAL"} -> COMPARISON
      [] t = "EQUAL" -> ASSIGNMENT
      [] t = "LPAREN" -> CALL
      [] OTHER -> NONE

UnaryTokens == {"MINUS", "BANG", "BIT_NOT"}

\* TYPENAME is an identifier whose text names a type, such as int64.
IsType(t) == t \in {"INT", "CHAR", "VOID", "TYPENAME"}
Is(t, type) == t = type \/ (t = "TYPENAME" /\ type = "IDENTIFIER")

\* ---- nodes ----

\* A node over the tokens first .. last.
Node(type, prec, first, last, tidy, hole) ==
    [type |-> type, prec |-> prec, first |-> first, last |-> last, tidy |-> tidy, hole |-> hole]

Statement(type, hole) == Node(type, NONE, 0, 0, TRUE, hole)

NULL == Node("NULL", NONE, 0, 0, FALSE, TRUE)
Absent == Statement("ABSENT", FALSE)      \* an optional part that is not there

\* Operand n reaches to the token before, or starts at the one after, position
\* at, and binds more tightly than prec (at least as tightly, on the left).
FitsLeft(n, at, prec) == n.tidy /\ n.last + 1 = at /\ n.prec >= prec
FitsRight(n, at, prec) == n.tidy /\ n.first = at + 1 /\ n.prec > prec

Top == vals[Len(vals)]
Popped(n) == SubSeq(vals, 1, Len(vals) - n)

\* ---- the token stream ----

TokensAt(i) == IF i <= Len(text.tokens) THEN text.tokens[i] ELSE {"EOF"}

parser_advance ==
    /\ current' = next
    /\ pos' = pos + 1
    /\ next' \in TokensAt(pos + 1)

Init ==
    /\ text \in Texts
    /\ pos = 1
    /\ current = "INT"             \* a zeroed Token
    /\ next \in TokensAt(1)
    /\ panic_mode = FALSE
    /\ expr_depth = 0
    /\ errors = FALSE
    /\ todo = <<[op |-> "unit", n |-> 0]>>
    /\ vals = <<>>
    /\ outcome = "parsing"

\* ---- steps ----

\* The first step is replaced by others.
Continue(steps) == todo' = steps \o Tail(todo)
Push(n) == vals' = Append(vals, n)

Do(op) == [op |-> op]
Consume(t) == [op |-> "consume", token |-> t]
Expression(prec) == [op |-> "expression", prec |-> prec]
Counted(op, n) == [op |-> op, n |-> n]
Build(type, at) == [op |-> "build", type |-> type, at |-> at]

At(op) == outcome = "parsing" /\ todo[1].op = op

\* parser_error: one report until the parser has recovered.
parser_error == panic_mode' = TRUE /\ errors' = (errors \/ ~panic_mode)
NoError == UNCHANGED <<panic_mode, errors>>

parser_consume ==
    /\ At("consume")
    /\ IF Is(next, todo[1].token)
       THEN /\ parser_advance
            /\ panic_mode' = FALSE
            /\ Continue(<<>>)
            /\ UNCHANGED errors
       ELSE /\ parser_error
            /\ Continue(<<Do("synchronize")>>)
            /\ UNCHANGED tokens
    /\ UNCHANGED <<expr_depth, vals>>

\* parser_synchronize, one round of its loop: it may stop where it is.
Synchronized == \/ next = "EOF"
                \/ current = "SEMICOLON"
                \/ next \in {"IF", "WHILE", "RETURN", "INT", "LBRACE"}

parser_synchronize ==
    /\ At("synchronize")
    /\ panic_mode' = FALSE
    /\ IF Synchronized THEN Continue(<<>>) /\ UNCHANGED tokens
       ELSE parser_advance /\ UNCHANGED todo
    /\ UNCHANGED <<expr_depth, errors, vals>>

\* ---- parser_expr.c ----

\* Wrong: one level more than the limit.
TooDeep_OffByOne == expr_depth > MAX_EXPRESSION_DEPTH

TooDeep == expr_depth >= MAX_EXPRESSION_DEPTH

\* Wrong: a token that starts no expression is left in place.
NoPrefix_NotTaken == parser_error /\ UNCHANGED <<tokens, expr_depth>>

\* Wrong: the depth is not put back.
NoPrefix_StaysDeep == parser_advance /\ parser_error /\ expr_depth' = expr_depth + 1

\* Wrong: nothing is reported.
NoPrefix_Silent == parser_advance /\ NoError /\ UNCHANGED expr_depth

\* A token that starts no expression is consumed and reported; the depth is
\* raised and put back.
NoPrefix == parser_advance /\ parser_error /\ UNCHANGED expr_depth

Infix(prec) == [op |-> "infix", prec |-> prec]

\* parse_expression up to its loop: the prefix function of the token taken.
parse_expression ==
    LET prec == todo[1].prec
        Enter == parser_advance /\ expr_depth' = expr_depth + 1 /\ NoError
    IN
    /\ At("expression")
    /\ \/ /\ TooDeep
          /\ parser_error
          /\ Push(NULL)
          /\ Continue(<<>>)
          /\ UNCHANGED <<tokens, expr_depth>>
       \/ /\ ~TooDeep
          /\ Is(next, "IDENTIFIER") \/ next = "NUMBER"
          /\ Enter
          /\ Push(Node(IF next = "NUMBER" THEN "NUMBER" ELSE "IDENTIFIER",
                       PRIMARY, pos, pos, TRUE, FALSE))
          /\ Continue(<<Infix(prec)>>)
       \/ /\ ~TooDeep
          /\ next \in UnaryTokens
          /\ Enter
          /\ Continue(<<Expression(UNARY), Build("UNARY", pos), Infix(prec)>>)
          /\ UNCHANGED vals
       \/ /\ ~TooDeep
          /\ next = "LPAREN"
          /\ Enter
          /\ Continue(<<Expression(NONE), Consume("RPAREN"), Build("GROUP", pos), Infix(prec)>>)
          /\ UNCHANGED vals
       \/ /\ ~TooDeep
          /\ ~Is(next, "IDENTIFIER") /\ next \notin UnaryTokens \cup {"NUMBER", "LPAREN"}
          /\ NoPrefix
          /\ Push(NULL)
          /\ Continue(<<>>)

\* Wrong: the right operand takes operators of the same precedence.
RightOperand_SameLevel(t) == get_token_precedence(t) - 1

\* The precedence parse_binary parses its right operand with.
RightOperand(t) == get_token_precedence(t)

\* One round of the loop of parse_expression: the next operator binds more
\* tightly than what surrounds the expression, or the expression ends.
\* parse_assignment and parse_call look at the node on their left.
ParseInfix ==
    LET prec == todo[1].prec
        rest == Infix(prec)
        binds == prec < get_token_precedence(next)
        postfix == next \in {"EQUAL", "LPAREN"}
        Go(steps) == parser_advance /\ Continue(steps) /\ UNCHANGED <<expr_depth, vals, outcome>> /\ NoError
    IN
    /\ At("infix")
    /\ \/ /\ ~binds
          /\ expr_depth' = expr_depth - 1
          /\ Continue(<<>>)
          /\ NoError
          /\ UNCHANGED <<tokens, vals, outcome>>
       \/ /\ binds /\ ~postfix
          /\ Go(<<Expression(RightOperand(next)), Build(next, pos), rest>>)
       \/ /\ binds /\ postfix /\ Top = NULL           \* left->type of a NULL left
          /\ outcome' = "crashed"
          /\ NoError
          /\ UNCHANGED <<tokens, expr_depth, todo, vals>>
       \/ /\ binds /\ postfix /\ Top.type \notin {"NULL", "IDENTIFIER"}
          /\ parser_advance
          /\ parser_error
          /\ vals' = Append(Popped(1), NULL)
          /\ UNCHANGED <<expr_depth, todo, outcome>>
       \/ /\ binds /\ next = "EQUAL" /\ Top.type = "IDENTIFIER"
          /\ Go(<<Expression(ASSIGNMENT), Build("ASSIGNMENT", pos), rest>>)
       \/ /\ binds /\ next = "LPAREN" /\ Top.type = "IDENTIFIER"
          /\ Go(<<[op |-> "arguments", at |-> pos], rest>>)
    /\ UNCHANGED text

\* A node is put together from the values on top: unary, binary, assignment,
\* grouping.  A grouping returns the node inside, here with its parentheses.
BuildNode ==
    LET s == todo[1]
        right == Top
        left == vals[Len(vals) - 1]
        prec == IF s.type = "ASSIGNMENT" THEN ASSIGNMENT ELSE get_token_precedence(s.type)
        end == IF right = NULL THEN s.at ELSE right.last
    IN
    /\ At("build")
    /\ vals' =
         CASE s.type = "UNARY" ->
                Append(Popped(1), Node("UNARY", UNARY, s.at, end,
                                       FitsRight(right, s.at, UNARY - 1), right = NULL))
           [] s.type = "GROUP" ->
                IF right = NULL THEN vals
                ELSE Append(Popped(1), Node(right.type, PRIMARY, s.at, pos - 1,
                                            /\ FitsRight(right, s.at, NONE)
                                            /\ right.last + 2 = pos, right.hole))
           [] OTHER ->
                Append(Popped(2), Node(IF s.type = "ASSIGNMENT" THEN s.type ELSE "BINARY", prec,
                                       IF left = NULL THEN s.at ELSE left.first, end,
                                       FitsLeft(left, s.at, prec) /\ FitsRight(right, s.at, prec),
                                       NULL \in {left, right}))
    /\ Continue(<<>>)
    /\ NoError
    /\ UNCHANGED <<tokens, expr_depth>>

\* parse_call after its parenthesis at position at: the arguments so far are
\* the n values above the callee.
Argument(at, n) == [op |-> "argument", at |-> at, n |-> n]
EndCall(at, n) == <<Consume("RPAREN"), [op |-> "call", at |-> at, n |-> n]>>

parse_call ==
    LET s == todo[1] IN
    /\ \/ /\ At("arguments")
          /\ Continue(IF next = "RPAREN" THEN EndCall(s.at, 0) ELSE <<Argument(s.at, 0)>>)
          /\ NoError
          /\ UNCHANGED <<tokens, vals>>
       \/ /\ At("argument")
          /\ IF s.n >= MAX_PARAMS_PER_FUNCTION
             THEN parser_error /\ Continue(<<Do("synchronize")>> \o EndCall(s.at, s.n))
             ELSE NoError /\ Continue(<<Expression(ASSIGNMENT), [s EXCEPT !.op = "argument_done"]>>)
          /\ UNCHANGED <<tokens, vals>>
       \/ /\ At("argument_done")
          /\ NoError
          /\ \/ /\ Top = NULL
                /\ vals' = Popped(1)
                /\ Continue(<<Do("synchronize")>> \o EndCall(s.at, s.n))
                /\ UNCHANGED tokens
             \/ /\ Top # NULL /\ next = "COMMA"
                /\ parser_advance
                /\ Continue(<<Argument(s.at, s.n + 1)>>)
                /\ UNCHANGED vals
             \/ /\ Top # NULL /\ next # "COMMA"
                /\ Continue(EndCall(s.at, s.n + 1))
                /\ UNCHANGED <<tokens, vals>>
       \/ /\ At("call")
          /\ LET callee == vals[Len(vals) - s.n]
                 arg == [i \in 1 .. s.n |-> vals[Len(vals) - s.n + i]]
                 ends == <<s.at>> \o [i \in 1 .. s.n |-> arg[i].last + 1]
             IN  vals' = Append(Popped(s.n + 1),
                            Node("CALL", CALL, callee.first, pos - 1,
                                 /\ FitsLeft(callee, s.at, CALL)
                                 /\ \A i \in 1 .. s.n : FitsRight(arg[i], ends[i], ASSIGNMENT)
                                 /\ IF s.n = 0 THEN s.at = pos - 2 ELSE ends[s.n + 1] = pos - 1,
                                 \E i \in 1 .. s.n : arg[i].hole))
          /\ Continue(<<>>)
          /\ NoError
          /\ UNCHANGED tokens
    /\ UNCHANGED expr_depth

\* ---- parser_stmt.c ----

\* parse_statement, and the functions that are sequences of calls: parse_if,
\* parse_while, parse_return, parse_expr_stmt.
parse_statement ==
    /\ At("statement")
    /\ Continue(
         CASE next \in {"INT", "CHAR", "VOID"} -> <<Do("var_decl")>>
           [] next = "IF" ->
                <<Consume("IF"), Consume("LPAREN"), Expression(NONE), Consume("RPAREN"),
                  Do("statement"), Do("else"), Do("if")>>
           [] next = "WHILE" ->
                <<Consume("WHILE"), Consume("LPAREN"), Expression(NONE), Consume("RPAREN"),
                  Do("statement"), Do("while")>>
           [] next = "RETURN" ->
                <<Consume("RETURN"), Do("return_value"), Consume("SEMICOLON"), Do("return")>>
           [] next = "LBRACE" -> <<Do("block")>>
           [] OTHER -> <<Expression(NONE), Consume("SEMICOLON")>>)
    /\ NoError
    /\ UNCHANGED <<tokens, expr_depth, vals>>

\* Wrong: an else is taken for the next statement.
HasElse_Never == FALSE

HasElse == next = "ELSE"

\* The parts a statement may lack: initializer, returned value, else branch.
OptionalPart ==
    LET Skip == Push(Absent) /\ Continue(<<>>) /\ UNCHANGED tokens
        Take(steps) == parser_advance /\ Continue(steps) /\ UNCHANGED vals
    IN
    /\ \/ At("initializer") /\ IF next = "EQUAL" THEN Take(<<Expression(NONE)>>) ELSE Skip
       \/ At("else") /\ IF HasElse THEN Take(<<Do("statement")>>) ELSE Skip
       \/ /\ At("return_value")
          /\ IF next # "SEMICOLON"
             THEN Continue(<<Expression(NONE)>>) /\ UNCHANGED <<tokens, vals>>
             ELSE Skip
    /\ NoError
    /\ UNCHANGED expr_depth

\* A statement node is put together.  Only a missing condition is a hole: a
\* missing branch, initializer or value is an empty one.
EndStatement ==
    /\ \/ At("if") /\ vals' = Append(Popped(3), Statement("IF", vals[Len(vals) - 2] = NULL))
       \/ At("while") /\ vals' = Append(Popped(2), Statement("WHILE", vals[Len(vals) - 1] = NULL))
       \/ At("return") /\ vals' = Append(Popped(1), Statement("RETURN", FALSE))
       \/ At("decl") /\ vals' = Append(Popped(1), Statement("VAR_DECL", FALSE))
    /\ Continue(<<>>)
    /\ NoError
    /\ UNCHANGED <<tokens, expr_depth>>

\* parse_var_decl and parse_function: after the type, panic would end them.
Typed ==
    LET rest == IF At("var_decl")
                THEN <<Consume("IDENTIFIER"), Do("initializer"), Consume("SEMICOLON"), Do("decl")>>
                ELSE <<Consume("IDENTIFIER"), Consume("LPAREN"), Do("parameters")>>
    IN
    /\ At("var_decl") \/ At("function")
    /\ parser_advance
    /\ IF panic_mode THEN Push(NULL) /\ Continue(<<>>)
       ELSE Continue(rest) /\ UNCHANGED vals
    /\ NoError
    /\ UNCHANGED expr_depth

\* Wrong: one statement more than there are entries.
BlockFull_OffByOne(n) == n > MAX_BLOCK_STATEMENTS

BlockFull(n) == n >= MAX_BLOCK_STATEMENTS

\* parse_block: n statements are in the array.
parse_block ==
    LET s == todo[1]
        end == <<Consume("RBRACE"), Do("end_block")>>
    IN
    /\ \/ /\ At("block")
          /\ Continue(<<Consume("LBRACE"), Counted("statements", 0)>>)
          /\ NoError
          /\ UNCHANGED vals
       \/ /\ At("statements") /\ next \in {"RBRACE", "EOF"}
          /\ Continue(end)
          /\ NoError
          /\ UNCHANGED vals
       \/ /\ At("statements") /\ next \notin {"RBRACE", "EOF"}
          /\ IF BlockFull(s.n)
             THEN parser_error /\ Continue(<<Do("synchronize")>> \o end)
             ELSE NoError /\ Continue(<<Do("statement"), Counted("statement_done", s.n)>>)
          /\ UNCHANGED vals
       \/ /\ At("statement_done")
          /\ Continue(IF Top = NULL THEN <<Do("synchronize"), Counted("statements", s.n)>>
                      ELSE <<Counted("statements", s.n + 1)>>)
          /\ vals' = Popped(1)
          /\ NoError
       \/ /\ At("end_block")
          /\ Push(Statement("BLOCK", FALSE))
          /\ Continue(<<>>)
          /\ NoError
    /\ UNCHANGED <<tokens, expr_depth>>

\* parse_function between its parentheses and to its end: n parameters are in
\* the array of PARAM_SLOTS entries.
parse_function ==
    LET s == todo[1]
        End(n) == <<Consume("RPAREN"), Counted("body", n)>>
    IN
    /\ \/ /\ At("parameters")
          /\ \/ /\ next = "RPAREN"
                /\ Continue(End(0))
                /\ UNCHANGED tokens
             \/ /\ next = "VOID"
                /\ parser_advance
                /\ Continue(End(0))
             \/ /\ next \notin {"RPAREN", "VOID"}
                /\ Continue(<<Counted("parameter", 0)>>)
                /\ UNCHANGED tokens
          /\ NoError
          /\ UNCHANGED vals
       \/ /\ At("parameter")
          /\ IF IsType(next) THEN parser_advance /\ NoError
             ELSE parser_error /\ UNCHANGED tokens
          /\ Continue(<<Consume("IDENTIFIER"), Counted("parameter_done", s.n + 1)>>)
          /\ UNCHANGED vals
       \/ /\ At("parameter_done")
          /\ IF next = "COMMA" THEN parser_advance /\ Continue(<<Counted("parameter", s.n)>>)
             ELSE Continue(End(s.n)) /\ UNCHANGED tokens
          /\ NoError
          /\ UNCHANGED vals
       \/ /\ At("body") /\ next = "SEMICOLON"
          /\ parser_advance
          /\ Push(Statement("PROTOTYPE", FALSE))
          /\ Continue(<<>>)
          /\ NoError
       \/ /\ At("body") /\ next # "SEMICOLON"
          /\ Continue(<<Do("block")>>)
          /\ NoError
          /\ UNCHANGED <<tokens, vals>>
    /\ UNCHANGED expr_depth

\* ---- parser.c ----

\* parser_parse: n declarations are in the array.
parser_parse ==
    LET s == todo[1] IN
    /\ \/ /\ At("unit") /\ next = "EOF"
          /\ outcome' = "unit"
          /\ NoError
          /\ UNCHANGED <<todo, vals>>
       \/ /\ At("unit") /\ next # "EOF"
          /\ IF s.n < MAX_FUNCTION_COUNT /\ IsType(next)
             THEN /\ Continue(<<Do("function"), Counted("declared", s.n + 1)>>)
                  /\ NoError
                  /\ UNCHANGED outcome
             ELSE /\ parser_error
                  /\ outcome' = "NULL"
                  /\ UNCHANGED todo
          /\ UNCHANGED vals
       \/ /\ At("declared")
          /\ vals' = Popped(1)
          /\ Continue(<<Counted("unit", s.n)>>)
          /\ NoError
          /\ UNCHANGED outcome
    /\ UNCHANGED <<text, tokens, expr_depth>>

Next ==
    \/ /\ \/ parser_consume
          \/ parser_synchronize
          \/ parse_expression
          \/ BuildNode
          \/ parse_call
          \/ parse_statement
          \/ OptionalPart
          \/ EndStatement
          \/ Typed
          \/ parse_block
          \/ parse_function
       /\ UNCHANGED <<text, outcome>>
    \/ ParseInfix
    \/ parser_parse

\* The parser runs until it returns.
Spec == Init /\ [][Next]_vars /\ WF_vars(Next)

-----------------------------------------------------------------------------
(* Properties *)

\* Every expression of an error-free text is the tree its operators ask for:
\* the parts of a node lie side by side in the text, operands on the right of a
\* binary operator bind more tightly than it, operands on the left at least as
\* tightly, parentheses override both.
PrecedenceRespected ==
    ~errors => \A i \in DOMAIN vals : vals[i].tidy

\* A program the grammar allows, within the limits, is parsed without an error.
ValidAccepted == text.valid => ~errors /\ outcome \notin {"NULL", "crashed"}

\* A tree with a missing operand or condition, a dereferenced NULL and a missing
\* tree are always preceded by a recorded error: were errors to stop the
\* compiler, no later phase would meet one.
HolesReported ==
    \/ outcome \in {"NULL", "crashed"}
    \/ \E i \in DOMAIN vals : vals[i].hole
    => errors

\* Errors are recorded where they must be and nowhere else.
ErrorsExact == ValidAccepted /\ HolesReported

\* Every statement and every declaration starts recovered: not in panic mode,
\* where parser_error is silent, and at depth 0, where parse_expression is sure
\* to consume a token.  parse_block makes progress only because of this.
StatementsStartClean ==
    outcome = "parsing" /\ todo[1].op \in {"statement", "unit", "declared"} =>
        ~panic_mode /\ expr_depth = 0

\* The depth of expressions keeps its limit and is given back at the end, and
\* the arrays of statements, arguments and declarations never overflow.
LimitsKept ==
    /\ expr_depth \in 0 .. MAX_EXPRESSION_DEPTH
    /\ outcome = "unit" => expr_depth = 0 /\ vals = <<>>
    /\ \A i \in DOMAIN todo :
          /\ todo[i].op \in {"statements", "statement_done"} => todo[i].n <= MAX_BLOCK_STATEMENTS
          /\ todo[i].op = "statement_done" => todo[i].n < MAX_BLOCK_STATEMENTS
          /\ todo[i].op \in {"argument", "call"} => todo[i].n <= MAX_PARAMS_PER_FUNCTION
          /\ todo[i].op \in {"unit", "declared"} => todo[i].n <= MAX_FUNCTION_COUNT

\* parser_parse returns, whatever the text: every recovery makes progress.
Terminates == <>(outcome # "parsing")

\* What the limit of MAX_PARAMS_PER_FUNCTION parameters promises: so many are
\* stored in the array of the function.
ParamsKept ==
    \A i \in DOMAIN todo :
        todo[i].op \in {"parameter_done", "body"} /\ todo[i].n <= MAX_PARAMS_PER_FUNCTION =>
            todo[i].n <= PARAM_SLOTS
==============================================================================
